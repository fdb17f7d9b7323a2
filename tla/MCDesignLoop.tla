---------------------------- MODULE MCDesignLoop ----------------------------
(* DesignLoop with a few answers of the model, each the smallest that meets *)
(* one of the loop's branches.  What a sick circuit does, one that simulates *)
(* does too when it times out.                                              *)
EXTENDS DesignLoop

Answer(kind, meets, criteria, analysis, topology) ==
    [kind |-> kind, meets |-> meets, criteria |-> criteria, analysis |-> analysis,
     topology |-> topology]

MCDrafts ==
    {Answer("ercError", {}, {"level"}, "tran", "t1"),
     Answer("noNetlist", {}, {}, "op", "t2"),
     Answer("simulates", {"level"}, {"level"}, "tran", "t1"),
     Answer("simulates", {"level", "thd", "looseThd"}, {"looseThd"}, "tran", "t2"),
     Answer("simulates", {"looseThd"}, {"thd"}, "tranFourier", "t1"),
     Answer("simulates", {"thd", "looseThd"}, {"thd"}, "tranFourier", "t2")}

Request(n, k, llmBudget, maxRounds, required, tools) ==
    [n |-> n, k |-> k, llmBudget |-> llmBudget, maxRounds |-> maxRounds, required |-> required,
     tools |-> tools]

MCOptions ==
    {Request(1, 1, 1, 3, {}, 1), Request(1, 1, 1, 4, {"thd"}, 0),
     Request(2, 1, 0, 3, {"thd"}, 0), Request(2, 2, 3, 2, {"thd"}, 0), Request(2, 2, 4, 2, {}, 0)}

\* A request whose budget leaves one fix for the finalists, who may each take two.
MCOverrun == {Request(2, 2, 3, 3, {}, 0)}

=============================================================================
