----------------------------- MODULE VerifyDesign -----------------------------
(***************************************************************************)
(* A verify-design request (verification.service.ts: verify), which answers  *)
(* whether a circuit meets its specification: electrical rules and deck on   *)
(* the API, one simulation on the worker, its result judged, and, for a pass *)
(* only, the checks of robustness that were asked for, each a batch on the   *)
(* worker.  The request waits by polling the row of each; what it may see    *)
(* there is SimulationLifecycle, which SimulationJob implements.             *)
(*                                                                         *)
(* What is found out about the design is chosen when it is looked at.        *)
(***************************************************************************)
EXTENDS SimulationLifecycle, YieldBatch, Sequences

CONSTANTS
    Asked,          \* sets of checks that callers ask for
    Sizes           \* samples wanted of a Monte-Carlo batch

\* assessRobustness, in its order.
Order == <<"corner", "montecarlo", "temperature", "supply">>
Checks == {Order[i] : i \in DOMAIN Order}

ASSUME VerifyDesignAssumption ==
    /\ Asked \subseteq SUBSET Checks
    /\ Sims = {"nominal"} \cup UNION Asked
    /\ Sizes \subseteq Nat \ {0}

VARIABLE request    \* where verify stands, what it has seen and what it says

verifyVars == <<lifecycleVars, request>>

AllBatches == [n \in Sizes |-> Batches(n)]

NoBatch == [sample |-> [passed |-> 0, failed |-> 0, errored |-> 0], wanted |-> 0,
            early |-> FALSE, cut |-> FALSE]

Basis == {"none", "user-specified", "other"}

\*   review  nothing done        create / add   a job for the row
\*   poll    the job is awaited  result         its result is to be read
\* on: the row.  refused: no deck could be generated.  saw: the status that ended
\* the wait for the nominal run.  shown: what is said of each check.
Request == [at : {"review", "create", "add", "poll", "result", "answered"},
            on : Sims, left : SUBSET Checks, erc : BOOLEAN, refused : BOOLEAN,
            saw : Settled \cup {"nothing"}, result : {"none", "data", "empty", "unavailable"},
            spec : {"none", "met", "unmet", "unknown"}, overload : BOOLEAN,
            verdict : {"none", "pass", "fail", "inconclusive"},
            basis : Basis \cup {"unknown"}, batch : {NoBatch} \cup UNION {AllBatches[n] : n \in Sizes},
            gated : BOOLEAN, shown : [Checks -> {"none", "unavailable", "flat", "shown"}]]

VerifyTypeOK == LifecycleTypeOK /\ request \in Request

VerifyInit ==
    /\ LifecycleInit
    /\ \A s \in Sims : (deck[s] = "batch") <=> (s # "nominal")
    /\ request \in [at : {"review"}, on : {"nominal"}, left : Asked, erc : {FALSE},
                    refused : {FALSE}, saw : {"nothing"}, result : {"none"}, spec : {"unknown"},
                    overload : {FALSE}, verdict : {"none"}, basis : {"unknown"},
                    batch : {NoBatch}, gated : {FALSE}, shown : {[c \in Checks |-> "none"]}]

-----------------------------------------------------------------------------
(* What is said.                                                           *)

\* The next check, if any: only a pass is examined for robustness.
Goon(r) ==
    IF r.verdict # "pass" \/ r.left = {}
    THEN [r EXCEPT !.at = "answered"]
    ELSE LET i == CHOOSE i \in DOMAIN Order :
                     Order[i] \in r.left /\ \A j \in 1..(i - 1) : Order[j] \notin r.left
         IN  [r EXCEPT !.at = "create", !.on = Order[i], !.left = @ \ {Order[i]}]

\* Mutant of Judge: what is over its declared rating does not count.
JudgeByCriteria(r, sim) ==
    CASE r.erc \/ sim = "failed" -> "fail"
      [] ~r.erc /\ sim = "skipped" -> "inconclusive"
      [] ~r.erc /\ sim = "ok" /\ r.spec = "none" -> "inconclusive"
      [] ~r.erc /\ sim = "ok" /\ r.spec = "unmet" -> "fail"
      [] OTHER -> "pass"

\* sim: how the simulation went.  Without data there is nothing to judge, without
\* criteria nothing to certify.
Judge(r, sim) ==
    CASE r.erc \/ sim = "failed" -> "fail"
      [] ~r.erc /\ sim = "skipped" -> "inconclusive"
      [] ~r.erc /\ sim = "ok" /\ r.spec = "none" -> "inconclusive"
      [] OTHER -> IF r.spec = "unmet" \/ r.overload THEN "fail" ELSE "pass"

Say(r, sim) == Goon([r EXCEPT !.verdict = Judge(r, sim)])

Disclose(r, what) == Goon([r EXCEPT !.shown[r.on] = what])

\* The job cannot be had, found, awaited or read: runViaWorker and the run... of the
\* checks catch everything, and blame nothing on the design.
GiveUp(r) ==
    IF r.on = "nominal" THEN Say(r, "skipped") ELSE Disclose(r, "unavailable")

\* The one way a check changes the verdict.
Gates(r, batch) ==
    /\ Tier(batch.sample) = "at-risk"
    /\ r.basis = "user-specified"
    /\ ~batch.cut

\* No usable sample is no tolerance to vary, says the answer.
Grade(r, batch) ==
    LET seen == [r EXCEPT !.batch = batch] IN
    IF Evaluated(batch.sample) = 0
    THEN Disclose(seen, "unavailable")
    ELSE IF Gates(r, batch)
         THEN Disclose([seen EXCEPT !.verdict = "fail", !.gated = TRUE], "shown")
         ELSE Disclose(seen, "shown")

-----------------------------------------------------------------------------
(* The request.                                                            *)

\* The rules are run and the deck is made; either may be wrong.
Review ==
    /\ request.at = "review"
    /\ \E erc \in BOOLEAN, refused \in BOOLEAN :
         LET r == [request EXCEPT !.erc = erc, !.refused = refused] IN
         request' = IF refused THEN Say(r, "failed") ELSE [r EXCEPT !.at = "create"]
    /\ UNCHANGED lifecycleVars

\* deriveToleranceBasis: nothing to vary is disclosed without a batch.
Derive ==
    /\ request.at = "create"
    /\ request.on = "montecarlo"
    /\ request.basis = "unknown"
    /\ \E basis \in Basis :
         LET r == [request EXCEPT !.basis = basis] IN
         request' = IF basis = "none" THEN Disclose(r, "unavailable") ELSE r
    /\ UNCHANGED lifecycleVars

\* The row, unless the organization, the quota or the database says no.
Open ==
    /\ request.at = "create"
    /\ request.on = "montecarlo" => request.basis # "unknown"
    /\ \/ Insert(request.on) /\ request' = [request EXCEPT !.at = "add"]
       \/ UNCHANGED lifecycleVars /\ request' = GiveUp(request)

\* The queue takes the job, or throws, with or without having taken it: the row is
\* left as it is.
Enqueue ==
    /\ request.at = "add"
    /\ request' \in {[request EXCEPT !.at = "poll"], GiveUp(request)}
    /\ UNCHANGED lifecycleVars

\* Mutant of Answers: every FAILED is the circuit's fault.
AnswersWithoutClass(r, seen) ==
    IF seen = "SUCCEEDED" THEN [r EXCEPT !.at = "result", !.saw = seen]
    ELSE Say([r EXCEPT !.saw = seen],
             IF seen \in {"FAILED", "INFRA", "TIMED_OUT"} THEN "failed" ELSE "skipped")

\* The nominal run has ended.
Answers(r, seen) ==
    IF seen = "SUCCEEDED" THEN [r EXCEPT !.at = "result", !.saw = seen]
    ELSE Say([r EXCEPT !.saw = seen],
             IF seen \in {"FAILED", "TIMED_OUT"} THEN "failed" ELSE "skipped")

\* getStatus, once a second; a batch brings its figures with it.
Poll ==
    LET r == request
        seen == status[r.on]
    IN
    /\ r.at = "poll"
    /\ seen \in Settled
    /\ \/ r.on = "nominal" /\ request' = Answers(r, seen)
       \/ r.on # "nominal" /\ seen # "SUCCEEDED" /\ request' = Disclose(r, "unavailable")
       \/ /\ r.on = "montecarlo" /\ seen = "SUCCEEDED"
          /\ \E n \in Sizes : \E batch \in AllBatches[n] : request' = Grade(r, batch)
       \/ /\ r.on = "corner" /\ seen = "SUCCEEDED"
          /\ \E what \in {"unavailable", "shown"} : request' = Disclose(r, what)
       \/ /\ r.on \in {"temperature", "supply"} /\ seen = "SUCCEEDED"
          /\ \E what \in {"flat", "shown"} : request' = Disclose(r, what)
    /\ UNCHANGED lifecycleVars

\* The wait is over its limit, the row is gone, or it could not be read.
PollEnds ==
    /\ request.at = "poll"
    /\ request' = GiveUp(request)
    /\ UNCHANGED lifecycleVars

\* Nothing to measure was read.
Lose(r, result, sim) == Say([r EXCEPT !.result = result], sim)

\* getResult looks at the row again.  A row that is not SUCCEEDED any more has the
\* simulator's words for a result: none once an operator's retry has cleared them.
ReadResult ==
    LET r == request IN
    /\ r.at = "result"
    /\ \/ /\ status["nominal"] = "SUCCEEDED"
          /\ \/ \E spec \in {"none", "met", "unmet"}, overload \in BOOLEAN :
                  request' = Say([r EXCEPT !.result = "data", !.spec = spec,
                                           !.overload = overload], "ok")
             \/ request' = Lose(r, "empty", "failed")
             \/ request' = Lose(r, "unavailable", "skipped")
       \/ /\ \/ status["nominal"] \in {"QUEUED", "RUNNING", "CANCELED"}
             \/ status["nominal"] = "FAILED" /\ "nominal" \in retried
          /\ request' = Lose(r, "none", "failed")
       \/ request' = Lose(r, "unavailable", "skipped")
    /\ UNCHANGED lifecycleVars

Verify == Review \/ Derive \/ Open \/ Enqueue \/ Poll \/ PollEnds \/ ReadResult

\* What becomes of the rows after the answer is of no interest here.
VerifyNext ==
    /\ request.at # "answered"
    /\ Verify \/ (Served(request.on) /\ UNCHANGED request)

VerifySpec == VerifyInit /\ [][VerifyNext]_verifyVars

-----------------------------------------------------------------------------

\* "Not verified" is about the design: the rules or the deck generator refused it,
\* ngspice did not run it as it is, ran out of time on it or left nothing to measure, a
\* criterion was not met, a part is over the rating it declares, or most of a whole
\* batch of variants, on tolerances that are all the user's own, failed the criteria.
\* Workers that crash, stall or are overtaken, storage and quotas never turn into it,
\* with two exceptions: an operator's retry in the middle, and a simulation disturbed
\* by another handler in its directory or by the host (DesignEvidence.verdict).
FailIsEarned ==
    request.verdict = "fail" /\ "nominal" \notin retried =>
        \/ request.erc \/ request.refused
        \/ request.saw = "FAILED" /\ (deck["nominal"] = "bad" \/ "nominal" \in disturbed)
        \/ request.saw = "TIMED_OUT"
        \/ request.result = "empty"
        \/ request.spec = "unmet" \/ request.overload
        \/ /\ request.basis = "user-specified"
           /\ request.batch.sample.failed > 0
           /\ ~YieldReaches(request.batch.sample, MarginalMin)
           /\ ~request.batch.cut

\* "Verified" is: the simulation of this circuit ran, was read, met criteria that were
\* asked for and overloads no part; and no whole batch on the user's own tolerances
\* condemns it (DesignEvidence.verdict, summarize).
PassIsEarned ==
    request.verdict = "pass" =>
        /\ ~request.erc /\ ~request.refused
        /\ request.saw = "SUCCEEDED"
        /\ request.result = "data" /\ request.spec = "met" /\ ~request.overload
        /\ request.shown["montecarlo"] = "shown" =>
              \/ request.batch.cut \/ request.basis # "user-specified"
              \/ ~HighMisses(request.batch.sample, MarginalMin)

\* The sampler and the grader agree (runMonteCarlo, classifyRobustness): a batch that
\* ended because its tier was decided is given a tier, and a flawless one of the size
\* the bar asks for is given the highest.
SamplerAndGraderAgree ==
    LET b == request.batch IN
    b # NoBatch =>
        /\ b.early /\ Evaluated(b.sample) > 0 => Tier(b.sample) # "unknown"
        /\ ~b.cut /\ b.wanted >= RequiredRuns /\ b.sample.failed = 0 /\ b.sample.passed = b.wanted
           => Tier(b.sample) = "robust"

=============================================================================
