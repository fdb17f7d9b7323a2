----------------------------- MODULE DesignLoop -----------------------------
(***************************************************************************)
(* One design request inside the design worker: the agentic loop of         *)
(* llm-core (generate, check, simulate, fix; design-core.ts) and the fan-out *)
(* over several candidates (worker-sim: multi-candidate.ts).                 *)
(* What the model answers is an element of Drafts: a circuit, described by   *)
(* what the checks will find, with the analysis and the acceptance criteria  *)
(* that came with it.  A version is the number of the generateCircuit or     *)
(* fixCircuit that produced the circuit, which is what the code counts; the  *)
(* provider bills the HTTP calls, of which each of them makes several.  A    *)
(* request may be canceled at any time; the code notices at its own          *)
(* checkpoints only.                                                         *)
(***************************************************************************)
EXTENDS Integers, FiniteSetsExt, SequencesExt

CONSTANTS
    Drafts,     \* the answers of the language model
    Options,    \* requests: [n, k, llmBudget, maxRounds, required, tools]
    MaxVersion  \* bound of the type invariant: circuits asked of the model

Criterion == {"level", "thd", "looseThd"}

Analysis == {"op", "tran", "tranFourier"}

Dimension(c) == IF c = "level" THEN "voltage" ELSE "thd"

\* kind: what running the circuit meets first; meets: the criteria it satisfies
\* when they can be measured; topology: the key finalists are deduplicated by.
Draft == [kind : {"ercError", "noNetlist", "sick", "simulates"},
          meets : SUBSET Criterion, criteria : SUBSET Criterion,
          analysis : Analysis, topology : {"t1", "t2"}]

ASSUME DesignLoopAssumption ==
    /\ Drafts # {} /\ Drafts \subseteq Draft
    /\ \A o \in Options : /\ o.n \in 1..5 /\ o.k \in Nat /\ o.llmBudget \in Nat
                          /\ o.maxRounds \in 1..4 /\ o.required \subseteq {"thd"}
                          /\ o.tools \in Nat /\ (o.n > 1 => o.tools = 0)
    /\ MaxVersion \in Nat

VARIABLES
    options,    \* the request
    canceled,   \* the user has asked for an abort
    asked,      \* circuits asked of the model so far: generateCircuit and fixCircuit
    billed,     \* HTTP calls to the model that this took, each of them billed
    llmCalls,   \* the circuits asked for that the orchestrator has counted
    screens,    \* the candidates' screens
    finalists,  \* the screened candidates still to be refined
    finalized,  \* the results of those refined
    loop,       \* the design loop under way
    outcome     \* what the worker gets back

loopVars ==
    <<options, canceled, asked, billed, llmCalls, screens, finalists, finalized, loop, outcome>>

orchestrator == <<options, canceled, llmCalls, screens, finalists, finalized>>

-----------------------------------------------------------------------------
(* Records.                                                                *)

Circuit == [version : 0..MaxVersion, draft : Drafts]

\* The verdicts of the last evaluation: of which circuit, on which criteria.
Assertions == [version : 0..MaxVersion, ran : SUBSET Criterion, failed : SUBSET Criterion]

NoAssertions == [version |-> 0, ran |-> {}, failed |-> {}]

\* rubric: the criteria the candidate was generated with.
Loop == [mode : {"plain", "finalist", "degraded"}, at : {"start", "round", "fixing"},
         seeded : BOOLEAN, circuit : Circuit, analysis : Analysis,
         criteria : SUBSET Criterion, rubric : SUBSET Criterion, round : 1..5,
         assertions : Assertions]

Result == [at : {"result"}, ok : BOOLEAN, verified : BOOLEAN, circuit : Circuit,
           analysis : Analysis, criteria : SUBSET Criterion, rubric : SUBSET Criterion,
           assertions : Assertions, rounds : 1..4,
           yield : {"none", "unavailable", "graded"}, counted : {-1} \cup 0..MaxVersion]

Screen == [at : {"queued", "running", "rejected", "screened"}, version : 0..MaxVersion,
           draft : Drafts, healthy : BOOLEAN, specsMet : BOOLEAN]

NoLoop == [at |-> "none"]

Pending == [at |-> "none"]

AnyDraft == CHOOSE d \in Drafts : TRUE

LoopTypeOK ==
    /\ options \in Options /\ canceled \in BOOLEAN
    /\ asked \in 0..MaxVersion /\ billed \in Nat /\ llmCalls \in 0..MaxVersion
    /\ screens \in [1..options.n -> Screen]
    /\ finalists \in Seq(1..options.n) /\ finalized \in Seq(Result)
    /\ loop \in Loop \cup {NoLoop}
    /\ outcome \in Result \cup {Pending, [at |-> "aborted"], [at |-> "failed"]}

Unseeded ==
    [mode |-> "plain", at |-> "start", seeded |-> FALSE,
     circuit |-> [version |-> 0, draft |-> AnyDraft], analysis |-> "op",
     criteria |-> {}, rubric |-> {}, round |-> 1, assertions |-> NoAssertions]

Seeded(s, mode) ==
    [Unseeded EXCEPT !.mode = mode, !.seeded = TRUE,
        !.circuit = [version |-> s.version, draft |-> s.draft],
        !.analysis = s.draft.analysis, !.criteria = s.draft.criteria,
        !.rubric = s.draft.criteria]

LoopInit ==
    /\ options \in Options
    /\ canceled = FALSE
    /\ asked = 0
    /\ billed = 0
    /\ llmCalls = 0
    /\ screens = [i \in 1..options.n |-> [at |-> "queued", version |-> 0, draft |-> AnyDraft,
                                          healthy |-> FALSE, specsMet |-> FALSE]]
    /\ finalists = <<>>
    /\ finalized = <<>>
    /\ loop = IF options.n = 1 THEN Unseeded ELSE NoLoop
    /\ outcome = Pending

-----------------------------------------------------------------------------
(* The pure parts.                                                         *)

Dimensions(criteria) == {Dimension(c) : c \in criteria}

Uncovered(criteria) == options.required \ Dimensions(criteria)

\* Distortion is measurable only when the transient carries a fourier request.
Unmet(draft, analysis, criteria) ==
    {c \in criteria : c \notin draft.meets \/ (Dimension(c) = "thd" /\ analysis # "tranFourier")}

\* Mutant: the fix's criteria replace those it was asked to meet.
AdoptCriteria(original, returned) ==
    IF returned = {} THEN original ELSE returned

\* A fix may add a criterion for a required quantity none measures; it cannot
\* drop or relax one.
mergeCriteria(original, returned) ==
    original \cup {c \in returned : Dimension(c) \in Uncovered(original)}

\* The fourier request of the earlier analysis is carried forward.
preserveMetricOverlays(prev, next, criteria) ==
    IF "thd" \in Dimensions(criteria) /\ prev = "tranFourier" /\ next = "tran"
    THEN "tranFourier"
    ELSE next

\* The Monte-Carlo pass: nothing to vary, no capacity, or graded.
Yields(mcEnabled, criteria) ==
    IF mcEnabled /\ criteria # {} THEN {"none", "unavailable", "graded"} ELSE {"none"}

Budget == Max({options.n, options.llmBudget})

\* What runWithRepair may be billed for: a round of the conversation for each of
\* tools, one without, one more to repair an invalid answer, each perhaps resent.
Billings(tools) == 1..2 * (tools + 2)

\* A circuit is asked for.
Ask(tools) ==
    /\ asked' = asked + 1
    /\ \E calls \in Billings(tools) : billed' = billed + calls

-----------------------------------------------------------------------------
(* The loop.                                                               *)

\* Mutant: a finalist's fixes are not counted.
ExitUncounted(result) ==
    /\ loop' = NoLoop
    /\ IF loop.mode = "finalist"
       THEN /\ finalized' = Append(finalized, result)
            /\ UNCHANGED <<llmCalls, outcome>>
       ELSE /\ outcome' = result
            /\ UNCHANGED <<finalized, llmCalls>>

\* The loop of a single request answers the request; a finalist's is collected,
\* with its fix rounds counted.
Exit(result) ==
    /\ loop' = NoLoop
    /\ IF loop.mode = "finalist"
       THEN /\ finalized' = Append(finalized, result)
            /\ llmCalls' = llmCalls + result.rounds - 1
            /\ outcome' = outcome
       ELSE /\ outcome' = result
            /\ UNCHANGED <<finalized, llmCalls>>

LoopResult(verdict, criteria, assertions, rounds, yield) ==
    [at |-> "result", ok |-> verdict, verified |-> verdict /\ criteria # {},
     circuit |-> loop.circuit, analysis |-> loop.analysis, criteria |-> criteria,
     rubric |-> loop.rubric, assertions |-> assertions, rounds |-> rounds,
     yield |-> yield, counted |-> -1]

\* An error of the loop leaves the orchestrator too, whatever it has collected.
Throw(at) ==
    /\ loop' = NoLoop
    /\ outcome' = [at |-> at]
    /\ UNCHANGED <<finalized, llmCalls>>

\* checkAbort, wherever the loop calls it.
Abort ==
    /\ loop # NoLoop /\ canceled
    /\ Throw("aborted")
    /\ UNCHANGED <<options, canceled, asked, billed, screens, finalists>>

StartSeeded ==
    /\ loop.at = "start" /\ loop.seeded /\ ~canceled
    /\ loop' = [loop EXCEPT !.at = "round"]
    /\ UNCHANGED <<orchestrator, asked, billed, outcome>>

\* With the catalog's tools, where the host has them: the worker has none.
StartGenerate(d) ==
    /\ loop.at = "start" /\ ~loop.seeded /\ ~canceled
    /\ Ask(options.tools)
    /\ loop' = [loop EXCEPT !.at = "round", !.circuit = [version |-> asked', draft |-> d],
                            !.analysis = d.analysis, !.criteria = d.criteria,
                            !.rubric = d.criteria]
    /\ UNCHANGED <<orchestrator, outcome>>

\* The provider fails, or its answer is unusable.
ModelFails ==
    /\ \/ loop.at = "start" /\ ~loop.seeded /\ Ask(options.tools)
       \/ loop.at = "fixing" /\ Ask(0)
    /\ ~canceled
    /\ Throw("failed")
    /\ UNCHANGED <<options, canceled, screens, finalists>>

LastRound == loop.round >= options.maxRounds

EndUnmet(assertions) ==
    /\ Exit(LoopResult(FALSE, loop.criteria, assertions, loop.round, "none"))
    /\ UNCHANGED <<options, canceled, asked, billed, screens, finalists>>

\* The rule check gates the simulation.
ErcGate ==
    /\ loop.at = "round" /\ ~canceled
    /\ loop.circuit.draft.kind = "ercError"
    /\ IF LastRound
       THEN EndUnmet(loop.assertions)
       ELSE /\ loop' = [loop EXCEPT !.at = "fixing"]
            /\ UNCHANGED <<orchestrator, asked, billed, outcome>>

\* The netlist cannot be generated: the fix is asked for at once, and its circuit
\* and analysis are taken as they are.
NetlistGate(d) ==
    /\ loop.at = "round" /\ ~canceled
    /\ loop.circuit.draft.kind = "noNetlist"
    /\ IF LastRound
       THEN EndUnmet(loop.assertions)
       ELSE /\ Ask(0)
            /\ loop' = [loop EXCEPT !.circuit = [version |-> asked', draft |-> d],
                                    !.analysis = d.analysis, !.round = @ + 1]
            /\ UNCHANGED <<orchestrator, outcome>>

NetlistFixFails ==
    /\ loop.at = "round" /\ ~canceled /\ ~LastRound
    /\ loop.circuit.draft.kind = "noNetlist"
    /\ Ask(0)
    /\ Throw("failed")
    /\ UNCHANGED <<options, canceled, screens, finalists>>

Simulable == loop.at = "round" /\ ~canceled /\ loop.circuit.draft.kind \in {"sick", "simulates"}

\* No capacity, no worker, no results: the loop ends without a verdict.
Inconclusive ==
    /\ Simulable
    /\ Exit(LoopResult(FALSE, {}, NoAssertions, loop.round, "none"))
    /\ UNCHANGED <<options, canceled, asked, billed, screens, finalists>>

\* Mutant: verdicts are kept once they all pass.
VerdictsOnce ==
    IF loop.criteria = {} \/ (loop.assertions.ran # {} /\ loop.assertions.failed = {})
    THEN loop.assertions
    ELSE [version |-> loop.circuit.version, ran |-> loop.criteria,
          failed |-> Unmet(loop.circuit.draft, loop.analysis, loop.criteria)]

Verdicts ==
    IF loop.criteria = {}
    THEN loop.assertions
    ELSE [version |-> loop.circuit.version, ran |-> loop.criteria,
          failed |-> Unmet(loop.circuit.draft, loop.analysis, loop.criteria)]

\* A circuit that simulates may still time out.
Unhealthy ==
    /\ Simulable
    /\ IF LastRound
       THEN EndUnmet(loop.assertions)
       ELSE /\ loop' = [loop EXCEPT !.at = "fixing"]
            /\ UNCHANGED <<orchestrator, asked, billed, outcome>>

Succeeds ==
    /\ Simulable /\ loop.circuit.draft.kind = "simulates"
    /\ Verdicts.failed = {} /\ Uncovered(loop.criteria) = {}
    /\ \E y \in Yields(loop.mode = "plain", loop.criteria) :
         Exit(LoopResult(TRUE, loop.criteria, Verdicts, loop.round, y))
    /\ UNCHANGED <<options, canceled, asked, billed, screens, finalists>>

Misses ==
    /\ Simulable /\ loop.circuit.draft.kind = "simulates"
    /\ Verdicts.failed # {} \/ Uncovered(loop.criteria) # {}
    /\ IF LastRound
       THEN EndUnmet(Verdicts)
       ELSE /\ loop' = [loop EXCEPT !.at = "fixing", !.assertions = Verdicts]
            /\ UNCHANGED <<orchestrator, asked, billed, outcome>>

Fix(d) ==
    /\ loop.at = "fixing" /\ ~canceled
    /\ Ask(0)
    /\ LET criteria == mergeCriteria(loop.criteria, d.criteria)
       IN  loop' = [loop EXCEPT !.at = "round", !.round = @ + 1, !.criteria = criteria,
                      !.circuit = [version |-> asked', draft |-> d],
                      !.analysis = preserveMetricOverlays(@, d.analysis, criteria)]
    /\ UNCHANGED <<orchestrator, outcome>>

LoopStep ==
    \/ Abort \/ StartSeeded \/ ModelFails \/ ErcGate \/ NetlistFixFails
    \/ Inconclusive \/ Unhealthy \/ Succeeds \/ Misses
    \/ \E d \in Drafts : StartGenerate(d) \/ NetlistGate(d) \/ Fix(d)

-----------------------------------------------------------------------------
(* The fan-out.                                                            *)

Screening == options.n > 1 /\ loop = NoLoop /\ outcome = Pending

\* The semaphore lets a screen start; the abort flag is not looked at.
StartScreen(i) ==
    /\ Screening /\ screens[i].at = "queued"
    /\ llmCalls < Budget
    /\ llmCalls' = llmCalls + 1
    /\ Ask(0)
    /\ screens' = [screens EXCEPT ![i].at = "running", ![i].version = asked']
    /\ UNCHANGED <<options, canceled, finalists, finalized, loop, outcome>>

\* One simulation, without the rule check and without a fix: a circuit with rule
\* errors may come out healthy and on spec.
Screened(i, d, healthy, specsMet) ==
    /\ screens[i].at = "running"
    /\ healthy => d.kind \in {"ercError", "simulates"}
    /\ specsMet => /\ healthy /\ d.criteria # {} /\ Uncovered(d.criteria) = {}
                   /\ d.kind = "simulates" => Unmet(d, d.analysis, d.criteria) = {}
    /\ ~specsMet /\ healthy =>
          \/ d.kind = "ercError" \/ d.criteria = {} \/ Uncovered(d.criteria) # {}
          \/ Unmet(d, d.analysis, d.criteria) # {}
    /\ screens' = [screens EXCEPT ![i] = [@ EXCEPT !.at = "screened", !.draft = d,
                                          !.healthy = healthy, !.specsMet = specsMet]]
    /\ UNCHANGED <<options, canceled, asked, billed, llmCalls, finalists, finalized, loop, outcome>>

ScreenFails(i) ==
    /\ screens[i].at = "running"
    /\ screens' = [screens EXCEPT ![i].at = "rejected"]
    /\ UNCHANGED <<options, canceled, asked, billed, llmCalls, finalists, finalized, loop, outcome>>

\* Healthy first, then on spec; the finer ranking is left open.
Rank(i) == IF screens[i].healthy THEN (IF screens[i].specsMet THEN 0 ELSE 1) ELSE 2

\* The best k of the candidates, the best of each topology.
selectFinalists(candidates, k) ==
    LET topology(i) == screens[i].draft.topology
        best == {R \in SUBSET candidates :
                   \A i \in candidates : \E j \in R :
                      /\ topology(i) = topology(j) /\ Rank(j) <= Rank(i)
                      /\ \A l \in R \ {j} : topology(l) # topology(i)}
        ranked(R) == {s \in SetToSeqs(R) :
                        \A a, b \in DOMAIN s : a < b => Rank(s[a]) <= Rank(s[b])}
    IN  {SubSeq(s, 1, Min({Len(s), Max({1, k})})) : s \in UNION {ranked(R) : R \in best}}

ScreensDone == \A i \in 1..options.n : screens[i].at \in {"rejected", "screened"}

Survivors == {i \in 1..options.n : screens[i].at = "screened"}

\* Nothing was generated: one ordinary loop, which counts nothing.
FallBack ==
    /\ Screening /\ ScreensDone /\ Survivors = {}
    /\ loop' = Unseeded
    /\ UNCHANGED <<orchestrator, asked, billed, outcome>>

\* The first finalist starts, or with no budget left the best candidate is run
\* through the loop all the same.
Select ==
    /\ Screening /\ ScreensDone /\ Survivors # {} /\ finalists = <<>> /\ finalized = <<>>
    /\ \E s \in selectFinalists(Survivors, options.k) :
         /\ finalists' = Tail(s)
         /\ loop' = Seeded(screens[Head(s)], IF llmCalls < Budget THEN "finalist" ELSE "degraded")
    /\ UNCHANGED <<options, canceled, asked, billed, llmCalls, screens, finalized, outcome>>

NextFinalist ==
    /\ Screening /\ finalized # <<>> /\ finalists # <<>> /\ llmCalls < Budget
    /\ finalists' = Tail(finalists)
    /\ loop' = Seeded(screens[Head(finalists)], "finalist")
    /\ UNCHANGED <<options, canceled, asked, billed, llmCalls, screens, finalized, outcome>>

\* The first verified result, or the first that is ok, or the best ranked.
pickWinner(results) ==
    LET First(good(_)) == CHOOSE i \in DOMAIN results :
                             good(results[i]) /\ \A j \in 1..(i - 1) : ~good(results[j])
        verified(r) == r.ok /\ r.verified
        ok(r) == r.ok
    IN  CASE \E i \in DOMAIN results : verified(results[i]) -> results[First(verified)]
          [] \A i \in DOMAIN results : ~ok(results[i])       -> results[1]
          [] OTHER                                           -> results[First(ok)]

\* Monte-Carlo on the winner only.
Conclude ==
    /\ Screening /\ finalized # <<>>
    /\ finalists = <<>> \/ llmCalls >= Budget
    /\ LET winner == pickWinner(finalized)
       IN  \E y \in Yields(winner.ok, winner.criteria) :
             outcome' = [winner EXCEPT !.yield = y, !.counted = llmCalls]
    /\ UNCHANGED <<orchestrator, asked, billed, loop>>

-----------------------------------------------------------------------------

CancelRequest ==
    /\ ~canceled /\ outcome = Pending
    /\ canceled' = TRUE
    /\ UNCHANGED <<options, asked, billed, llmCalls, screens, finalists, finalized, loop, outcome>>

Answered == outcome # Pending /\ UNCHANGED loopVars

LoopNext ==
    \/ LoopStep
    \/ \E i \in 1..options.n :
         \/ StartScreen(i) \/ ScreenFails(i)
         \/ \E d \in Drafts, healthy, specsMet \in BOOLEAN : Screened(i, d, healthy, specsMet)
    \/ FallBack \/ Select \/ NextFinalist \/ Conclude
    \/ CancelRequest \/ Answered

LoopSpec == LoopInit /\ [][LoopNext]_loopVars

-----------------------------------------------------------------------------
(* Properties.                                                             *)

\* What the result claims was established on the very circuit it returns: a
\* verified design passed the rule check, simulated, and its last verdicts are of
\* this circuit, on all of its criteria, which measure every required quantity
\* and hold under its analysis.
ClaimsAreBacked ==
    outcome.at = "result" /\ outcome.verified =>
        /\ outcome.circuit.draft.kind = "simulates"
        /\ outcome.assertions = [version |-> outcome.circuit.version,
                                 ran |-> outcome.criteria, failed |-> {}]
        /\ outcome.criteria # {} /\ Uncovered(outcome.criteria) = {}
        /\ Unmet(outcome.circuit.draft, outcome.analysis, outcome.criteria) = {}

\* No number of fixes buys a pass by relaxing the rubric: a verified design is
\* held to every criterion its candidate was generated with, and to criteria for
\* required quantities besides.
RubricKept ==
    outcome.at = "result" /\ outcome.verified =>
        /\ outcome.rubric \subseteq outcome.criteria
        /\ Dimensions(outcome.criteria \ outcome.rubric)
             \subseteq options.required \ Dimensions(outcome.rubric)

\* The circuits a request may ask for: the candidates and one loop that counts
\* nothing, or the budget overrun by the fixes of the finalist that spent its last.
MostAsked ==
    IF options.n = 1 THEN options.maxRounds
    ELSE Max({options.n + options.maxRounds, Budget + options.maxRounds - 2})

\* What a request can cost: the circuits it asks for, four billed calls for each and
\* two more for each round of tools.  What a fanned-out result says it took is the
\* number of circuits, to the last one, and so never more than was billed.
SpendBounded ==
    /\ asked <= MostAsked
    /\ billed <= 4 * MostAsked + 2 * options.tools
    /\ outcome.at = "result" /\ outcome.counted # -1 =>
          outcome.counted = asked /\ asked <= billed

\* The budget is "a hard ceiling on paid requests", says multi-candidate.ts of the
\* fan-out.  It is compared before a finalist is refined, whose fixes are counted
\* after: the result may itself report more.
BudgetIsCeiling ==
    outcome.at = "result" /\ outcome.counted # -1 => outcome.counted <= Budget

\* The worker has no tools, "so this is the CONTROL case: exactly one request per
\* generate/fix", says processor.ts of the billed requests it counts.  An answer that
\* is repaired, or a call that is resent, is billed again.
BilledOnceEach == options.tools = 0 => billed = asked

=============================================================================
