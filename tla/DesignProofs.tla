---------------------------- MODULE DesignProofs ----------------------------
(***************************************************************************)
(* Proofs about what becomes of a design request, in three parts.            *)
(*                                                                         *)
(* I.   The job (DesignJob), for any number of jobs, worker slots and         *)
(*      reapers.  The terminal write of this worker has no condition, so a    *)
(*      settled row may be settled again; what still holds is that no step    *)
(*      makes a row QUEUED, and the first part rests on that.                 *)
(* II.  The loop and its candidates inside the worker (DesignLoop), for any   *)
(*      set of answers of the language model and any requests: what a result  *)
(*      claims, the rubric it is held to and what it is billed for.           *)
(* III. The verification of a design (VerifyDesign), for any sample sizes:    *)
(*      no verdict without its reason.                                       *)
(***************************************************************************)
EXTENDS DesignJob, DesignLoop, VerifyDesign, JobQueueProofs, FiniteSetTheorems,
        NaturalsInduction, SequenceTheorems

\* A step that names no prover is given a minute of each.
USE SMTT(60), ZenonT(60)

-----------------------------------------------------------------------------
(* I.  The job.                                                            *)

-----------------------------------------------------------------------------
(* Type correctness.                                                       *)

\* TypeOK's part on the handlers, and that a handler which is not idle has a job:
\* the result is written for that job.
HandlersOK ==
    /\ handler \in [Workers -> Handler]
    /\ \A w \in Workers :
          /\ handler[w].at = "finish" => handler[w].outcome \in Terminal
          /\ handler[w].at # "idle" => handler[w].job \in Jobs

Typed == JobTypeOK /\ results \in SUBSET Jobs /\ HandlersOK

\* The stages between the claim and the terminal write.
LoopSteps(w) ==
    \/ Checkpoint(w) \/ StartCall(w) \/ CallEnds(w) \/ LoopEnds(w) \/ PostCheck(w)

LEMMA GotoOK ==
  ASSUME HandlersOK, NEW w \in Workers, handler[w].at # "idle",
         NEW to \in Stage \ {"finish"}, Goto(w, to)
  PROVE  HandlersOK'
<1> DEFINE h == [handler[w] EXCEPT !.at = to]
<1>1. h \in Handler /\ h.at # "finish" /\ h.job \in Jobs
  BY DEF HandlersOK, Handler
<1>2. handler' = [handler EXCEPT ![w] = h]
  BY DEF Goto
<1> HIDE DEF h
<1> QED  BY <1>1, <1>2 DEF HandlersOK

LEMMA DecideOK ==
  ASSUME HandlersOK, NEW w \in Workers, handler[w].at # "idle",
         NEW verdict \in Terminal, Decide(w, verdict)
  PROVE  HandlersOK'
<1> DEFINE h == [handler[w] EXCEPT !.at = "finish", !.outcome = verdict]
<1>1. h \in Handler /\ h.outcome = verdict /\ h.job \in Jobs
  BY DEF HandlersOK, Handler, Stage
<1>2. handler' = [handler EXCEPT ![w] = h]
  BY DEF Decide
<1> HIDE DEF h
<1> QED  BY <1>1, <1>2 DEF HandlersOK

\* A step of a worker, BullMQ's included, keeps the types.
LEMMA WorkerStepType ==
  ASSUME Typed, NEW w \in Workers, WorkerStep(w) \/ Crash(w)
  PROVE  Typed'
<1>0. /\ JobTypeOK /\ HandlersOK /\ results \in SUBSET Jobs
      /\ row \in [Jobs -> Row]
      /\ handler[w] \in Handler
  BY DEF Typed, HandlersOK, JobTypeOK
<1>1. {"loop", "call", "post", "return"} \in SUBSET (Stage \ {"finish"})
  BY DEF Stage
<1>2. {"SUCCEEDED", "FAILED", "CANCELED"} \in SUBSET Terminal
  BY DEF Terminal
<1>3. Claimed(handler[w].job) \in [Jobs -> Row]
  BY <1>0 DEF Claimed, Row, Status, Live
<1>4. ASSUME row' \in [Jobs -> Row], results' \in SUBSET Jobs, HandlersOK',
             UNCHANGED <<age, queueVars, api, canceller, reaper>>
      PROVE  Typed'
  BY <1>0, <1>4 DEF Typed, JobTypeOK, queueVars
<1>5. CASE Claim(w)
  <2>1. HandlersOK'
    BY <1>0, <1>1, <1>5, GotoOK DEF Claim
  <2>2. row' \in [Jobs -> Row]
    BY <1>0, <1>3, <1>5 DEF Claim
  <2> QED  BY <1>0, <1>4, <1>5, <2>1, <2>2 DEF Claim
<1>6. CASE ClaimThrows(w)
  <2>1. HandlersOK'
    BY <1>0, <1>2, <1>6, DecideOK DEF ClaimThrows
  <2>2. row' \in [Jobs -> Row]
    BY <1>0, <1>3, <1>6 DEF ClaimThrows
  <2> QED  BY <1>0, <1>4, <1>6, <2>1, <2>2 DEF ClaimThrows
<1>7. CASE LoopSteps(w)
  <2>1. ASSUME StartCall(w) PROVE HandlersOK'
    <3> DEFINE h == [handler[w] EXCEPT !.at = "call", !.calls = handler[w].calls + 1]
    <3>1. handler[w].calls + 1 \in 0..MaxCalls
      BY <1>0, <2>1, DesignJobAssumption DEF StartCall, Handler
    <3>2. handler[w].job \in Jobs
      BY <1>0, <2>1 DEF HandlersOK, StartCall
    <3>3. h \in Handler /\ h.at # "finish" /\ h.job \in Jobs
      BY <1>0, <3>1, <3>2 DEF Handler, Stage
    <3>4. handler' = [handler EXCEPT ![w] = h]
      BY <2>1 DEF StartCall
    <3> HIDE DEF h
    <3> QED  BY <1>0, <3>3, <3>4 DEF HandlersOK
  <2>2. ASSUME Checkpoint(w) \/ CallEnds(w) \/ LoopEnds(w) \/ PostCheck(w) PROVE HandlersOK'
    BY <1>0, <1>1, <1>2, <2>2, GotoOK, DecideOK
       DEF Checkpoint, CallEnds, LoopEnds, PostCheck
  <2>3. UNCHANGED <<jobVars, results>>
    BY <1>7 DEF LoopSteps, Checkpoint, StartCall, CallEnds, LoopEnds, PostCheck, LoopOnly
  <2> QED  BY <1>0, <1>4, <1>7, <2>1, <2>2, <2>3 DEF LoopSteps, jobVars, queueVars
<1>8. CASE Finish(w)
  <2> DEFINE j == handler[w].job
             error == IF handler[w].outcome = "FAILED" THEN "worker" ELSE row[j].error
             new == [row[j] EXCEPT !.status = handler[w].outcome, !.error = error]
  <2>1. handler[w].outcome \in Terminal /\ j \in Jobs
    BY <1>0, <1>8 DEF Finish, HandlersOK
  <2>2. row' \in [Jobs -> Row]
    <3>1. new \in Row
      <4>1. row[j] \in Row /\ row[j].error \in ErrorSource
        BY <1>0, <2>1 DEF Row
      <4>2. handler[w].outcome \in Status /\ error \in ErrorSource
        BY <2>1, <4>1 DEF Status, ErrorSource
      <4> HIDE DEF error
      <4> QED  BY <4>1, <4>2 DEF Row
    <3>2. UNCHANGED row \/ row' = [row EXCEPT ![j] = new]
      BY <1>8 DEF Finish
    <3> HIDE DEF new
    <3> QED  BY <1>0, <3>1, <3>2
  <2>3. HandlersOK'
    BY <1>0, <1>1, <1>8, GotoOK DEF Finish
  <2>4. results' \in SUBSET Jobs
    BY <1>0, <1>8, <2>1 DEF Finish
  <2> QED  BY <1>4, <1>8, <2>2, <2>3, <2>4 DEF Finish
<1>9. Idle \in Handler /\ Idle.at = "idle"
  BY DesignJobAssumption DEF Idle, Fresh, Handler, Stage
<1>10. CASE Leave(w)
  <2>1. HandlersOK'
    BY <1>0, <1>9, <1>10 DEF Leave, HandlersOK
  <2>2. JobTypeOK'
    BY <1>0, <1>10 DEF Leave, Report, JobTypeOK, QueueState
  <2> QED  BY <1>0, <1>10, <2>1, <2>2 DEF Leave, Typed
<1>11. CASE Crash(w)
  <2>1. HandlersOK'
    BY <1>0, <1>9, <1>11 DEF Crash, HandlersOK
  <2> QED  BY <1>0, <1>11, <2>1 DEF Crash, Typed, JobTypeOK, jobVars
<1> QED
  BY <1>5, <1>6, <1>7, <1>8, <1>10, <1>11 DEF WorkerStep, LoopSteps

LEMMA TypedInit == Init => Typed
<1> SUFFICES ASSUME Init PROVE Typed
  OBVIOUS
<1>1. row \in [Jobs -> Row]
  BY DEF Init, JobInit, Row, NewRow, Status, ErrorSource
<1>2. reaper \in [Reapers -> Sweep]
  BY DEF Init, JobInit, Sweep, NoSweep
<1>3. JobTypeOK
  BY <1>1, <1>2 DEF Init, JobInit, JobTypeOK, QueueState
<1>4. Idle \in Handler /\ Idle.at = "idle"
  BY DesignJobAssumption DEF Idle, Fresh, Handler, Stage
<1> QED  BY <1>3, <1>4 DEF Init, Typed, HandlersOK

LEMMA TypedStep == ASSUME Typed, [Next]_vars PROVE Typed'
<1>1. CASE JobStep /\ UNCHANGED workerVars
  BY <1>1, JobStepType DEF Typed, HandlersOK, workerVars
<1>2. ASSUME NEW w \in Workers, WorkerStep(w) \/ Crash(w) PROVE Typed'
  BY <1>2, WorkerStepType
<1>3. ASSUME NEW w \in Workers, NEW j \in Jobs, Deliver(w, j) PROVE Typed'
  <2>1. Fresh("claim", j) \in Handler /\ Fresh("claim", j).at = "claim" /\ Fresh("claim", j).job = j
    BY DesignJobAssumption DEF Fresh, Handler, Stage
  <2>2. JobTypeOK'
    BY <1>3 DEF Deliver, Dequeue, Typed, JobTypeOK, QueueState
  <2>3. HandlersOK'
    BY <1>3, <2>1 DEF Deliver, Typed, HandlersOK
  <2> QED  BY <1>3, <2>2, <2>3 DEF Deliver, Typed
<1>4. ASSUME NEW j \in Jobs, LockExpires(j) PROVE Typed'
  BY <1>4 DEF LockExpires, Stall, Typed, JobTypeOK, HandlersOK, QueueState, workerVars
<1>5. CASE UNCHANGED vars
  BY <1>5 DEF vars, Typed, JobTypeOK, HandlersOK
<1> QED  BY <1>1, <1>2, <1>3, <1>4, <1>5 DEF Next

\* Every variable of DesignJob stays within its type; in particular a job starts
\* no more paid calls than it may, and a handler that is about to write the row
\* has an outcome to write (runDesignLoop's budget, finish).
THEOREM TypeCorrect == Spec => []TypeOK
<1>1. Typed /\ [Next]_vars => Typed'
  BY TypedStep
<1>2. Typed => TypeOK
  BY DEF Typed, HandlersOK, TypeOK
<1> QED  BY <1>1, <1>2, TypedInit, PTL DEF Spec

-----------------------------------------------------------------------------
(* The inductive invariant.                                                *)

\* A handler that works on its job, or has a result to write.
Runs(w) ==
    \/ handler[w].at \in Working
    \/ handler[w].at = "finish" /\ handler[w].outcome = "SUCCEEDED"

\* What a handler's stage says of its job's row; only a handler whose claim threw
\* may come to its terminal write with the row still QUEUED.
HandlerFacts(w) ==
    LET h == handler[w]
    IN  /\ h.at # "idle" => row[h.job].status # "ABSENT"
        /\ Runs(w) => row[h.job].status # "QUEUED"

\* SingleRunner up to the terminal write of a result.
OneRuns ==
    \A w1, w2 \in Workers :
        Runs(w1) /\ Runs(w2) /\ handler[w1].job = handler[w2].job => w1 = w2

\* Whoever may still store a result is the first to do so.
FirstResult ==
    /\ \A w \in Workers : Runs(w) => handler[w].job \notin results
    /\ \A j \in results : row[j].status \notin {"ABSENT", "QUEUED"}

Inv ==
    /\ Typed
    /\ RowExists
    /\ OneDoomed
    /\ \A w \in Workers : HandlerFacts(w)
    /\ OneRuns
    /\ FirstResult

\* What is known of a handler survives the steps of everybody else.
LEMMA FactsKept ==
  ASSUME Inv, NEW w \in Workers, UNCHANGED handler[w], \A j \in Jobs : Grows(j)
  PROVE  HandlerFacts(w)'
<1>1. HandlerFacts(w) /\ (handler[w].at # "idle" => handler[w].job \in Jobs)
  BY DEF Inv, Typed, HandlersOK
<1>2. CASE handler[w].at = "idle"
  BY <1>2 DEF HandlerFacts, Runs, Working
<1>3. CASE handler[w].at # "idle"
  BY <1>1, <1>3 DEF HandlerFacts, Runs, Grows
<1> QED  BY <1>2, <1>3

\* A step that claims nothing keeps the invariant if it keeps the facts.
LEMMA Assembled ==
  ASSUME Inv, Typed', RowExists', OneDoomed', FirstResult',
         \A w \in Workers :
            /\ HandlerFacts(w)'
            /\ Runs(w)' => Runs(w) /\ handler'[w].job = handler[w].job
  PROVE  Inv'
<1>1. OneRuns'
  <2>1. ASSUME NEW w1 \in Workers, NEW w2 \in Workers, Runs(w1)', Runs(w2)',
               handler'[w1].job = handler'[w2].job
        PROVE  w1 = w2
    <3>1. /\ Runs(w1) /\ Runs(w2)
          /\ handler[w1].job = handler[w2].job
      BY <2>1
    <3> QED  BY <3>1 DEF Inv, OneRuns
  <2> QED  BY <2>1 DEF OneRuns
<1> QED  BY <1>1 DEF Inv

\* A step that stores no result and starts no runner stores none twice.
LEMMA FirstStays ==
  ASSUME Inv, UNCHANGED results, \A j \in Jobs : Grows(j),
         \A w \in Workers : Runs(w)' => Runs(w) /\ handler'[w].job = handler[w].job
  PROVE  FirstResult'
<1>1. FirstResult /\ results \in SUBSET Jobs
  BY DEF Inv, Typed
<1>2. \A w \in Workers : Runs(w)' => handler'[w].job \notin results'
  BY <1>1 DEF FirstResult
<1>3. \A j \in results' : row'[j].status \notin {"ABSENT", "QUEUED"}
  BY <1>1 DEF FirstResult, Grows
<1> QED  BY <1>2, <1>3 DEF FirstResult

\* A step that leaves the row alone lets it grow.
LEMMA RowSame == ASSUME UNCHANGED row PROVE \A i \in Jobs : Grows(i)
BY DEF Grows

\* A worker starts no sweep.
LEMMA WorkersDoomNothing ==
  ASSUME OneDoomed, UNCHANGED reaper PROVE OneDoomed'
BY DEF OneDoomed

LEMMA JobStepInv ==
  ASSUME Inv, Typed', JobStep, UNCHANGED workerVars
  PROVE  Inv'
<1>1. \A j \in Jobs : Grows(j)
  BY JobStepGrows DEF Inv, Typed
<1>2. \A w \in Workers : UNCHANGED handler[w]
  BY DEF workerVars
<1>3. \A w \in Workers : HandlerFacts(w)'
  BY <1>1, <1>2, FactsKept
<1>4. RowExists' /\ OneDoomed'
  BY JobStepExists, JobStepOneDoomed DEF Inv, Typed
<1>5. \A w \in Workers : Runs(w)' => Runs(w) /\ handler'[w].job = handler[w].job
  BY <1>2 DEF Runs
<1> QED  BY <1>1, <1>3, <1>4, <1>5, FirstStays, Assembled DEF workerVars

\* Claim and ClaimThrows: the row leaves QUEUED and nobody else works on it.
LEMMA ClaimInv ==
  ASSUME Inv, Typed', NEW w \in Workers, Claim(w) \/ ClaimThrows(w)
  PROVE  Inv'
<1> DEFINE h == handler[w]
           j == handler[w].job
<1>0. /\ handler \in [Workers -> Handler]
      /\ row \in [Jobs -> Row]
      /\ h \in Handler
      /\ HandlerFacts(w)
      /\ OneRuns /\ FirstResult
      /\ h.at = "claim" /\ j \in Jobs
      /\ UNCHANGED <<queueJob, canceller, api, reaper, results>>
  BY DEF Inv, Typed, HandlersOK, JobTypeOK, Claim, ClaimThrows, queueVars
<1>1. row[j].status # "ABSENT" /\ row[j] \in Row
  BY <1>0 DEF HandlerFacts
<1>2. row' = row \/ (row[j].status = "QUEUED" /\ row' = Claimed(j))
  BY DEF Claim, ClaimThrows
<1>3. row[j].status = "QUEUED" /\ row' = Claimed(j) =>
        /\ row'[j].status = "RUNNING" /\ row'[j].abort = row[j].abort
        /\ \A i \in Jobs \ {j} : row'[i] = row[i]
  BY <1>0, <1>1 DEF Claimed, Row
<1>4. \A i \in Jobs : Grows(i)
  BY <1>1, <1>2, <1>3 DEF Grows
<1>5. RowExists'
  <2>1. \A i \in Jobs : row'[i].status = "ABSENT" <=> row[i].status = "ABSENT"
    BY <1>1, <1>2, <1>3
  <2> QED  BY <1>0, <2>1 DEF Inv, RowExists
<1>6. OneDoomed'
  BY <1>0, WorkersDoomNothing DEF Inv
<1>7. \A x \in Workers \ {w} : UNCHANGED handler[x]
  BY <1>0 DEF Claim, ClaimThrows, Goto, Decide
<1>8. handler'[w].job = j
  <2>1. ASSUME NEW to, Goto(w, to) PROVE handler'[w].job = j
    BY <1>0, <2>1 DEF Goto, Handler
  <2>2. ASSUME NEW verdict, Decide(w, verdict) PROVE handler'[w].job = j
    BY <1>0, <2>2 DEF Decide, Handler
  <2> QED  BY <2>1, <2>2 DEF Claim, ClaimThrows
<1>9. row'[j].status # "ABSENT"
  BY <1>0, <1>1, <1>4 DEF Grows
<1>x. \A x \in Workers \ {w} : Runs(x)' => Runs(x) /\ handler'[x].job = handler[x].job
  BY <1>7 DEF Runs
<1>10. CASE Claim(w) /\ row[j].status = "QUEUED"
  <2>1. handler'[w].at = "loop" /\ row'[j].status = "RUNNING"
    BY <1>0, <1>3, <1>10 DEF Claim, Goto, Handler
  <2>2. \A x \in Workers : HandlerFacts(x)'
    BY <1>4, <1>7, <1>8, <2>1, FactsKept DEF HandlerFacts
  <2>3. \A x \in Workers \ {w} : Runs(x) => handler[x].job # j
    BY <1>10 DEF Inv, HandlerFacts
  <2>4. OneRuns'
    <3>1. ASSUME NEW w1 \in Workers, NEW w2 \in Workers, Runs(w1)', Runs(w2)',
                 handler'[w1].job = handler'[w2].job
          PROVE  w1 = w2
      <4>1. CASE w1 = w \/ w2 = w
        BY <1>x, <1>8, <2>3, <3>1, <4>1
      <4>2. CASE w1 # w /\ w2 # w
        BY <1>0, <1>x, <3>1, <4>2 DEF OneRuns
      <4> QED  BY <4>1, <4>2
    <3> QED  BY <3>1 DEF OneRuns
  <2>5. FirstResult'
    <3>1. j \notin results
      BY <1>0, <1>10 DEF FirstResult
    <3>2. \A x \in Workers : Runs(x)' => handler'[x].job \notin results'
      BY <1>0, <1>8, <1>x, <3>1 DEF FirstResult
    <3>3. \A i \in results' : row'[i].status \notin {"ABSENT", "QUEUED"}
      BY <1>0, <1>3, <1>10 DEF FirstResult, Claim, Inv, Typed
    <3> QED  BY <3>2, <3>3 DEF FirstResult
  <2> QED  BY <1>5, <1>6, <2>2, <2>4, <2>5 DEF Inv
<1>11. CASE ~(Claim(w) /\ row[j].status = "QUEUED")
  <2>1. \/ handler'[w].at = "return"
        \/ handler'[w].at = "finish" /\ handler'[w].outcome = "FAILED"
    <3>1. CASE Claim(w)
      BY <1>0, <1>11, <3>1 DEF Claim, Goto, Handler
    <3>2. CASE ClaimThrows(w)
      <4>1. handler'[w] = [h EXCEPT !.at = "finish", !.outcome = "FAILED"]
        BY <1>0, <3>2 DEF ClaimThrows, Decide
      <4> QED  BY <1>0, <4>1 DEF Handler
    <3> QED  BY <3>1, <3>2
  <2>2. \A x \in Workers : HandlerFacts(x)'
    BY <1>4, <1>7, <1>8, <1>9, <2>1, FactsKept DEF HandlerFacts, Runs, Working
  <2>3. \A x \in Workers : Runs(x)' => Runs(x) /\ handler'[x].job = handler[x].job
    BY <1>x, <2>1 DEF Runs, Working
  <2> QED  BY <1>0, <1>4, <1>5, <1>6, <2>2, <2>3, FirstStays, Assembled
<1> QED  BY <1>10, <1>11

\* The loop stays in its job and out of the row.
LEMMA LoopStepsInv ==
  ASSUME Inv, Typed', NEW w \in Workers, LoopSteps(w)
  PROVE  Inv'
<1> DEFINE h == handler[w]
           j == handler[w].job
<1>0. /\ handler \in [Workers -> Handler]
      /\ h \in Handler
      /\ HandlerFacts(w)
  BY DEF Inv, Typed, HandlersOK
<1>1. /\ h.at \in Working
      /\ UNCHANGED <<row, queueJob, canceller, api, reaper, results>>
      /\ \A x \in Workers \ {w} : UNCHANGED handler[x]
  BY <1>0 DEF LoopSteps, Working, Checkpoint, StartCall, CallEnds, LoopEnds, PostCheck,
        Goto, Decide, LoopOnly, jobVars
<1>2. handler'[w].job = j
  <2>1. ASSUME NEW to, Goto(w, to) PROVE handler'[w].job = j
    BY <1>0, <2>1 DEF Goto, Handler
  <2>2. ASSUME NEW verdict, Decide(w, verdict) PROVE handler'[w].job = j
    BY <1>0, <2>2 DEF Decide, Handler
  <2>3. ASSUME StartCall(w) PROVE handler'[w].job = j
    <3>1. handler'[w] = [h EXCEPT !.at = "call", !.calls = h.calls + 1]
      BY <1>0, <2>3 DEF StartCall
    <3> QED  BY <1>0, <3>1 DEF Handler
  <2> QED  BY <2>1, <2>2, <2>3 DEF LoopSteps, Checkpoint, CallEnds, LoopEnds, PostCheck
<1>3. \A x \in Workers : HandlerFacts(x)'
  <2>1. HandlerFacts(w)'
    BY <1>0, <1>1, <1>2 DEF HandlerFacts, Runs, Working
  <2> QED  BY <1>1, <2>1, RowSame, FactsKept
<1>4. RowExists' /\ OneDoomed'
  BY <1>1, WorkersDoomNothing DEF Inv, RowExists
<1>5. \A x \in Workers : Runs(x)' => Runs(x) /\ handler'[x].job = handler[x].job
  BY <1>1, <1>2 DEF Runs
<1> QED  BY <1>1, <1>3, <1>4, <1>5, RowSame, FirstStays, Assembled

\* Finish: whatever the row's status is, it becomes a terminal one.
LEMMA FinishInv ==
  ASSUME Inv, Typed', NEW w \in Workers, Finish(w)
  PROVE  Inv'
<1> DEFINE h == handler[w]
           j == handler[w].job
<1>0. /\ handler \in [Workers -> Handler]
      /\ row \in [Jobs -> Row]
      /\ h \in Handler
      /\ HandlerFacts(w)
      /\ h.at = "finish" /\ h.outcome \in Terminal /\ j \in Jobs
      /\ UNCHANGED <<queueJob, canceller, api, reaper>>
  BY DEF Inv, Typed, HandlersOK, JobTypeOK, Finish, queueVars
<1>1. row[j].status # "ABSENT" /\ row[j] \in Row
  BY <1>0 DEF HandlerFacts
<1>2. /\ \A x \in Workers \ {w} : UNCHANGED handler[x]
      /\ handler'[w].at = "return" /\ handler'[w].job = j
  BY <1>0 DEF Finish, Goto, Handler
<1>3. \/ UNCHANGED row
      \/ /\ row'[j].status = h.outcome /\ row'[j].abort = row[j].abort
         /\ \A i \in Jobs \ {j} : row'[i] = row[i]
  <2> DEFINE error == IF h.outcome = "FAILED" THEN "worker" ELSE row[j].error
             new == [row[j] EXCEPT !.status = h.outcome, !.error = error]
  <2>1. new.status = h.outcome /\ new.abort = row[j].abort
    BY <1>1 DEF Row
  <2>2. UNCHANGED row \/ row' = [row EXCEPT ![j] = new]
    BY DEF Finish
  <2> HIDE DEF new
  <2> QED  BY <1>0, <2>1, <2>2
<1>4. \A i \in Jobs : Grows(i)
  BY <1>0, <1>1, <1>3 DEF Grows, Terminal
<1>5. RowExists' /\ OneDoomed'
  <2>1. \A i \in Jobs : row'[i].status = "ABSENT" <=> row[i].status = "ABSENT"
    BY <1>0, <1>1, <1>3 DEF Terminal
  <2> QED  BY <1>0, <2>1, WorkersDoomNothing DEF Inv, RowExists
<1>6. \A x \in Workers : HandlerFacts(x)'
  <2>1. HandlerFacts(w)'
    BY <1>0, <1>1, <1>2, <1>4 DEF HandlerFacts, Runs, Working, Grows
  <2> QED  BY <1>2, <1>4, <2>1, FactsKept
<1>7. \A x \in Workers : Runs(x)' => Runs(x) /\ handler'[x].job = handler[x].job
  BY <1>2 DEF Runs, Working
<1>8. CASE UNCHANGED results
  BY <1>4, <1>5, <1>6, <1>7, <1>8, FirstStays, Assembled
<1>9. CASE results' # results
  <2>1. results' = results \cup {j} /\ h.outcome = "SUCCEEDED"
    BY <1>9 DEF Finish
  <2>2. \A x \in Workers : Runs(x)' => x # w /\ handler[x].job # j
    BY <1>0, <1>2, <1>7, <2>1 DEF Inv, OneRuns, Runs, Working
  <2>3. \A x \in Workers : Runs(x)' => handler'[x].job \notin results'
    BY <1>7, <2>1, <2>2 DEF Inv, FirstResult
  <2>4. row[j].status # "QUEUED"
    BY <1>0, <2>1 DEF HandlerFacts, Runs
  <2>5. ASSUME NEW i \in results'
        PROVE  row'[i].status \notin {"ABSENT", "QUEUED"}
    <3>1. i \in Jobs /\ row[i].status \notin {"ABSENT", "QUEUED"}
      BY <1>0, <1>1, <2>1, <2>4 DEF Inv, Typed, FirstResult
    <3> QED  BY <1>4, <3>1 DEF Grows
  <2>6. FirstResult'
    BY <2>3, <2>5 DEF FirstResult
  <2> QED  BY <1>5, <1>6, <1>7, <2>6, Assembled
<1> QED  BY <1>8, <1>9

\* Deliver, Leave, Crash and LockExpires: the row is left alone and no handler
\* starts to work.
LEMMA QueueStepInv ==
  ASSUME Inv, Typed',
         \/ \E w \in Workers, j \in Jobs : Deliver(w, j)
         \/ \E w \in Workers : Leave(w) \/ Crash(w)
         \/ \E j \in Jobs : LockExpires(j)
  PROVE  Inv'
<1>0. handler \in [Workers -> Handler] /\ queueJob \in [Jobs -> QueueState]
  BY DEF Inv, Typed, HandlersOK, JobTypeOK
<1>1. UNCHANGED <<row, api, canceller, reaper, results>>
  BY DEF Deliver, Leave, Crash, LockExpires, workerVars, jobVars
<1>2. \A j \in Jobs : queueJob'[j] # "missing" => queueJob[j] # "missing"
  <2>1. ASSUME NEW w \in Workers, NEW j \in Jobs, Deliver(w, j)
        PROVE  \A i \in Jobs : queueJob'[i] # "missing" => queueJob[i] # "missing"
    BY <1>0, <2>1 DEF Deliver, Dequeue
  <2>2. ASSUME NEW w \in Workers, Leave(w) \/ Crash(w)
        PROVE  \A i \in Jobs : queueJob'[i] # "missing" => queueJob[i] # "missing"
    BY <1>0, <2>2 DEF Leave, Report, Crash, jobVars
  <2>3. ASSUME NEW j \in Jobs, LockExpires(j)
        PROVE  \A i \in Jobs : queueJob'[i] # "missing" => queueJob[i] # "missing"
    BY <1>0, <2>3 DEF LockExpires, Stall
  <2> QED  BY <2>1, <2>2, <2>3
<1>3. RowExists' /\ OneDoomed'
  BY <1>1, <1>2, WorkersDoomNothing DEF Inv, RowExists
<1>4. ASSUME NEW x \in Workers
      PROVE  \/ UNCHANGED handler[x]
             \/ handler'[x] = Idle
             \/ \E j \in Jobs : handler'[x] = Fresh("claim", j) /\ queueJob[j] = "waiting"
  BY <1>0, <1>4 DEF Deliver, Dequeue, Leave, Crash, LockExpires, workerVars
<1>5. ASSUME NEW x \in Workers
      PROVE  /\ HandlerFacts(x)'
             /\ Runs(x)' => Runs(x) /\ handler'[x].job = handler[x].job
  <2>1. CASE UNCHANGED handler[x]
    BY <1>1, <2>1, RowSame, FactsKept DEF Runs
  <2>2. CASE handler'[x] = Idle
    BY <2>2 DEF HandlerFacts, Idle, Fresh, Runs, Working
  <2>3. ASSUME NEW j \in Jobs, handler'[x] = Fresh("claim", j), queueJob[j] = "waiting"
        PROVE  HandlerFacts(x)' /\ ~Runs(x)'
    <3>1. row'[j].status # "ABSENT"
      BY <1>1, <2>3 DEF Inv, RowExists
    <3> QED  BY <2>3, <3>1 DEF HandlerFacts, Fresh, Runs, Working
  <2> QED  BY <1>4, <2>1, <2>2, <2>3
<1> QED  BY <1>1, <1>3, <1>5, RowSame, FirstStays, Assembled

\* Inv holds of every reachable state, whatever the constants are.
THEOREM Invariance == Spec => []Inv
<1>1. Init => Inv
  <2> SUFFICES ASSUME Init PROVE Inv
    OBVIOUS
  <2>1. /\ \A j \in Jobs : row[j] = NewRow("ABSENT")
        /\ \A w \in Workers : handler[w] = Idle
    BY DEF Init, JobInit
  <2>2. RowExists /\ OneDoomed
    BY <2>1 DEF Init, JobInit, RowExists, NewRow, OneDoomed, NoSweep
  <2>3. /\ \A w \in Workers : HandlerFacts(w) /\ ~Runs(w)
        /\ OneRuns /\ FirstResult
    BY <2>1 DEF Init, HandlerFacts, OneRuns, FirstResult, Runs, Idle, Fresh, Working
  <2> QED  BY <2>2, <2>3, TypedInit DEF Inv
<1>2. Inv /\ [Next]_vars => Inv'
  <2> SUFFICES ASSUME Inv, [Next]_vars PROVE Inv'
    OBVIOUS
  <2>0. Typed'
    BY TypedStep DEF Inv
  <2>1. CASE JobStep /\ UNCHANGED workerVars
    BY <2>0, <2>1, JobStepInv
  <2>2. ASSUME NEW w \in Workers, WorkerStep(w) PROVE Inv'
    BY <2>0, <2>2, LoopStepsInv, ClaimInv, FinishInv, QueueStepInv DEF WorkerStep, LoopSteps
  <2>3. CASE \/ \E w \in Workers, j \in Jobs : Deliver(w, j)
             \/ \E w \in Workers : Crash(w)
             \/ \E j \in Jobs : LockExpires(j)
    BY <2>0, <2>3, QueueStepInv
  <2>4. CASE UNCHANGED vars
    BY <2>0, <2>4 DEF Inv, vars, HandlerFacts, RowExists, OneDoomed, OneRuns, FirstResult,
          Runs
  <2> QED  BY <2>1, <2>2, <2>3, <2>4 DEF Next
<1> QED  BY <1>1, <1>2, PTL DEF Spec

\* At most one handler spends money on a job, for any number of worker slots: the
\* conditional claim is enough, though the terminal write has no condition
\* (processDesignJob).
THEOREM OneSpender == Spec => []SingleRunner
<1>1. Inv => SingleRunner
  BY DEF Inv, OneRuns, Runs, SingleRunner
<1> QED  BY <1>1, Invariance, PTL

-----------------------------------------------------------------------------
(* DesignJob implements JobLifecycle.                                      *)

\* A write of one row is an update of one abstract status.
LEMMA StatusUpdate ==
  ASSUME row \in [Jobs -> Row], NEW j \in Jobs, NEW new,
         row' = [row EXCEPT ![j] = new]
  PROVE  [i \in Jobs |-> row'[i].status] =
            [[i \in Jobs |-> row[i].status] EXCEPT ![j] = new.status]
OBVIOUS

\* The abstract step that the change of row j to `new` is, if no result is written.
LEMMA AbstractStep ==
  ASSUME row \in [Jobs -> Row], NEW j \in Jobs, NEW new,
         row' = [row EXCEPT ![j] = new], UNCHANGED results,
         \/ row[j].status = "QUEUED" /\ new.status = "RUNNING"
         \/ Moves(j, new.status)
         \/ /\ row[j].status \in Live \cup Terminal /\ new.status \in HeldOutcomes(j)
            /\ new.status \in {"FAILED", "CANCELED"}
  PROVE  [Lifecycle!Next]_(Lifecycle!lifecycleVars)
<1> DEFINE S == [i \in Jobs |-> row[i].status]
           T == [i \in Jobs |-> row'[i].status]
<1>1. T = [S EXCEPT ![j] = new.status] /\ S[j] = row[j].status
  BY StatusUpdate
<1>2. CASE row[j].status = "ABSENT" /\ new.status = "QUEUED"
  <2>1. Lifecycle!Submit(j)
    BY <1>1, <1>2 DEF Lifecycle!Submit
  <2> QED  BY <2>1 DEF Lifecycle!Next
<1>3. CASE row[j].status = "QUEUED" /\ new.status = "RUNNING"
  <2>1. Lifecycle!Start(j)
    BY <1>1, <1>3 DEF Lifecycle!Start
  <2> QED  BY <2>1 DEF Lifecycle!Next
<1>4. CASE /\ row[j].status \in Live \/ (row[j].status \in Terminal /\ "FAILED" \in HeldOutcomes(j))
           /\ new.status = "FAILED"
  <2>1. Lifecycle!Fail(j)
    BY <1>1, <1>4 DEF Lifecycle!Fail, Lifecycle!Late, Lifecycle!Settled, Live, Terminal
  <2> QED  BY <2>1 DEF Lifecycle!Next
<1>5. CASE /\ \/ row[j].status \in Live
              \/ /\ row[j].status \in Terminal
                 /\ "CANCELED" \in StaleCancels(j) \cup HeldOutcomes(j)
           /\ new.status = "CANCELED"
  <2>1. Lifecycle!Cancel(j)
    BY <1>1, <1>5 DEF Lifecycle!Cancel, Lifecycle!Late, Lifecycle!Settled, Live, Terminal
  <2> QED  BY <2>1 DEF Lifecycle!Next
<1>6. CASE new.status = row[j].status
  <2>1. T = S
    BY <1>1, <1>6
  <2> QED  BY <2>1 DEF Lifecycle!lifecycleVars
<1> QED  BY <1>2, <1>3, <1>4, <1>5, <1>6 DEF Moves

\* The terminal write, which has no condition, is a settlement of a job that was
\* running or settled already, and of a QUEUED one only as a failure or a cancel.
LEMMA FinishStep ==
  ASSUME Inv, NEW w \in Workers, Finish(w)
  PROVE  [Lifecycle!Next]_(Lifecycle!lifecycleVars)
<1>j. PICK j \in Jobs : j = handler[w].job
  BY DEF Inv, Typed, HandlersOK, Finish
<1> DEFINE h == handler[w]
           error == IF h.outcome = "FAILED" THEN "worker" ELSE row[j].error
           new == [row[j] EXCEPT !.status = h.outcome, !.error = error]
<1>0. /\ row \in [Jobs -> Row] /\ row[j] \in Row
      /\ h.outcome \in Terminal
      /\ row[j].status \in Live \cup Terminal
      /\ h.outcome = "SUCCEEDED" => row[j].status # "QUEUED" /\ j \notin results
      /\ h.outcome \in HeldOutcomes(j)
  BY <1>j DEF Inv, Typed, HandlersOK, HandlerFacts, FirstResult, Runs, HeldOutcomes,
        JobTypeOK, Finish, Row, Status
<1>1. new.status = h.outcome
  BY <1>0 DEF Row
<1>2. CASE UNCHANGED <<row, results>>
  BY <1>2 DEF Lifecycle!lifecycleVars
<1>3. CASE row' = [row EXCEPT ![j] = new] /\ h.outcome # "SUCCEEDED" /\ results' = results
  <2> HIDE DEF new
  <2> QED  BY <1>0, <1>1, <1>3, AbstractStep DEF Moves, Terminal
<1>4. CASE row' = [row EXCEPT ![j] = new] /\ h.outcome = "SUCCEEDED" /\ results' = results \cup {j}
  <2>1. [i \in Jobs |-> row'[i].status] =
           [[i \in Jobs |-> row[i].status] EXCEPT ![j] = "SUCCEEDED"]
    <3> HIDE DEF new
    <3> QED  BY <1>0, <1>1, <1>4, StatusUpdate
  <2>2. [i \in Jobs |-> IF i \in results' THEN {"result"} ELSE {}] =
           [[i \in Jobs |-> IF i \in results THEN {"result"} ELSE {}] EXCEPT ![j] = {"result"}]
    BY <1>0, <1>4
  <2>3. row[j].status = "RUNNING" \/ Lifecycle!Late(j, "SUCCEEDED")
    BY <1>0, <1>4 DEF Live, Terminal, Lifecycle!Late, Lifecycle!Settled
  <2>4. [i \in Jobs |-> IF i \in results THEN {"result"} ELSE {}][j] = {}
    BY <1>0, <1>4
  <2>5. Lifecycle!Succeed(j)
    BY <1>0, <2>1, <2>2, <2>3, <2>4 DEF Lifecycle!Succeed
  <2> QED  BY <2>5 DEF Lifecycle!Next
<1> QED  BY <1>j, <1>2, <1>3, <1>4 DEF Finish

\* The row goes through the life cycle a polling client expects: it is settled again
\* only by a cancel that read QUEUED or by a handler that has its outcome, never
\* becomes live again, and its result is stored once.
THEOREM ImplementsLifecycle == Spec => KeepsLifecycle
<1> DEFINE Abstract == [Lifecycle!Next]_(Lifecycle!lifecycleVars)
<1>1. Init => Lifecycle!Init
  BY DEF Init, JobInit, NewRow, Lifecycle!Init
<1>2. ASSUME Inv, [Next]_vars PROVE Abstract
  <2>0. row \in [Jobs -> Row] /\ \A j \in Jobs : row[j] \in Row
    BY <1>2 DEF Inv, Typed, JobTypeOK
  <2>1. CASE UNCHANGED <<row, results>>
    BY <2>1 DEF Lifecycle!lifecycleVars
  <2>2. CASE JobStep /\ UNCHANGED workerVars
    <3>1. ASSUME NEW j \in Jobs, NEW new \in Row,
                 row' = [row EXCEPT ![j] = new], Moves(j, new.status)
          PROVE  Abstract
      BY <2>0, <2>2, <3>1, AbstractStep DEF workerVars
    <3>2. \/ UNCHANGED row
          \/ \E j \in Jobs, new \in Row :
                row' = [row EXCEPT ![j] = new] /\ Moves(j, new.status)
      BY <1>2, <2>2, JobStepUpdate DEF Inv, Typed
    <3> QED  BY <2>1, <2>2, <3>1, <3>2 DEF workerVars
  <2>3. ASSUME NEW w \in Workers, Claim(w) \/ ClaimThrows(w) PROVE Abstract
    <3> DEFINE j == handler[w].job
               new == [row[j] EXCEPT !.status = "RUNNING", !.started = TRUE]
    <3>1. UNCHANGED results /\ j \in Jobs
      BY <1>2, <2>3 DEF Claim, ClaimThrows, Inv, Typed, HandlersOK
    <3>2. UNCHANGED row \/ (row[j].status = "QUEUED" /\ row' = [row EXCEPT ![j] = new])
      BY <2>3 DEF Claim, ClaimThrows, Claimed
    <3>3. new.status = "RUNNING"
      BY <2>0, <3>1 DEF Row
    <3> HIDE DEF new
    <3> QED  BY <2>0, <2>1, <3>1, <3>2, <3>3, AbstractStep
  <2>4. ASSUME NEW w \in Workers, Finish(w) PROVE Abstract
    BY <1>2, <2>4, FinishStep
  <2>5. ASSUME NEW w \in Workers, LoopSteps(w) \/ Leave(w) \/ Crash(w)
        PROVE  UNCHANGED <<row, results>>
    BY <2>5 DEF LoopSteps, Checkpoint, StartCall, CallEnds, LoopEnds, PostCheck, LoopOnly,
          Leave, Crash, jobVars
  <2>6. ASSUME NEW j \in Jobs, LockExpires(j) \/ \E w \in Workers : Deliver(w, j)
        PROVE  UNCHANGED <<row, results>>
    BY <2>6 DEF LockExpires, Deliver, workerVars
  <2>7. CASE UNCHANGED vars
    BY <2>1, <2>7 DEF vars
  <2> QED
    BY <1>2, <2>1, <2>2, <2>3, <2>4, <2>5, <2>6, <2>7 DEF Next, WorkerStep, LoopSteps
<1>3. Inv /\ [Next]_vars => Abstract
  BY <1>2
<1> QED  BY <1>1, <1>3, Invariance, PTL DEF Spec, KeepsLifecycle, Lifecycle!Spec

-----------------------------------------------------------------------------
(* II.  The loop and its candidates.                                       *)

\* A nonempty set of numbers has a least one.
LEMMA Least ==
  ASSUME NEW S \in SUBSET Nat, S # {}
  PROVE  \E i \in S : \A j \in S : i <= j
<1>1. \E x \in S : \A y \in S : ~(<<y, x>> \in OpToRel(<, Nat))
  BY NatLessThanWellFounded, WFMin
<1>2. \A x \in Nat, y \in Nat : y < x => <<y, x>> \in OpToRel(<, Nat)
  <2> TAKE x \in Nat, y \in Nat
  <2>1. HAVE y < x
  <2>2. <<y, x>> \in {ss \in Nat \X Nat : ss[1] < ss[2]}
    BY <2>1
  <2> QED  BY <2>2, ZenonT(60) DEF OpToRel
<1>3. PICK i \in S : \A y \in S : ~(<<y, i>> \in OpToRel(<, Nat))
  BY <1>1
<1>4. \A j \in S : ~(j < i)
  BY <1>2, <1>3
<1> QED  BY <1>4

LEMMA MaxOfTwo ==
  ASSUME NEW a \in Nat, NEW b \in Nat
  PROVE  Max({a, b}) \in {a, b} /\ Max({a, b}) >= a /\ Max({a, b}) >= b
<1>1. \E x \in {a, b} : \A y \in {a, b} : x >= y
  OBVIOUS
<1> QED  BY <1>1 DEF Max

LEMMA MinOfTwo ==
  ASSUME NEW a \in Nat, NEW b \in Nat
  PROVE  Min({a, b}) \in {a, b} /\ Min({a, b}) <= a /\ Min({a, b}) <= b
<1>1. \E x \in {a, b} : \A y \in {a, b} : x <= y
  OBVIOUS
<1> QED  BY <1>1 DEF Min

-----------------------------------------------------------------------------
(* The invariant of a design request.                                      *)

\* The records without the bound on the versions that TLC needs.
AnyCircuit == [version : Nat, draft : Drafts]

AnyAssertions == [version : Nat, ran : SUBSET Criterion, failed : SUBSET Criterion]

AnyLoop ==
    [mode : {"plain", "finalist", "degraded"}, at : {"start", "round", "fixing"},
     seeded : BOOLEAN, circuit : AnyCircuit, analysis : Analysis,
     criteria : SUBSET Criterion, rubric : SUBSET Criterion, round : Nat,
     assertions : AnyAssertions]

AnyResult ==
    [at : {"result"}, ok : BOOLEAN, verified : BOOLEAN, circuit : AnyCircuit,
     analysis : Analysis, criteria : SUBSET Criterion, rubric : SUBSET Criterion,
     assertions : AnyAssertions, rounds : Nat,
     yield : {"none", "unavailable", "graded"}, counted : Int]

AnyScreen == [at : {"queued", "running", "rejected", "screened"}, version : Nat,
              draft : Drafts, healthy : BOOLEAN, specsMet : BOOLEAN]

RequestTypes ==
    /\ options \in Options /\ asked \in Nat /\ llmCalls \in Nat
    /\ screens \in [1..options.n -> AnyScreen]
    /\ finalists \in Seq(1..options.n)

\* The criteria a loop works to: those it began with, and others only for
\* required quantities that those do not measure.
Kept(rubric, criteria) ==
    /\ rubric \subseteq criteria
    /\ Dimensions(criteria \ rubric) \subseteq options.required \ Dimensions(rubric)

\* What ClaimsAreBacked and RubricKept say of a result.
Backed(r) ==
    r.verified =>
        /\ r.circuit.draft.kind = "simulates"
        /\ r.assertions = [version |-> r.circuit.version, ran |-> r.criteria, failed |-> {}]
        /\ r.criteria # {} /\ Uncovered(r.criteria) = {}
        /\ Unmet(r.circuit.draft, r.analysis, r.criteria) = {}
        /\ Kept(r.rubric, r.criteria)

ResultsOK ==
    /\ finalized \in Seq(AnyResult)
    /\ \A i \in 1..Len(finalized) : Backed(finalized[i])
    /\ outcome.at = "result" => outcome \in AnyResult /\ Backed(outcome)

LoopOK(l) ==
    /\ l \in AnyLoop
    /\ Kept(l.rubric, l.criteria)
    /\ l.round \in 1..options.maxRounds
    /\ l.at = "start" => l.round = 1
    /\ l.at = "fixing" => l.round < options.maxRounds
    /\ l.seeded <=> l.mode # "plain"

\* What a loop has asked for so far.
Spent(l) ==
    IF l.at = "start" THEN 0 ELSE IF l.seeded THEN l.round - 1 ELSE l.round

Started == {i \in 1..options.n : screens[i].at # "queued"}

\* The orchestrator's count is the truth but for the loop under way.
SpendOK ==
    /\ asked <= MostAsked
    /\ loop = NoLoop \/ (LoopOK(loop) /\ outcome = Pending)
    /\ loop = NoLoop /\ outcome = Pending => asked = llmCalls
    /\ loop # NoLoop => asked = llmCalls + Spent(loop)
    /\ loop # NoLoop /\ loop.mode = "finalist" => options.n > 1 /\ llmCalls < Budget
    /\ loop # NoLoop /\ loop.mode = "degraded" => options.n > 1
    /\ loop # NoLoop /\ loop.mode # "finalist" => finalized = <<>>
    /\ loop # NoLoop \/ finalized # <<>> => options.n = 1 \/ ScreensDone
    /\ (loop # NoLoop /\ loop.mode # "plain") \/ finalized # <<>> => Survivors # {}
    /\ finalized = <<>> => llmCalls = Cardinality(Started)
    /\ options.n = 1 => Started = {} /\ finalized = <<>>
    /\ outcome.at = "result" /\ outcome.counted # -1 => outcome.counted = asked

LoopInv == RequestTypes /\ ResultsOK /\ SpendOK

\* Each circuit asked for took one to four billed calls, and the first of a single
\* request two more for each round of its tools.
BillsOK ==
    /\ billed \in Nat
    /\ asked <= billed
    /\ billed <= 4 * asked + 2 * options.tools
    /\ asked = 0 => billed = 0

-----------------------------------------------------------------------------
(* What the operators do.                                                  *)

LEMMA OptionTypes ==
  ASSUME options \in Options
  PROVE  /\ options.n \in 1..5 /\ options.k \in Nat /\ options.llmBudget \in Nat
         /\ options.maxRounds \in 1..4 /\ options.required \subseteq {"thd"}
         /\ options.tools \in Nat /\ (options.n > 1 => options.tools = 0)
         /\ Budget \in Nat /\ Budget >= options.n /\ MostAsked \in Nat
         /\ options.n = 1 => MostAsked = options.maxRounds
         /\ options.n > 1 => /\ MostAsked >= options.n + options.maxRounds
                             /\ MostAsked >= Budget + options.maxRounds - 2
<1>1. /\ options.n \in 1..5 /\ options.k \in Nat /\ options.llmBudget \in Nat
      /\ options.maxRounds \in 1..4 /\ options.required \subseteq {"thd"}
      /\ options.tools \in Nat /\ (options.n > 1 => options.tools = 0)
  BY DesignLoopAssumption
<1>2. Budget \in Nat /\ Budget >= options.n
  BY <1>1, MaxOfTwo DEF Budget
<1>3. options.n > 1 => options.n + options.maxRounds \in Nat /\ Budget + options.maxRounds - 2 \in Nat
  BY <1>1, <1>2
<1> QED  BY <1>1, <1>2, <1>3, MaxOfTwo DEF MostAsked

LEMMA StartedFinite ==
  ASSUME RequestTypes
  PROVE  /\ IsFiniteSet(Started) /\ Cardinality(Started) \in Nat
         /\ Cardinality(Started) <= options.n
<1>1. options.n \in Nat /\ 1 <= options.n
  BY OptionTypes DEF RequestTypes
<1>2. IsFiniteSet(1..options.n) /\ Cardinality(1..options.n) = options.n
  BY <1>1, FS_Interval
<1> QED  BY <1>2, FS_Subset, FS_CardinalityType DEF Started

\* A fix keeps the rubric.
LEMMA MergeKeeps ==
  ASSUME NEW rubric \in SUBSET Criterion, NEW original \in SUBSET Criterion,
         NEW returned \in SUBSET Criterion, Kept(rubric, original)
  PROVE  /\ mergeCriteria(original, returned) \in SUBSET Criterion
         /\ Kept(rubric, mergeCriteria(original, returned))
<1> DEFINE criteria == mergeCriteria(original, returned)
<1>1. original \subseteq criteria /\ criteria \subseteq Criterion
  BY DEF mergeCriteria
<1>2. ASSUME NEW c \in criteria \ rubric
      PROVE  Dimension(c) \in options.required \ Dimensions(rubric)
  <2>1. CASE c \in original
    BY <1>2, <2>1 DEF Kept, Dimensions
  <2>2. CASE c \notin original
    <3>1. Dimension(c) \in options.required \ Dimensions(original)
      BY <1>2, <2>2 DEF mergeCriteria, Uncovered
    <3>2. Dimensions(rubric) \subseteq Dimensions(original)
      BY DEF Kept, Dimensions
    <3> QED  BY <3>1, <3>2
  <2> QED  BY <2>1, <2>2
<1>3. Dimensions(criteria \ rubric) \subseteq options.required \ Dimensions(rubric)
  BY <1>2 DEF Dimensions
<1> QED  BY <1>1, <1>3 DEF Kept

LEMMA KeptItself ==
  ASSUME NEW criteria
  PROVE  Kept(criteria, criteria)
BY DEF Kept, Dimensions

LEMMA VerdictTypes ==
  ASSUME LoopOK(loop)
  PROVE  Verdicts \in AnyAssertions
<1>1. /\ loop.criteria \in SUBSET Criterion /\ loop.assertions \in AnyAssertions
      /\ loop.circuit.version \in Nat
  BY DEF LoopOK, AnyLoop, AnyCircuit
<1>2. Unmet(loop.circuit.draft, loop.analysis, loop.criteria) \in SUBSET Criterion
  BY <1>1 DEF Unmet
<1> QED  BY <1>1, <1>2 DEF Verdicts, AnyAssertions

LEMMA Overlays ==
  ASSUME NEW prev \in Analysis, NEW next \in Analysis, NEW criteria
  PROVE  preserveMetricOverlays(prev, next, criteria) \in Analysis
BY DEF preserveMetricOverlays, Analysis

-----------------------------------------------------------------------------
(* The kinds of steps of a loop.                                           *)

LEMMA SameRequest ==
  ASSUME UNCHANGED options
  PROVE  /\ \A l : LoopOK(l)' <=> (LoopOK(l))
         /\ \A r : Backed(r)' <=> (Backed(r))
         /\ MostAsked' = MostAsked /\ Budget' = Budget
BY DEF LoopOK, Kept, Dimensions, MostAsked, Budget, Backed, Uncovered

LEMMA ResultsStay ==
  ASSUME ResultsOK, UNCHANGED <<options, finalized>>,
         outcome' = outcome \/ outcome'.at # "result"
  PROVE  ResultsOK'
<1>1. \A r : Backed(r)' <=> (Backed(r))
  BY SameRequest
<1>2. \A i \in 1..Len(finalized) : Backed(finalized[i])
  BY DEF ResultsOK
<1> QED  BY <1>1, <1>2 DEF ResultsOK

\* A loop has room for what it may still ask for.
LEMMA Room ==
  ASSUME LoopInv, loop # NoLoop, NEW more \in Nat,
         more <= IF loop.mode = "plain" THEN options.maxRounds ELSE options.maxRounds - 1
  PROVE  llmCalls + more <= MostAsked
<1>1. /\ options.n \in 1..5 /\ options.maxRounds \in 1..4 /\ Budget \in Nat /\ MostAsked \in Nat
      /\ options.n = 1 => MostAsked = options.maxRounds
      /\ options.n > 1 => /\ MostAsked >= options.n + options.maxRounds
                          /\ MostAsked >= Budget + options.maxRounds - 2
      /\ llmCalls \in Nat
  BY OptionTypes DEF LoopInv, RequestTypes
<1>2. loop.mode \in {"plain", "finalist", "degraded"}
  BY DEF LoopInv, SpendOK, LoopOK, AnyLoop
<1>3. CASE loop.mode = "finalist"
  BY <1>1, <1>3 DEF LoopInv, SpendOK
<1>4. CASE loop.mode # "finalist" /\ options.n > 1
  <2>1. llmCalls = Cardinality(Started) /\ Cardinality(Started) <= options.n
    BY <1>4, StartedFinite DEF LoopInv, SpendOK
  <2> QED  BY <1>1, <1>4, <2>1
<1>5. CASE loop.mode = "plain" /\ options.n = 1
  <2>1. llmCalls = Cardinality({})
    BY <1>5 DEF LoopInv, SpendOK
  <2>2. llmCalls = 0
    BY <2>1, FS_EmptySet
  <2> QED  BY <1>1, <1>5, <2>2
<1>6. options.n = 1 => loop.mode = "plain"
  BY <1>1, <1>2 DEF LoopInv, SpendOK
<1> QED  BY <1>1, <1>2, <1>3, <1>4, <1>5, <1>6

LEMMA SpentTypes ==
  ASSUME LoopInv, NEW l, LoopOK(l), l.mode = loop.mode
  PROVE  /\ Spent(l) \in Nat
         /\ Spent(l) <= IF loop.mode = "plain" THEN options.maxRounds ELSE options.maxRounds - 1
<1>1. options.maxRounds \in 1..4
  BY OptionTypes DEF LoopInv, RequestTypes
<1> QED  BY <1>1 DEF LoopOK, Spent

\* The loop goes on.
LEMMA LoopMoves ==
  ASSUME LoopInv, loop # NoLoop, NEW l, LoopOK(l), l.mode = loop.mode, l # NoLoop,
         loop' = l, asked' = llmCalls + Spent(l), UNCHANGED <<orchestrator, outcome>>
  PROVE  LoopInv'
<1>1. UNCHANGED <<options, canceled, llmCalls, screens, finalists, finalized, outcome>>
  BY DEF orchestrator
<1>2. Spent(l) \in Nat /\ llmCalls \in Nat /\ llmCalls + Spent(l) <= MostAsked
  BY SpentTypes, Room DEF LoopInv, RequestTypes
<1>3. RequestTypes' /\ ResultsOK'
  BY <1>1, <1>2, ResultsStay DEF LoopInv, RequestTypes
<1>4. LoopOK(loop)' /\ MostAsked' = MostAsked /\ Budget' = Budget
  BY <1>1, SameRequest
<1>5. outcome = Pending
  BY DEF LoopInv, SpendOK
<1>6. Started' = Started /\ ScreensDone' = ScreensDone /\ Survivors' = Survivors /\ Spent(loop)' = Spent(l)
  BY <1>1 DEF Started, ScreensDone, Survivors, Spent
<1>7. SpendOK'
  BY <1>1, <1>2, <1>4, <1>5, <1>6 DEF LoopInv, SpendOK, Pending
<1> QED  BY <1>3, <1>7 DEF LoopInv

\* The loop ends with a result.
LEMMA LoopExits ==
  ASSUME LoopInv, loop # NoLoop, loop.at # "start",
         NEW r \in AnyResult, Backed(r), r.rounds = loop.round, r.counted = -1, Exit(r),
         UNCHANGED <<options, canceled, asked, screens, finalists>>
  PROVE  LoopInv'
<1>1. LoopOK(loop) /\ outcome = Pending /\ loop.mode \in {"plain", "finalist", "degraded"}
  BY DEF LoopInv, SpendOK, LoopOK, AnyLoop
<1>2. asked \in Nat /\ llmCalls \in Nat /\ MostAsked' = MostAsked /\ Budget' = Budget
  BY SameRequest DEF LoopInv, RequestTypes
<1>3. Started' = Started /\ ScreensDone' = ScreensDone /\ Survivors' = Survivors
  BY DEF Started, ScreensDone, Survivors
<1>4. r.at = "result" /\ (Backed(r))'
  BY SameRequest DEF AnyResult
<1>5. CASE loop.mode = "finalist"
  <2>1. /\ loop' = NoLoop /\ finalized' = Append(finalized, r)
        /\ llmCalls' = llmCalls + loop.round - 1 /\ outcome' = outcome
    BY <1>5 DEF Exit
  <2>2. llmCalls' = asked /\ options.n > 1
    BY <1>1, <1>2, <1>5, <2>1 DEF LoopInv, SpendOK, LoopOK, Spent
  <2>3. finalized \in Seq(AnyResult) /\ finalized' # <<>>
    BY <2>1 DEF LoopInv, ResultsOK
  <2>4. ResultsOK'
    <3>1. finalized' \in Seq(AnyResult) /\ Len(finalized') = Len(finalized) + 1
      BY <2>1, <2>3
    <3>2. ASSUME NEW i \in 1..Len(finalized')
          PROVE  Backed(finalized'[i])
      <4>1. finalized'[i] = IF i = Len(finalized) + 1 THEN r ELSE finalized[i]
        BY <2>1, <2>3, <3>1
      <4>2. i # Len(finalized) + 1 => i \in 1..Len(finalized)
        BY <2>3, <3>1
      <4> QED  BY <4>1, <4>2 DEF LoopInv, ResultsOK
    <3>3. \A i \in 1..Len(finalized') : Backed(finalized[i])'
      BY <3>2 DEF Backed, Kept, Dimensions, Uncovered
    <3>4. outcome'.at # "result"
      BY <1>1, <2>1 DEF Pending
    <3> QED  BY <3>1, <3>3, <3>4 DEF ResultsOK
  <2>5. RequestTypes'
    BY <1>2, <2>2 DEF LoopInv, RequestTypes
  <2>6. /\ Survivors # {} /\ (options.n = 1 \/ ScreensDone) /\ asked <= MostAsked
        /\ outcome'.at # "result"
    BY <1>1, <1>5, <2>1, ZenonT(60) DEF LoopInv, SpendOK, Pending
  <2>7. SpendOK'
    BY <1>2, <1>3, <2>1, <2>2, <2>3, <2>6 DEF SpendOK
  <2> QED  BY <2>4, <2>5, <2>7 DEF LoopInv
<1>6. CASE loop.mode # "finalist"
  <2>1. loop' = NoLoop /\ outcome' = r /\ UNCHANGED <<finalized, llmCalls>>
    BY <1>6 DEF Exit
  <2>2. finalized = <<>>
    BY <1>6 DEF LoopInv, SpendOK
  <2>3. ResultsOK'
    <3>1. Backed(outcome)'
      BY <2>1 DEF Backed, Kept, Dimensions, Uncovered
    <3> QED  BY <2>1, <2>2, <3>1 DEF LoopInv, ResultsOK
  <2>4. RequestTypes'
    BY <2>1 DEF LoopInv, RequestTypes
  <2>5. outcome' # Pending
    BY <1>4, <2>1 DEF Pending
  <2>6. SpendOK'
    BY <1>2, <1>3, <2>1, <2>2, <2>5 DEF LoopInv, SpendOK
  <2> QED  BY <2>3, <2>4, <2>6 DEF LoopInv
<1> QED  BY <1>5, <1>6

\* The loop ends without one, perhaps after a last request.
LEMMA LoopThrows ==
  ASSUME LoopInv, loop # NoLoop, NEW at \in {"aborted", "failed"}, Throw(at),
         UNCHANGED <<options, screens, finalists>>,
         \/ asked' = asked
         \/ asked' = asked + 1 /\ loop.at = "start" /\ ~loop.seeded
         \/ asked' = asked + 1 /\ loop.at # "start" /\ loop.round < options.maxRounds
  PROVE  LoopInv'
<1>1. loop' = NoLoop /\ outcome' = [at |-> at] /\ UNCHANGED <<finalized, llmCalls>>
  BY DEF Throw
<1>2. outcome'.at # "result" /\ outcome' # Pending
  BY <1>1 DEF Pending
<1>3. LoopOK(loop) /\ asked \in Nat /\ llmCalls \in Nat /\ MostAsked' = MostAsked /\ Budget' = Budget
      /\ asked = llmCalls + Spent(loop) /\ asked <= MostAsked /\ options.maxRounds \in 1..4
  BY SameRequest, OptionTypes DEF LoopInv, RequestTypes, SpendOK
<1>4. asked' \in Nat /\ asked' <= MostAsked
  <2>1. CASE asked' = asked
    BY <1>3, <2>1
  <2>2. CASE asked' = asked + 1
    <3>1. PICK more \in Nat : more = Spent(loop) + 1
      BY SpentTypes, <1>3
    <3>2. asked' = llmCalls + more
      BY <1>3, <2>2, <3>1, SpentTypes
    <3>3. more <= IF loop.mode = "plain" THEN options.maxRounds ELSE options.maxRounds - 1
      BY <1>3, <2>2, <3>1 DEF LoopOK, Spent
    <3> QED  BY <1>3, <3>1, <3>2, <3>3, Room
  <2> QED  BY <2>1, <2>2
<1>5. RequestTypes' /\ ResultsOK'
  BY <1>1, <1>2, <1>4, ResultsStay DEF LoopInv, RequestTypes
<1>6. Started' = Started /\ ScreensDone' = ScreensDone /\ Survivors' = Survivors
  BY DEF Started, ScreensDone, Survivors
<1>7. SpendOK'
  BY <1>1, <1>2, <1>3, <1>4, <1>6 DEF LoopInv, SpendOK
<1> QED  BY <1>5, <1>7 DEF LoopInv


-----------------------------------------------------------------------------
(* The steps of a loop.                                                    *)

\* What every step of a loop that is not at its start may use.
LEMMA LoopFacts ==
  ASSUME LoopInv, loop # NoLoop
  PROVE  /\ LoopOK(loop) /\ outcome = Pending /\ options.maxRounds \in 1..4
         /\ options.required \subseteq {"thd"} /\ asked \in Nat /\ llmCalls \in Nat
         /\ asked = llmCalls + Spent(loop)
         /\ loop.mode \in {"plain", "finalist", "degraded"}
         /\ loop.at \in {"start", "round", "fixing"}
         /\ loop.circuit \in AnyCircuit /\ loop.analysis \in Analysis
         /\ loop.criteria \in SUBSET Criterion /\ loop.rubric \in SUBSET Criterion
         /\ loop.round \in Nat /\ loop.round \in 1..options.maxRounds
         /\ loop.assertions \in AnyAssertions
         /\ loop.seeded \in BOOLEAN
<1>1. LoopOK(loop) /\ outcome = Pending /\ options.maxRounds \in 1..4
      /\ options.required \subseteq {"thd"} /\ asked \in Nat /\ llmCalls \in Nat
      /\ asked = llmCalls + Spent(loop)
  BY OptionTypes DEF LoopInv, RequestTypes, SpendOK
<1>2. loop \in AnyLoop /\ loop.round \in 1..options.maxRounds
  BY <1>1 DEF LoopOK
<1> QED  BY <1>1, <1>2 DEF AnyLoop

LEMMA DraftTypes ==
  ASSUME NEW d \in Drafts
  PROVE  /\ d.criteria \in SUBSET Criterion /\ d.analysis \in Analysis
         /\ d.meets \in SUBSET Criterion
BY DesignLoopAssumption DEF Draft

LEMMA AtNotNone ==
  ASSUME loop.at \in {"start", "round", "fixing"}
  PROVE  loop # NoLoop
BY DEF NoLoop

\* A result of a loop that ends without success is backed: it claims nothing.
LEMMA Unmets ==
  ASSUME LoopInv, loop # NoLoop, NEW criteria \in SUBSET Criterion,
         NEW assertions \in AnyAssertions
  PROVE  LET r == LoopResult(FALSE, criteria, assertions, loop.round, "none")
         IN  /\ r \in AnyResult /\ Backed(r)
             /\ r.rounds = loop.round /\ r.counted = -1
<1> DEFINE r == LoopResult(FALSE, criteria, assertions, loop.round, "none")
<1>1. r \in AnyResult
  BY LoopFacts DEF LoopResult, AnyResult
<1>2. r.rounds = loop.round /\ r.counted = -1 /\ ~r.verified
  BY DEF LoopResult
<1>3. Backed(r)
  <2> HIDE DEF r
  <2> QED  BY <1>2 DEF Backed
<1> QED  BY <1>1, <1>2, <1>3

LEMMA EndUnmetStep ==
  ASSUME LoopInv, loop # NoLoop, loop.at # "start", NEW assertions \in AnyAssertions,
         EndUnmet(assertions)
  PROVE  LoopInv'
<1> DEFINE r == LoopResult(FALSE, loop.criteria, assertions, loop.round, "none")
<1>1. r \in AnyResult /\ Backed(r) /\ r.rounds = loop.round /\ r.counted = -1
  BY Unmets, LoopFacts
<1>2. Exit(r) /\ UNCHANGED <<options, canceled, asked, screens, finalists>>
  BY DEF EndUnmet
<1> HIDE DEF r
<1> QED  BY <1>1, <1>2, LoopExits

\* The loop waits for a fix.
LEMMA AsksForFix ==
  ASSUME LoopInv, loop.at = "round", ~LastRound, NEW a \in AnyAssertions,
         loop' = [loop EXCEPT !.at = "fixing", !.assertions = a],
         UNCHANGED <<orchestrator, asked, outcome>>
  PROVE  LoopInv'
<1>1. loop # NoLoop
  BY AtNotNone
<1>2. LoopOK(loop) /\ loop \in AnyLoop /\ loop.round < options.maxRounds
  BY <1>1, LoopFacts DEF LastRound, LoopOK
<1> DEFINE l == [loop EXCEPT !.at = "fixing", !.assertions = a]
<1>3. /\ l.at = "fixing" /\ l.mode = loop.mode /\ l.rubric = loop.rubric
      /\ l.criteria = loop.criteria /\ l.round = loop.round /\ l.seeded = loop.seeded
  BY <1>2, ZenonT(60) DEF AnyLoop
<1>4. l \in AnyLoop
  BY <1>2, ZenonT(60) DEF AnyLoop
<1>5. loop' = l
  OBVIOUS
<1> HIDE DEF l
<1>6. LoopOK(l) /\ l # NoLoop /\ Spent(l) = Spent(loop)
  BY <1>2, <1>3, <1>4 DEF LoopOK, NoLoop, Spent
<1>7. asked' = llmCalls + Spent(l)
  BY <1>1, <1>6, LoopFacts
<1> QED  BY <1>1, <1>3, <1>5, <1>6, <1>7, LoopMoves

LEMMA StartSeededStep ==
  ASSUME LoopInv, StartSeeded
  PROVE  LoopInv'
<1>1. loop # NoLoop /\ loop.at = "start" /\ loop.seeded
  BY AtNotNone DEF StartSeeded
<1>2. LoopOK(loop) /\ loop \in AnyLoop /\ loop.round = 1
  BY <1>1, LoopFacts DEF LoopOK
<1> DEFINE l == [loop EXCEPT !.at = "round"]
<1>3. /\ l.at = "round" /\ l.mode = loop.mode /\ l.rubric = loop.rubric
      /\ l.criteria = loop.criteria /\ l.round = loop.round /\ l.seeded = loop.seeded
  BY <1>2, ZenonT(60) DEF AnyLoop
<1>4. l \in AnyLoop
  BY <1>2, ZenonT(60) DEF AnyLoop
<1>5. loop' = l /\ UNCHANGED <<orchestrator, asked, outcome>>
  BY DEF StartSeeded
<1> HIDE DEF l
<1>6. LoopOK(l) /\ l # NoLoop /\ Spent(l) = 0 /\ Spent(loop) = 0
  BY <1>1, <1>2, <1>3, <1>4 DEF LoopOK, NoLoop, Spent
<1>7. asked' = llmCalls + Spent(l)
  BY <1>1, <1>5, <1>6, LoopFacts
<1> QED  BY <1>1, <1>3, <1>5, <1>6, <1>7, LoopMoves

LEMMA StartGenerateStep ==
  ASSUME LoopInv, NEW d \in Drafts, StartGenerate(d)
  PROVE  LoopInv'
<1>1. loop # NoLoop /\ loop.at = "start" /\ ~loop.seeded /\ asked' = asked + 1
  BY AtNotNone DEF StartGenerate, Ask
<1>2. LoopOK(loop) /\ loop \in AnyLoop /\ loop.round = 1 /\ asked' \in Nat
  BY <1>1, LoopFacts DEF LoopOK
<1> DEFINE l == [loop EXCEPT !.at = "round", !.circuit = [version |-> asked', draft |-> d],
                             !.analysis = d.analysis, !.criteria = d.criteria,
                             !.rubric = d.criteria]
<1>3. /\ l.at = "round" /\ l.mode = loop.mode /\ l.rubric = d.criteria
      /\ l.criteria = d.criteria /\ l.round = loop.round /\ l.seeded = loop.seeded
  BY <1>2, ZenonT(60) DEF AnyLoop
<1>4. l \in AnyLoop
  <2>1. [version |-> asked', draft |-> d] \in AnyCircuit
    BY <1>2 DEF AnyCircuit
  <2> QED  BY <1>2, <2>1, DraftTypes, ZenonT(60) DEF AnyLoop
<1>5. loop' = l /\ UNCHANGED <<orchestrator, outcome>>
  BY DEF StartGenerate
<1> HIDE DEF l
<1>6. LoopOK(l) /\ l # NoLoop /\ Spent(l) = 1 /\ Spent(loop) = 0
  <2>1. Kept(l.rubric, l.criteria)
    BY <1>3, KeptItself
  <2> QED  BY <1>1, <1>2, <1>3, <1>4, <2>1 DEF LoopOK, NoLoop, Spent
<1>7. asked' = llmCalls + Spent(l)
  BY <1>1, <1>6, LoopFacts
<1> QED  BY <1>1, <1>3, <1>5, <1>6, <1>7, LoopMoves

LEMMA ErcGateStep ==
  ASSUME LoopInv, ErcGate
  PROVE  LoopInv'
<1>1. loop # NoLoop /\ loop.at = "round" /\ loop.at # "start" /\ loop.assertions \in AnyAssertions
  <2>1. loop.at = "round"
    BY DEF ErcGate
  <2> QED  BY <2>1, AtNotNone, LoopFacts
<1>2. CASE LastRound
  BY <1>1, <1>2, EndUnmetStep DEF ErcGate
<1>3. CASE ~LastRound
  <2>1. loop' = [loop EXCEPT !.at = "fixing"] /\ UNCHANGED <<orchestrator, asked, outcome>>
    BY <1>3 DEF ErcGate
  <2>2. loop \in AnyLoop
    BY <1>1, LoopFacts DEF LoopOK
  <2>3. [loop EXCEPT !.at = "fixing"] = [loop EXCEPT !.at = "fixing", !.assertions = loop.assertions]
    BY <2>2, ZenonT(60) DEF AnyLoop
  <2> QED  BY <1>1, <1>3, <2>1, <2>3, AsksForFix
<1> QED  BY <1>2, <1>3

LEMMA UnhealthyStep ==
  ASSUME LoopInv, Unhealthy
  PROVE  LoopInv'
<1>1. loop # NoLoop /\ loop.at = "round" /\ loop.at # "start" /\ loop.assertions \in AnyAssertions
  <2>1. loop.at = "round"
    BY DEF Unhealthy, Simulable
  <2> QED  BY <2>1, AtNotNone, LoopFacts
<1>2. CASE LastRound
  BY <1>1, <1>2, EndUnmetStep DEF Unhealthy
<1>3. CASE ~LastRound
  <2>1. loop' = [loop EXCEPT !.at = "fixing"] /\ UNCHANGED <<orchestrator, asked, outcome>>
    BY <1>3 DEF Unhealthy
  <2>2. loop \in AnyLoop
    BY <1>1, LoopFacts DEF LoopOK
  <2>3. [loop EXCEPT !.at = "fixing"] = [loop EXCEPT !.at = "fixing", !.assertions = loop.assertions]
    BY <2>2, ZenonT(60) DEF AnyLoop
  <2> QED  BY <1>1, <1>3, <2>1, <2>3, AsksForFix
<1> QED  BY <1>2, <1>3

LEMMA MissesStep ==
  ASSUME LoopInv, Misses
  PROVE  LoopInv'
<1>1. loop # NoLoop /\ loop.at = "round" /\ loop.at # "start"
  <2>1. loop.at = "round"
    BY DEF Misses, Simulable
  <2> QED  BY <2>1, AtNotNone
<1>2. Verdicts \in AnyAssertions
  BY <1>1, LoopFacts, VerdictTypes
<1>3. CASE LastRound
  BY <1>1, <1>2, <1>3, EndUnmetStep DEF Misses
<1>4. CASE ~LastRound
  <2>1. /\ loop' = [loop EXCEPT !.at = "fixing", !.assertions = Verdicts]
        /\ UNCHANGED <<orchestrator, asked, outcome>>
    BY <1>4 DEF Misses
  <2> QED  BY <1>1, <1>2, <1>4, <2>1, AsksForFix
<1> QED  BY <1>3, <1>4

LEMMA NetlistGateStep ==
  ASSUME LoopInv, NEW d \in Drafts, NetlistGate(d)
  PROVE  LoopInv'
<1>1. /\ loop # NoLoop /\ loop.at = "round" /\ loop.at # "start"
      /\ loop.assertions \in AnyAssertions
  <2>1. loop.at = "round"
    BY DEF NetlistGate
  <2> QED  BY <2>1, AtNotNone, LoopFacts
<1>2. CASE LastRound
  BY <1>1, <1>2, EndUnmetStep DEF NetlistGate
<1>3. CASE ~LastRound
  <2>1. /\ asked' = asked + 1 /\ UNCHANGED <<orchestrator, outcome>>
        /\ loop' = [loop EXCEPT !.circuit = [version |-> asked', draft |-> d],
                                !.analysis = d.analysis, !.round = @ + 1]
    BY <1>3 DEF NetlistGate, Ask
  <2>2. /\ LoopOK(loop) /\ loop \in AnyLoop /\ loop.round < options.maxRounds
        /\ loop.round \in Nat /\ options.maxRounds \in Nat
        /\ asked \in Nat /\ asked' \in Nat /\ llmCalls \in Nat
    BY <1>1, <1>3, <2>1, LoopFacts DEF LastRound, LoopOK
  <2> DEFINE l == [loop EXCEPT !.circuit = [version |-> asked', draft |-> d],
                               !.analysis = d.analysis, !.round = @ + 1]
  <2>3. /\ l.at = loop.at /\ l.mode = loop.mode /\ l.rubric = loop.rubric
        /\ l.criteria = loop.criteria /\ l.round = loop.round + 1 /\ l.seeded = loop.seeded
    BY <2>2, ZenonT(60) DEF AnyLoop
  <2>4. l \in AnyLoop
    <3>1. [version |-> asked', draft |-> d] \in AnyCircuit
      BY <2>2 DEF AnyCircuit
    <3>2. loop.round + 1 \in Nat
      BY <2>2
    <3> QED  BY <2>2, <3>1, <3>2, DraftTypes, ZenonT(60) DEF AnyLoop
  <2>5. loop' = l
    BY <2>1
  <2> HIDE DEF l
  <2>6. LoopOK(l) /\ l # NoLoop /\ Spent(l) = Spent(loop) + 1 /\ Spent(loop) \in Nat
    BY <1>1, <2>2, <2>3, <2>4 DEF LoopOK, NoLoop, Spent
  <2>7. asked' = llmCalls + Spent(l)
    BY <1>1, <2>1, <2>2, <2>6, LoopFacts
  <2> QED  BY <1>1, <2>1, <2>3, <2>5, <2>6, <2>7, LoopMoves
<1> QED  BY <1>2, <1>3

LEMMA FixStep ==
  ASSUME LoopInv, NEW d \in Drafts, Fix(d)
  PROVE  LoopInv'
<1>1. loop # NoLoop /\ loop.at = "fixing" /\ asked' = asked + 1
  <2>1. loop.at = "fixing"
    BY DEF Fix
  <2> QED  BY <2>1, AtNotNone DEF Fix, Ask
<1>2. /\ LoopOK(loop) /\ loop \in AnyLoop /\ loop.round < options.maxRounds
      /\ loop.round \in Nat /\ options.maxRounds \in Nat
      /\ asked \in Nat /\ asked' \in Nat /\ llmCalls \in Nat
  BY <1>1, LoopFacts DEF LoopOK
<1> DEFINE criteria == mergeCriteria(loop.criteria, d.criteria)
           analysis == preserveMetricOverlays(loop.analysis, d.analysis, criteria)
           l == [loop EXCEPT !.at = "round", !.round = @ + 1, !.criteria = criteria,
                             !.circuit = [version |-> asked', draft |-> d],
                             !.analysis = analysis]
<1>3. /\ criteria \in SUBSET Criterion /\ Kept(loop.rubric, criteria)
      /\ analysis \in Analysis
  BY <1>1, <1>2, LoopFacts, DraftTypes, MergeKeeps, Overlays DEF LoopOK
<1>4. loop' = l /\ UNCHANGED <<orchestrator, outcome>>
  BY DEF Fix
<1> HIDE DEF criteria, analysis
<1>5. /\ l.at = "round" /\ l.mode = loop.mode /\ l.rubric = loop.rubric
      /\ l.criteria = criteria /\ l.round = loop.round + 1 /\ l.seeded = loop.seeded
  BY <1>2, ZenonT(60) DEF AnyLoop
<1>6. l \in AnyLoop
  <2>1. [version |-> asked', draft |-> d] \in AnyCircuit
    BY <1>2 DEF AnyCircuit
  <2>2. loop.round + 1 \in Nat
    BY <1>2
  <2> QED  BY <1>2, <1>3, <2>1, <2>2, ZenonT(60) DEF AnyLoop
<1> HIDE DEF l
<1>7. LoopOK(l) /\ l # NoLoop /\ Spent(l) = Spent(loop) + 1 /\ Spent(loop) \in Nat
  BY <1>1, <1>2, <1>3, <1>5, <1>6 DEF LoopOK, NoLoop, Spent
<1>8. asked' = llmCalls + Spent(l)
  BY <1>1, <1>2, <1>7, LoopFacts
<1> QED  BY <1>1, <1>4, <1>5, <1>7, <1>8, LoopMoves

LEMMA InconclusiveStep ==
  ASSUME LoopInv, Inconclusive
  PROVE  LoopInv'
<1>1. loop # NoLoop /\ loop.at # "start"
  <2>1. loop.at = "round"
    BY DEF Inconclusive, Simulable
  <2> QED  BY <2>1, AtNotNone
<1> DEFINE r == LoopResult(FALSE, {}, NoAssertions, loop.round, "none")
<1>2. NoAssertions \in AnyAssertions
  BY DEF NoAssertions, AnyAssertions
<1>3. r \in AnyResult /\ Backed(r) /\ r.rounds = loop.round /\ r.counted = -1
  BY <1>1, <1>2, Unmets
<1>4. Exit(r) /\ UNCHANGED <<options, canceled, asked, screens, finalists>>
  BY DEF Inconclusive
<1> HIDE DEF r
<1> QED  BY <1>1, <1>3, <1>4, LoopExits

\* A loop succeeds on verdicts of the circuit it returns.
LEMMA SucceedsStep ==
  ASSUME LoopInv, Succeeds
  PROVE  LoopInv'
<1>1. /\ loop # NoLoop /\ loop.at # "start" /\ loop.circuit.draft.kind = "simulates"
      /\ Verdicts.failed = {} /\ Uncovered(loop.criteria) = {}
  <2>1. loop.at = "round"
    BY DEF Succeeds, Simulable
  <2> QED  BY <2>1, AtNotNone DEF Succeeds
<1>2. PICK y \in Yields(loop.mode = "plain", loop.criteria) :
        Exit(LoopResult(TRUE, loop.criteria, Verdicts, loop.round, y))
  BY DEF Succeeds
<1>3. y \in {"none", "unavailable", "graded"}
  BY <1>2 DEF Yields
<1> DEFINE r == LoopResult(TRUE, loop.criteria, Verdicts, loop.round, y)
<1>4. Verdicts \in AnyAssertions
  BY <1>1, LoopFacts, VerdictTypes
<1>5. r \in AnyResult
  BY <1>1, <1>3, <1>4, LoopFacts DEF LoopResult, AnyResult
<1>6. /\ r.rounds = loop.round /\ r.counted = -1 /\ r.circuit = loop.circuit
      /\ (r.verified <=> loop.criteria # {})
      /\ r.criteria = loop.criteria /\ r.rubric = loop.rubric /\ r.analysis = loop.analysis
      /\ r.assertions = Verdicts 
  BY DEF LoopResult
<1>7. Kept(loop.rubric, loop.criteria)
  BY <1>1, LoopFacts DEF LoopOK
<1>8. loop.criteria # {} =>
        /\ Unmet(loop.circuit.draft, loop.analysis, loop.criteria) = {}
        /\ Verdicts = [version |-> loop.circuit.version, ran |-> loop.criteria, failed |-> {}]
  BY <1>1 DEF Verdicts
<1> HIDE DEF r
<1>9. Backed(r)
  <2>1. ASSUME r.verified
        PROVE  /\ r.assertions = [version |-> r.circuit.version, ran |-> r.criteria, failed |-> {}]
               /\ Unmet(r.circuit.draft, r.analysis, r.criteria) = {} /\ r.criteria # {}
    <3>1. loop.criteria # {}
      BY <1>6, <2>1
    <3> QED  BY <1>6, <1>8, <3>1
  <2>2. /\ r.circuit.draft.kind = "simulates" /\ Uncovered(r.criteria) = {}
        /\ Kept(r.rubric, r.criteria)
    BY <1>1, <1>6, <1>7
  <2> QED  BY <2>1, <2>2, ZenonT(60) DEF Backed
<1>10. UNCHANGED <<options, canceled, asked, screens, finalists>>
  BY DEF Succeeds
<1>11. Exit(r)
  BY <1>2 DEF r
<1> QED  BY <1>1, <1>5, <1>6, <1>9, <1>10, <1>11, LoopExits

LEMMA ThrowSteps ==
  ASSUME LoopInv, Abort \/ ModelFails \/ NetlistFixFails
  PROVE  LoopInv'
<1>1. CASE Abort
  BY <1>1, LoopThrows DEF Abort
<1>2. CASE ModelFails
  <2>1. /\ Throw("failed") /\ asked' = asked + 1 /\ UNCHANGED <<options, screens, finalists>>
        /\ (loop.at = "start" /\ ~loop.seeded) \/ loop.at = "fixing"
    BY <1>2 DEF ModelFails, Ask
  <2>2. loop # NoLoop
    BY <2>1, AtNotNone
  <2>3. loop.at = "fixing" => loop.at # "start" /\ loop.round < options.maxRounds
    BY <2>2, LoopFacts DEF LoopOK
  <2> QED  BY <2>1, <2>2, <2>3, LoopThrows
<1>3. CASE NetlistFixFails
  <2>1. /\ Throw("failed") /\ asked' = asked + 1 /\ UNCHANGED <<options, screens, finalists>>
        /\ loop.at = "round" /\ ~LastRound
    BY <1>3 DEF NetlistFixFails, Ask
  <2>2. loop # NoLoop /\ loop.at # "start"
    BY <2>1, AtNotNone
  <2>3. loop.round < options.maxRounds
    BY <2>1, <2>2, LoopFacts DEF LastRound
  <2> QED  BY <2>1, <2>2, <2>3, LoopThrows
<1> QED  BY <1>1, <1>2, <1>3

LEMMA LoopStepKeeps ==
  ASSUME LoopInv, LoopStep
  PROVE  LoopInv'
BY ThrowSteps, StartSeededStep, ErcGateStep, InconclusiveStep, UnhealthyStep, SucceedsStep,
   MissesStep, StartGenerateStep, NetlistGateStep, FixStep DEF LoopStep

-----------------------------------------------------------------------------
(* The steps of the fan-out.                                               *)

\* The winner is one of the results collected.
LEMMA Winner ==
  ASSUME NEW T, NEW found \in Seq(T), found # <<>>
  PROVE  \E i \in 1..Len(found) : pickWinner(found) = found[i]
<1>1. DOMAIN found = 1..Len(found) /\ 1 \in 1..Len(found)
  OBVIOUS
<1>2. ASSUME NEW S \in SUBSET (1..Len(found)), S # {}
      PROVE  \E i \in S : \A j \in 1..(i - 1) : j \notin S
  <2>1. PICK i \in S : \A j \in S : i <= j
    BY <1>2, Least
  <2> QED  BY <2>1
<1>3. CASE \E i \in DOMAIN found : found[i].ok /\ found[i].verified
  <2> DEFINE S == {i \in 1..Len(found) : found[i].ok /\ found[i].verified}
             w == CHOOSE i \in DOMAIN found :
                    /\ found[i].ok /\ found[i].verified
                    /\ \A j \in 1..(i - 1) : ~(found[j].ok /\ found[j].verified)
  <2>1. PICK i \in S : \A j \in 1..(i - 1) : j \notin S
    BY <1>1, <1>2, <1>3
  <2>2. i \in 1..Len(found) /\ (\A j \in 1..(i - 1) : j \in 1..Len(found))
    BY <2>1
  <2>3. w \in 1..Len(found)
    BY <1>1, <2>1, <2>2
  <2>4. pickWinner(found) = found[w]
    BY <1>3 DEF pickWinner
  <2> QED  BY <2>3, <2>4
<1>4. CASE \A i \in DOMAIN found : ~found[i].ok
  BY <1>1, <1>4 DEF pickWinner
<1>5. CASE /\ ~\E i \in DOMAIN found : found[i].ok /\ found[i].verified
           /\ \E i \in DOMAIN found : found[i].ok
  <2> DEFINE S == {i \in 1..Len(found) : found[i].ok}
             w == CHOOSE i \in DOMAIN found :
                    found[i].ok /\ \A j \in 1..(i - 1) : ~found[j].ok
  <2>1. PICK i \in S : \A j \in 1..(i - 1) : j \notin S
    BY <1>1, <1>2, <1>5
  <2>2. i \in 1..Len(found) /\ (\A j \in 1..(i - 1) : j \in 1..Len(found))
    BY <2>1
  <2>3. w \in 1..Len(found)
    BY <1>1, <2>1, <2>2
  <2>4. pickWinner(found) = found[w]
    BY <1>5 DEF pickWinner
  <2> QED  BY <2>3, <2>4
<1> QED  BY <1>3, <1>4, <1>5

\* The finalists are survivors, and there is at least one.
LEMMA Finalists ==
  ASSUME NEW n \in Nat, NEW S \in SUBSET (1..n), S # {}, NEW k \in Nat,
         NEW s \in selectFinalists(S, k)
  PROVE  s \in Seq(1..n) /\ s # <<>> /\ Head(s) \in S /\ Tail(s) \in Seq(1..n)
<1> DEFINE topology(i) == screens[i].draft.topology
           best == {R \in SUBSET S :
                      \A i \in S : \E j \in R :
                         /\ topology(i) = topology(j) /\ Rank(j) <= Rank(i)
                         /\ \A l \in R \ {j} : topology(l) # topology(i)}
           ranked(R) == {q \in SetToSeqs(R) :
                           \A a, b \in DOMAIN q : a < b => Rank(q[a]) <= Rank(q[b])}
<1>1. PICK t \in UNION {ranked(R) : R \in best} :
        s = SubSeq(t, 1, Min({Len(t), Max({1, k})}))
  BY ZenonT(60) DEF selectFinalists
<1>2. PICK R \in best : t \in ranked(R)
  OBVIOUS
<1>a. R \in SUBSET S /\ R # {} /\ t \in SetToSeqs(R)
  BY <1>2
<1> HIDE DEF best, ranked, topology
<1>3. IsFiniteSet(R) /\ R # {} /\ Cardinality(R) \in Nat /\ Cardinality(R) # 0
  <2>1. IsFiniteSet(1..n)
    BY FS_Interval
  <2>2. IsFiniteSet(R)
    BY <1>a, <2>1, FS_Subset
  <2>3. R # {}
    BY <1>a
  <2> HIDE <1>1, <1>2, <1>a
  <2> QED  BY <2>2, <2>3, FS_CardinalityType, FS_EmptySet
<1>4. t \in [1..Cardinality(R) -> R]
  BY <1>a DEF SetToSeqs
<1>5. t \in Seq(R) /\ Len(t) = Cardinality(R)
  BY <1>3, <1>4
<1>6. /\ Min({Len(t), Max({1, k})}) \in Nat /\ Min({Len(t), Max({1, k})}) >= 1
      /\ Min({Len(t), Max({1, k})}) <= Len(t)
  <2>1. Max({1, k}) \in Nat /\ Max({1, k}) >= 1
    BY MaxOfTwo
  <2> HIDE <1>1, <1>2
  <2>2. Len(t) \in Nat /\ Len(t) >= 1
    BY <1>3, <1>5
  <2>3. ASSUME NEW a \in Nat, NEW b \in Nat, a >= 1, b >= 1
        PROVE  Min({a, b}) \in Nat /\ Min({a, b}) >= 1 /\ Min({a, b}) <= a
    BY <2>3, MinOfTwo
  <2> QED  BY <2>1, <2>2, <2>3
<1>7. PICK m \in Nat : m = Min({Len(t), Max({1, k})})
  BY <1>6
<1>8. m >= 1 /\ m <= Len(t) /\ s = SubSeq(t, 1, m)
  BY <1>1, <1>6, <1>7
<1>9. s \in Seq(R) /\ Len(s) = m
  BY <1>5, <1>8, SubSeqProperties
<1>10. s # <<>>
  BY <1>8, <1>9, EmptySeq
<1>11. Head(s) \in R /\ Tail(s) \in Seq(R)
  BY <1>9, <1>10, HeadTailProperties
<1>12. R \subseteq 1..n
  BY <1>a
<1>13. s \in Seq(1..n) /\ Tail(s) \in Seq(1..n)
  BY <1>9, <1>11, <1>12, SeqMonotonic
<1> QED  BY <1>a, <1>10, <1>11, <1>13

LEMMA UnseededTypes ==
  ASSUME options.maxRounds \in 1..4
  PROVE  /\ LoopOK(Unseeded) /\ Spent(Unseeded) = 0 /\ Unseeded # NoLoop
         /\ Unseeded.mode = "plain"
<1> DEFINE l == Unseeded
<1>1. /\ l.mode = "plain" /\ l.at = "start" /\ l.seeded = FALSE /\ l.round = 1
      /\ l.criteria = {} /\ l.rubric = {} /\ Spent(l) = 0
  BY ZenonT(60) DEF Unseeded, Spent
<1>2. AnyDraft \in Drafts
  BY DesignLoopAssumption DEF AnyDraft
<1>3. l \in AnyLoop
  BY <1>2 DEF Unseeded, AnyLoop, AnyCircuit, AnyAssertions, NoAssertions, Analysis
<1>4. Kept(l.rubric, l.criteria)
  BY <1>1, KeptItself
<1> HIDE DEF l
<1>5. LoopOK(l) /\ l # NoLoop
  BY <1>1, <1>3, <1>4 DEF LoopOK, NoLoop
<1> QED  BY <1>1, <1>5 DEF l

LEMMA SeededTypes ==
  ASSUME LoopInv, NEW c \in AnyScreen, NEW mode \in {"finalist", "degraded"}
  PROVE  /\ LoopOK(Seeded(c, mode)) /\ Spent(Seeded(c, mode)) = 0
         /\ Seeded(c, mode) # NoLoop /\ Seeded(c, mode).mode = mode
<1> DEFINE l == Seeded(c, mode)
<1>1. c.version \in Nat /\ c.draft \in Drafts
  BY DEF AnyScreen
<1>2. /\ l.mode = mode /\ l.at = "start" /\ l.seeded = TRUE /\ l.round = 1
      /\ l.criteria = c.draft.criteria /\ l.rubric = c.draft.criteria
      /\ Spent(l) = 0
  BY ZenonT(60) DEF Seeded, Unseeded, Spent
<1>3. options.maxRounds \in 1..4
  BY OptionTypes DEF LoopInv, RequestTypes
<1>4. l \in AnyLoop
  <2>1. PICK u \in AnyLoop : u = Unseeded
    BY <1>3, UnseededTypes DEF LoopOK
  <2>2. l = [u EXCEPT !.mode = mode, !.seeded = TRUE,
               !.circuit = [version |-> c.version, draft |-> c.draft],
               !.analysis = c.draft.analysis, !.criteria = c.draft.criteria,
               !.rubric = c.draft.criteria]
    BY <2>1 DEF Seeded
  <2>3. [version |-> c.version, draft |-> c.draft] \in AnyCircuit
    BY <1>1 DEF AnyCircuit
  <2>4. c.draft.criteria \in SUBSET Criterion /\ c.draft.analysis \in Analysis
    BY <1>1, DraftTypes
  <2> HIDE DEF l
  <2> QED  BY <2>2, <2>3, <2>4, ZenonT(60) DEF AnyLoop
<1>5. Kept(l.rubric, l.criteria)
  BY <1>2, KeptItself
<1> HIDE DEF l
<1>6. LoopOK(l) /\ l # NoLoop
  BY <1>2, <1>3, <1>4, <1>5 DEF LoopOK, NoLoop
<1> QED  BY <1>2, <1>6 DEF l

\* What every step of the fan-out may use.
LEMMA ScreeningFacts ==
  ASSUME LoopInv, Screening
  PROVE  /\ options.n \in 1..5 /\ options.n > 1 /\ options.maxRounds \in 1..4
         /\ options.k \in Nat /\ Budget \in Nat
         /\ loop = NoLoop /\ outcome = Pending /\ outcome.at # "result"
         /\ asked \in Nat /\ llmCalls \in Nat /\ asked = llmCalls /\ asked <= MostAsked
         /\ finalized \in Seq(AnyResult)
         /\ finalized # <<>> => ScreensDone /\ Survivors # {}
         /\ finalized = <<>> => llmCalls = Cardinality(Started)
<1>1. /\ options.n > 1 /\ loop = NoLoop /\ outcome = Pending /\ outcome.at # "result"
  BY DEF Screening, Pending
<1>2. /\ options.n \in 1..5 /\ options.maxRounds \in 1..4 /\ options.k \in Nat /\ Budget \in Nat
      /\ asked \in Nat /\ llmCalls \in Nat
  BY OptionTypes DEF LoopInv, RequestTypes
<1>3. asked = llmCalls /\ asked <= MostAsked /\ finalized \in Seq(AnyResult)
  BY <1>1 DEF LoopInv, SpendOK, ResultsOK
<1>4. /\ finalized # <<>> => ScreensDone /\ Survivors # {}
      /\ finalized = <<>> => llmCalls = Cardinality(Started)
  BY <1>1, <1>2 DEF LoopInv, SpendOK
<1> QED  BY <1>1, <1>2, <1>3, <1>4

\* The first loop or the next one starts.
LEMMA LoopStarts ==
  ASSUME LoopInv, Screening, ScreensDone, NEW l, LoopOK(l), Spent(l) = 0, l # NoLoop,
         l.mode = "finalist" => llmCalls < Budget,
         l.mode # "plain" => Survivors # {},
         l.mode # "finalist" => finalized = <<>>,
         loop' = l, finalists' \in Seq(1..options.n),
         UNCHANGED <<options, canceled, asked, llmCalls, screens, finalized, outcome>>
  PROVE  LoopInv'
<1>1. RequestTypes' /\ ResultsOK'
  BY ResultsStay DEF LoopInv, RequestTypes
<1>2. LoopOK(loop)' /\ MostAsked' = MostAsked /\ Budget' = Budget
  BY SameRequest
<1>3. Started' = Started /\ ScreensDone' = ScreensDone /\ Survivors' = Survivors
      /\ Spent(loop)' = 0
  BY DEF Started, ScreensDone, Survivors, Spent
<1>4. SpendOK'
  BY <1>2, <1>3, ScreeningFacts DEF SpendOK
<1> QED  BY <1>1, <1>4 DEF LoopInv

LEMMA FallBackStep ==
  ASSUME LoopInv, FallBack
  PROVE  LoopInv'
<1>1. /\ Screening /\ ScreensDone /\ Survivors = {} /\ loop' = Unseeded
      /\ UNCHANGED <<options, canceled, asked, llmCalls, screens, finalists, finalized, outcome>>
  BY DEF FallBack, orchestrator
<1>2. finalized = <<>> /\ options.maxRounds \in 1..4
  BY <1>1, ScreeningFacts
<1>3. LoopOK(Unseeded) /\ Spent(Unseeded) = 0 /\ Unseeded # NoLoop /\ Unseeded.mode = "plain"
  BY <1>2, UnseededTypes
<1>4. finalists' \in Seq(1..options.n)
  BY <1>1 DEF LoopInv, RequestTypes
<1> HIDE DEF Unseeded
<1> QED  BY <1>1, <1>2, <1>3, <1>4, LoopStarts

LEMMA SelectStep ==
  ASSUME LoopInv, Select
  PROVE  LoopInv'
<1>1. /\ Screening /\ ScreensDone /\ Survivors # {} /\ finalized = <<>>
      /\ UNCHANGED <<options, canceled, asked, llmCalls, screens, finalized, outcome>>
  BY DEF Select
<1>2. PICK s \in selectFinalists(Survivors, options.k) :
        /\ finalists' = Tail(s)
        /\ loop' = Seeded(screens[Head(s)], IF llmCalls < Budget THEN "finalist" ELSE "degraded")
  BY DEF Select
<1>3. PICK n \in Nat : n = options.n
  BY <1>1, ScreeningFacts
<1>4. Survivors \in SUBSET (1..n)
  BY <1>3 DEF Survivors
<1>5. Head(s) \in 1..n /\ Tail(s) \in Seq(1..n)
  BY <1>1, <1>2, <1>3, <1>4, Finalists, ScreeningFacts
<1>6. screens[Head(s)] \in AnyScreen
  BY <1>3, <1>5 DEF LoopInv, RequestTypes
<1> DEFINE mode == IF llmCalls < Budget THEN "finalist" ELSE "degraded"
           l == Seeded(screens[Head(s)], mode)
<1>7. mode \in {"finalist", "degraded"} /\ (mode = "finalist" => llmCalls < Budget)
  OBVIOUS
<1>8. loop' = l
  BY <1>2
<1> HIDE DEF mode
<1>9. LoopOK(l) /\ Spent(l) = 0 /\ l # NoLoop /\ l.mode = mode
  BY <1>6, <1>7, SeededTypes
<1> HIDE DEF l
<1>10. finalists' \in Seq(1..options.n)
  BY <1>2, <1>3, <1>5
<1> QED  BY <1>1, <1>7, <1>8, <1>9, <1>10, LoopStarts

LEMMA NextFinalistStep ==
  ASSUME LoopInv, NextFinalist
  PROVE  LoopInv'
<1>1. /\ Screening /\ finalized # <<>> /\ finalists # <<>> /\ llmCalls < Budget
      /\ finalists' = Tail(finalists)
      /\ loop' = Seeded(screens[Head(finalists)], "finalist")
      /\ UNCHANGED <<options, canceled, asked, llmCalls, screens, finalized, outcome>>
  BY DEF NextFinalist
<1>2. ScreensDone /\ Survivors # {}
  BY <1>1, ScreeningFacts
<1>3. finalists \in Seq(1..options.n)
  BY DEF LoopInv, RequestTypes
<1>4. Head(finalists) \in 1..options.n /\ finalists' \in Seq(1..options.n)
  BY <1>1, <1>3, HeadTailProperties
<1>5. screens[Head(finalists)] \in AnyScreen
  BY <1>4 DEF LoopInv, RequestTypes
<1> DEFINE l == Seeded(screens[Head(finalists)], "finalist")
<1>6. LoopOK(l) /\ Spent(l) = 0 /\ l # NoLoop /\ l.mode = "finalist"
  BY <1>5, SeededTypes
<1>7. loop' = l
  BY <1>1
<1> HIDE DEF l
<1> QED  BY <1>1, <1>2, <1>4, <1>6, <1>7, LoopStarts

LEMMA ConcludeStep ==
  ASSUME LoopInv, Conclude
  PROVE  LoopInv'
<1>1. Screening /\ finalized # <<>> /\ UNCHANGED <<orchestrator, asked, loop>>
  BY DEF Conclude
<1>2. UNCHANGED <<options, canceled, llmCalls, screens, finalists, finalized, asked, loop>>
  BY <1>1 DEF orchestrator
<1>3. /\ asked \in Nat /\ llmCalls \in Nat /\ asked = llmCalls /\ asked <= MostAsked /\ loop = NoLoop
      /\ finalized \in Seq(AnyResult) /\ ScreensDone /\ Survivors # {} /\ options.n > 1
      /\ options.n \in 1..5
  BY <1>1, ScreeningFacts
<1>4. PICK w : /\ w = pickWinner(finalized)
               /\ \E y \in Yields(w.ok, w.criteria) :
                    outcome' = [w EXCEPT !.yield = y, !.counted = llmCalls]
  BY DEF Conclude
<1>5. PICK y \in {"none", "unavailable", "graded"} :
        outcome' = [w EXCEPT !.yield = y, !.counted = llmCalls]
  BY <1>4 DEF Yields
<1>6. w \in AnyResult /\ Backed(w)
  <2>1. PICK i \in 1..Len(finalized) : w = finalized[i]
    BY <1>1, <1>3, <1>4, Winner
  <2> QED  BY <1>3, <2>1, ElementOfSeq DEF LoopInv, ResultsOK
<1>7. outcome' \in AnyResult
  <2>1. llmCalls \in Int
    BY <1>3
  <2> QED  BY <1>5, <1>6, <2>1, ZenonT(60) DEF AnyResult
<1>8. /\ outcome'.at = "result" /\ outcome'.verified = w.verified /\ outcome'.circuit = w.circuit
      /\ outcome'.assertions = w.assertions /\ outcome'.criteria = w.criteria
      /\ outcome'.analysis = w.analysis /\ outcome'.rubric = w.rubric
      /\ outcome'.counted = llmCalls
  BY <1>5, <1>6, ZenonT(60) DEF AnyResult
<1>9. Backed(outcome)'
  <2>1. /\ w.verified =>
              /\ w.circuit.draft.kind = "simulates"
              /\ w.assertions = [version |-> w.circuit.version, ran |-> w.criteria, failed |-> {}]
              /\ w.criteria # {} /\ Uncovered(w.criteria) = {}
              /\ Unmet(w.circuit.draft, w.analysis, w.criteria) = {}
              /\ Kept(w.rubric, w.criteria)
    BY <1>6 DEF Backed
  <2>2. /\ (Uncovered(w.criteria))' = Uncovered(w.criteria)
        /\ (Kept(w.rubric, w.criteria))' <=> Kept(w.rubric, w.criteria)
        /\ Unmet(w.circuit.draft, w.analysis, w.criteria)'
             = Unmet(w.circuit.draft, w.analysis, w.criteria)
    BY <1>2 DEF Kept, Uncovered, Unmet, Dimensions
  <2> QED  BY <1>8, <2>1, <2>2 DEF Backed, Kept, Uncovered, Unmet, Dimensions
<1>10. RequestTypes'
  BY <1>2 DEF LoopInv, RequestTypes
<1>11. ResultsOK'
  <2>1. \A i \in 1..Len(finalized) : Backed(finalized[i])
    BY DEF LoopInv, ResultsOK
  <2>2. \A r : Backed(r)' <=> (Backed(r))
    BY <1>2, SameRequest
  <2> QED  BY <1>2, <1>3, <1>7, <1>9, <2>1, <2>2 DEF ResultsOK
<1>12. SpendOK'
  <2>1. MostAsked' = MostAsked /\ Budget' = Budget
    BY <1>2, SameRequest
  <2>2. ScreensDone' /\ Survivors' # {}
    BY <1>2, <1>3 DEF ScreensDone, Survivors
  <2>3. outcome' # Pending
    BY <1>8 DEF Pending
  <2> QED  BY <1>1, <1>2, <1>3, <1>8, <2>1, <2>2, <2>3 DEF SpendOK
<1> QED  BY <1>10, <1>11, <1>12 DEF LoopInv

LEMMA StartScreenStep ==
  ASSUME LoopInv, NEW i \in 1..options.n, StartScreen(i)
  PROVE  LoopInv'
<1>1. /\ Screening /\ screens[i].at = "queued" /\ llmCalls' = llmCalls + 1 /\ asked' = asked + 1
      /\ UNCHANGED <<options, canceled, finalists, finalized, loop, outcome>>
  BY DEF StartScreen, Ask
<1>2. screens' = [screens EXCEPT ![i].at = "running", ![i].version = asked']
  BY DEF StartScreen
<1>3. finalized = <<>>
  BY <1>1, ScreeningFacts DEF ScreensDone
<1>4. /\ loop = NoLoop /\ outcome.at # "result" /\ options.n \in 1..5 /\ options.n > 1
      /\ asked \in Nat /\ llmCalls \in Nat /\ asked = llmCalls
      /\ llmCalls = Cardinality(Started) /\ screens \in [1..options.n -> AnyScreen]
      /\ options.maxRounds \in 1..4
  BY <1>1, <1>3, ScreeningFacts DEF LoopInv, RequestTypes
<1>5. screens' \in [1..options.n -> AnyScreen]
      /\ \A j \in 1..options.n : screens'[j].at = IF j = i THEN "running" ELSE screens[j].at
  <2> DEFINE c == [screens[i] EXCEPT !.at = "running", !.version = asked']
  <2>1. screens[i] \in AnyScreen /\ asked' \in Nat
    BY <1>1, <1>4
  <2>2. c \in AnyScreen /\ c.at = "running"
    BY <2>1, ZenonT(60) DEF AnyScreen
  <2>3. screens' = [screens EXCEPT ![i] = c]
    BY <1>2, <1>4
  <2> HIDE DEF c
  <2> QED  BY <1>4, <2>2, <2>3
<1>6. Started' = Started \cup {i} /\ i \notin Started
  BY <1>1, <1>5 DEF Started
<1>7. RequestTypes'
  BY <1>1, <1>4, <1>5 DEF LoopInv, RequestTypes
<1>8. Cardinality(Started') = llmCalls + 1
  BY <1>4, <1>6, StartedFinite, FS_AddElement DEF LoopInv
<1>9. Cardinality(Started') <= options.n
  <2>1. (Cardinality(Started) <= options.n)'
    BY <1>7, StartedFinite, PTL
  <2> QED  BY <1>1, <2>1
<1>10. MostAsked \in Nat /\ MostAsked >= options.n + options.maxRounds /\ MostAsked' = MostAsked /\ Budget' = Budget
  BY <1>1, <1>4, OptionTypes, SameRequest DEF LoopInv, RequestTypes
<1>11. ResultsOK'
  BY <1>1, ResultsStay DEF LoopInv
<1>12. SpendOK'
  BY <1>1, <1>3, <1>4, <1>8, <1>9, <1>10 DEF SpendOK
<1> QED  BY <1>7, <1>11, <1>12 DEF LoopInv

\* A screen comes to its end: no loop has started, and the count stands.
LEMMA ScreenEnds ==
  ASSUME LoopInv, NEW i \in 1..options.n, screens[i].at = "running", NEW c \in AnyScreen,
         c.at # "queued", screens' = [screens EXCEPT ![i] = c],
         UNCHANGED <<options, canceled, asked, llmCalls, finalists, finalized, loop, outcome>>
  PROVE  LoopInv'
<1>1. /\ options.n \in 1..5 /\ screens \in [1..options.n -> AnyScreen]
      /\ MostAsked' = MostAsked /\ Budget' = Budget
  BY OptionTypes, SameRequest DEF LoopInv, RequestTypes
<1>2. i \in Started /\ ~ScreensDone
  BY DEF Started, ScreensDone
<1>3. options.n # 1 /\ loop = NoLoop /\ finalized = <<>>
  BY <1>2 DEF LoopInv, SpendOK
<1>4. Started' = Started
  BY <1>1 DEF Started
<1>5. RequestTypes' /\ ResultsOK'
  BY <1>1, ResultsStay DEF LoopInv, RequestTypes
<1>6. SpendOK'
  BY <1>1, <1>3, <1>4 DEF LoopInv, SpendOK
<1> QED  BY <1>5, <1>6 DEF LoopInv

LEMMA ScreenedStep ==
  ASSUME LoopInv, NEW i \in 1..options.n, NEW d \in Drafts, NEW healthy \in BOOLEAN,
         NEW specsMet \in BOOLEAN, Screened(i, d, healthy, specsMet)
  PROVE  LoopInv'
<1>1. screens \in [1..options.n -> AnyScreen]
  BY DEF LoopInv, RequestTypes
<1>2. PICK s \in AnyScreen : s = screens[i]
  BY <1>1
<1> DEFINE c == [s EXCEPT !.at = "screened", !.draft = d, !.healthy = healthy,
                          !.specsMet = specsMet]
<1>3. c \in AnyScreen /\ c.at # "queued"
  BY <1>2, ZenonT(60) DEF AnyScreen
<1>4. screens' = [screens EXCEPT ![i] = c]
  BY <1>1, <1>2 DEF Screened
<1>5. /\ screens[i].at = "running"
      /\ UNCHANGED <<options, canceled, asked, llmCalls, finalists, finalized, loop, outcome>>
  BY DEF Screened
<1> HIDE DEF c
<1> QED  BY <1>3, <1>4, <1>5, ScreenEnds

LEMMA ScreenFailsStep ==
  ASSUME LoopInv, NEW i \in 1..options.n, ScreenFails(i)
  PROVE  LoopInv'
<1>1. screens \in [1..options.n -> AnyScreen]
  BY DEF LoopInv, RequestTypes
<1>2. PICK s \in AnyScreen : s = screens[i]
  BY <1>1
<1> DEFINE c == [s EXCEPT !.at = "rejected"]
<1>3. c \in AnyScreen /\ c.at # "queued"
  BY <1>2, ZenonT(60) DEF AnyScreen
<1>4. screens' = [screens EXCEPT ![i] = c]
  BY <1>1, <1>2 DEF ScreenFails
<1>5. /\ screens[i].at = "running"
      /\ UNCHANGED <<options, canceled, asked, llmCalls, finalists, finalized, loop, outcome>>
  BY DEF ScreenFails
<1> HIDE DEF c
<1> QED  BY <1>3, <1>4, <1>5, ScreenEnds

LEMMA RequestIdle ==
  ASSUME LoopInv,
         UNCHANGED <<options, asked, llmCalls, screens, finalists, finalized, loop, outcome>>
  PROVE  LoopInv'
<1>1. /\ \A l : LoopOK(l)' <=> (LoopOK(l))
      /\ MostAsked' = MostAsked /\ Budget' = Budget
  BY SameRequest
<1>2. /\ Started' = Started /\ ScreensDone' = ScreensDone /\ Survivors' = Survivors
      /\ Spent(loop)' = Spent(loop)
  BY DEF Started, ScreensDone, Survivors, Spent
<1>3. LoopOK(loop)' <=> LoopOK(loop)
  BY DEF LoopOK, Kept, Dimensions
<1>4. RequestTypes' /\ ResultsOK'
  BY ResultsStay DEF LoopInv, RequestTypes
<1>5. SpendOK'
  BY <1>1, <1>2, <1>3 DEF LoopInv, SpendOK
<1> QED  BY <1>4, <1>5 DEF LoopInv

-----------------------------------------------------------------------------
(* The theorems.                                                           *)

LEMMA LoopInitOK == LoopInit => LoopInv
<1> SUFFICES ASSUME LoopInit PROVE LoopInv
  OBVIOUS
<1>1. /\ options \in Options /\ asked = 0 /\ llmCalls = 0 /\ finalists = <<>> /\ finalized = <<>>
      /\ outcome = Pending /\ outcome.at # "result"
      /\ loop = IF options.n = 1 THEN Unseeded ELSE NoLoop
      /\ screens = [i \in 1..options.n |-> [at |-> "queued", version |-> 0, draft |-> AnyDraft,
                                            healthy |-> FALSE, specsMet |-> FALSE]]
  BY DEF LoopInit, Pending
<1>2. options.n \in 1..5 /\ options.maxRounds \in 1..4 /\ MostAsked \in Nat
  BY <1>1, OptionTypes
<1>3. AnyDraft \in Drafts
  BY DesignLoopAssumption DEF AnyDraft
<1>4. screens \in [1..options.n -> AnyScreen] /\ Started = {}
  BY <1>1, <1>3 DEF AnyScreen, Started
<1>5. Cardinality(Started) = 0
  BY <1>4, FS_EmptySet
<1>6. RequestTypes /\ ResultsOK
  <2>1. asked \in Nat /\ llmCalls \in Nat /\ <<>> \in Seq(1..options.n)
    BY <1>1
  <2>2. RequestTypes
    BY <1>1, <1>4, <2>1, ZenonT(60) DEF RequestTypes
  <2>3. finalized \in Seq(AnyResult) /\ Len(finalized) = 0
    BY <1>1
  <2> QED  BY <1>1, <2>2, <2>3 DEF ResultsOK
<1>7. LoopOK(Unseeded) /\ Spent(Unseeded) = 0 /\ Unseeded # NoLoop /\ Unseeded.mode = "plain"
  BY <1>2, UnseededTypes
<1>8. SpendOK
  <2> HIDE DEF Unseeded
  <2>1. CASE options.n = 1
    <3>1. loop = Unseeded
      BY <1>1, <2>1
    <3> QED  BY <1>1, <1>2, <1>4, <1>5, <1>7, <2>1, <3>1 DEF SpendOK
  <2>2. CASE options.n # 1
    <3>1. loop = NoLoop
      BY <1>1, <2>2
    <3> QED  BY <1>1, <1>2, <1>4, <1>5, <2>2, <3>1 DEF SpendOK
  <2> QED  BY <2>1, <2>2
<1> QED  BY <1>6, <1>8 DEF LoopInv

LEMMA LoopNextOK == LoopInv /\ [LoopNext]_loopVars => LoopInv'
<1> SUFFICES ASSUME LoopInv, [LoopNext]_loopVars PROVE LoopInv'
  OBVIOUS
<1>1. CASE LoopStep
  BY <1>1, LoopStepKeeps
<1>2. CASE \E i \in 1..options.n :
             \/ StartScreen(i) \/ ScreenFails(i)
             \/ \E d \in Drafts, healthy, specsMet \in BOOLEAN : Screened(i, d, healthy, specsMet)
  BY <1>2, StartScreenStep, ScreenFailsStep, ScreenedStep
<1>3. CASE FallBack \/ Select \/ NextFinalist \/ Conclude
  BY <1>3, FallBackStep, SelectStep, NextFinalistStep, ConcludeStep
<1>4. CASE CancelRequest \/ Answered \/ UNCHANGED loopVars
  BY <1>4, RequestIdle DEF CancelRequest, Answered, loopVars
<1> QED  BY <1>1, <1>2, <1>3, <1>4 DEF LoopNext

\* What is asked for is billed; only the first answer may take tools.
LEMMA AskBills ==
  ASSUME LoopInv, BillsOK, NEW tools \in Nat, Ask(tools), UNCHANGED options,
         tools = 0 \/ (tools = options.tools /\ asked = 0)
  PROVE  BillsOK'
<1>1. /\ asked \in Nat /\ billed \in Nat /\ options.tools \in Nat
      /\ asked <= billed /\ billed <= 4 * asked + 2 * options.tools
      /\ asked = 0 => billed = 0
  BY OptionTypes DEF LoopInv, RequestTypes, BillsOK
<1>2. PICK calls \in 1..2 * (tools + 2) : billed' = billed + calls
  BY DEF Ask, Billings
<1>3. asked' = asked + 1 /\ options' = options
  BY DEF Ask
<1>4. calls \in Nat /\ 1 <= calls /\ calls <= 2 * tools + 4
  BY <1>2
<1>5. billed' \in Nat /\ asked' <= billed' /\ asked' # 0
  BY <1>1, <1>2, <1>3, <1>4
<1>6. CASE tools = 0
  BY <1>1, <1>2, <1>3, <1>4, <1>5, <1>6 DEF BillsOK
<1>7. CASE tools = options.tools /\ asked = 0
  BY <1>1, <1>2, <1>3, <1>4, <1>5, <1>7 DEF BillsOK
<1> QED  BY <1>6, <1>7

\* Where tools may be used, nothing has been asked for before.
LEMMA FirstAsk ==
  ASSUME LoopInv, loop.at = "start", ~loop.seeded
  PROVE  options.tools \in Nat /\ (options.tools = 0 \/ asked = 0)
<1>1. loop # NoLoop
  BY AtNotNone
<1>2. /\ options.n \in 1..5 /\ options.tools \in Nat /\ (options.n > 1 => options.tools = 0)
      /\ asked = llmCalls + Spent(loop) /\ llmCalls \in Nat
  BY <1>1, LoopFacts, OptionTypes DEF LoopInv, RequestTypes
<1>3. CASE options.n = 1
  <2>1. llmCalls = Cardinality({})
    BY <1>3 DEF LoopInv, SpendOK
  <2> QED  BY <1>2, <2>1, FS_EmptySet DEF Spent
<1> QED  BY <1>2, <1>3

LEMMA BillsStay == LoopInv /\ BillsOK /\ [LoopNext]_loopVars => BillsOK'
<1> SUFFICES ASSUME LoopInv, BillsOK, [LoopNext]_loopVars PROVE BillsOK'
  OBVIOUS
<1>1. ASSUME UNCHANGED <<options, asked, billed>>
      PROVE  BillsOK'
  BY <1>1 DEF BillsOK
<1>2. CASE ModelFails \/ \E d \in Drafts : StartGenerate(d)
  <2>1. /\ UNCHANGED options
        /\ \/ Ask(0)
           \/ Ask(options.tools) /\ loop.at = "start" /\ ~loop.seeded
    BY <1>2, ZenonT(60) DEF ModelFails, StartGenerate, orchestrator
  <2> QED  BY <2>1, AskBills, FirstAsk
<1>3. CASE \/ NetlistFixFails
           \/ \E d \in Drafts : NetlistGate(d) \/ Fix(d)
           \/ \E i \in 1..options.n : StartScreen(i)
  <2>1. \/ UNCHANGED <<options, asked, billed>>
        \/ Ask(0) /\ UNCHANGED options
    BY <1>3, ZenonT(60) DEF NetlistFixFails, NetlistGate, EndUnmet, Fix, StartScreen, orchestrator
  <2> QED  BY <1>1, <2>1, AskBills
<1>4. CASE \/ Abort \/ StartSeeded \/ ErcGate \/ Inconclusive \/ Unhealthy \/ Succeeds \/ Misses
  BY <1>1, <1>4 DEF Abort, StartSeeded, ErcGate, Inconclusive, Unhealthy, Succeeds, Misses,
     EndUnmet, orchestrator
<1>5. CASE \/ \E i \in 1..options.n :
                 \/ ScreenFails(i)
                 \/ \E d \in Drafts, healthy, specsMet \in BOOLEAN :
                      Screened(i, d, healthy, specsMet)
           \/ FallBack \/ Select \/ NextFinalist \/ Conclude
  <2>1. CASE FallBack \/ Select \/ NextFinalist \/ Conclude
    BY <1>1, <2>1, ZenonT(60) DEF FallBack, Select, NextFinalist, Conclude, orchestrator
  <2>2. CASE \E i \in 1..options.n :
               \/ ScreenFails(i)
               \/ \E d \in Drafts, healthy, specsMet \in BOOLEAN : Screened(i, d, healthy, specsMet)
    BY <1>1, <2>2, ZenonT(60) DEF ScreenFails, Screened
  <2> QED  BY <1>5, <2>1, <2>2
<1>6. CASE CancelRequest \/ Answered \/ UNCHANGED loopVars
  BY <1>1, <1>6 DEF CancelRequest, Answered, loopVars
<1> QED  BY <1>2, <1>3, <1>4, <1>5, <1>6 DEF LoopNext, LoopStep

\* In every state of a design request, single or fanned out, the circuit, the
\* criteria and the verdicts of the loop belong together, what has been asked for
\* is what was counted and what the loop under way has spent, and every result
\* collected is backed.
THEOREM LoopInvariant == LoopSpec => []LoopInv
<1>1. LoopInit => LoopInv
  BY LoopInitOK
<1>2. LoopInv /\ [LoopNext]_loopVars => LoopInv'
  BY LoopNextOK
<1> QED  BY <1>1, <1>2, PTL DEF LoopSpec

\* What a result claims was established on the very circuit it returns, whatever
\* the model answers, however many candidates and rounds there are.
THEOREM ResultsAreBacked == LoopSpec => []ClaimsAreBacked
<1>1. LoopInv => ClaimsAreBacked
  BY ZenonT(60) DEF LoopInv, ResultsOK, Backed, ClaimsAreBacked
<1> QED  BY <1>1, LoopInvariant, PTL

\* No sequence of fixes drops or relaxes a criterion the candidate was generated
\* with, nor adds one that is not for a required quantity.
THEOREM RubricIsKept == LoopSpec => []RubricKept
<1>1. LoopInv => RubricKept
  BY ZenonT(60) DEF LoopInv, ResultsOK, Backed, RubricKept, Kept
<1> QED  BY <1>1, LoopInvariant, PTL

\* What a request is billed for is bounded, for every budget, number of rounds and
\* size of the conversations with tools: by four calls for each circuit it may ask
\* for and two for each round of tools; and the count of a fanned-out result is the
\* number of circuits asked for, which is no more than the calls billed.
THEOREM SpendIsBounded == LoopSpec => []SpendBounded
<1>1. LoopInit => BillsOK
  <2>1. LoopInit => options.tools \in Nat /\ asked = 0 /\ billed = 0
    BY OptionTypes DEF LoopInit
  <2> QED  BY <2>1 DEF BillsOK
<1>2. LoopInv /\ BillsOK /\ [LoopNext]_loopVars => BillsOK'
  BY BillsStay
<1>3. LoopInv /\ BillsOK => SpendBounded
  <2> SUFFICES ASSUME LoopInv, BillsOK PROVE SpendBounded
    OBVIOUS
  <2>1. /\ asked \in Nat /\ billed \in Nat /\ MostAsked \in Nat /\ options.tools \in Nat
        /\ asked <= MostAsked /\ asked <= billed /\ billed <= 4 * asked + 2 * options.tools
    BY OptionTypes DEF LoopInv, RequestTypes, SpendOK, BillsOK
  <2>2. billed <= 4 * MostAsked + 2 * options.tools
    BY <2>1
  <2>3. outcome.at = "result" /\ outcome.counted # -1 => outcome.counted = asked
    BY DEF LoopInv, SpendOK
  <2> QED  BY <2>1, <2>2, <2>3 DEF SpendBounded
<1> QED  BY <1>1, <1>2, <1>3, LoopInvariant, PTL DEF LoopSpec

-----------------------------------------------------------------------------
(* III.  The verification of a design.                                     *)

-----------------------------------------------------------------------------
(* The sampler and the grader.                                             *)

USE YieldBatchAssumption, VerifyDesignAssumption

LEMMA BatchFacts ==
  ASSUME NEW n \in Sizes, NEW b \in AllBatches[n]
  PROVE  /\ b \in [sample : Sample, wanted : Nat, early : BOOLEAN, cut : BOOLEAN]
         /\ b.wanted = n
         /\ b.early => EndsEarly(b.sample)
         /\ ~b.early /\ ~b.cut => Complete(b.sample, n)
<1>1. n \in Nat \ {0}
  OBVIOUS
<1>2. b \in Batches(n)
  BY DEF AllBatches
<1>3. PICK s \in Counts(n) : b = [sample |-> s, wanted |-> n, early |-> EndsEarly(s),
                                  cut |-> ~EndsEarly(s) /\ ~Complete(s, n)]
  BY <1>2 DEF Batches
<1>4. s \in Sample
  BY <1>1 DEF Counts, Sample
<1>5. EndsEarly(s) \in BOOLEAN /\ Complete(s, n) \in BOOLEAN
  BY DEF EndsEarly, Complete
<1> QED  BY <1>1, <1>3, <1>4, <1>5

\* A yield at or above a bar is at or above a lower one.
LEMMA Above ==
  ASSUME NEW p \in Nat, NEW n \in Nat, NEW high \in Nat, NEW low \in Nat,
         low <= high, p >= high * n
  PROVE  p >= low * n
<1>1. high * n = low * n + (high - low) * n /\ high - low \in Nat
  OBVIOUS
<1>2. (high - low) * n >= 0 /\ low * n \in Nat /\ high * n \in Nat
  BY <1>1
<1> QED  BY <1>1, <1>2

\* No batch is above one bar and below a lower one.
LEMMA BarsAreApart ==
  ASSUME NEW s \in Sample, LowReaches(s, RobustMin) \/ LowReaches(s, MarginalMin)
  PROVE  ~HighMisses(s, MarginalMin)
<1>1. Evaluated(s) \in Nat /\ Whole * s.passed \in Nat
  BY DEF Sample, Evaluated
<1>2. Whole * s.passed >= MarginalMin * Evaluated(s)
  BY <1>1, Above DEF LowReaches, YieldReaches
<1> QED  BY <1>2 DEF HighMisses, YieldReaches

LEMMA DecidedHasTier ==
  ASSUME NEW s \in Sample, TierDecided(s)
  PROVE  Tier(s) # "unknown"
BY BarsAreApart DEF TierDecided, Tier

\* What the last tier costs: only a yield below the lower bar.
LEMMA AtRiskIsBelow ==
  ASSUME NEW s \in Sample
  PROVE  Tier(s) = "at-risk" <=> HighMisses(s, MarginalMin)
BY BarsAreApart DEF Tier

LEMMA FailuresBelowTheBar ==
  ASSUME NEW s \in Sample, HighMisses(s, MarginalMin)
  PROVE  s.failed > 0 /\ ~YieldReaches(s, MarginalMin)
<1>1. ~YieldReaches(s, MarginalMin)
  BY DEF HighMisses
<1>2. s.passed \in Nat /\ s.failed \in Nat
  BY DEF Sample
<1>3. ASSUME s.failed = 0 PROVE FALSE
  <2>1. Evaluated(s) = s.passed
    BY <1>2, <1>3 DEF Evaluated
  <2>2. Whole * s.passed >= MarginalMin * s.passed
    <3>1. Whole * s.passed >= Whole * s.passed
      BY <1>2
    <3>2. MarginalMin \in Nat /\ Whole \in Nat /\ MarginalMin <= Whole
      OBVIOUS
    <3> HIDE YieldBatchAssumption
    <3> QED  BY <1>2, <3>1, <3>2, Above
  <2> QED  BY <1>1, <2>1, <2>2 DEF YieldReaches
<1> QED  BY <1>1, <1>2, <1>3

\* As many as a quotient rounded up.
LEMMA RoundedUp ==
  ASSUME NEW x \in Nat, NEW d \in Nat, d > 0, NEW n \in Nat, n >= (x + d - 1) \div d
  PROVE  n * d >= x
<1>1. PICK y \in Nat : y = x + d - 1
  OBVIOUS
<1>2. n >= y \div d
  BY <1>1
<1>3. n * d > y - d /\ n * d \in Nat
  BY <1>2, Z3T(60)
<1> QED  BY <1>1, <1>3

LEMMA Product ==
  ASSUME NEW x \in Nat, NEW y \in Nat, NEW z \in Nat, x >= y
  PROVE  x * z >= y * z
BY Z3T(60)

\* Enough flawless samples reach the higher bar.
LEMMA FlawlessIsRobust ==
  ASSUME NEW s \in Sample, s.failed = 0, s.passed >= RequiredRuns
  PROVE  Tier(s) = "robust"
<1>0. PICK num \in Nat, den \in Nat : num = Z95Num /\ den = Z95Den /\ 0 < num /\ 0 < den
  BY DEF Z95Num, Z95Den
<1>1. PICK bar \in Nat, miss \in Nat, n \in Nat :
        /\ bar = RobustMin /\ miss = Whole - RobustMin /\ n = s.passed
        /\ 0 < bar /\ 0 < miss
  BY DEF Sample
<1>2. Evaluated(s) = n
  BY <1>1 DEF Sample, Evaluated
<1>3. n * (den * miss) >= num * bar /\ den * miss \in Nat /\ num * bar \in Nat /\ num * bar > 0
  <2>1. n >= (num * bar + den * miss - 1) \div (den * miss)
    BY <1>0, <1>1 DEF RequiredRuns
  <2>2. num * bar \in Nat /\ den * miss \in Nat /\ den * miss > 0 /\ num * bar > 0
    BY <1>0, <1>1, Z3T(60)
  <2> QED  BY <2>1, <2>2, RoundedUp
<1>4. n > 0
  BY <1>1, <1>3
<1>5. /\ Whole * n = RobustMin * n + miss * n /\ miss * n \in Nat /\ RobustMin * n \in Nat
      /\ Whole * n >= RobustMin * n
      /\ YieldReaches(s, RobustMin) /\ Distance(s, RobustMin) = miss * n
  <2>1. RobustMin = bar /\ Whole = bar + miss
    BY <1>1
  <2>2. (bar + miss) * n = bar * n + miss * n /\ miss * n \in Nat /\ bar * n \in Nat
    BY Z3T(60)
  <2>3. (bar + miss) * n >= bar * n /\ (bar + miss) * n - bar * n = miss * n
    BY <2>2
  <2>4. s.passed = n
    BY <1>1
  <2>5. YieldReaches(s, RobustMin)
    BY <1>2, <2>1, <2>3, <2>4 DEF YieldReaches
  <2> QED  BY <1>2, <2>1, <2>2, <2>3, <2>4, <2>5 DEF Distance
<1>6. PICK d \in Nat : d = miss * n
  BY <1>5
<1>7. den * d * d >= num * bar * d
  <2>1. den * d = n * (den * miss) /\ den * d \in Nat
    BY <1>6, Z3T(60)
  <2>2. (den * d) * d >= (num * bar) * d
    BY <1>3, <2>1, Product
  <2> QED  BY <2>2
<1>8. Spread(s, RobustMin) = num * bar * d
  <2>1. Spread(s, RobustMin) = num * n * bar * miss
    BY <1>0, <1>1, <1>2 DEF Spread
  <2>2. num * n * bar = (num * bar) * n /\ num * n * bar \in Nat
    BY Z3T(60)
  <2>3. PICK x \in Nat : x = num * bar
    BY <1>3
  <2>4. (x * n) * miss = x * (miss * n)
    BY Z3T(60)
  <2> QED  BY <1>6, <2>1, <2>2, <2>3, <2>4
<1>9. LowReaches(s, RobustMin)
  <2>1. Z95Den * Distance(s, RobustMin) * Distance(s, RobustMin) >= Spread(s, RobustMin)
    BY <1>0, <1>5, <1>6, <1>7, <1>8
  <2> QED  BY <1>2, <1>4, <1>5, <2>1 DEF LowReaches
<1> QED  BY <1>9, BarsAreApart DEF Tier
-----------------------------------------------------------------------------
(* The request.                                                            *)

\* What makes a design failed, and what makes it verified.
Condemned(r) ==
    \/ r.erc \/ r.refused
    \/ r.saw = "FAILED" /\ (deck["nominal"] = "bad" \/ "nominal" \in disturbed)
    \/ r.saw = "TIMED_OUT"
    \/ r.result = "empty"
    \/ r.spec = "unmet" \/ r.overload
    \/ /\ r.basis = "user-specified"
       /\ r.batch.sample.failed > 0
       /\ ~YieldReaches(r.batch.sample, MarginalMin)
       /\ ~r.batch.cut

Certified(r) ==
    /\ ~r.erc /\ ~r.refused
    /\ r.saw = "SUCCEEDED"
    /\ r.result = "data" /\ r.spec = "met" /\ ~r.overload
    /\ r.shown["montecarlo"] = "shown" =>
          \/ r.batch.cut \/ r.basis # "user-specified"
          \/ ~HighMisses(r.batch.sample, MarginalMin)

VerdictOK(r) ==
    /\ r.verdict = "fail" /\ "nominal" \notin retried => Condemned(r)
    /\ r.verdict = "pass" => Certified(r)

\* The verdict is open while the nominal run is looked at, and only a pass is
\* examined further; a Monte-Carlo batch is drawn once.
RequestOK(r) ==
    /\ r \in Request
    /\ r.left \subseteq Sims /\ r.on \notin r.left
    /\ r.verdict = "none" <=> r.on = "nominal" /\ r.at # "answered"
    /\ r.verdict = "none" => ~r.refused /\ r.result = "none" /\ ~r.overload
    /\ r.at \in {"review", "result"} => r.on = "nominal"
    /\ r.at # "answered" => r.verdict \in {"none", "pass"}
    /\ r.at # "answered" /\ (r.on \in {"nominal", "montecarlo"} \/ "montecarlo" \in r.left)
       => r.shown["montecarlo"] # "shown"

\* What the row of the nominal run says of its circuit.
NominalOK ==
    /\ deck["nominal"] \in {"good", "bad"}
    /\ status["nominal"] = "FAILED" /\ "nominal" \notin retried
       => deck["nominal"] = "bad" \/ "nominal" \in disturbed

\* A run that was seen to succeed stays settled or goes: without an operator no
\* other handler can make it look unfinished.
ResultOK ==
    request.at = "result" =>
        /\ request.saw = "SUCCEEDED"
        /\ "nominal" \notin retried => status["nominal"] \notin {"QUEUED", "RUNNING", "CANCELED"}

VerifyInv ==
    /\ LifecycleTypeOK /\ NominalOK /\ ResultOK
    /\ RequestOK(request) /\ VerdictOK(request)

LEMMA Nominal == "nominal" \in Sims /\ "nominal" \notin Checks /\ "montecarlo" \in Checks
<1>1. Checks = {"corner", "montecarlo", "temperature", "supply"}
  BY DEF Checks, Order
<1> QED  BY <1>1

LEMMA FirstCheck ==
  ASSUME NEW left \in SUBSET Checks, left # {}
  PROVE  \E i \in DOMAIN Order :
            Order[i] \in left /\ \A j \in 1..(i - 1) : Order[j] \notin left
<1>1. DOMAIN Order = 1..4
  BY DEF Order
<1>2. PICK k \in 1..4 : Order[k] \in left
  BY <1>1 DEF Checks
<1>3. CASE Order[1] \in left
  BY <1>1, <1>3
<1>4. CASE Order[1] \notin left /\ Order[2] \in left
  BY <1>1, <1>4
<1>5. CASE Order[1] \notin left /\ Order[2] \notin left /\ Order[3] \in left
  BY <1>1, <1>5
<1>6. CASE Order[1] \notin left /\ Order[2] \notin left /\ Order[3] \notin left
  BY <1>1, <1>2, <1>6
<1> QED  BY <1>3, <1>4, <1>5, <1>6

\* All that is known of the design.
SameFindings(r, n) ==
    /\ n.erc = r.erc /\ n.refused = r.refused /\ n.saw = r.saw /\ n.result = r.result
    /\ n.spec = r.spec /\ n.overload = r.overload /\ n.verdict = r.verdict
    /\ n.basis = r.basis /\ n.batch = r.batch /\ n.shown = r.shown

LEMMA GoonMoves ==
  ASSUME NEW r \in Request, r.left \subseteq Sims
  PROVE  /\ Goon(r) \in Request
         /\ SameFindings(r, Goon(r))
         /\ \/ /\ Goon(r).at = "answered" /\ Goon(r).on = r.on /\ Goon(r).left = r.left
            \/ /\ Goon(r).at = "create" /\ Goon(r).on \in r.left
               /\ Goon(r).left = r.left \ {Goon(r).on} /\ r.verdict = "pass"
<1>1. CASE r.verdict # "pass" \/ r.left = {}
  <2>1. Goon(r) = [r EXCEPT !.at = "answered"]
    BY <1>1 DEF Goon
  <2> QED  BY <2>1 DEF Request, SameFindings
<1>2. CASE r.verdict = "pass" /\ r.left # {}
  <2>1. r.left \in SUBSET Checks
    BY DEF Request
  <2>2. PICK i \in DOMAIN Order :
          /\ Order[i] \in r.left
          /\ Goon(r) = [r EXCEPT !.at = "create", !.on = Order[i], !.left = @ \ {Order[i]}]
    BY <1>2, <2>1, FirstCheck DEF Goon
  <2>3. PICK c \in r.left : c = Order[i]
    BY <2>2
  <2>4. Goon(r) = [r EXCEPT !.at = "create", !.on = c, !.left = @ \ {c}]
    BY <2>2, <2>3
  <2>5. c \in Sims
    OBVIOUS
  <2>6. PICK rest \in SUBSET Checks : rest = r.left \ {c}
    BY <2>1
  <2>7. Goon(r) = [r EXCEPT !.at = "create", !.on = c, !.left = rest]
    BY <2>4, <2>6
  <2>8. /\ Goon(r) \in Request
        /\ Goon(r).at = "create" /\ Goon(r).on = c /\ Goon(r).left = rest
    BY <2>5, <2>7, ZenonT(60) DEF Request
  <2>9. SameFindings(r, Goon(r))
    BY <2>7 DEF Request, SameFindings
  <2> QED  BY <1>2, <2>6, <2>8, <2>9
<1> QED  BY <1>1, <1>2

\* With a verdict the request ends, or goes on to the next check after a pass.
LEMMA GoonOK ==
  ASSUME NEW r \in Request, r.left \subseteq Sims, r.on \notin r.left, r.verdict # "none",
         "montecarlo" \in r.left => r.shown["montecarlo"] # "shown", VerdictOK(r)
  PROVE  /\ RequestOK(Goon(r)) /\ VerdictOK(Goon(r))
         /\ Goon(r).at \in {"create", "answered"}
<1>1. PICK n \in Request : n = Goon(r)
  BY GoonMoves
<1>2. /\ SameFindings(r, n)
      /\ \/ n.at = "answered" /\ n.on = r.on /\ n.left = r.left
         \/ /\ n.at = "create" /\ n.on \in r.left
            /\ n.left = r.left \ {n.on} /\ r.verdict = "pass"
  BY <1>1, GoonMoves
<1>3. r.left \subseteq Checks
  BY DEF Request
<1>4. RequestOK(n)
  <2>1. n.left \subseteq Sims /\ n.on \notin n.left /\ n.verdict # "none"
    BY <1>2 DEF SameFindings
  <2>2. n.at # "answered" => n.on # "nominal" /\ n.verdict = "pass"
    BY <1>2, <1>3, Nominal DEF SameFindings
  <2>3. n.at # "answered" /\ (n.on = "montecarlo" \/ "montecarlo" \in n.left)
        => n.shown["montecarlo"] # "shown"
    BY <1>2 DEF SameFindings
  <2> QED  BY <1>2, <2>1, <2>2, <2>3 DEF RequestOK
<1>5. VerdictOK(n)
  BY <1>2 DEF VerdictOK, Condemned, Certified, SameFindings
<1> QED  BY <1>1, <1>2, <1>4, <1>5

\* The verdict on the nominal run.
LEMMA SayOK ==
  ASSUME NEW r \in Request, r.left \subseteq Sims, r.on = "nominal",
         r.shown["montecarlo"] # "shown", NEW sim, NEW verdict, verdict = Judge(r, sim),
         verdict = "fail" /\ "nominal" \notin retried => Condemned(r),
         verdict = "pass" => Certified(r)
  PROVE  /\ RequestOK(Say(r, sim)) /\ VerdictOK(Say(r, sim))
         /\ Say(r, sim).at \in {"create", "answered"}
<1> DEFINE n == [r EXCEPT !.verdict = verdict]
<1>1. verdict \in {"pass", "fail", "inconclusive"}
  BY DEF Judge
<1>2. /\ n \in Request /\ n.verdict = verdict /\ n.left = r.left /\ n.on = r.on
      /\ n.erc = r.erc /\ n.refused = r.refused /\ n.saw = r.saw /\ n.result = r.result
      /\ n.spec = r.spec /\ n.overload = r.overload
      /\ n.basis = r.basis /\ n.batch = r.batch /\ n.shown = r.shown
  BY <1>1 DEF Request
<1>3. Say(r, sim) = Goon(n)
  BY DEF Say
<1> HIDE DEF n
<1>4. VerdictOK(n)
  BY <1>2 DEF VerdictOK, Condemned, Certified
<1>5. r.on \notin r.left
  BY Nominal DEF Request
<1> QED  BY <1>1, <1>2, <1>3, <1>4, <1>5, GoonOK

\* Not to have got anything condemns nothing but what the rules had refused.
LEMMA SkipOK ==
  ASSUME NEW r \in Request, r.left \subseteq Sims, r.on = "nominal",
         r.shown["montecarlo"] # "shown"
  PROVE  /\ RequestOK(Say(r, "skipped")) /\ VerdictOK(Say(r, "skipped"))
         /\ Say(r, "skipped").at \in {"create", "answered"}
<1>1. /\ Judge(r, "skipped") = "fail" => Condemned(r)
      /\ Judge(r, "skipped") # "pass"
  <2>1. r.erc \in BOOLEAN
    BY DEF Request
  <2> QED  BY <2>1 DEF Judge, Condemned
<1> QED  BY <1>1, SayOK

\* What is said of a check changes nothing else.
LEMMA DiscloseOK ==
  ASSUME NEW r, RequestOK(r), VerdictOK(r), r.on \in Checks, r.at # "answered",
         NEW what \in {"unavailable", "flat", "shown"},
         r.on = "montecarlo" => what # "shown"
  PROVE  /\ RequestOK(Disclose(r, what)) /\ VerdictOK(Disclose(r, what))
         /\ Disclose(r, what).at \in {"create", "answered"}
<1> DEFINE n == [r EXCEPT !.shown[r.on] = what]
<1>1. r \in Request /\ r.verdict = "pass" /\ r.left \subseteq Sims /\ r.on \notin r.left
  BY Nominal DEF RequestOK
<1>2. /\ n \in Request /\ n.verdict = r.verdict /\ n.left = r.left /\ n.on = r.on
      /\ n.erc = r.erc /\ n.refused = r.refused /\ n.saw = r.saw /\ n.result = r.result
      /\ n.spec = r.spec /\ n.overload = r.overload
      /\ n.basis = r.basis /\ n.batch = r.batch
      /\ n.shown = [r.shown EXCEPT ![r.on] = what]
  BY <1>1 DEF Request
<1>3. Disclose(r, what) = Goon(n)
  BY DEF Disclose
<1> HIDE DEF n
<1>4. n.shown["montecarlo"] = "shown" =>
        r.shown["montecarlo"] = "shown" /\ "montecarlo" \notin r.left
  BY <1>1, <1>2, Nominal DEF Request, RequestOK
<1>5. VerdictOK(n)
  BY <1>2, <1>4 DEF VerdictOK, Condemned, Certified
<1> QED  BY <1>1, <1>2, <1>3, <1>4, <1>5, GoonOK

-----------------------------------------------------------------------------
(* The steps.                                                              *)

\* What the rows are known for stays true if no nominal row is touched.
LEMMA RequestMoves ==
  ASSUME VerifyInv, UNCHANGED lifecycleVars, RequestOK(request'), VerdictOK(request'),
         request'.at # "result"
  PROVE  VerifyInv'
<1>1. RequestOK(request)' /\ VerdictOK(request)'
  BY DEF lifecycleVars, RequestOK, VerdictOK, Condemned, Certified
<1>2. LifecycleTypeOK' /\ NominalOK' /\ ResultOK'
  BY DEF VerifyInv, LifecycleTypeOK, NominalOK, ResultOK, lifecycleVars
<1> QED  BY <1>1, <1>2 DEF VerifyInv

\* A request that was not answered yet.
LEMMA Unanswered ==
  ASSUME VerifyInv, request.at # "answered"
  PROVE  /\ request \in Request /\ request.left \subseteq Sims /\ request.on \notin request.left
         /\ request.on \in Sims /\ request.shown \in [Checks -> {"none", "unavailable", "flat", "shown"}]
         /\ request.on = "nominal" =>
               /\ request.verdict = "none" /\ ~request.refused /\ request.result = "none"
               /\ ~request.overload /\ request.shown["montecarlo"] # "shown"
         /\ request.on # "nominal" => request.on \in Checks /\ request.verdict = "pass"
<1>1. RequestOK(request)
  BY DEF VerifyInv
<1>2. request \in Request
  BY <1>1 DEF RequestOK
<1>3. request.on \in Sims /\ request.shown \in [Checks -> {"none", "unavailable", "flat", "shown"}]
  BY <1>2 DEF Request
<1>4. request.on # "nominal" => request.on \in Checks
  BY <1>3
<1> QED  BY <1>1, <1>2, <1>3, <1>4 DEF RequestOK

LEMMA GiveUpOK ==
  ASSUME VerifyInv, request.at # "answered"
  PROVE  /\ RequestOK(GiveUp(request)) /\ VerdictOK(GiveUp(request))
         /\ GiveUp(request).at \in {"create", "answered"}
<1>1. CASE request.on = "nominal"
  BY <1>1, Unanswered, SkipOK DEF GiveUp
<1>2. CASE request.on # "nominal"
  BY <1>2, Unanswered, DiscloseOK DEF GiveUp, VerifyInv
<1> QED  BY <1>1, <1>2

LEMMA ReviewInv ==
  ASSUME VerifyInv, Review
  PROVE  VerifyInv'
<1>1. PICK erc \in BOOLEAN, refused \in BOOLEAN :
        LET r == [request EXCEPT !.erc = erc, !.refused = refused] IN
        request' = IF refused THEN Say(r, "failed") ELSE [r EXCEPT !.at = "create"]
  BY DEF Review
<1> DEFINE r == [request EXCEPT !.erc = erc, !.refused = refused]
<1>2. request.on = "nominal" /\ request.at = "review"
  BY DEF VerifyInv, RequestOK, Review
<1>3. /\ r \in Request /\ r.left = request.left /\ r.on = "nominal" /\ r.refused = refused
      /\ r.shown = request.shown /\ r.verdict = "none" /\ r.result = "none" /\ ~r.overload
  BY <1>2, Unanswered, ZenonT(60) DEF Request
<1>4. CASE refused
  <2>1. Judge(r, "failed") = "fail" /\ Condemned(r)
    BY <1>3, <1>4 DEF Judge, Condemned
  <2>2. request' = Say(r, "failed")
    BY <1>1, <1>4
  <2> HIDE DEF r
  <2>3. /\ RequestOK(Say(r, "failed")) /\ VerdictOK(Say(r, "failed"))
        /\ Say(r, "failed").at \in {"create", "answered"}
    BY <1>2, <1>3, <2>1, Unanswered, SayOK
  <2> QED  BY <2>2, <2>3, RequestMoves DEF Review
<1>5. CASE ~refused
  <2>1. request' = [r EXCEPT !.at = "create"]
    BY <1>1, <1>5
  <2> HIDE DEF r
  <2>2. /\ request' \in Request /\ request'.left = request.left /\ request'.on = "nominal"
        /\ ~request'.refused /\ request'.shown = request.shown /\ request'.verdict = "none"
        /\ request'.result = "none" /\ ~request'.overload /\ request'.at = "create"
    BY <1>3, <1>5, <2>1 DEF Request
  <2>3. RequestOK(request') /\ VerdictOK(request')
    BY <1>2, <2>2, Unanswered DEF RequestOK, VerdictOK
  <2> QED  BY <2>2, <2>3, RequestMoves DEF Review
<1> QED  BY <1>4, <1>5

LEMMA DeriveInv ==
  ASSUME VerifyInv, Derive
  PROVE  VerifyInv'
<1>1. PICK basis \in Basis :
        LET r == [request EXCEPT !.basis = basis] IN
        request' = IF basis = "none" THEN Disclose(r, "unavailable") ELSE r
  BY DEF Derive
<1> DEFINE r == [request EXCEPT !.basis = basis]
<1>2. request.on = "montecarlo" /\ request.at = "create" /\ request.shown["montecarlo"] # "shown"
  BY DEF VerifyInv, RequestOK, Derive
<1>3. /\ r \in Request /\ SameFindings([r EXCEPT !.basis = request.basis], request)
      /\ r.at = "create" /\ r.left = request.left /\ r.on = request.on
      /\ r.erc = request.erc /\ r.refused = request.refused /\ r.saw = request.saw
      /\ r.result = request.result /\ r.spec = request.spec /\ r.overload = request.overload
      /\ r.verdict = request.verdict /\ r.shown = request.shown
  BY <1>2, Unanswered DEF Request, SameFindings
<1>4. request' = IF basis = "none" THEN Disclose(r, "unavailable") ELSE r
  BY <1>1
<1> HIDE DEF r
<1>5. RequestOK(r) /\ VerdictOK(r) /\ r.verdict = "pass"
  BY <1>2, <1>3, Nominal, Unanswered DEF VerifyInv, RequestOK, VerdictOK, Certified
<1>6. /\ RequestOK(Disclose(r, "unavailable")) /\ VerdictOK(Disclose(r, "unavailable"))
      /\ Disclose(r, "unavailable").at \in {"create", "answered"}
  BY <1>2, <1>3, <1>5, Nominal, DiscloseOK
<1>7. RequestOK(request') /\ VerdictOK(request') /\ request'.at # "result"
  BY <1>3, <1>4, <1>5, <1>6
<1> QED  BY <1>7, RequestMoves DEF Derive

\* A request that only waits for something else.
LEMMA MoveOn ==
  ASSUME VerifyInv, NEW at \in {"add", "poll"}, request.at \in {"create", "add"},
         NEW n, n = [request EXCEPT !.at = at]
  PROVE  RequestOK(n) /\ VerdictOK(n) /\ n.at = at
<1>1. request \in Request
  BY DEF VerifyInv, RequestOK
<1>2. /\ n \in Request /\ n.at = at /\ n.on = request.on /\ n.left = request.left
      /\ SameFindings(request, n)
  BY <1>1 DEF Request, SameFindings
<1> QED
  BY <1>2 DEF VerifyInv, RequestOK, VerdictOK, Certified, Condemned, SameFindings

LEMMA OpenInv ==
  ASSUME VerifyInv, Open
  PROVE  VerifyInv'
<1>1. ASSUME Insert(request.on), request' = [request EXCEPT !.at = "add"]
      PROVE  VerifyInv'
  <2>1. /\ status[request.on] = "ABSENT" /\ status' = [status EXCEPT ![request.on] = "QUEUED"]
        /\ UNCHANGED <<deck, retried, disturbed>> /\ request.at = "create"
    BY <1>1 DEF Insert, Becomes, Open
  <2>2. request.on \in Sims
    BY <2>1, Unanswered
  <2>3. LifecycleTypeOK' /\ NominalOK'
    BY <2>1, <2>2, Nominal DEF VerifyInv, LifecycleTypeOK, NominalOK
  <2>4. RequestOK(request') /\ VerdictOK(request') /\ request'.at = "add"
    BY <1>1, <2>1, MoveOn
  <2>5. RequestOK(request)' /\ VerdictOK(request)' /\ ResultOK'
    BY <2>1, <2>4 DEF RequestOK, VerdictOK, Condemned, Certified, ResultOK
  <2> QED  BY <2>3, <2>5 DEF VerifyInv
<1>2. ASSUME UNCHANGED lifecycleVars, request' = GiveUp(request)
      PROVE  VerifyInv'
  BY <1>2, GiveUpOK, RequestMoves DEF Open
<1> QED  BY <1>1, <1>2 DEF Open

LEMMA EnqueueInv ==
  ASSUME VerifyInv, Enqueue
  PROVE  VerifyInv'
<1>1. request.at = "add" /\ UNCHANGED lifecycleVars
  BY DEF Enqueue
<1>2. CASE request' = [request EXCEPT !.at = "poll"]
  BY <1>1, <1>2, MoveOn, RequestMoves
<1>3. CASE request' = GiveUp(request)
  BY <1>1, <1>3, GiveUpOK, RequestMoves
<1> QED  BY <1>2, <1>3 DEF Enqueue

LEMMA PollEndsInv ==
  ASSUME VerifyInv, PollEnds
  PROVE  VerifyInv'
BY GiveUpOK, RequestMoves DEF PollEnds

LEMMA AnswersInv ==
  ASSUME VerifyInv, UNCHANGED lifecycleVars, request.at = "poll", request.on = "nominal",
         status["nominal"] \in Settled, request' = Answers(request, status["nominal"])
  PROVE  VerifyInv'
<1> DEFINE seen == status["nominal"]
           n == [request EXCEPT !.saw = seen]
<1>1. /\ n \in Request /\ n.left = request.left /\ n.on = "nominal" /\ n.saw = seen
      /\ n.shown = request.shown /\ n.result = request.result /\ n.erc = request.erc
  BY Unanswered DEF Request
<1>2. CASE seen = "SUCCEEDED"
  <2>1. request' = [request EXCEPT !.at = "result", !.saw = seen]
    BY <1>2 DEF Answers
  <2>2. /\ request' \in Request /\ request'.at = "result" /\ request'.on = "nominal"
        /\ request'.left = request.left /\ request'.verdict = request.verdict
        /\ request'.refused = request.refused /\ request'.result = request.result
        /\ request'.overload = request.overload /\ request'.shown = request.shown
        /\ request'.saw = "SUCCEEDED"
    BY <1>2, <2>1, Unanswered, ZenonT(60) DEF Request
  <2>3. RequestOK(request') /\ VerdictOK(request')
    BY <2>2, Unanswered DEF RequestOK, VerdictOK
  <2>4. RequestOK(request)' /\ VerdictOK(request)'
    BY <2>3 DEF lifecycleVars, RequestOK, VerdictOK, Condemned, Certified
  <2>5. LifecycleTypeOK' /\ NominalOK' /\ ResultOK'
    BY <1>2, <2>2 DEF VerifyInv, LifecycleTypeOK, NominalOK, ResultOK, lifecycleVars
  <2> QED  BY <2>4, <2>5 DEF VerifyInv
<1>3. CASE seen # "SUCCEEDED"
  <2> DEFINE sim == IF seen \in {"FAILED", "TIMED_OUT"} THEN "failed" ELSE "skipped"
  <2>1. request' = Say(n, sim)
    BY <1>3 DEF Answers
  <2> HIDE DEF n
  <2>2. CASE seen \in {"FAILED", "TIMED_OUT"}
    <3>1. sim = "failed"
      BY <2>2
    <3>2. "nominal" \notin retried => Condemned(n)
      BY <1>1, <2>2 DEF VerifyInv, NominalOK, Condemned
    <3>3. Judge(n, "failed") = "fail"
      BY DEF Judge
    <3>4. /\ RequestOK(Say(n, sim)) /\ VerdictOK(Say(n, sim))
          /\ Say(n, sim).at \in {"create", "answered"}
      BY <1>1, <3>1, <3>2, <3>3, Unanswered, SayOK
    <3> QED  BY <2>1, <3>4, RequestMoves
  <2>3. CASE seen \notin {"FAILED", "TIMED_OUT"}
    <3>1. sim = "skipped"
      BY <2>3
    <3>2. /\ RequestOK(Say(n, sim)) /\ VerdictOK(Say(n, sim))
          /\ Say(n, sim).at \in {"create", "answered"}
      BY <1>1, <3>1, Unanswered, SkipOK
    <3> QED  BY <2>1, <3>2, RequestMoves
  <2> QED  BY <2>2, <2>3
<1> QED  BY <1>2, <1>3

\* A batch is graded: the one way a check condemns a design.
LEMMA GradeInv ==
  ASSUME VerifyInv, UNCHANGED lifecycleVars, request.at = "poll", request.on = "montecarlo",
         NEW size \in Sizes, NEW batch \in AllBatches[size], request' = Grade(request, batch)
  PROVE  VerifyInv'
<1>1. /\ batch.sample \in Sample /\ batch.cut \in BOOLEAN
      /\ batch \in UNION {AllBatches[n] : n \in Sizes}
  BY BatchFacts
<1>2. RequestOK(request) /\ VerdictOK(request) /\ request \in Request
  BY Unanswered DEF VerifyInv
<1>3. request.verdict = "pass" /\ request.shown["montecarlo"] # "shown"
  BY Unanswered, Nominal DEF VerifyInv, RequestOK
<1> DEFINE seen == [request EXCEPT !.batch = batch]
<1>4. /\ seen \in Request /\ seen.batch = batch
      /\ seen.at = request.at /\ seen.left = request.left /\ seen.on = request.on
      /\ seen.erc = request.erc /\ seen.refused = request.refused /\ seen.saw = request.saw
      /\ seen.result = request.result /\ seen.spec = request.spec
      /\ seen.overload = request.overload /\ seen.basis = request.basis
      /\ seen.verdict = request.verdict /\ seen.shown = request.shown
  BY <1>1, <1>2 DEF Request
<1>5. CASE Evaluated(batch.sample) = 0
  <2>1. request' = Disclose(seen, "unavailable")
    BY <1>5 DEF Grade
  <2> HIDE DEF seen
  <2>2. RequestOK(seen) /\ VerdictOK(seen)
    BY <1>2, <1>3, <1>4 DEF RequestOK, VerdictOK, Certified
  <2>3. /\ RequestOK(Disclose(seen, "unavailable")) /\ VerdictOK(Disclose(seen, "unavailable"))
        /\ Disclose(seen, "unavailable").at \in {"create", "answered"}
    BY <1>4, <2>2, Nominal, DiscloseOK
  <2> QED  BY <2>1, <2>3, RequestMoves
<1>6. CASE Evaluated(batch.sample) # 0 /\ Gates(request, batch)
  <2> DEFINE bad == [seen EXCEPT !.verdict = "fail", !.gated = TRUE]
             n == [bad EXCEPT !.shown[bad.on] = "shown"]
  <2>1. request' = Goon(n)
    BY <1>6 DEF Grade, Disclose
  <2> HIDE DEF seen
  <2>2. /\ bad \in Request /\ bad.batch = batch /\ bad.left = request.left
        /\ bad.on = request.on /\ bad.basis = request.basis /\ bad.verdict = "fail"
    BY <1>4, ZenonT(60) DEF Request
  <2> HIDE DEF bad
  <2>3. /\ n \in Request /\ n.batch = batch /\ n.left = request.left
        /\ n.on = request.on /\ n.basis = request.basis /\ n.verdict = "fail"
    BY <2>2 DEF Request
  <2> HIDE DEF n
  <2>4. Condemned(n)
    <3>1. HighMisses(batch.sample, MarginalMin) /\ request.basis = "user-specified" /\ ~batch.cut
      BY <1>1, <1>6, AtRiskIsBelow DEF Gates
    <3>2. /\ batch.sample.failed > 0
          /\ ~YieldReaches(batch.sample, MarginalMin)
      BY <1>1, <3>1, FailuresBelowTheBar
    <3> QED  BY <2>3, <3>1, <3>2 DEF Condemned
  <2>5. n.left \subseteq Sims /\ n.on \notin n.left /\ "montecarlo" \notin n.left
    BY <1>2, <2>3 DEF RequestOK
  <2>6. RequestOK(Goon(n)) /\ VerdictOK(Goon(n)) /\ Goon(n).at \in {"create", "answered"}
    BY <2>3, <2>4, <2>5, GoonOK DEF VerdictOK
  <2> QED  BY <2>1, <2>6, RequestMoves
<1>7. CASE Evaluated(batch.sample) # 0 /\ ~Gates(request, batch)
  <2> DEFINE n == [seen EXCEPT !.shown[seen.on] = "shown"]
  <2>1. request' = Goon(n)
    BY <1>7 DEF Grade, Disclose
  <2> HIDE DEF seen
  <2>2. /\ n \in Request /\ n.batch = batch
        /\ n.left = request.left /\ n.on = request.on
        /\ n.erc = request.erc /\ n.refused = request.refused
        /\ n.saw = request.saw /\ n.result = request.result /\ n.spec = request.spec
        /\ n.overload = request.overload /\ n.basis = request.basis /\ n.verdict = "pass"
    BY <1>3, <1>4 DEF Request
  <2> HIDE DEF n
  <2>3. Certified(n)
    <3>1. Certified(request)
      BY <1>2, <1>3 DEF VerdictOK
    <3>2. batch.cut \/ request.basis # "user-specified" \/ ~HighMisses(batch.sample, MarginalMin)
      BY <1>1, <1>7, AtRiskIsBelow DEF Gates
    <3> QED  BY <2>2, <3>1, <3>2 DEF Certified
  <2>4. n.left \subseteq Sims /\ n.on \notin n.left /\ "montecarlo" \notin n.left
    BY <1>2, <2>2 DEF RequestOK
  <2>5. RequestOK(Goon(n)) /\ VerdictOK(Goon(n)) /\ Goon(n).at \in {"create", "answered"}
    BY <2>2, <2>3, <2>4, GoonOK DEF VerdictOK
  <2> QED  BY <2>1, <2>5, RequestMoves
<1> QED  BY <1>5, <1>6, <1>7

LEMMA PollInv ==
  ASSUME VerifyInv, Poll
  PROVE  VerifyInv'
<1>1. /\ request.at = "poll" /\ status[request.on] \in Settled /\ UNCHANGED lifecycleVars
      /\ request.at # "answered"
  BY DEF Poll
<1>2. ASSUME request.on = "nominal", request' = Answers(request, status[request.on])
      PROVE  VerifyInv'
  BY <1>1, <1>2, AnswersInv
<1>3. ASSUME NEW what \in {"unavailable", "flat", "shown"}, request.on # "nominal",
             request.on = "montecarlo" => what # "shown", request' = Disclose(request, what)
      PROVE  VerifyInv'
  <2>1. RequestOK(request) /\ VerdictOK(request) /\ request.on \in Checks
    BY <1>1, <1>3, Unanswered DEF VerifyInv
  <2>2. /\ RequestOK(Disclose(request, what)) /\ VerdictOK(Disclose(request, what))
        /\ Disclose(request, what).at \in {"create", "answered"}
    BY <1>1, <1>3, <2>1, DiscloseOK
  <2> QED  BY <1>1, <1>3, <2>2, RequestMoves
<1>4. ASSUME request.on = "montecarlo",
             NEW n \in Sizes, NEW batch \in AllBatches[n], request' = Grade(request, batch)
      PROVE  VerifyInv'
  BY <1>1, <1>4, GradeInv
<1> QED  BY <1>2, <1>3, <1>4 DEF Poll

\* A result that was read, or was not there.
LEMMA ReadOK ==
  ASSUME VerifyInv, UNCHANGED lifecycleVars, request.at = "result",
         NEW r \in Request, r.left = request.left, r.on = request.on, r.shown = request.shown,
         NEW sim, request' = Say(r, sim),
         Judge(r, sim) = "fail" /\ "nominal" \notin retried => Condemned(r),
         Judge(r, sim) = "pass" => Certified(r)
  PROVE  VerifyInv'
<1>1. request.on = "nominal"
  BY DEF VerifyInv, RequestOK
<1>2. /\ RequestOK(Say(r, sim)) /\ VerdictOK(Say(r, sim))
      /\ Say(r, sim).at \in {"create", "answered"}
  BY <1>1, Unanswered, SayOK
<1> QED  BY <1>2, RequestMoves

LEMMA LoseInv ==
  ASSUME VerifyInv, UNCHANGED lifecycleVars, request.at = "result",
         NEW result \in {"none", "empty", "unavailable"}, NEW sim \in {"failed", "skipped"},
         request' = Lose(request, result, sim),
         sim = "failed" /\ "nominal" \notin retried => result = "empty"
  PROVE  VerifyInv'
<1> DEFINE r == [request EXCEPT !.result = result]
<1>1. /\ r \in Request /\ r.left = request.left /\ r.on = request.on /\ r.shown = request.shown
      /\ r.result = result
  BY Unanswered DEF Request
<1>2. request' = Say(r, sim)
  BY DEF Lose
<1> HIDE DEF r
<1>3. r.erc \in BOOLEAN
  BY <1>1 DEF Request
<1>4. /\ Judge(r, sim) = "fail" /\ "nominal" \notin retried => Condemned(r)
      /\ Judge(r, sim) # "pass"
  BY <1>1, <1>3 DEF Judge, Condemned
<1> QED  BY <1>1, <1>2, <1>4, ReadOK

LEMMA ReadResultInv ==
  ASSUME VerifyInv, ReadResult
  PROVE  VerifyInv'
<1>1. request.at = "result" /\ UNCHANGED lifecycleVars
  BY DEF ReadResult
<1>2. /\ request.saw = "SUCCEEDED"
      /\ "nominal" \notin retried => status["nominal"] \notin {"QUEUED", "RUNNING", "CANCELED"}
  BY <1>1 DEF VerifyInv, ResultOK
<1>3. ASSUME NEW spec \in {"none", "met", "unmet"}, NEW overload \in BOOLEAN,
             request' = Say([request EXCEPT !.result = "data", !.spec = spec,
                                            !.overload = overload], "ok")
      PROVE  VerifyInv'
  <2> DEFINE r == [request EXCEPT !.result = "data", !.spec = spec, !.overload = overload]
  <2>1. /\ r \in Request /\ r.left = request.left /\ r.on = request.on
        /\ r.shown = request.shown /\ r.result = "data" /\ r.spec = spec
        /\ r.overload = overload /\ r.refused = request.refused /\ r.erc \in BOOLEAN
        /\ r.saw = request.saw
    BY <1>1, Unanswered, ZenonT(60) DEF Request
  <2>2. request' = Say(r, "ok")
    BY <1>3
  <2> HIDE DEF r
  <2>3. ~r.refused /\ r.shown["montecarlo"] # "shown"
    BY <1>1, <2>1, Unanswered DEF VerifyInv, RequestOK
  <2>4. Judge(r, "ok") = "fail" => Condemned(r)
    BY <2>1 DEF Judge, Condemned
  <2>5. Judge(r, "ok") = "pass" => Certified(r)
    BY <1>2, <2>1, <2>3 DEF Judge, Certified
  <2> QED  BY <1>1, <2>1, <2>2, <2>4, <2>5, ReadOK
<1>4. ASSUME request' = Lose(request, "empty", "failed") PROVE VerifyInv'
  BY <1>1, <1>4, LoseInv
<1>5. ASSUME request' = Lose(request, "unavailable", "skipped") PROVE VerifyInv'
  BY <1>1, <1>5, LoseInv
<1>6. ASSUME "nominal" \in retried, request' = Lose(request, "none", "failed")
      PROVE  VerifyInv'
  BY <1>1, <1>6, LoseInv
<1> QED  BY <1>2, <1>3, <1>4, <1>5, <1>6 DEF ReadResult

\* The worker, the queue and the operator.
LEMMA ServedInv ==
  ASSUME VerifyInv, NEW s \in Sims, Served(s), UNCHANGED request
  PROVE  VerifyInv'
<1>1. LifecycleTypeOK /\ NominalOK /\ ResultOK
  BY DEF VerifyInv
<1>2. UNCHANGED deck /\ retried \subseteq retried' /\ disturbed \subseteq disturbed'
  BY DEF Served, Start, Settle, FailQueued, Cancel, Retry, Reset, Delete, Disturb, Becomes
<1>3. RequestOK(request)' /\ VerdictOK(request)'
  BY <1>2 DEF VerifyInv, RequestOK, VerdictOK, Condemned, Certified
<1>4. ASSUME NEW next, Becomes(s, next),
             next \in {"QUEUED", "RUNNING", "GONE"} \cup Settled,
             s = "nominal" /\ next = "FAILED" /\ "nominal" \notin retried
               => deck["nominal"] = "bad" \/ "nominal" \in disturbed,
             \/ next \notin {"QUEUED", "RUNNING", "CANCELED"}
             \/ s = "nominal" /\ "nominal" \in retried
             \/ s = "nominal" /\ status["nominal"] = "QUEUED"
             \/ s # "nominal"
      PROVE  VerifyInv'
  <2>1. status' = [status EXCEPT ![s] = next] /\ UNCHANGED <<deck, retried, disturbed>>
    BY <1>4 DEF Becomes
  <2>2. LifecycleTypeOK'
    BY <1>1, <1>4, <2>1 DEF LifecycleTypeOK
  <2>3. status'["nominal"] = IF s = "nominal" THEN next ELSE status["nominal"]
    BY <1>1, <2>1, Nominal DEF LifecycleTypeOK
  <2>4. NominalOK'
    BY <1>1, <1>4, <2>1, <2>3 DEF NominalOK
  <2>5. ResultOK'
    BY <1>1, <1>4, <2>1, <2>3 DEF ResultOK
  <2> QED  BY <1>3, <2>2, <2>4, <2>5 DEF VerifyInv
<1>5. CASE Start(s)
  BY <1>4, <1>5 DEF Start
<1>6. CASE Settle(s)
  <2>1. PICK next \in Outcomes(s) : Becomes(s, next)
    BY <1>6 DEF Settle
  <2>2. next \in Settled \ {"CANCELED"}
    BY DEF Outcomes, Settled
  <2>3. s = "nominal" /\ next = "FAILED" /\ "nominal" \notin retried
        => deck["nominal"] = "bad" \/ "nominal" \in disturbed
    BY <1>1 DEF Outcomes, NominalOK
  <2>4. next \notin {"QUEUED", "RUNNING", "CANCELED"}
    BY <2>2 DEF Settled
  <2> QED  BY <1>4, <2>1, <2>2, <2>3, <2>4
<1>7. CASE FailQueued(s)
  BY <1>4, <1>7 DEF FailQueued, Settled
<1>8. CASE Cancel(s)
  BY <1>4, <1>8 DEF Cancel, Settled
<1>9. CASE Retry(s)
  <2>1. retried' = retried \cup {s} /\ UNCHANGED <<deck, status, disturbed>>
    BY <1>9 DEF Retry
  <2>2. LifecycleTypeOK' /\ NominalOK' /\ ResultOK'
    BY <1>1, <2>1 DEF LifecycleTypeOK, NominalOK, ResultOK
  <2> QED  BY <1>3, <2>2 DEF VerifyInv
<1>10. CASE Reset(s)
  BY <1>4, <1>10 DEF Reset, Settled
<1>11. CASE Delete(s)
  BY <1>4, <1>11 DEF Delete
<1>12. CASE Disturb(s)
  <2>1. disturbed' = disturbed \cup {s} /\ UNCHANGED <<deck, status, retried>>
    BY <1>12 DEF Disturb
  <2>2. LifecycleTypeOK' /\ NominalOK' /\ ResultOK'
    BY <1>1, <2>1 DEF LifecycleTypeOK, NominalOK, ResultOK
  <2> QED  BY <1>3, <2>2 DEF VerifyInv
<1> QED  BY <1>5, <1>6, <1>7, <1>8, <1>9, <1>10, <1>11, <1>12 DEF Served

LEMMA VerifyInitInv ==
  ASSUME VerifyInit
  PROVE  VerifyInv
<1>1. /\ deck \in [Sims -> {"good", "bad", "batch"}] /\ status = [s \in Sims |-> "ABSENT"]
      /\ retried = {} /\ disturbed = {} /\ deck["nominal"] # "batch"
  BY Nominal DEF VerifyInit, LifecycleInit
<1>2. LifecycleTypeOK /\ NominalOK
  BY <1>1, Nominal DEF LifecycleTypeOK, NominalOK
<1>3. /\ request.at = "review" /\ request.on = "nominal" /\ request.verdict = "none"
      /\ ~request.refused /\ request.result = "none" /\ ~request.overload
      /\ request.shown = [c \in Checks |-> "none"] /\ request.left \in Asked
  BY DEF VerifyInit
<1>4. request \in Request
  <2>1. PICK left \in Asked, none \in {[c \in Checks |-> "none"]} :
          request = [at |-> "review", on |-> "nominal", left |-> left, erc |-> FALSE,
                     refused |-> FALSE, saw |-> "nothing", result |-> "none",
                     spec |-> "unknown", overload |-> FALSE, verdict |-> "none",
                     basis |-> "unknown", batch |-> NoBatch, gated |-> FALSE, shown |-> none]
    BY DEF VerifyInit
  <2>2. left \in SUBSET Checks /\ none \in [Checks -> {"none", "unavailable", "flat", "shown"}]
    OBVIOUS
  <2> QED  BY <2>1, <2>2, Nominal DEF Request
<1>5. request.left \subseteq Checks /\ request.left \subseteq Sims
  BY <1>3
<1>6. RequestOK(request)
  BY <1>3, <1>4, <1>5, Nominal DEF RequestOK
<1>7. VerdictOK(request) /\ ResultOK
  BY <1>3 DEF VerdictOK, ResultOK
<1> QED  BY <1>2, <1>6, <1>7 DEF VerifyInv

LEMMA VerifyNextInv ==
  ASSUME VerifyInv, [VerifyNext]_verifyVars
  PROVE  VerifyInv'
<1>1. CASE VerifyNext
  <2>1. CASE Verify
    BY <2>1, ReviewInv, DeriveInv, OpenInv, EnqueueInv, PollInv, PollEndsInv, ReadResultInv
       DEF Verify
  <2>2. CASE Served(request.on) /\ UNCHANGED request
    BY <1>1, <2>2, Unanswered, ServedInv DEF VerifyNext
  <2> QED  BY <1>1, <2>1, <2>2 DEF VerifyNext
<1>2. CASE UNCHANGED verifyVars
  <2>1. UNCHANGED <<deck, status, retried, disturbed, request>>
    BY <1>2 DEF verifyVars, lifecycleVars
  <2> QED  BY <2>1 DEF VerifyInv, LifecycleTypeOK, NominalOK, ResultOK, RequestOK, VerdictOK,
                       Condemned, Certified
<1> QED  BY <1>1, <1>2

\* The inductive invariant of a verification: its verdict is open until the
\* nominal run is judged, and whatever it then is has been earned, also while
\* checks are still running.
THEOREM VerificationInvariant == VerifySpec => []VerifyInv
<1>1. VerifyInit => VerifyInv
  BY VerifyInitInv
<1>2. VerifyInv /\ [VerifyNext]_verifyVars => VerifyInv'
  BY VerifyNextInv
<1> QED  BY <1>1, <1>2, PTL DEF VerifySpec

\* "Not verified" is about the design, whatever workers, queues and quotas did, but for
\* an operator's retry of its run and a second handler or the host disturbing it: for
\* any bars, sizes of batches and checks asked for (verification.service.ts).
THEOREM FailuresAreEarned == VerifySpec => []FailIsEarned
<1>1. VerifyInv => FailIsEarned
  BY DEF VerifyInv, VerdictOK, Condemned, FailIsEarned
<1> QED  BY <1>1, VerificationInvariant, PTL

\* "Verified" is earned by a run of this circuit that met its criteria, and no
\* whole batch on the user's own tolerances condemns it.
THEOREM PassesAreEarned == VerifySpec => []PassIsEarned
<1>1. VerifyInv => PassIsEarned
  BY DEF VerifyInv, VerdictOK, Certified, PassIsEarned
<1> QED  BY <1>1, VerificationInvariant, PTL

\* A batch that was ended early because its tier was decided has one, and a
\* flawless batch of the size the bar asks for is robust, for any two bars that are
\* shares of Whole, 0.999 among them, and any size of batch (montecarlo.ts).
THEOREM SamplerAgreesWithGrader == VerifySpec => []SamplerAndGraderAgree
<1>1. ASSUME VerifyInv PROVE SamplerAndGraderAgree
  <2>1. SUFFICES ASSUME request.batch # NoBatch
                 PROVE  LET b == request.batch IN
                        /\ b.early /\ Evaluated(b.sample) > 0 => Tier(b.sample) # "unknown"
                        /\ ~b.cut /\ b.wanted >= RequiredRuns /\ b.sample.failed = 0
                             /\ b.sample.passed = b.wanted
                           => Tier(b.sample) = "robust"
    BY DEF SamplerAndGraderAgree
  <2> DEFINE b == request.batch
  <2>2. PICK n \in Sizes : b \in AllBatches[n]
    <3>1. request \in Request
      BY <1>1 DEF VerifyInv, RequestOK
    <3>2. b \in {NoBatch} \cup UNION {AllBatches[n] : n \in Sizes}
      BY <3>1 DEF Request
    <3> QED  BY <2>1, <3>2
  <2>3. b.sample \in Sample /\ (b.early => EndsEarly(b.sample))
    BY <2>2, BatchFacts
  <2>4. b.early /\ Evaluated(b.sample) > 0 => TierDecided(b.sample)
    BY <2>3 DEF EndsEarly
  <2> QED  BY <2>3, <2>4, DecidedHasTier, FlawlessIsRobust
<1> QED  BY <1>1, VerificationInvariant, PTL

=============================================================================
