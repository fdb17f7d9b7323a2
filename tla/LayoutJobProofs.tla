--------------------------- MODULE LayoutJobProofs ---------------------------
(***************************************************************************)
(* Proofs about LayoutJob for any number of jobs, worker slots and reapers. *)
(* TypeOK is inductive by itself.  The safety properties need to know in    *)
(* addition what each stage of the handler has done so far: HandlerFacts.   *)
(* Inv is the two together, and each property follows from it.              *)
(***************************************************************************)
EXTENDS LayoutJob, JobQueueProofs

\* A step that names no prover is given a minute of each.
USE SMTT(60), ZenonT(60)

-----------------------------------------------------------------------------
(* Type correctness.                                                       *)

\* TypeOK's part on the handlers.
HandlersOK ==
    /\ handler \in [Workers -> Handler]
    /\ \A w \in Workers : handler[w].at = "finish" => handler[w].outcome \in Terminal

\* A step of a worker, BullMQ's included, keeps the types.
LEMMA WorkerStepType ==
  ASSUME TypeOK, NEW w \in Workers, WorkerStep(w) \/ Crash(w)
  PROVE  TypeOK'
<1> USE DEF TypeOK, HandlersOK, PipelineOnly, jobVars, queueVars
<1>0. ASSUME NEW h \in Handler, h.at = "finish" => h.outcome \in Terminal,
             handler' = [handler EXCEPT ![w] = h]
      PROVE  HandlersOK'
  BY <1>0
<1>1. ASSUME NEW to \in Stage \ {"finish"}, Goto(w, to) PROVE HandlersOK'
  BY <1>1 DEF Goto, Handler
<1>2. ASSUME NEW outcome \in Terminal, NEW published \in SUBSET Artifacts,
             Decide(w, outcome, published)
      PROVE  HandlersOK'
  <2> DEFINE h == [handler[w] EXCEPT !.at = "finish", !.outcome = outcome,
                                     !.keys = published]
  <2>1. h \in Handler
    BY <1>2, ZenonT(60) DEF Handler, Stage
  <2>2. h.at = "finish" /\ h.outcome = outcome
    BY DEF Handler
  <2>3. handler' = [handler EXCEPT ![w] = h]
    BY <1>2 DEF Decide
  <2> HIDE DEF h, HandlersOK
  <2> QED  BY <1>0, <1>2, <2>1, <2>2, <2>3
<1>3. ASSUME row' \in [Jobs -> Row],
             UNCHANGED <<age, queueVars, api, canceller, reaper>>
      PROVE  JobTypeOK'
  BY <1>3 DEF JobTypeOK
<1>5. ASSUME PipelineOnly PROVE JobTypeOK' /\ keys' \in [Jobs -> SUBSET Artifacts]
  BY <1>5 DEF JobTypeOK
<1>6. Claimed(handler[w].job) \in [Jobs -> Row]
  BY ZenonT(60) DEF Claimed, JobTypeOK, Row, Status, Live
<1>7. {"idle", "layout", "routing", "judge", "export", "render", "return",
       "throw"} \in SUBSET (Stage \ {"finish"})
  BY DEF Stage
<1>8. {{}, {"gerbers"}, {"gerbers", "glb"}} \in SUBSET SUBSET Artifacts
  BY DEF Artifacts
<1>9. {"SUCCEEDED", "FAILED", "CANCELED"} \in SUBSET Terminal
  BY DEF Terminal
<1>10. CASE Claim(w)
  <2>1. row' \in [Jobs -> Row] /\ HandlersOK'
    BY <1>10, <1>1, <1>6, <1>7 DEF Claim, JobTypeOK
  <2> QED  BY <1>10, <1>3, <2>1 DEF Claim
<1>11. CASE ClaimThrows(w)
  <2>1. row' \in [Jobs -> Row] /\ HandlersOK'
    BY <1>11, <1>1, <1>6, <1>7 DEF ClaimThrows, JobTypeOK
  <2> QED  BY <1>11, <1>3, <2>1 DEF ClaimThrows
<1>12. CASE SeeAbort(w)
  <2> DEFINE h1 == [handler[w] EXCEPT !.abortSeen = TRUE, !.at = "judge"]
             h2 == [handler[w] EXCEPT !.abortSeen = TRUE, !.at = "finish",
                                      !.outcome = "CANCELED"]
  <2>1. handler[w] \in Handler
    OBVIOUS
  <2>2. h1 \in Handler /\ h2 \in Handler /\ h1.at # "finish" /\ h2.outcome \in Terminal
    BY <2>1 DEF Handler, Stage, Terminal
  <2>3. handler' = [handler EXCEPT ![w] = h1] \/ handler' = [handler EXCEPT ![w] = h2]
    BY <1>12 DEF SeeAbort
  <2>4. HandlersOK'
    <3> HIDE DEF h1, h2
    <3> QED  BY <2>2, <2>3, <1>0
  <2> QED  BY <1>12, <1>5, <2>4 DEF SeeAbort
<1>13. CASE StartAttempt(w)
  <2> DEFINE h == [handler[w] EXCEPT !.at = "routing", !.attempts = handler[w].attempts + 1]
  <2>1. handler[w] \in Handler
    OBVIOUS
  <2>2. handler[w].attempts + 1 \in 0..MaxAttempts
    BY <1>13, <2>1, LayoutJobAssumption DEF StartAttempt, Handler
  <2>3. h \in Handler /\ h.at # "finish"
    BY <2>1, <2>2 DEF Handler, Stage
  <2>4. handler' = [handler EXCEPT ![w] = h]
    BY <1>13 DEF StartAttempt, RunRouter
  <2>5. HandlersOK'
    <3> HIDE DEF h
    <3> QED  BY <2>3, <2>4, <1>0
  <2> QED  BY <1>13, <1>5, <2>5 DEF StartAttempt
<1>14. CASE AttemptEnds(w)
  BY <1>14, <1>1, <1>5, <1>7 DEF AttemptEnds
<1>15. CASE LayoutReturns(w)
  BY <1>15, <1>1, <1>2, <1>5, <1>7, <1>8, <1>9 DEF LayoutReturns
<1>16. CASE Judge(w)
  BY <1>16, <1>1, <1>2, <1>5, <1>7, <1>8, <1>9 DEF Judge
<1>17. CASE ExportBundle(w)
  <2>1. HandlersOK'
    BY <1>17, <1>1, <1>2, <1>7, <1>8, <1>9 DEF ExportBundle
  <2>2. s3' \in [Jobs -> SUBSET Artifacts]
    BY <1>17 DEF ExportBundle, Artifacts
  <2> QED  BY <1>17, <1>5, <2>1, <2>2 DEF ExportBundle
<1>18. CASE Render(w)
  <2>1. HandlersOK'
    BY <1>18, <1>2, <1>8, <1>9 DEF Render
  <2>2. s3' \in [Jobs -> SUBSET Artifacts]
    BY <1>18 DEF Render, Artifacts
  <2> QED  BY <1>18, <1>5, <2>1, <2>2 DEF Render
<1>19. CASE Finish(w)
  <2>1. HandlersOK'
    BY <1>19, <1>1, <1>7 DEF Finish
  <2>2. handler[w] \in Handler
    OBVIOUS
  <2>3. row' \in [Jobs -> Row]
    <3> DEFINE j == handler[w].job
    <3>1. CASE UNCHANGED row
      BY <3>1 DEF JobTypeOK
    <3>2. CASE /\ row[j].status = "RUNNING"
               /\ row' = [row EXCEPT ![j] =
                            [@ EXCEPT !.status = handler[w].outcome,
                                      !.error = IF handler[w].outcome = "FAILED"
                                                THEN "worker" ELSE "none"]]
               /\ handler[w].outcome \in Terminal
      <4> DEFINE source == IF handler[w].outcome = "FAILED" THEN "worker" ELSE "none"
      <4>1. handler[w].outcome \in Status /\ source \in ErrorSource
        BY <3>2 DEF Status, ErrorSource
      <4>2. row \in [Jobs -> Row]
        BY DEF JobTypeOK
      <4> HIDE DEF source, TypeOK, HandlersOK
      <4>3. ASSUME j \in Jobs
            PROVE  [row[j] EXCEPT !.status = handler[w].outcome, !.error = source] \in Row
        BY <4>1, <4>2, <4>3 DEF Row
      <4>4. row' = [row EXCEPT ![j] = [row[j] EXCEPT !.status = handler[w].outcome,
                                                    !.error = source]]
        BY <3>2 DEF source
      <4> QED  BY <4>2, <4>3, <4>4
    <3> QED  BY <1>19, <3>1, <3>2 DEF Finish
  <2>4. keys' \in [Jobs -> SUBSET Artifacts]
    BY <1>19, <2>2 DEF Finish, Handler
  <2> QED  BY <1>19, <1>3, <2>1, <2>3, <2>4 DEF Finish
<1>20. Idle \in Handler /\ Idle.at # "finish"
  BY LayoutJobAssumption DEF Idle, Fresh, Handler, Stage
<1>21. CASE Leave(w)
  BY <1>20, <1>21 DEF Leave, Report, JobTypeOK, QueueState
<1>22. CASE Crash(w)
  BY <1>20, <1>22 DEF Crash, JobTypeOK
<1> QED
  BY <1>10, <1>11, <1>12, <1>13, <1>14, <1>15, <1>16, <1>17, <1>18, <1>19,
     <1>21, <1>22 DEF WorkerStep

LEMMA TypeInit == Init => TypeOK
<1> SUFFICES ASSUME Init PROVE TypeOK
  OBVIOUS
<1>1. row \in [Jobs -> Row]
  BY DEF Init, JobInit, Row, NewRow, Status, ErrorSource
<1>2. reaper \in [Reapers -> Sweep]
  BY DEF Init, JobInit, Sweep, NoSweep
<1>3. JobTypeOK
  BY <1>1, <1>2 DEF Init, JobInit, JobTypeOK, QueueState
<1>4. Idle \in Handler /\ Idle.at # "finish"
  BY LayoutJobAssumption DEF Idle, Fresh, Handler, Stage
<1> QED  BY <1>3, <1>4 DEF Init, TypeOK

LEMMA TypeStep == ASSUME TypeOK, [Next]_vars PROVE TypeOK'
<1>1. CASE JobStep /\ UNCHANGED workerVars
  BY <1>1, JobStepType DEF TypeOK, workerVars
<1>2. ASSUME NEW w \in Workers, WorkerStep(w) \/ Crash(w) PROVE TypeOK'
  BY <1>2, WorkerStepType
<1>3. ASSUME NEW w \in Workers, NEW j \in Jobs, Deliver(w, j) PROVE TypeOK'
  <2>1. Fresh("claim", j) \in Handler /\ Fresh("claim", j).at # "finish"
    BY LayoutJobAssumption DEF Fresh, Handler, Stage
  <2>2. JobTypeOK'
    BY <1>3 DEF Deliver, Dequeue, TypeOK, JobTypeOK, QueueState
  <2> QED  BY <1>3, <2>1, <2>2 DEF Deliver, TypeOK
<1>4. ASSUME NEW j \in Jobs, LockExpires(j) PROVE TypeOK'
  BY <1>4 DEF LockExpires, Stall, TypeOK, JobTypeOK, QueueState, workerVars
<1>5. CASE UNCHANGED vars
  BY <1>5 DEF vars, TypeOK, JobTypeOK
<1> QED  BY <1>1, <1>2, <1>3, <1>4, <1>5 DEF Next

\* Every variable of LayoutJob stays within its type; in particular the margin
\* ladder never starts more routing attempts than it offers, and a handler that
\* is about to write the row has an outcome to write (StartAttempt, Finish).
THEOREM TypeCorrect == Spec => []TypeOK
<1>1. TypeOK /\ [Next]_vars => TypeOK'
  BY TypeStep
<1> QED  BY <1>1, TypeInit, PTL DEF Spec

-----------------------------------------------------------------------------

(* The inductive invariant.                                                *)

\* What a handler's stage says of its job's row and of the bundle.
HandlerFacts(w) ==
    LET h == handler[w]
        j == h.job
    IN  /\ h.at # "idle" => j \in Jobs /\ row[j].status # "ABSENT"
        /\ h.at \in Working => row[j].status # "QUEUED"
        /\ h.abortSeen => row[j].abort
        /\ h.abortSeen => h.at \in {"judge", "finish", "return"}
        /\ h.at = "finish" =>
              /\ h.outcome = "CANCELED" <=> h.abortSeen
              /\ h.keys # {} => "gerbers" \in s3[j] /\ h.outcome = "SUCCEEDED"
        /\ h.at = "render" => "gerbers" \in s3[j]
        /\ h.at \notin {"finish", "return"} => h.keys = {}

Inv ==
    /\ TypeOK
    /\ RowExists
    /\ \A w \in Workers : HandlerFacts(w)
    /\ SingleRunner
    /\ BundleBacked
    /\ SucceededWithoutError
    /\ CanceledWasAsked

\* What the row's columns say together after the step, and that a row which may
\* have keys keeps a status that may.
Sound(j) ==
    /\ row'[j].status = "SUCCEEDED" => row'[j].error = "none"
    /\ row'[j].status = "CANCELED" => row'[j].abort
    /\ row[j].status \in {"SUCCEEDED", "CANCELED"} =>
          row'[j].status \in {"SUCCEEDED", "CANCELED"}

\* The API, the client, the reaper and time leave the rows sound.
LEMMA JobStepSound ==
  ASSUME Inv, JobStep, NEW i \in Jobs
  PROVE  Sound(i)
<1> USE DEF Sound
<1>0. /\ row \in [Jobs -> Row]
      /\ row[i] \in Row
      /\ row[i].status = "SUCCEEDED" => row[i].error = "none"
      /\ row[i].status = "CANCELED" => row[i].abort
  BY DEF Inv, TypeOK, JobTypeOK, SucceededWithoutError, CanceledWasAsked
<1>1. ASSUME NEW j \in Jobs, Create(j) PROVE Sound(i)
  BY <1>0, <1>1 DEF Create, NewRow, Inv, RowExists
<1>2. ASSUME NEW j \in Jobs, FailRefused(j) PROVE Sound(i)
  BY <1>0, <1>2, ZenonT(60) DEF FailRefused, Row
<1>3. ASSUME NEW j \in Jobs, CancelQueued(j) PROVE Sound(i)
  BY <1>0, <1>3 DEF CancelQueued, Row
<1>4. ASSUME NEW j \in Jobs, CancelRunning(j) PROVE Sound(i)
  BY <1>0, <1>4 DEF CancelRunning, Row
<1>5. ASSUME NEW j \in Jobs, Overruns(j) PROVE Sound(i)
  BY <1>0, <1>5 DEF Overruns, Row
<1>6. ASSUME NEW r \in Reapers, SweepWrite(r) PROVE Sound(i)
  BY <1>0, <1>6 DEF SweepWrite, Row, Live
<1>7. CASE UNCHANGED row
  BY <1>0, <1>7
<1>8. ASSUME NEW j \in Jobs,
             \/ AddSucceeds(j) \/ AddThrows(j) \/ ApiCrash(j) \/ CancelRead(j)
             \/ CancelLost(j) \/ Evict(j) \/ Ages(j)
      PROVE  UNCHANGED row
  BY <1>8 DEF AddSucceeds, AddThrows, ApiCrash, CancelRead, CancelLost, Evict, Ages
<1>9. ASSUME NEW r \in Reapers,
             \/ SweepStart(r) \/ SweepSkip(r)
             \/ \E seen \in Sighting : SweepLook(r, seen)
      PROVE  UNCHANGED row
  BY <1>9 DEF SweepStart, SweepSkip, SweepLook
<1> QED
  BY <1>1, <1>2, <1>3, <1>4, <1>5, <1>6, <1>7, <1>8, <1>9 DEF JobStep

\* A step that leaves the row alone leaves it sound.
LEMMA RowSame ==
  ASSUME Inv, UNCHANGED row, NEW i \in Jobs
  PROVE  Grows(i) /\ Sound(i)
BY DEF Inv, Grows, Sound, SucceededWithoutError, CanceledWasAsked

\* What is known of a handler survives the steps of everybody else.
LEMMA FactsKept ==
  ASSUME Inv, NEW w \in Workers, UNCHANGED handler[w],
         \A j \in Jobs : Grows(j) /\ s3[j] \subseteq s3'[j]
  PROVE  HandlerFacts(w)'
<1>1. handler[w] \in Handler /\ HandlerFacts(w)
  BY DEF Inv, TypeOK
<1>2. handler[w].at # "idle" \/ ~handler[w].abortSeen
  BY <1>1 DEF HandlerFacts
<1>3. CASE handler[w].at = "idle"
  BY <1>1, <1>2, <1>3 DEF HandlerFacts, Working
<1>4. CASE handler[w].at # "idle"
  BY <1>1, <1>4 DEF HandlerFacts, Grows
<1> QED  BY <1>3, <1>4

\* A step that publishes nothing and claims nothing keeps the invariant if it
\* keeps the facts of the handlers.
LEMMA Assembled ==
  ASSUME Inv, TypeOK', RowExists', UNCHANGED keys,
         \A j \in Jobs : Grows(j) /\ Sound(j) /\ s3[j] \subseteq s3'[j],
         \A w \in Workers :
            /\ HandlerFacts(w)'
            /\ handler'[w].at \in Working =>
                  handler[w].at \in Working /\ handler'[w].job = handler[w].job
  PROVE  Inv'
<1>1. SingleRunner'
  BY DEF Inv, SingleRunner
<1>2. BundleBacked'
  BY DEF Inv, BundleBacked, Sound
<1>3. SucceededWithoutError' /\ CanceledWasAsked'
  BY DEF Sound, SucceededWithoutError, CanceledWasAsked
<1> QED  BY <1>1, <1>2, <1>3 DEF Inv

LEMMA JobStepInv ==
  ASSUME Inv, TypeOK', JobStep, UNCHANGED workerVars
  PROVE  Inv'
<1>1. \A j \in Jobs : Grows(j) /\ Sound(j) /\ s3[j] \subseteq s3'[j]
  BY JobStepGrows, JobStepSound DEF Inv, TypeOK, workerVars
<1>2. \A w \in Workers : UNCHANGED handler[w]
  BY DEF workerVars
<1>3. \A w \in Workers : HandlerFacts(w)'
  BY <1>1, <1>2, FactsKept
<1>4. RowExists'
  BY JobStepExists DEF Inv, TypeOK
<1> QED  BY <1>1, <1>2, <1>3, <1>4, Assembled DEF workerVars

\* The stages between the claim and the terminal write.
Pipeline(w) ==
    \/ SeeAbort(w) \/ StartAttempt(w) \/ AttemptEnds(w) \/ LayoutReturns(w)
    \/ Judge(w) \/ ExportBundle(w) \/ Render(w)

LEMMA PipelineInv ==
  ASSUME Inv, TypeOK', NEW w \in Workers, Pipeline(w)
  PROVE  Inv'
<1> DEFINE h == handler[w]
           j == handler[w].job
<1>0. /\ handler \in [Workers -> Handler]
      /\ s3 \in [Jobs -> SUBSET Artifacts]
      /\ h \in Handler
      /\ HandlerFacts(w)
  BY DEF Inv, TypeOK
<1>1. /\ h.at \in Working \ {"finish"}
      /\ UNCHANGED <<row, keys, queueJob, canceller, api>>
      /\ \A x \in Workers \ {w} : UNCHANGED handler[x]
  BY <1>0 DEF Pipeline, Working, SeeAbort, StartAttempt, RunRouter, AttemptEnds,
        LayoutReturns, Judge, ExportBundle, Render, Goto, Decide, PipelineOnly,
        jobVars
<1>2. j \in Jobs /\ row[j].status \notin {"ABSENT", "QUEUED"}
  BY <1>0, <1>1 DEF HandlerFacts, Working
<1>3. \A i \in Jobs : s3[i] \subseteq s3'[i]
  BY <1>0 DEF Pipeline, SeeAbort, StartAttempt, AttemptEnds, LayoutReturns, Judge,
        ExportBundle, Render
<1>4. ASSUME NEW to, Goto(w, to)
      PROVE  /\ handler'[w].at = to /\ handler'[w].job = j
             /\ handler'[w].abortSeen = h.abortSeen
             /\ handler'[w].keys = h.keys
  BY <1>0, <1>4 DEF Goto, Handler
<1>5. ASSUME NEW outcome, NEW published, Decide(w, outcome, published)
      PROVE  /\ handler'[w].at = "finish" /\ handler'[w].job = j
             /\ handler'[w].abortSeen = h.abortSeen
             /\ handler'[w].outcome = outcome
             /\ handler'[w].keys = published
  BY <1>0, <1>5 DEF Decide, Handler
<1>6. h.keys = {} /\ (~h.abortSeen \/ h.at = "judge")
  BY <1>0, <1>1 DEF HandlerFacts, Working
<1>7. HandlerFacts(w)' /\ handler'[w].job = j
  <2>1. CASE SeeAbort(w)
    <3>1. /\ handler'[w].abortSeen /\ row[j].abort /\ handler'[w].job = j
          /\ handler'[w].keys = h.keys
          /\ \/ handler'[w].at = "judge"
             \/ handler'[w].at = "finish" /\ handler'[w].outcome = "CANCELED"
      <4> DEFINE h1 == [h EXCEPT !.abortSeen = TRUE, !.at = "judge"]
                 h2 == [h EXCEPT !.abortSeen = TRUE, !.at = "finish",
                                 !.outcome = "CANCELED"]
      <4>1. handler'[w] = h1 \/ handler'[w] = h2
        BY <1>0, <2>1 DEF SeeAbort
      <4>2. /\ h1.abortSeen /\ h1.job = j /\ h1.keys = h.keys /\ h1.at = "judge"
            /\ h2.abortSeen /\ h2.job = j /\ h2.keys = h.keys /\ h2.at = "finish"
            /\ h2.outcome = "CANCELED"
        BY <1>0 DEF Handler
      <4>3. row[j].abort
        BY <2>1 DEF SeeAbort
      <4> HIDE DEF h1, h2
      <4> QED  BY <4>1, <4>2, <4>3
    <3> QED  BY <1>1, <1>2, <1>6, <3>1 DEF HandlerFacts, Working
  <2>2. CASE StartAttempt(w)
    <3>1. /\ handler'[w].at = "routing" /\ handler'[w].job = j
          /\ ~handler'[w].abortSeen /\ handler'[w].keys = {}
      BY <1>0, <1>6, <2>2 DEF StartAttempt, RunRouter, Handler
    <3> QED  BY <1>1, <1>2, <3>1 DEF HandlerFacts, Working
  <2>3. CASE AttemptEnds(w)
    BY <1>1, <1>2, <1>4, <1>6, <2>3 DEF AttemptEnds, HandlerFacts, Working
  <2>4. CASE LayoutReturns(w)
    BY <1>1, <1>2, <1>4, <1>5, <1>6, <2>4 DEF LayoutReturns, HandlerFacts, Working
  <2>5. CASE Judge(w)
    BY <1>0, <1>1, <1>2, <1>4, <1>5, <1>6, <2>5 DEF Judge, HandlerFacts, Working
  <2>6. CASE ExportBundle(w)
    <3>1. CASE Goto(w, "render") /\ s3' = [s3 EXCEPT ![j] = @ \cup {"gerbers"}]
      <4>1. "gerbers" \in s3'[j]
        BY <1>0, <1>2, <3>1
      <4> QED
        BY <1>1, <1>2, <1>4, <1>6, <2>6, <3>1, <4>1 DEF ExportBundle, HandlerFacts, Working
    <3>2. CASE Decide(w, "FAILED", {})
      BY <1>1, <1>2, <1>5, <1>6, <2>6, <3>2 DEF ExportBundle, HandlerFacts, Working
    <3> QED  BY <2>6, <3>1, <3>2 DEF ExportBundle
  <2>7. CASE Render(w)
    <3>1. "gerbers" \in s3'[j]
      BY <1>0, <1>2, <1>3, <2>7 DEF Render, HandlerFacts
    <3> QED
      BY <1>1, <1>2, <1>5, <1>6, <2>7, <3>1 DEF Render, HandlerFacts, Working
  <2> QED  BY <2>1, <2>2, <2>3, <2>4, <2>5, <2>6, <2>7 DEF Pipeline
<1>8. \A i \in Jobs : Grows(i) /\ Sound(i) /\ s3[i] \subseteq s3'[i]
  BY <1>1, <1>3, RowSame
<1>9. \A x \in Workers : HandlerFacts(x)'
  BY <1>1, <1>7, <1>8, FactsKept
<1>10. RowExists'
  BY <1>1 DEF Inv, RowExists
<1>11. \A x \in Workers :
        handler'[x].at \in Working =>
          handler[x].at \in Working /\ handler'[x].job = handler[x].job
  BY <1>1, <1>7
<1> QED  BY <1>1, <1>8, <1>9, <1>10, <1>11, Assembled

\* Claim and ClaimThrows: the row leaves QUEUED and nobody else works on it.
LEMMA ClaimInv ==
  ASSUME Inv, TypeOK', NEW w \in Workers, Claim(w) \/ ClaimThrows(w)
  PROVE  Inv'
<1> DEFINE h == handler[w]
           j == handler[w].job
<1>0. /\ handler \in [Workers -> Handler]
      /\ row \in [Jobs -> Row]
      /\ h \in Handler
      /\ HandlerFacts(w)
      /\ SingleRunner /\ BundleBacked
  BY DEF Inv, TypeOK, JobTypeOK
<1>1. h.at = "claim" /\ UNCHANGED <<keys, s3, queueJob, canceller, api>>
  BY DEF Claim, ClaimThrows, queueVars
<1>2. j \in Jobs /\ row[j].status # "ABSENT" /\ row[j] \in Row
      /\ ~h.abortSeen /\ h.keys = {}
  BY <1>0, <1>1 DEF HandlerFacts
<1>3. row' = row \/ (row[j].status = "QUEUED" /\ row' = Claimed(j))
  BY DEF Claim, ClaimThrows
<1>4. row[j].status = "QUEUED" /\ row' = Claimed(j) =>
        /\ row'[j].status = "RUNNING" /\ row'[j].abort = row[j].abort
        /\ \A i \in Jobs \ {j} : row'[i] = row[i]
  BY <1>0, <1>2 DEF Claimed, Row
<1>5. \A i \in Jobs : Grows(i) /\ Sound(i) /\ s3[i] \subseteq s3'[i]
  <2>1. CASE row' = row
    BY <1>1, <2>1, RowSame
  <2>2. CASE row[j].status = "QUEUED" /\ row' = Claimed(j)
    BY <1>1, <1>4, <2>2
       DEF Grows, Sound, Inv, SucceededWithoutError, CanceledWasAsked
  <2> QED  BY <1>3, <2>1, <2>2
<1>6. /\ \A x \in Workers \ {w} : UNCHANGED handler[x]
      /\ handler'[w].job = j /\ ~handler'[w].abortSeen /\ handler'[w].keys = {}
      /\ \/ handler'[w].at = "layout" /\ row'[j].status = "RUNNING"
         \/ handler'[w].at \in {"return", "throw"}
  BY <1>0, <1>1, <1>2, <1>4 DEF Claim, ClaimThrows, Goto, Handler
<1>7. row'[j].status # "ABSENT"
  BY <1>2, <1>5 DEF Grows
<1>8. \A x \in Workers : HandlerFacts(x)'
  <2>1. HandlerFacts(w)'
    BY <1>2, <1>6, <1>7 DEF HandlerFacts, Working
  <2> QED  BY <1>5, <1>6, <2>1, FactsKept
<1>9. RowExists'
  <2>1. \A i \in Jobs : row'[i].status = "ABSENT" <=> row[i].status = "ABSENT"
    BY <1>2, <1>3, <1>4
  <2> QED  BY <1>1, <2>1 DEF Inv, RowExists
<1>10. CASE Claim(w) /\ row[j].status = "QUEUED"
  <2>1. \A x \in Workers \ {w} : handler[x].at \in Working => handler[x].job # j
    BY <1>10 DEF Inv, HandlerFacts
  <2>2. SingleRunner'
    BY <1>0, <1>6, <2>1 DEF SingleRunner
  <2>3. BundleBacked'
    BY <1>0, <1>1, <1>5 DEF BundleBacked, Sound
  <2>4. SucceededWithoutError' /\ CanceledWasAsked'
    BY <1>5 DEF Sound, SucceededWithoutError, CanceledWasAsked
  <2> QED  BY <1>8, <1>9, <2>2, <2>3, <2>4 DEF Inv
<1>11. CASE ~(Claim(w) /\ row[j].status = "QUEUED")
  <2>1. handler'[w].at \in {"return", "throw"}
    BY <1>0, <1>11 DEF Claim, ClaimThrows, Goto, Handler
  <2>2. \A x \in Workers :
          handler'[x].at \in Working =>
            handler[x].at \in Working /\ handler'[x].job = handler[x].job
    BY <1>6, <2>1 DEF Working
  <2> QED  BY <1>1, <1>5, <1>8, <1>9, <2>2, Assembled
<1> QED  BY <1>10, <1>11

\* Finish: only a RUNNING row is settled, with what the handler decided.
LEMMA FinishInv ==
  ASSUME Inv, TypeOK', NEW w \in Workers, Finish(w)
  PROVE  Inv'
<1> DEFINE h == handler[w]
           j == handler[w].job
<1>0. /\ handler \in [Workers -> Handler]
      /\ row \in [Jobs -> Row]
      /\ keys \in [Jobs -> SUBSET Artifacts]
      /\ h \in Handler
      /\ HandlerFacts(w)
      /\ h.outcome \in Terminal
      /\ BundleBacked
  BY DEF Inv, TypeOK, JobTypeOK, Finish
<1>1. h.at = "finish" /\ UNCHANGED <<s3, queueJob, canceller, api>>
  BY DEF Finish, queueVars
<1>2. /\ j \in Jobs /\ row[j] \in Row /\ row[j].status \notin {"ABSENT", "QUEUED"}
      /\ h.abortSeen => row[j].abort
      /\ h.outcome = "CANCELED" <=> h.abortSeen
      /\ h.keys # {} => "gerbers" \in s3[j] /\ h.outcome = "SUCCEEDED"
  BY <1>0, <1>1 DEF HandlerFacts, Working
<1>3. /\ \A x \in Workers \ {w} : UNCHANGED handler[x]
      /\ handler'[w].at = "return" /\ handler'[w].job = j
      /\ handler'[w].abortSeen = h.abortSeen
  BY <1>0 DEF Finish, Goto, Handler
<1> DEFINE Written ==
             /\ row[j].status = "RUNNING"
             /\ row'[j].status = h.outcome
             /\ row'[j].abort = row[j].abort
             /\ row'[j].error = IF h.outcome = "FAILED" THEN "worker" ELSE "none"
             /\ keys'[j] = keys[j] \cup h.keys
             /\ \A i \in Jobs \ {j} : row'[i] = row[i] /\ keys'[i] = keys[i]
<1>4. UNCHANGED <<row, keys>> \/ Written
  <2> DEFINE new == [row[j] EXCEPT !.status = h.outcome,
                                   !.error = IF h.outcome = "FAILED"
                                             THEN "worker" ELSE "none"]
  <2>1. CASE /\ row[j].status = "RUNNING"
             /\ row' = [row EXCEPT ![j] = new]
             /\ keys' = [keys EXCEPT ![j] = @ \cup h.keys]
    <3>1. /\ new.status = h.outcome /\ new.abort = row[j].abort
          /\ new.error = IF h.outcome = "FAILED" THEN "worker" ELSE "none"
      BY <1>2 DEF Row
    <3>2. row'[j] = new /\ \A i \in Jobs \ {j} : row'[i] = row[i]
      BY <1>0, <1>2, <2>1
    <3>3. keys'[j] = keys[j] \cup h.keys /\ \A i \in Jobs \ {j} : keys'[i] = keys[i]
      BY <1>0, <1>2, <2>1
    <3> HIDE DEF new
    <3> QED  BY <2>1, <3>1, <3>2, <3>3
  <2> QED  BY <2>1 DEF Finish
<1>5. \A i \in Jobs : Grows(i) /\ Sound(i) /\ s3[i] \subseteq s3'[i]
  <2>1. CASE UNCHANGED <<row, keys>>
    BY <1>1, <2>1, RowSame
  <2>2. CASE Written
    BY <1>0, <1>1, <1>2, <2>2
       DEF Grows, Sound, Inv, SucceededWithoutError, CanceledWasAsked, Terminal
  <2> QED  BY <1>4, <2>1, <2>2
<1>6. \A x \in Workers : HandlerFacts(x)'
  <2>1. HandlerFacts(w)'
    BY <1>2, <1>3, <1>5 DEF HandlerFacts, Working, Grows
  <2> QED  BY <1>3, <1>5, <2>1, FactsKept
<1>7. RowExists'
  <2>1. \A i \in Jobs : row'[i].status = "ABSENT" <=> row[i].status = "ABSENT"
    BY <1>0, <1>2, <1>4 DEF Terminal
  <2> QED  BY <1>1, <2>1 DEF Inv, RowExists
<1>8. SingleRunner'
  BY <1>3 DEF Inv, SingleRunner, Working
<1>9. BundleBacked'
  <2>1. CASE UNCHANGED <<row, keys>>
    BY <1>0, <1>1, <2>1 DEF BundleBacked
  <2>2. CASE Written
    BY <1>0, <1>1, <1>2, <2>2 DEF BundleBacked
  <2> QED  BY <1>4, <2>1, <2>2
<1>10. SucceededWithoutError' /\ CanceledWasAsked'
  BY <1>5 DEF Sound, SucceededWithoutError, CanceledWasAsked
<1> QED  BY <1>6, <1>7, <1>8, <1>9, <1>10 DEF Inv

\* Deliver, Leave, Crash and LockExpires: the row is left alone and no handler
\* starts to work.
LEMMA QueueStepInv ==
  ASSUME Inv, TypeOK',
         \/ \E w \in Workers, j \in Jobs : Deliver(w, j)
         \/ \E w \in Workers : Leave(w) \/ Crash(w)
         \/ \E j \in Jobs : LockExpires(j)
  PROVE  Inv'
<1>0. handler \in [Workers -> Handler] /\ queueJob \in [Jobs -> QueueState]
  BY DEF Inv, TypeOK, JobTypeOK
<1>1. UNCHANGED <<row, keys, s3, api, canceller>>
  BY DEF Deliver, Leave, Crash, LockExpires, workerVars, jobVars
<1>2. \A j \in Jobs : Grows(j) /\ Sound(j) /\ s3[j] \subseteq s3'[j]
  BY <1>1, RowSame
<1>3. \A j \in Jobs : queueJob'[j] # "missing" => queueJob[j] # "missing"
  <2>1. ASSUME NEW w \in Workers, NEW j \in Jobs, Deliver(w, j)
        PROVE  \A i \in Jobs : queueJob'[i] # "missing" => queueJob[i] # "missing"
    BY <1>0, <2>1 DEF Deliver, Dequeue
  <2>2. ASSUME NEW w \in Workers, Leave(w) \/ Crash(w)
        PROVE  \A i \in Jobs : queueJob'[i] # "missing" => queueJob[i] # "missing"
    BY <1>0, <2>2 DEF Leave, Report, Crash, jobVars
  <2>3. ASSUME NEW j \in Jobs, LockExpires(j)
        PROVE  \A i \in Jobs : queueJob'[i] # "missing" => queueJob[i] # "missing"
    BY <1>0, <2>3 DEF LockExpires, Stall
  <2> QED  BY <2>1, <2>2, <2>3
<1>4. RowExists'
  BY <1>1, <1>3 DEF Inv, RowExists
<1>5. ASSUME NEW x \in Workers
      PROVE  \/ UNCHANGED handler[x]
             \/ handler'[x] = Idle
             \/ \E j \in Jobs : handler'[x] = Fresh("claim", j) /\ queueJob[j] = "waiting"
  BY <1>0, <1>5 DEF Deliver, Dequeue, Leave, Crash, LockExpires, workerVars
<1>6. ASSUME NEW x \in Workers
      PROVE  /\ HandlerFacts(x)'
             /\ handler'[x].at \in Working =>
                  handler[x].at \in Working /\ handler'[x].job = handler[x].job
  <2>1. CASE UNCHANGED handler[x]
    BY <1>2, <2>1, FactsKept
  <2>2. CASE handler'[x] = Idle
    BY <2>2 DEF HandlerFacts, Idle, Fresh, Working
  <2>3. ASSUME NEW j \in Jobs, handler'[x] = Fresh("claim", j), queueJob[j] = "waiting"
        PROVE  HandlerFacts(x)' /\ handler'[x].at \notin Working
    <3>1. row'[j].status # "ABSENT"
      BY <1>1, <2>3 DEF Inv, RowExists
    <3> QED  BY <2>3, <3>1 DEF HandlerFacts, Fresh, Working
  <2> QED  BY <1>5, <2>1, <2>2, <2>3
<1> QED  BY <1>1, <1>2, <1>4, <1>6, Assembled

\* Inv holds of every reachable state, whatever the constants are.
THEOREM Invariance == Spec => []Inv
<1>1. Init => Inv
  <2> SUFFICES ASSUME Init PROVE Inv
    OBVIOUS
  <2>1. TypeOK
    BY TypeInit
  <2>2. /\ \A j \in Jobs : row[j] = NewRow("ABSENT")
        /\ \A w \in Workers : handler[w] = Idle
    BY DEF Init, JobInit
  <2>3. RowExists
    BY <2>2 DEF Init, JobInit, RowExists, NewRow
  <2>4. \A w \in Workers : HandlerFacts(w)
    BY <2>2 DEF HandlerFacts, Idle, Fresh, Working
  <2>5. SingleRunner
    BY <2>2 DEF SingleRunner, Idle, Fresh, Working
  <2>6. BundleBacked /\ SucceededWithoutError /\ CanceledWasAsked
    BY <2>2 DEF Init, BundleBacked, SucceededWithoutError, CanceledWasAsked, NewRow
  <2> QED  BY <2>1, <2>3, <2>4, <2>5, <2>6 DEF Inv
<1>2. Inv /\ [Next]_vars => Inv'
  <2> SUFFICES ASSUME Inv, [Next]_vars PROVE Inv'
    OBVIOUS
  <2>0. TypeOK'
    BY TypeStep DEF Inv
  <2>1. CASE JobStep /\ UNCHANGED workerVars
    BY <2>0, <2>1, JobStepInv
  <2>2. ASSUME NEW w \in Workers, WorkerStep(w) PROVE Inv'
    BY <2>0, <2>2, PipelineInv, ClaimInv, FinishInv, QueueStepInv
       DEF WorkerStep, Pipeline
  <2>3. CASE \/ \E w \in Workers, j \in Jobs : Deliver(w, j)
             \/ \E w \in Workers : Crash(w)
             \/ \E j \in Jobs : LockExpires(j)
    BY <2>0, <2>3, QueueStepInv
  <2>4. CASE UNCHANGED vars
    <3>1. \A w \in Workers : HandlerFacts(w)'
      BY <2>4 DEF Inv, vars, HandlerFacts
    <3>2. /\ RowExists' /\ SingleRunner' /\ BundleBacked'
          /\ SucceededWithoutError' /\ CanceledWasAsked'
      BY <2>4 DEF Inv, vars, RowExists, SingleRunner, BundleBacked,
                  SucceededWithoutError, CanceledWasAsked
    <3> QED  BY <2>0, <3>1, <3>2 DEF Inv
  <2> QED  BY <2>1, <2>2, <2>3, <2>4 DEF Next
<1> QED  BY <1>1, <1>2, PTL DEF Spec

-----------------------------------------------------------------------------
(* The properties.                                                         *)

\* At most one handler works on a job, for any number of worker slots: the
\* conditional claim is enough, whatever BullMQ re-delivers (processLayoutJob).
THEOREM OneRunner == Spec => []SingleRunner
BY Invariance, PTL DEF Inv

\* A published fab bundle is stored, and its row was settled as SUCCEEDED
\* (gerbersKey is the manufacturability verdict of the API).
THEOREM BundlesAreBacked == Spec => []BundleBacked
BY Invariance, PTL DEF Inv

\* No row ends SUCCEEDED with the reaper's or the enqueue path's error (finish).
THEOREM SuccessHasNoError == Spec => []SucceededWithoutError
BY Invariance, PTL DEF Inv

\* A CANCELED row carries the flag of the request that canceled it (isAborted).
THEOREM NoSpontaneousCancel == Spec => []CanceledWasAsked
BY Invariance, PTL DEF Inv

\* A handler that saw the cancel flag settles its job as CANCELED and nothing
\* else, although the abort may be swallowed on the way (processLayoutJob).
THEOREM AbortCancels == Spec => []AbortIsNotFailure
<1>1. Inv => AbortIsNotFailure
  BY DEF Inv, HandlerFacts, AbortIsNotFailure
<1> QED  BY <1>1, Invariance, PTL

-----------------------------------------------------------------------------
(* LayoutJob implements JobLifecycle.                                      *)

\* A worker's step starts no sweep.
LEMMA OneDoomedStep ==
  ASSUME TypeOK, OneDoomed, [Next]_vars
  PROVE  OneDoomed'
<1>1. CASE JobStep
  BY <1>1, JobStepOneDoomed DEF TypeOK
<1>2. CASE UNCHANGED reaper
  BY <1>2 DEF OneDoomed
<1>3. ASSUME NEW w \in Workers, WorkerStep(w) \/ Crash(w) PROVE UNCHANGED reaper
  BY <1>3 DEF WorkerStep, Crash, Claim, ClaimThrows, SeeAbort, StartAttempt,
        AttemptEnds, LayoutReturns, Judge, ExportBundle, Render, Finish, Leave,
        PipelineOnly, jobVars
<1>4. ASSUME NEW j \in Jobs, LockExpires(j) \/ \E w \in Workers : Deliver(w, j)
      PROVE  UNCHANGED reaper
  BY <1>4 DEF LockExpires, Deliver
<1> QED  BY <1>1, <1>2, <1>3, <1>4 DEF Next, vars

\* A write of one row is an update of one abstract status.
LEMMA StatusUpdate ==
  ASSUME row \in [Jobs -> Row], NEW j \in Jobs, NEW new,
         row' = [row EXCEPT ![j] = new]
  PROVE  [i \in Jobs |-> row'[i].status] =
            [[i \in Jobs |-> row[i].status] EXCEPT ![j] = new.status]
OBVIOUS

\* The abstract step that the change of row j from `old` to `new` is.
LEMMA AbstractStep ==
  ASSUME row \in [Jobs -> Row], NEW j \in Jobs, NEW new,
         row' = [row EXCEPT ![j] = new], UNCHANGED keys,
         \/ row[j].status = "QUEUED" /\ new.status = "RUNNING"
         \/ Moves(j, new.status)
  PROVE  [Lifecycle!Next]_(Lifecycle!lifecycleVars)
<1> DEFINE S == [i \in Jobs |-> row[i].status]
           T == [i \in Jobs |-> row'[i].status]
<1>1. T = [S EXCEPT ![j] = new.status] /\ S[j] = row[j].status
  BY StatusUpdate
<1>2. CASE row[j].status = "ABSENT" /\ new.status = "QUEUED"
  <2>1. Lifecycle!Submit(j)
    BY <1>1, <1>2 DEF Lifecycle!Submit
  <2> QED  BY <2>1 DEF Lifecycle!Next
<1>3. CASE row[j].status = "QUEUED" /\ new.status = "RUNNING"
  <2>1. Lifecycle!Start(j)
    BY <1>1, <1>3 DEF Lifecycle!Start
  <2> QED  BY <2>1 DEF Lifecycle!Next
<1>4. CASE row[j].status \in Live /\ new.status = "FAILED"
  <2>1. Lifecycle!Fail(j)
    BY <1>1, <1>4 DEF Lifecycle!Fail, Live
  <2> QED  BY <2>1 DEF Lifecycle!Next
<1>5. CASE /\ row[j].status \in Live \/ (row[j].status \in Terminal /\ "CANCELED" \in StaleCancels(j))
           /\ new.status = "CANCELED"
  <2>1. Lifecycle!Cancel(j)
    BY <1>1, <1>5 DEF Lifecycle!Cancel, Lifecycle!Late, Lifecycle!Settled, Live, Terminal
  <2> QED  BY <2>1 DEF Lifecycle!Next
<1>6. CASE new.status = row[j].status
  <2>1. T = S
    BY <1>1, <1>6
  <2> QED  BY <2>1 DEF Lifecycle!lifecycleVars
<1> QED  BY <1>2, <1>3, <1>4, <1>5, <1>6 DEF Moves

\* The statuses and the published keys are what a client may rely on: the row
\* follows JobLifecycle, with the stale cancel as its only liberty.
THEOREM ImplementsLifecycle == Spec => KeepsLifecycle
<1> DEFINE Abstract == [Lifecycle!Next]_(Lifecycle!lifecycleVars)
<1>1. Init => Lifecycle!Init
  BY DEF Init, JobInit, NewRow, Lifecycle!Init
<1>2. ASSUME Inv, OneDoomed, [Next]_vars PROVE Abstract
  <2>0. /\ row \in [Jobs -> Row]
        /\ \A j \in Jobs : row[j] \in Row /\ row[j].status \in Live \cup Terminal \cup {"ABSENT"}
        /\ RowExists
    BY <1>2 DEF Inv, TypeOK, JobTypeOK, Row, Status
  <2>1. CASE UNCHANGED <<row, keys>>
    BY <2>1 DEF Lifecycle!lifecycleVars
  <2>2. CASE JobStep /\ UNCHANGED workerVars
    <3>1. ASSUME NEW j \in Jobs, NEW new \in Row,
                 row' = [row EXCEPT ![j] = new], Moves(j, new.status)
          PROVE  Abstract
      BY <2>0, <2>2, <3>1, AbstractStep DEF workerVars
    <3>2. \/ UNCHANGED row
          \/ \E j \in Jobs, new \in Row :
                row' = [row EXCEPT ![j] = new] /\ Moves(j, new.status)
      BY <1>2, <2>2, JobStepUpdate DEF Inv, TypeOK
    <3> QED  BY <2>1, <2>2, <3>1, <3>2 DEF workerVars
  <2>4. ASSUME NEW w \in Workers, Claim(w) \/ ClaimThrows(w) PROVE Abstract
    <3> DEFINE j == handler[w].job
               new == [row[j] EXCEPT !.status = "RUNNING", !.started = TRUE]
    <3>1. UNCHANGED keys /\ j \in Jobs
      BY <1>2, <2>4 DEF Claim, ClaimThrows, Inv, HandlerFacts
    <3>2. UNCHANGED row \/ (row[j].status = "QUEUED" /\ row' = [row EXCEPT ![j] = new])
      BY <2>4 DEF Claim, ClaimThrows, Claimed
    <3>3. new.status = "RUNNING"
      BY <2>0, <3>1 DEF Row
    <3> HIDE DEF new
    <3> QED  BY <2>0, <2>1, <3>1, <3>2, <3>3, AbstractStep
  <2>5. ASSUME NEW w \in Workers, Finish(w) PROVE Abstract
    <3>0. PICK j \in Jobs : j = handler[w].job
      BY <1>2, <2>5 DEF Finish, Inv, HandlerFacts
    <3> DEFINE h == handler[w]
               new == [row[j] EXCEPT !.status = h.outcome,
                                     !.error = IF h.outcome = "FAILED"
                                               THEN "worker" ELSE "none"]
    <3>1. /\ h.outcome \in Terminal
          /\ h.outcome # "SUCCEEDED" => h.keys = {}
          /\ h.keys \subseteq Artifacts
          /\ keys \in [Jobs -> SUBSET Artifacts]
      BY <1>2, <2>5 DEF Finish, Inv, TypeOK, HandlerFacts, Handler
    <3>2. new.status = h.outcome
      BY <2>0, <3>1 DEF Row
    <3>3. CASE /\ row[j].status = "RUNNING"
               /\ row' = [row EXCEPT ![j] = new]
               /\ keys' = [keys EXCEPT ![j] = @ \cup h.keys]
      <4>1. CASE h.outcome = "SUCCEEDED"
        <5>1. [i \in Jobs |-> row'[i].status] =
                [[i \in Jobs |-> row[i].status] EXCEPT ![j] = "SUCCEEDED"]
          <6> HIDE DEF new
          <6> QED  BY <2>0, <3>1, <3>2, <3>3, <4>1, StatusUpdate
        <5>2. keys[j] \cup h.keys \in SUBSET Artifacts
          BY <3>1
        <5>3. Lifecycle!Succeed(j)
          BY <3>1, <3>3, <5>1, <5>2 DEF Lifecycle!Succeed
        <5> QED  BY <5>3 DEF Lifecycle!Next
      <4>2. CASE h.outcome # "SUCCEEDED"
        <5>1. UNCHANGED keys
          BY <3>1, <3>3, <4>2
        <5>2. row[j].status \in Live
          BY <3>3 DEF Live
        <5> HIDE DEF new
        <5> QED
          BY <2>0, <3>1, <3>2, <3>3, <4>2, <5>1, <5>2, AbstractStep DEF Terminal, Moves
      <4> QED  BY <4>1, <4>2
    <3> QED  BY <2>1, <2>5, <3>0, <3>3 DEF Finish
  <2>9. ASSUME NEW w \in Workers, Pipeline(w) \/ Leave(w) \/ Crash(w)
        PROVE  UNCHANGED <<row, keys>>
    BY <2>9 DEF Pipeline, SeeAbort, StartAttempt, AttemptEnds, LayoutReturns,
          Judge, ExportBundle, Render, Leave, Crash, PipelineOnly, jobVars
  <2>10. ASSUME NEW j \in Jobs, LockExpires(j) \/ \E w \in Workers : Deliver(w, j)
         PROVE  UNCHANGED <<row, keys>>
    BY <2>10 DEF LockExpires, Deliver, workerVars
  <2>11. CASE UNCHANGED vars
    BY <2>1, <2>11 DEF vars
  <2> QED
    BY <1>2, <2>1, <2>2, <2>4, <2>5, <2>9, <2>10, <2>11 DEF Next, WorkerStep, Pipeline
<1>3. Init => OneDoomed
  BY DEF Init, JobInit, NoSweep, OneDoomed
<1>4. TypeOK /\ OneDoomed /\ [Next]_vars => OneDoomed'
  BY OneDoomedStep
<1>5. Inv => TypeOK
  BY DEF Inv
<1>6. Inv /\ OneDoomed /\ [Next]_vars => Abstract
  BY <1>2
<1> QED
  BY <1>1, <1>3, <1>4, <1>5, <1>6, Invariance, PTL
     DEF Spec, KeepsLifecycle, Lifecycle!Spec

=============================================================================
