------------------------------ MODULE LayoutJob ------------------------------
(***************************************************************************)
(* A PCB layout job from POST /layouts to its terminal row: JobQueue's API, *)
(* cancel, queue and reaper, and the pcb-worker that claims the row, lays  *)
(* the board out, judges it with KiCad's DRC, uploads the fab bundle and   *)
(* the 3D render to S3 and writes the row.                                 *)
(***************************************************************************)
EXTENDS JobQueue

CONSTANTS
    NoJob,        \* an idle handler's job
    MaxAttempts   \* routing attempts the margin ladder offers

ASSUME LayoutJobAssumption ==
    /\ NoJob \notin Jobs
    /\ MaxAttempts \in Nat \ {0}

VARIABLES
    keys,     \* artifacts whose S3 key is on the row (gerbersKey, glbKey)
    s3,       \* artifacts that are stored under the job's prefix
    handler   \* processLayoutJob in each worker slot

workerVars == <<keys, s3, handler>>
vars == <<row, age, queueJob, stalls, holder, api, canceller, reaper,
          keys, s3, handler>>

Artifacts == {"gerbers", "glb"}

\* Where processLayoutJob stands.
\*   claim      before the claim         layout   between routing attempts
\*   routing    a router child runs      judge    board laid out, DRC next
\*   export     board accepted           render   bundle uploaded, GLB next
\*   finish     outcome known            return, throw   BullMQ to be told
Stage == {"idle", "claim", "layout", "routing", "judge", "export", "render",
          "finish", "return", "throw"}

\* Past the claim: the stages in which the handler works on the job.
Working == {"layout", "routing", "judge", "export", "render", "finish"}

Handler == [at : Stage, job : Jobs \cup {NoJob}, abortSeen : BOOLEAN,
            attempts : 0..MaxAttempts, outcome : {"none"} \cup Terminal,
            keys : SUBSET Artifacts]

Fresh(at, job) == [at |-> at, job |-> job, abortSeen |-> FALSE,
                   attempts |-> 0, outcome |-> "none", keys |-> {}]

Idle == Fresh("idle", NoJob)

TypeOK ==
    /\ JobTypeOK
    /\ keys \in [Jobs -> SUBSET Artifacts]
    /\ s3 \in [Jobs -> SUBSET Artifacts]
    /\ handler \in [Workers -> Handler]
    /\ \A w \in Workers : handler[w].at = "finish" => handler[w].outcome \in Terminal

Init ==
    /\ JobInit
    /\ keys = [j \in Jobs |-> {}]
    /\ s3 = [j \in Jobs |-> {}]
    /\ handler = [w \in Workers |-> Idle]

-----------------------------------------------------------------------------

\* The handler in slot w goes on to stage `to` of its job.
Goto(w, to) == handler' = [handler EXCEPT ![w].at = to]

\* The outcome is decided; only the write of the row is left.
Decide(w, outcome, published) ==
    handler' = [handler EXCEPT ![w] = [@ EXCEPT !.at = "finish",
                                                !.outcome = outcome,
                                                !.keys = published]]

\* A stage of the pipeline touches neither the row nor the queue.
PipelineOnly == UNCHANGED <<jobVars, keys>>

Deliver(w, j) ==
    /\ handler[w].at = "idle"
    /\ Dequeue(w, j)
    /\ handler' = [handler EXCEPT ![w] = Fresh("claim", j)]
    /\ UNCHANGED <<row, age, api, canceller, reaper, keys, s3>>

Claimed(j) == [row EXCEPT ![j] = [@ EXCEPT !.status = "RUNNING", !.started = TRUE]]

\* Mutant of Claim: the update names the row by id alone.
ClaimUnconditionally(w) ==
    /\ handler[w].at = "claim"
    /\ row' = Claimed(handler[w].job)
    /\ Goto(w, "layout")
    /\ UNCHANGED <<age, queueVars, api, canceller, reaper, keys, s3>>

\* QUEUED -> RUNNING or nothing, in one conditional update.
Claim(w) ==
    LET j == handler[w].job IN
    /\ handler[w].at = "claim"
    /\ IF row[j].status = "QUEUED"
       THEN row' = Claimed(j) /\ Goto(w, "layout")
       ELSE UNCHANGED row /\ Goto(w, "return")
    /\ UNCHANGED <<age, queueVars, api, canceller, reaper, keys, s3>>

\* The claim is outside the handler's try: a database error, with or without
\* the update applied, leaves the handler by an exception.
ClaimThrows(w) ==
    LET j == handler[w].job IN
    /\ handler[w].at = "claim"
    /\ \/ row[j].status = "QUEUED" /\ row' = Claimed(j)
       \/ UNCHANGED row
    /\ Goto(w, "throw")
    /\ UNCHANGED <<age, queueVars, api, canceller, reaper, keys, s3>>

\* A checkpoint between attempts polls the cancel flag and finds it set.  Before
\* a placement rung the abort leaves layoutCircuit; inside the margin ladder
\* applyQualityRoute takes it for a tool fault and carries on with the local
\* route.
SeeAbort(w) ==
    /\ handler[w].at = "layout"
    /\ row[handler[w].job].abort
    /\ \/ handler' = [handler EXCEPT ![w] = [@ EXCEPT !.abortSeen = TRUE, !.at = "judge"]]
       \/ handler' = [handler EXCEPT ![w] = [@ EXCEPT !.abortSeen = TRUE, !.at = "finish",
                                                      !.outcome = "CANCELED"]]
    /\ PipelineOnly /\ UNCHANGED s3

RunRouter(w) ==
    LET h == handler[w] IN
    handler' = [handler EXCEPT
                  ![w] = [h EXCEPT !.at = "routing", !.attempts = h.attempts + 1]]

\* The checkpoint does not stop: no cancel, a poll less than ABORT_POLL_MS
\* after the last one, or a failed read.  The router child starts.
StartAttempt(w) ==
    /\ handler[w].at = "layout"
    /\ handler[w].attempts < MaxAttempts
    /\ RunRouter(w)
    /\ PipelineOnly /\ UNCHANGED s3

\* The router child ends by itself, and the attempt is accepted, rejected or
\* abandoned as a tool fault.
AttemptEnds(w) ==
    /\ handler[w].at = "routing"
    /\ \/ Goto(w, "layout")
       \/ Goto(w, "judge")
    /\ PipelineOnly /\ UNCHANGED s3

\* No attempt needed or none left: layoutCircuit returns a board, or it refuses
\* the circuit or throws.
LayoutReturns(w) ==
    /\ handler[w].at = "layout"
    /\ \/ Goto(w, "judge")
       \/ Decide(w, "FAILED", {})
    /\ PipelineOnly /\ UNCHANGED s3

\* Mutant of Judge: the signal is not passed to drcReport, so the swallowed
\* abort is forgotten.
JudgeDeafToAbort(w) ==
    /\ handler[w].at = "judge"
    /\ Decide(w, "FAILED", {}) \/ Decide(w, "SUCCEEDED", {}) \/ Goto(w, "export")
    /\ PipelineOnly /\ UNCHANGED s3

\* drcReport runs kicad-cli under the abort signal, so a canceled job throws
\* here.  Otherwise the report, or the failure to get one, decides.
Judge(w) ==
    /\ handler[w].at = "judge"
    /\ IF handler[w].abortSeen
       THEN Decide(w, "CANCELED", {})
       ELSE \/ Decide(w, "FAILED", {})
            \/ Decide(w, "SUCCEEDED", {})
            \/ Goto(w, "export")
    /\ PipelineOnly /\ UNCHANGED s3

\* Mutant of ExportBundle: an upload's error is swallowed as the render's is.
ExportBundleBestEffort(w) ==
    LET j == handler[w].job IN
    /\ handler[w].at = "export"
    /\ Goto(w, "render")
    /\ \/ s3' = [s3 EXCEPT ![j] = @ \cup {"gerbers"}]
       \/ UNCHANGED s3
    /\ PipelineOnly

\* Gerbers and positions are exported and compared, and the bundle uploaded.
\* Every failure refuses the delivery, an upload's after or before it is stored.
ExportBundle(w) ==
    LET j == handler[w].job IN
    /\ handler[w].at = "export"
    /\ \/ Goto(w, "render") /\ s3' = [s3 EXCEPT ![j] = @ \cup {"gerbers"}]
       \/ /\ Decide(w, "FAILED", {})
          /\ \/ s3' = [s3 EXCEPT ![j] = @ \cup {"gerbers"}]
             \/ UNCHANGED s3
    /\ PipelineOnly

\* The render is best effort.  The key is assigned before the upload, so an
\* upload that fails leaves a key to publish.
Render(w) ==
    LET j == handler[w].job IN
    /\ handler[w].at = "render"
    /\ \/ /\ Decide(w, "SUCCEEDED", {"gerbers"})
          /\ UNCHANGED s3
       \/ /\ Decide(w, "SUCCEEDED", {"gerbers", "glb"})
          /\ \/ s3' = [s3 EXCEPT ![j] = @ \cup {"glb"}]
             \/ UNCHANGED s3
    /\ PipelineOnly

\* The terminal write, if the row is still RUNNING.  A database error is
\* swallowed.
Finish(w) ==
    LET h == handler[w]
        j == h.job
    IN
    /\ h.at = "finish"
    /\ \/ /\ row[j].status = "RUNNING"
          /\ row' = [row EXCEPT ![j] =
                        [@ EXCEPT !.status = h.outcome,
                                  !.error = IF h.outcome = "FAILED"
                                            THEN "worker" ELSE "none"]]
          /\ keys' = [keys EXCEPT ![j] = @ \cup h.keys]
       \/ UNCHANGED <<row, keys>>
    /\ Goto(w, "return")
    /\ UNCHANGED <<age, queueVars, api, canceller, reaper, s3>>

\* The handler is over and BullMQ is told.
Leave(w) ==
    /\ \/ handler[w].at = "return" /\ Report(w, handler[w].job, "completed")
       \/ handler[w].at = "throw" /\ Report(w, handler[w].job, "failed")
    /\ handler' = [handler EXCEPT ![w] = Idle]
    /\ UNCHANGED <<row, age, api, canceller, reaper, keys, s3>>

\* SIGKILL, OOM: the slot is free again after a restart, the lock is not.
Crash(w) ==
    /\ handler[w].at # "idle"
    /\ handler' = [handler EXCEPT ![w] = Idle]
    /\ UNCHANGED <<jobVars, keys, s3>>

LockExpires(j) ==
    /\ Stall(j)
    /\ UNCHANGED <<row, age, api, canceller, reaper, workerVars>>

-----------------------------------------------------------------------------

WorkerStep(w) ==
    \/ Claim(w) \/ ClaimThrows(w)
    \/ SeeAbort(w) \/ StartAttempt(w) \/ AttemptEnds(w) \/ LayoutReturns(w)
    \/ Judge(w) \/ ExportBundle(w) \/ Render(w) \/ Finish(w)
    \/ Leave(w)

Next ==
    \/ JobStep /\ UNCHANGED workerVars
    \/ \E w \in Workers : WorkerStep(w) \/ Crash(w)
    \/ \E w \in Workers, j \in Jobs : Deliver(w, j)
    \/ \E j \in Jobs : LockExpires(j)

\* Nobody runs the active job j: its worker died.
Abandoned(j) == ~\E w \in Workers : holder[j] = w /\ handler[w].job = j

Fairness ==
    /\ JobFairness
    /\ \A w \in Workers : WF_vars(WorkerStep(w))
    /\ \A j \in Jobs :
          /\ SF_vars(\E w \in Workers : Deliver(w, j))
          /\ WF_vars(Abandoned(j) /\ LockExpires(j))

Spec == Init /\ [][Next]_vars

FairSpec == Spec /\ Fairness

-----------------------------------------------------------------------------

\* Of all handlers that got past the claim of a job at most one exists, through
\* re-deliveries, crashes and lost locks: two of them would route the same board
\* twice and race for the row (processLayoutJob's conditional claim).
SingleRunner ==
    \A w1, w2 \in Workers :
        /\ handler[w1].at \in Working
        /\ handler[w2].at \in Working
        /\ handler[w1].job = handler[w2].job
        => w1 = w2

\* A row offers the fab bundle only after the bundle was stored and only if the
\* worker settled it as SUCCEEDED; a stale cancel may have overwritten that
\* status since (gerbersKey is the verdict the API lists as manufacturable).
BundleBacked ==
    \A j \in Jobs : "gerbers" \in keys[j] =>
        /\ "gerbers" \in s3[j]
        /\ row[j].status \in {"SUCCEEDED", "CANCELED"}

\* A succeeded row never carries an error message: the reaper's or the enqueue
\* path's verdict and the worker's never end up on one row (finish).
SucceededWithoutError ==
    \A j \in Jobs : row[j].status = "SUCCEEDED" => row[j].error = "none"

\* A handler that has seen the cancel flag settles its job as CANCELED, whatever
\* the aborted tools said and wherever the abort was swallowed on the way
\* (processLayoutJob's catch).
AbortIsNotFailure ==
    \A w \in Workers :
        handler[w].abortSeen /\ handler[w].at = "finish" => handler[w].outcome = "CANCELED"

\* A job is CANCELED only if somebody asked for it (isAborted: a database blip
\* must never look like a cancel).
CanceledWasAsked ==
    \A j \in Jobs : row[j].status = "CANCELED" => row[j].abort

Lifecycle == INSTANCE JobLifecycle WITH
    status <- [j \in Jobs |-> row[j].status],
    published <- keys,
    held <- [j \in Jobs |-> StaleCancels(j)]

\* The row goes through the life cycle a polling client expects; the one liberty
\* is that a cancel that read QUEUED may overwrite a terminal row (requestCancel).
KeepsLifecycle == Lifecycle!Spec

\* Every job row is settled in the end, whatever crashes, gets lost or hangs: by
\* the worker, a cancel, the API's enqueue failure path or the reaper.
Settles ==
    \A j \in Jobs : row[j].status \in Live ~> row[j].status \in Terminal

=============================================================================
