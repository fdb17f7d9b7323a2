------------------------------ MODULE JobQueue ------------------------------
(***************************************************************************)
(* What the durable job queues of Circuit Forge have in common: the job    *)
(* row in Postgres, the BullMQ job in Redis whose id is the row's id, the  *)
(* API that inserts the row and then enqueues it, the user's cancel, and   *)
(* the reaper that compares rows with the queue.  LayoutJob and DesignJob  *)
(* extend this module with their workers.                                  *)
(*                                                                         *)
(* The two stores commit separately, so every step below touches one of    *)
(* them, and a handler that reads one and later writes the other is two    *)
(* steps.                                                                  *)
(***************************************************************************)
EXTENDS Integers, FiniteSets

CONSTANTS
    Jobs,        \* ids of job rows; the BullMQ job has the same id
    Workers,     \* handler slots of the worker processes
    Reapers,     \* reaper loops, one per worker process
    NoWorker,    \* nobody holds the lock of a BullMQ job
    MaxStalled   \* BullMQ's maxStalledCount: re-deliveries of a stalled job

ASSUME JobQueueAssumption ==
    /\ NoWorker \notin Workers
    /\ MaxStalled \in Nat

VARIABLES
    row,        \* job row: status, abortRequested, startedAt, errorMessage
    age,        \* thresholds the row's createdAt has passed: 1 grace, 2 deadline
    queueJob,   \* state of the BullMQ job
    stalls,     \* times BullMQ found the job stalled
    holder,     \* worker slot that holds the BullMQ job's lock
    api,        \* where the API's create call for the row stands
    canceller,  \* what a cancel call in flight has read of the row
    reaper      \* sweep in progress: rows left to look at, row about to fail

queueVars == <<queueJob, stalls, holder>>
jobVars == <<row, age, queueJob, stalls, holder, api, canceller, reaper>>

-----------------------------------------------------------------------------

Live == {"QUEUED", "RUNNING"}
Terminal == {"SUCCEEDED", "FAILED", "CANCELED"}
Status == {"ABSENT"} \cup Live \cup Terminal

\* Whose message is in errorMessage.
ErrorSource == {"none", "enqueue", "worker", "reaper"}

\* started: startedAt is set; overran: it is set and older than the deadline.
Row == [status : Status, abort : BOOLEAN, started : BOOLEAN,
        overran : BOOLEAN, error : ErrorSource]

NewRow(status) == [status |-> status, abort |-> FALSE, started |-> FALSE,
                   overran |-> FALSE, error |-> "none"]

QueueState == {"missing", "waiting", "active", "completed", "failed"}

\* What findMany returned of a row: its id, and whether the instant the sweep
\* measures its runtime from is past the deadline.
Sighting == [id : Jobs, overdue : BOOLEAN]

Sweep == [todo : SUBSET Sighting, doomed : SUBSET Jobs]

NoSweep == [todo |-> {}, doomed |-> {}]

JobTypeOK ==
    /\ row \in [Jobs -> Row]
    /\ age \in [Jobs -> 0..2]
    /\ queueJob \in [Jobs -> QueueState]
    /\ stalls \in [Jobs -> Nat]
    /\ holder \in [Jobs -> Workers \cup {NoWorker}]
    /\ api \in [Jobs -> {"idle", "adding", "refused", "done"}]
    /\ canceller \in [Jobs -> {"idle", "sawQueued", "sawRunning"}]
    /\ reaper \in [Reapers -> Sweep]

JobInit ==
    /\ row = [j \in Jobs |-> NewRow("ABSENT")]
    /\ age = [j \in Jobs |-> 0]
    /\ queueJob = [j \in Jobs |-> "missing"]
    /\ stalls = [j \in Jobs |-> 0]
    /\ holder = [j \in Jobs |-> NoWorker]
    /\ api = [j \in Jobs |-> "idle"]
    /\ canceller = [j \in Jobs |-> "idle"]
    /\ reaper = [r \in Reapers |-> NoSweep]

-----------------------------------------------------------------------------
(* The API: insert the row, enqueue the job, and undo the insert when the  *)
(* enqueue is refused.                                                     *)

Create(j) ==
    /\ api[j] = "idle"
    /\ row' = [row EXCEPT ![j] = NewRow("QUEUED")]
    /\ api' = [api EXCEPT ![j] = "adding"]
    /\ UNCHANGED <<age, queueVars, canceller, reaper>>

AddSucceeds(j) ==
    /\ api[j] = "adding"
    /\ queueJob' = [queueJob EXCEPT ![j] = "waiting"]
    /\ api' = [api EXCEPT ![j] = "done"]
    /\ UNCHANGED <<row, age, stalls, holder, canceller, reaper>>

\* queue.add threw: the job was not stored, or it was and the reply was lost.
AddThrows(j) ==
    /\ api[j] = "adding"
    /\ \/ queueJob' = [queueJob EXCEPT ![j] = "waiting"]
       \/ UNCHANGED queueJob
    /\ api' = [api EXCEPT ![j] = "refused"]
    /\ UNCHANGED <<row, age, stalls, holder, canceller, reaper>>

\* The catch block: fail the row if no worker has taken it, swallow an error of
\* that write, and answer 503.
FailRefused(j) ==
    /\ api[j] = "refused"
    /\ \/ /\ row[j].status = "QUEUED"
          /\ row' = [row EXCEPT ![j] = [@ EXCEPT !.status = "FAILED", !.error = "enqueue"]]
       \/ UNCHANGED row
    /\ api' = [api EXCEPT ![j] = "done"]
    /\ UNCHANGED <<age, queueVars, canceller, reaper>>

ApiCrash(j) ==
    /\ api[j] \in {"adding", "refused"}
    /\ api' = [api EXCEPT ![j] = "done"]
    /\ UNCHANGED <<row, age, queueVars, canceller, reaper>>

-----------------------------------------------------------------------------
(* requestCancel: read the row, then write according to what was read.     *)
(* The write names the row by id alone.                                    *)

CancelRead(j) ==
    /\ canceller[j] = "idle"
    /\ \/ /\ row[j].status = "QUEUED"
          /\ canceller' = [canceller EXCEPT ![j] = "sawQueued"]
       \/ /\ row[j].status = "RUNNING"
          /\ canceller' = [canceller EXCEPT ![j] = "sawRunning"]
    /\ UNCHANGED <<row, age, queueVars, api, reaper>>

CancelQueued(j) ==
    /\ canceller[j] = "sawQueued"
    /\ row' = [row EXCEPT ![j] = [@ EXCEPT !.status = "CANCELED", !.abort = TRUE]]
    /\ canceller' = [canceller EXCEPT ![j] = "idle"]
    /\ UNCHANGED <<age, queueVars, api, reaper>>

CancelRunning(j) ==
    /\ canceller[j] = "sawRunning"
    /\ row' = [row EXCEPT ![j].abort = TRUE]
    /\ canceller' = [canceller EXCEPT ![j] = "idle"]
    /\ UNCHANGED <<age, queueVars, api, reaper>>

\* The verdict of a cancel on its way that is written whatever the row says by then.
StaleCancels(j) == IF canceller[j] = "sawQueued" THEN {"CANCELED"} ELSE {}

CancelLost(j) ==
    /\ canceller[j] # "idle"
    /\ canceller' = [canceller EXCEPT ![j] = "idle"]
    /\ UNCHANGED <<row, age, queueVars, api, reaper>>

-----------------------------------------------------------------------------
(* BullMQ, as the workers and the reaper use it.                           *)

\* A worker slot takes a waiting job and its lock.
Dequeue(w, j) ==
    /\ queueJob[j] = "waiting"
    /\ queueJob' = [queueJob EXCEPT ![j] = "active"]
    /\ holder' = [holder EXCEPT ![j] = w]
    /\ UNCHANGED stalls

\* The lock of an active job expired, because its worker died or was blocked
\* for longer than lockDuration: deliver again, or give up.
Stall(j) ==
    /\ queueJob[j] = "active"
    /\ holder' = [holder EXCEPT ![j] = NoWorker]
    /\ \/ /\ stalls[j] < MaxStalled
          /\ stalls' = [stalls EXCEPT ![j] = @ + 1]
          /\ queueJob' = [queueJob EXCEPT ![j] = "waiting"]
       \/ /\ stalls[j] >= MaxStalled
          /\ queueJob' = [queueJob EXCEPT ![j] = "failed"]
          /\ UNCHANGED stalls

\* The handler returned or threw; BullMQ refuses the result of a worker that
\* no longer holds the lock.
Report(w, j, result) ==
    /\ IF queueJob[j] = "active" /\ holder[j] = w
       THEN /\ queueJob' = [queueJob EXCEPT ![j] = result]
            /\ holder' = [holder EXCEPT ![j] = NoWorker]
       ELSE UNCHANGED <<queueJob, holder>>
    /\ UNCHANGED stalls

\* removeOnComplete, removeOnFail, or an operator's purge.
Evict(j) ==
    /\ queueJob[j] \in {"completed", "failed"}
    /\ queueJob' = [queueJob EXCEPT ![j] = "missing"]
    /\ UNCHANGED <<row, age, stalls, holder, api, canceller, reaper>>

-----------------------------------------------------------------------------
(* The reaper: one query for the stale rows, then row by row a look at the *)
(* queue and a conditional write.                                          *)

Overdue(j) == IF row[j].started THEN row[j].overran ELSE age[j] = 2

\* Mutant of SweepStart: only RUNNING rows can be orphaned.
SweepStartRunning(r) ==
    /\ reaper[r] = NoSweep
    /\ LET stale == {j \in Jobs : row[j].status = "RUNNING" /\ age[j] >= 1}
       IN  /\ stale # {}
           /\ reaper' = [reaper EXCEPT ![r].todo =
                            {[id |-> j, overdue |-> Overdue(j)] : j \in stale}]
    /\ UNCHANGED <<row, age, queueVars, api, canceller>>

SweepStart(r) ==
    /\ reaper[r] = NoSweep
    /\ LET stale == {j \in Jobs : row[j].status \in Live /\ age[j] >= 1}
       IN  /\ stale # {}
           /\ reaper' = [reaper EXCEPT ![r].todo =
                            {[id |-> j, overdue |-> Overdue(j)] : j \in stale}]
    /\ UNCHANGED <<row, age, queueVars, api, canceller>>

\* Mutant of ReapDecision: a completed queue job is trusted to have settled its
\* row.
ReapTrustsCompleted(seen, state) ==
    \/ state \in {"failed", "missing"}
    \/ state = "active" /\ seen.overdue

ReapDecision(seen, state) ==
    \/ state \in {"completed", "failed", "missing"}
    \/ state = "active" /\ seen.overdue

SweepLook(r, seen) ==
    /\ reaper[r].doomed = {}
    /\ seen \in reaper[r].todo
    /\ LET doomed == IF ReapDecision(seen, queueJob[seen.id])
                     THEN {seen.id} ELSE {}
       IN  reaper' = [reaper EXCEPT ![r] = [todo |-> @.todo \ {seen},
                                            doomed |-> doomed]]
    /\ UNCHANGED <<row, age, queueVars, api, canceller>>

\* Mutant of SweepWrite: the update names the row by id alone.
SweepWriteBlind(r) ==
    /\ reaper[r].doomed # {}
    /\ row' = [j \in Jobs |->
                 IF j \in reaper[r].doomed
                 THEN [row[j] EXCEPT !.status = "FAILED", !.error = "reaper"]
                 ELSE row[j]]
    /\ reaper' = [reaper EXCEPT ![r].doomed = {}]
    /\ UNCHANGED <<age, queueVars, api, canceller>>

SweepWrite(r) ==
    /\ reaper[r].doomed # {}
    /\ row' = [j \in Jobs |->
                 IF j \in reaper[r].doomed /\ row[j].status \in Live
                 THEN [row[j] EXCEPT !.status = "FAILED", !.error = "reaper"]
                 ELSE row[j]]
    /\ reaper' = [reaper EXCEPT ![r].doomed = {}]
    /\ UNCHANGED <<age, queueVars, api, canceller>>

\* An error of one row's look or write is logged and the row skipped.
SweepSkip(r) ==
    /\ \/ /\ reaper[r].doomed # {}
          /\ reaper' = [reaper EXCEPT ![r].doomed = {}]
       \/ /\ reaper[r].doomed = {}
          /\ \E seen \in reaper[r].todo :
                reaper' = [reaper EXCEPT ![r].todo = @ \ {seen}]
    /\ UNCHANGED <<row, age, queueVars, api, canceller>>

-----------------------------------------------------------------------------
(* Time, as far as the reaper's two thresholds tell it apart.              *)

Ages(j) ==
    /\ row[j].status \in Live
    /\ age[j] < 2
    /\ age' = [age EXCEPT ![j] = @ + 1]
    /\ UNCHANGED <<row, queueVars, api, canceller, reaper>>

\* startedAt is not before createdAt, so it passes the deadline after it.
Overruns(j) ==
    /\ row[j].status = "RUNNING"
    /\ ~row[j].overran
    /\ age[j] = 2
    /\ row' = [row EXCEPT ![j].overran = TRUE]
    /\ UNCHANGED <<age, queueVars, api, canceller, reaper>>

-----------------------------------------------------------------------------

\* The steps of the API, the client, the reaper and time; the worker's are in
\* the module that extends this one.
JobStep ==
    \/ \E j \in Jobs :
          \/ Create(j) \/ AddSucceeds(j) \/ AddThrows(j) \/ FailRefused(j)
          \/ ApiCrash(j)
          \/ CancelRead(j) \/ CancelQueued(j) \/ CancelRunning(j)
          \/ CancelLost(j)
          \/ Evict(j)
          \/ Ages(j) \/ Overruns(j)
    \/ \E r \in Reapers :
          \/ SweepStart(r)
          \/ \E seen \in Sighting : SweepLook(r, seen)
          \/ SweepWrite(r)
          \/ SweepSkip(r)

\* A create call ends, clocks advance, the reaper's interval fires, and an error
\* of its database or of Redis does not repeat for ever.
JobFairness ==
    /\ \A j \in Jobs :
          /\ WF_jobVars(AddSucceeds(j) \/ AddThrows(j) \/ ApiCrash(j))
          /\ WF_jobVars(Ages(j) \/ Overruns(j))
    /\ \A r \in Reapers :
          /\ WF_jobVars(SweepStart(r))
          /\ \A j \in Jobs :
                SF_jobVars(\E seen \in Sighting : seen.id = j /\ SweepLook(r, seen))
          /\ SF_jobVars(SweepWrite(r))
=============================================================================
