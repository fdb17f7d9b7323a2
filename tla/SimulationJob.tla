---------------------------- MODULE SimulationJob ----------------------------
(***************************************************************************)
(* An ngspice job: the row in Postgres, its BullMQ jobs, the worker with   *)
(* BullMQ's retries of infrastructure failures, and the operator's cancel  *)
(* and retry.                                                              *)
(*                                                                         *)
(* Unlike layout and design jobs, no reaper compares rows with the queue,  *)
(* a RUNNING row may be claimed again, and a row may have two BullMQ jobs: *)
(* the one the API enqueued, under an id BullMQ made up, and the one an    *)
(* operator's retry enqueued, under the row's id and without retries.      *)
(***************************************************************************)
EXTENDS Integers, FiniteSets

CONSTANTS
    Sims,         \* ids of SimulationJob rows
    Workers,      \* handler slots of the worker processes
    NoWorker,     \* nobody holds the lock of a BullMQ job
    NoSim,        \* an idle handler's row
    MaxAttempts,  \* attempts BullMQ makes of a job the API enqueued
    MaxStalled,   \* BullMQ's maxStalledCount
    MaxRetries,   \* bound: retries an operator asks for, per row
    HostKills     \* TRUE: the host may kill an ngspice process, for its memory

ASSUME SimulationJobAssumption ==
    /\ NoWorker \notin Workers
    /\ NoSim \notin Sims
    /\ MaxAttempts \in Nat \ {0}
    /\ MaxStalled \in Nat
    /\ MaxRetries \in Nat
    /\ HostKills \in BOOLEAN

VARIABLES
    deck,       \* what the row's netlist makes of the simulator
    row,        \* status of the row and class of the failure
    retries,    \* retries an operator asked for
    queue,      \* the row's BullMQ jobs
    handler,    \* processJob in each worker slot
    disturbed,  \* rows a simulation of which was disturbed from outside, good decks only
    api,        \* where the API's create call stands
    retrier,    \* where an operator's retry call stands
    canceller   \* where an operator's cancel call stands

vars == <<deck, row, retries, queue, handler, disturbed, api, retrier, canceller>>
callVars == <<api, retrier, canceller>>

-----------------------------------------------------------------------------

\* good: ngspice gives data for it at the first attempt, with the model files its
\* author named; bad: not so, though a remedy may get some, if it gets the time;
\* batch: Monte-Carlo and the corner sweeps.
Deck == {"good", "bad", "batch"}

\* INFRA is FAILED with failureClass 'infra'; GONE is a deleted row.
Live == {"QUEUED", "RUNNING"}
Retriable == {"FAILED", "INFRA", "TIMED_OUT", "CANCELED"}
Terminal == Retriable \cup {"SUCCEEDED"}
Status == {"ABSENT", "GONE"} \cup Live \cup Terminal

Ids == {"api", "row"}

\* waiting includes a retry that waits for its backoff.
QueueState == {"missing", "waiting", "active", "completed", "failed"}

QueueJob == [state : QueueState, made : 0..MaxAttempts, stalls : 0..MaxStalled,
             holder : Workers \cup {NoWorker}]

NewJob(state) == [state |-> state, made |-> 0, stalls |-> 0, holder |-> NoWorker]

\* Jobs of the API's queue handle get its attempts; the operator's handle is
\* registered without default options.
Attempts(id) == IF id = "api" THEN MaxAttempts ELSE 1

\*   claim   before the claim       run     the simulation
\*   write   outcome known          catch   an error that is not a verdict
\*   return / throw   BullMQ to be told
Stage == {"idle", "claim", "run", "write", "catch", "return", "throw"}

Busy == {"claim", "run", "write", "catch"}

\* final: attemptsMade was one short of the attempts when the job was delivered.
Handler == [at : Stage, sim : Sims \cup {NoSim}, id : Ids, final : BOOLEAN,
            outcome : {"none"} \cup Terminal]

Fresh(at, sim, id, final) ==
    [at |-> at, sim |-> sim, id |-> id, final |-> final, outcome |-> "none"]

Idle == Fresh("idle", NoSim, "api", FALSE)

TypeOK ==
    /\ deck \in [Sims -> Deck]
    /\ row \in [Sims -> Status]
    /\ retries \in [Sims -> 0..MaxRetries]
    /\ queue \in [Sims -> [Ids -> QueueJob]]
    /\ handler \in [Workers -> Handler]
    /\ disturbed \subseteq Sims
    /\ api \in [Sims -> {"idle", "adding", "done"}]
    /\ retrier \in [Sims -> {"idle", "read", "reset", "removed", "revert"}]
    /\ canceller \in [Sims -> {"idle", "read", "removed"}]

Init ==
    /\ deck \in [Sims -> Deck]
    /\ row = [s \in Sims |-> "ABSENT"]
    /\ retries = [s \in Sims |-> 0]
    /\ queue = [s \in Sims |-> [id \in Ids |-> NewJob("missing")]]
    /\ handler = [w \in Workers |-> Idle]
    /\ disturbed = {}
    /\ api = [s \in Sims |-> "idle"]
    /\ retrier = [s \in Sims |-> "idle"]
    /\ canceller = [s \in Sims |-> "idle"]

-----------------------------------------------------------------------------
(* The API: insert the row, then enqueue; an enqueue that throws leaves    *)
(* the row as it is.                                                       *)

Create(s) ==
    /\ api[s] = "idle"
    /\ row' = [row EXCEPT ![s] = "QUEUED"]
    /\ api' = [api EXCEPT ![s] = "adding"]
    /\ UNCHANGED <<deck, retries, queue, handler, disturbed, retrier, canceller>>

Add(s) ==
    /\ api[s] = "adding"
    /\ \/ queue' = [queue EXCEPT ![s]["api"] = NewJob("waiting")]
       \/ UNCHANGED queue
    /\ api' = [api EXCEPT ![s] = "done"]
    /\ UNCHANGED <<deck, row, retries, handler, disturbed, retrier, canceller>>

\* The row is deleted under the job, with its organization.
Delete(s) ==
    /\ row[s] \notin {"ABSENT", "GONE"}
    /\ row' = [row EXCEPT ![s] = "GONE"]
    /\ UNCHANGED <<deck, retries, queue, handler, disturbed, callVars>>

-----------------------------------------------------------------------------
(* The worker.                                                             *)

Goto(w, to) ==
    handler' = [handler EXCEPT ![w] = [@ EXCEPT !.at = to, !.outcome = "none"]]

Conclude(w, outcome) ==
    handler' = [handler EXCEPT ![w] = [@ EXCEPT !.at = "write", !.outcome = outcome]]

\* Mutant of IsFinalAttempt: off by one.
IsFinalOneEarly(made, attempts) == made + 2 >= attempts

IsFinalAttempt(made, attempts) == made + 1 >= attempts

Deliver(w, s, id) ==
    /\ handler[w].at = "idle"
    /\ queue[s][id].state = "waiting"
    /\ queue' = [queue EXCEPT ![s][id] = [@ EXCEPT !.state = "active", !.holder = w]]
    /\ handler' = [handler EXCEPT ![w] =
                     Fresh("claim", s, id,
                           IsFinalAttempt(queue[s][id].made, Attempts(id)))]
    /\ UNCHANGED <<deck, row, retries, disturbed, callVars>>

\* Mutant of Claim: only a QUEUED row is claimable.
ClaimQueuedOnly(w) ==
    LET s == handler[w].sim IN
    /\ handler[w].at = "claim"
    /\ IF row[s] = "QUEUED"
       THEN row' = [row EXCEPT ![s] = "RUNNING"] /\ Goto(w, "run")
       ELSE UNCHANGED row /\ Goto(w, "return")
    /\ UNCHANGED <<deck, retries, queue, disturbed, callVars>>

\* QUEUED or RUNNING is claimed; a settled or deleted row is skipped for good.
\* A database error, the update applied or not, goes to the catch block.
Claim(w) ==
    LET s == handler[w].sim IN
    /\ handler[w].at = "claim"
    /\ \/ /\ row[s] \in Live
          /\ row' = [row EXCEPT ![s] = "RUNNING"]
          /\ Goto(w, "run") \/ Goto(w, "catch")
       \/ /\ row[s] \notin Live
          /\ UNCHANGED row
          /\ Goto(w, "return")
       \/ UNCHANGED row /\ Goto(w, "catch")
    /\ UNCHANGED <<deck, retries, queue, disturbed, callVars>>

\* A payload the operator enqueued carries no mode: it is always a single run.
IsBatch(h) == h.id = "api" /\ deck[h.sim] = "batch"

Simulating(w) == handler[w].at = "run" /\ ~IsBatch(handler[w])

\* The simulations of a row share a directory on their host, which the first of them
\* to end removes; and an ngspice the host kills has exited without a code.  The
\* runner takes what comes of either for what ngspice says of the deck: to one that
\* may fail anyway it makes no difference.
Disturb(w) ==
    LET s == handler[w].sim IN
    /\ Simulating(w)
    /\ deck[s] = "good"
    /\ \/ \E x \in Workers \ {w} : Simulating(x) /\ handler[x].sim = s
       \/ HostKills
    /\ disturbed' = disturbed \cup {s}
    /\ UNCHANGED <<deck, row, retries, queue, handler, callVars>>

\* The operator's payload names no model files, a batch's row has no netlist of its
\* own.  Which of a row's simulations was disturbed is not told apart.
Verdicts(h) ==
    CASE IsBatch(h) -> {"SUCCEEDED"}
      [] ~IsBatch(h) /\ deck[h.sim] = "batch" -> {"FAILED"}
      [] deck[h.sim] = "bad" -> {"SUCCEEDED", "FAILED"}
      [] OTHER -> {"SUCCEEDED"} \cup
                  IF h.id = "row" \/ h.sim \in disturbed THEN {"FAILED"} ELSE {}

\* Mutant of Run: an infrastructure failure is reported like a fault.
RunBlamesCircuit(w) ==
    /\ handler[w].at = "run"
    /\ \E verdict \in Verdicts(handler[w]) \cup {"FAILED"} : Conclude(w, verdict)
    /\ UNCHANGED <<deck, row, retries, queue, disturbed, callVars>>

\* The simulator has spoken or timed out; or the infrastructure failed, which
\* is a verdict for a batch and on the last attempt, and otherwise a retry; or a
\* model file could not be downloaded.
Run(w) ==
    LET h == handler[w] IN
    /\ h.at = "run"
    /\ \/ \E verdict \in Verdicts(h) : Conclude(w, verdict)
       \/ ~IsBatch(h) /\ Conclude(w, "TIMED_OUT")
       \/ (IsBatch(h) \/ h.final) /\ Conclude(w, "INFRA")
       \/ ~IsBatch(h) /\ ~h.final /\ Goto(w, "throw")
       \/ Goto(w, "catch")
    /\ UNCHANGED <<deck, row, retries, queue, disturbed, callVars>>

\* The verdict goes to the row by id alone.  An infrastructure verdict of a
\* single run is then thrown, for BullMQ to finalize the job as failed.
Write(w) ==
    LET h == handler[w] IN
    /\ h.at = "write"
    /\ row[h.sim] # "GONE"
    /\ row' = [row EXCEPT ![h.sim] = h.outcome]
    /\ Goto(w, IF h.outcome = "INFRA" /\ ~IsBatch(h) THEN "throw" ELSE "return")
    /\ UNCHANGED <<deck, retries, queue, disturbed, callVars>>

\* The upload of a large result or the update failed, the update perhaps
\* applied: a batch that succeeded is written off as INFRA, anything else is
\* caught.
WriteFails(w) ==
    LET h == handler[w] IN
    /\ h.at = "write"
    /\ \/ row[h.sim] # "GONE" /\ row' = [row EXCEPT ![h.sim] = h.outcome]
       \/ UNCHANGED row
    /\ IF IsBatch(h) /\ h.outcome = "SUCCEEDED"
       THEN Conclude(w, "INFRA") ELSE Goto(w, "catch")
    /\ UNCHANGED <<deck, retries, queue, disturbed, callVars>>

\* The update found no row: discarded, unless the batch tries its INFRA first.
WriteFindsNothing(w) ==
    LET h == handler[w] IN
    /\ h.at = "write"
    /\ row[h.sim] = "GONE"
    /\ IF IsBatch(h) /\ h.outcome = "SUCCEEDED"
       THEN Conclude(w, "INFRA") ELSE Goto(w, "return")
    /\ UNCHANGED <<deck, row, retries, queue, disturbed, callVars>>

\* The catch block: on the last attempt the row is failed as INFRA, if the
\* database lets it; the error is thrown on.
Catch(w) ==
    LET h == handler[w] IN
    /\ h.at = "catch"
    /\ \/ /\ h.final
          /\ row[h.sim] # "GONE"
          /\ row' = [row EXCEPT ![h.sim] = "INFRA"]
       \/ UNCHANGED row
    /\ Goto(w, "throw")
    /\ UNCHANGED <<deck, retries, queue, disturbed, callVars>>

\* BullMQ is told: completed, tried again, or failed for good; a worker that
\* lost the lock is not heard.
Leave(w) ==
    LET h == handler[w]
        job == queue[h.sim][h.id]
        made == job.made + 1
        told == CASE h.at = "return" -> "completed"
                  [] h.at = "throw" /\ made < Attempts(h.id) -> "waiting"
                  [] OTHER -> "failed"
    IN
    /\ h.at \in {"return", "throw"}
    /\ IF job.state = "active" /\ job.holder = w
       THEN queue' = [queue EXCEPT ![h.sim][h.id] =
                        IF told = "waiting"
                        THEN [job EXCEPT !.state = told, !.made = made, !.holder = NoWorker]
                        ELSE NewJob(told)]
       ELSE UNCHANGED queue
    /\ handler' = [handler EXCEPT ![w] = Idle]
    /\ UNCHANGED <<deck, row, retries, disturbed, callVars>>

Crash(w) ==
    /\ handler[w].at # "idle"
    /\ handler' = [handler EXCEPT ![w] = Idle]
    /\ UNCHANGED <<deck, row, retries, queue, disturbed, callVars>>

-----------------------------------------------------------------------------
(* BullMQ.                                                                 *)

\* Its worker died, or was blocked for longer than lockDuration.
LockExpires(s, id) ==
    /\ queue[s][id].state = "active"
    /\ queue[s][id].holder # NoWorker
    /\ queue' = [queue EXCEPT ![s][id].holder = NoWorker]
    /\ UNCHANGED <<deck, row, retries, handler, disturbed, callVars>>

\* The stalled check: deliver again, not counting as an attempt, or give up.
Stall(s, id) ==
    LET job == queue[s][id] IN
    /\ job.state = "active"
    /\ job.holder = NoWorker
    /\ queue' = [queue EXCEPT ![s][id] =
                   IF job.stalls < MaxStalled
                   THEN [job EXCEPT !.state = "waiting", !.stalls = job.stalls + 1]
                   ELSE NewJob("failed")]
    /\ UNCHANGED <<deck, row, retries, handler, disturbed, callVars>>

\* removeOnComplete, removeOnFail, or a purge.
Evict(s, id) ==
    /\ queue[s][id].state \in {"completed", "failed"}
    /\ queue' = [queue EXCEPT ![s][id] = NewJob("missing")]
    /\ UNCHANGED <<deck, row, retries, handler, disturbed, callVars>>

\* queue.remove(row id): FALSE for no such job and for a locked one.
Removable(s) ==
    /\ queue[s]["row"].state # "missing"
    /\ queue[s]["row"].holder = NoWorker

-----------------------------------------------------------------------------
(* cancelSimJob.                                                           *)

CancelRead(s) ==
    /\ canceller[s] = "idle"
    /\ row[s] = "QUEUED"
    /\ canceller' = [canceller EXCEPT ![s] = "read"]
    /\ UNCHANGED <<deck, row, retries, queue, handler, disturbed, api, retrier>>

\* What cannot be removed is refused as already started.
CancelRemove(s) ==
    /\ canceller[s] = "read"
    /\ IF Removable(s)
       THEN /\ queue' = [queue EXCEPT ![s]["row"] = NewJob("missing")]
            /\ canceller' = [canceller EXCEPT ![s] = "removed"]
       ELSE /\ UNCHANGED queue
            /\ canceller' = [canceller EXCEPT ![s] = "idle"]
    /\ UNCHANGED <<deck, row, retries, handler, disturbed, api, retrier>>

CancelWrite(s) ==
    /\ canceller[s] = "removed"
    /\ row' = [row EXCEPT ![s] = IF @ = "QUEUED" THEN "CANCELED" ELSE @]
    /\ canceller' = [canceller EXCEPT ![s] = "idle"]
    /\ UNCHANGED <<deck, retries, queue, handler, disturbed, api, retrier>>

\* Redis or the database failed, or the API process died.
CancelLost(s) ==
    /\ canceller[s] \in {"read", "removed"}
    /\ canceller' = [canceller EXCEPT ![s] = "idle"]
    /\ UNCHANGED <<deck, row, retries, queue, handler, disturbed, api, retrier>>

-----------------------------------------------------------------------------
(* retrySimJob.                                                            *)

RetryRead(s) ==
    /\ retrier[s] = "idle"
    /\ row[s] \in Retriable
    /\ retries[s] < MaxRetries
    /\ retries' = [retries EXCEPT ![s] = @ + 1]
    /\ retrier' = [retrier EXCEPT ![s] = "read"]
    /\ UNCHANGED <<deck, row, queue, handler, disturbed, api, canceller>>

\* The row is reset by id alone, its result cleared with it.
RetryReset(s) ==
    /\ retrier[s] = "read"
    /\ row[s] # "GONE"
    /\ row' = [row EXCEPT ![s] = "QUEUED"]
    /\ retrier' = [retrier EXCEPT ![s] = "reset"]
    /\ UNCHANGED <<deck, retries, queue, handler, disturbed, api, canceller>>

\* Whether the stale BullMQ job could be removed is not looked at.
RetryRemove(s) ==
    /\ retrier[s] = "reset"
    /\ queue' = IF Removable(s)
                THEN [queue EXCEPT ![s]["row"] = NewJob("missing")] ELSE queue
    /\ retrier' = [retrier EXCEPT ![s] = "removed"]
    /\ UNCHANGED <<deck, row, retries, handler, disturbed, api, canceller>>

\* BullMQ ignores an add under an id it has.
Enqueued(s) ==
    IF queue[s]["row"].state = "missing"
    THEN [queue EXCEPT ![s]["row"] = NewJob("waiting")] ELSE queue

RetryAdd(s) ==
    /\ retrier[s] = "removed"
    /\ queue' = Enqueued(s)
    /\ retrier' = [retrier EXCEPT ![s] = "idle"]
    /\ UNCHANGED <<deck, row, retries, handler, disturbed, api, canceller>>

\* add threw, the job stored or not.
RetryAddThrows(s) ==
    /\ retrier[s] = "removed"
    /\ queue' = Enqueued(s) \/ UNCHANGED queue
    /\ retrier' = [retrier EXCEPT ![s] = "revert"]
    /\ UNCHANGED <<deck, row, retries, handler, disturbed, api, canceller>>

RetryRevert(s) ==
    /\ retrier[s] = "revert"
    /\ row[s] # "GONE"
    /\ row' = [row EXCEPT ![s] = "FAILED"]
    /\ retrier' = [retrier EXCEPT ![s] = "idle"]
    /\ UNCHANGED <<deck, retries, queue, handler, disturbed, api, canceller>>

RetryLost(s) ==
    /\ retrier[s] \in {"read", "reset", "removed", "revert"}
    /\ retrier' = [retrier EXCEPT ![s] = "idle"]
    /\ UNCHANGED <<deck, row, retries, queue, handler, disturbed, api, canceller>>

-----------------------------------------------------------------------------

WorkerStep(w) ==
    \/ Claim(w) \/ Disturb(w) \/ Run(w) \/ Write(w) \/ WriteFails(w) \/ WriteFindsNothing(w)
    \/ Catch(w) \/ Leave(w) \/ Crash(w)

Next ==
    \/ \E w \in Workers : WorkerStep(w)
    \/ \E s \in Sims :
          \/ Create(s) \/ Add(s) \/ Delete(s)
          \/ CancelRead(s) \/ CancelRemove(s) \/ CancelWrite(s) \/ CancelLost(s)
          \/ RetryRead(s) \/ RetryReset(s) \/ RetryRemove(s) \/ RetryAdd(s)
          \/ RetryAddThrows(s) \/ RetryRevert(s) \/ RetryLost(s)
    \/ \E s \in Sims, id \in Ids :
          \/ LockExpires(s, id) \/ Stall(s, id) \/ Evict(s, id)
          \/ \E w \in Workers : Deliver(w, s, id)

Spec == Init /\ [][Next]_vars

-----------------------------------------------------------------------------

\* While BullMQ will still retry a job, a poll does not see it failed for
\* infrastructure: overtaken handlers and stalls included (processJob: "never a
\* premature 'inconclusive'").
NoPrematureVerdict ==
    \A s \in Sims :
        /\ row[s] = "INFRA"
        /\ retries[s] = 0
        /\ deck[s] # "batch"
        /\ queue[s]["api"].state \in {"waiting", "active"}
        => queue[s]["api"].made = MaxAttempts - 1

\* A job BullMQ reports as completed has settled its row, whichever of several
\* handlers did it and however often it was tried; otherwise the row would be
\* RUNNING for ever, since simulations have no reaper (claimSimulationJob).
CompletedIsSettled ==
    \A s \in Sims :
        queue[s]["api"].state = "completed" /\ retries[s] = 0
        => row[s] \in Terminal \cup {"GONE"}

Lifecycle == INSTANCE SimulationLifecycle WITH
    status <- row,
    retried <- {s \in Sims : retries[s] > 0}

\* What a poll of the row sees is what a poll may rely on: in particular, a FAILED
\* that is not 'infra', which tells the user that the circuit is wrong, is given to a
\* deck that ngspice runs only if an operator retried it or two handlers or the host
\* disturbed a simulation of it, never for an outage the worker has noticed, and no
\* settled row runs again without an operator (handleFailure, claimSimulationJob,
\* processJob's catch).
KeepsLifecycle == Lifecycle!LifecycleSpec

\* "An infra outage must never be reported to the user as a design failure", says
\* runner.ts of SimulationJobResult.infra.  A deck that ngspice runs, with the model
\* files its author named, is failed for itself even so, without an operator and
\* without a killed process, when a second handler was given the job of the first.
OutageIsNotBlamed ==
    \A s \in Sims : deck[s] = "good" /\ retries[s] = 0 => row[s] # "FAILED"

=============================================================================
