------------------------------ MODULE DesignJob ------------------------------
(***************************************************************************)
(* An AI design job: JobQueue's API, cancel, queue and reaper, and the     *)
(* design worker that claims the row, runs the generate/simulate/fix loop  *)
(* with a look at the cancel flag before every paid call, and writes the   *)
(* row.  It differs from LayoutJob in the terminal write, which names the  *)
(* row by id alone, and in the claim, whose database error becomes a       *)
(* FAILED row.                                                             *)
(***************************************************************************)
EXTENDS JobQueue

CONSTANTS
    NoJob,      \* an idle handler's job
    MaxCalls    \* calls of the model a job may make, each of one or more requests

ASSUME DesignJobAssumption ==
    /\ NoJob \notin Jobs
    /\ MaxCalls \in Nat \ {0}

VARIABLES
    results,    \* rows that have a design result
    handler     \* processDesignJob in each worker slot

workerVars == <<results, handler>>
vars == <<row, age, queueJob, stalls, holder, api, canceller, reaper,
          results, handler>>

\* Where processDesignJob stands.
\*   claim    before the claim            loop    at a checkpoint of the loop
\*   call     a generate, fix or simulation is running
\*   post     the loop has returned       finish  outcome known
\*   return   BullMQ to be told
Stage == {"idle", "claim", "loop", "call", "post", "finish", "return"}

Working == {"loop", "call", "post"}

Handler == [at : Stage, job : Jobs \cup {NoJob}, calls : 0..MaxCalls,
            outcome : {"none"} \cup Terminal]

Fresh(at, job) == [at |-> at, job |-> job, calls |-> 0, outcome |-> "none"]

Idle == Fresh("idle", NoJob)

TypeOK ==
    /\ JobTypeOK
    /\ results \in SUBSET Jobs
    /\ handler \in [Workers -> Handler]
    /\ \A w \in Workers : handler[w].at = "finish" => handler[w].outcome \in Terminal

Init ==
    /\ JobInit
    /\ results = {}
    /\ handler = [w \in Workers |-> Idle]

-----------------------------------------------------------------------------

Goto(w, to) == handler' = [handler EXCEPT ![w].at = to]

Decide(w, outcome) ==
    handler' = [handler EXCEPT ![w] = [@ EXCEPT !.at = "finish", !.outcome = outcome]]

Canceled(w) == row[handler[w].job].abort

\* The loop touches neither the row nor the queue.
LoopOnly == UNCHANGED <<jobVars, results>>

Deliver(w, j) ==
    /\ handler[w].at = "idle"
    /\ Dequeue(w, j)
    /\ handler' = [handler EXCEPT ![w] = Fresh("claim", j)]
    /\ UNCHANGED <<row, age, api, canceller, reaper, results>>

Claimed(j) == [row EXCEPT ![j] = [@ EXCEPT !.status = "RUNNING", !.started = TRUE]]

\* Mutant of Claim: the update names the row by id alone.
ClaimUnconditionally(w) ==
    /\ handler[w].at = "claim"
    /\ row' = Claimed(handler[w].job)
    /\ Goto(w, "loop")
    /\ UNCHANGED <<age, queueVars, api, canceller, reaper, results>>

\* QUEUED -> RUNNING or nothing, in one conditional update.
Claim(w) ==
    LET j == handler[w].job IN
    /\ handler[w].at = "claim"
    /\ IF row[j].status = "QUEUED"
       THEN row' = Claimed(j) /\ Goto(w, "loop")
       ELSE UNCHANGED row /\ Goto(w, "return")
    /\ UNCHANGED <<age, queueVars, api, canceller, reaper, results>>

\* The claim is inside the handler's try: a database error, with or without the
\* update applied, is caught and becomes the job's failure.
ClaimThrows(w) ==
    LET j == handler[w].job IN
    /\ handler[w].at = "claim"
    /\ \/ row[j].status = "QUEUED" /\ row' = Claimed(j)
       \/ UNCHANGED row
    /\ Decide(w, "FAILED")
    /\ UNCHANGED <<age, queueVars, api, canceller, reaper, results>>

\* checkAbort finds the flag set: DesignAbortedError.  A worker that screens
\* several candidates swallows it per candidate and meets the flag again at the
\* next checkpoint.
Checkpoint(w) ==
    /\ handler[w].at = "loop"
    /\ Canceled(w)
    /\ Decide(w, "CANCELED")
    /\ LoopOnly

\* The flag is not set: generate, simulate or fix.
StartCall(w) ==
    /\ handler[w].at = "loop"
    /\ ~Canceled(w)
    /\ handler[w].calls < MaxCalls
    /\ LET h == handler[w] IN
       handler' = [handler EXCEPT ![w] = [h EXCEPT !.at = "call", !.calls = h.calls + 1]]
    /\ LoopOnly

\* The call ends: another round, a result, or an error that leaves the loop.
CallEnds(w) ==
    /\ handler[w].at = "call"
    /\ Goto(w, "loop") \/ Goto(w, "post") \/ Decide(w, "FAILED")
    /\ LoopOnly

\* No LLM key, a failed read of the flag, or the round budget is spent.
LoopEnds(w) ==
    /\ handler[w].at = "loop"
    /\ Goto(w, "post") \/ Decide(w, "FAILED")
    /\ LoopOnly

\* A cancel that landed after the loop's last checkpoint still wins; a failed
\* read of the flag is caught and becomes the job's failure.
PostCheck(w) ==
    /\ handler[w].at = "post"
    /\ \/ Canceled(w) /\ Decide(w, "CANCELED")
       \/ ~Canceled(w) /\ Decide(w, "SUCCEEDED")
       \/ Decide(w, "FAILED")
    /\ LoopOnly

\* The terminal write: unconditional, and errorMessage is set but never cleared.
\* A database error is swallowed.
Finish(w) ==
    LET h == handler[w]
        j == h.job
        error == IF h.outcome = "FAILED" THEN "worker" ELSE row[j].error
    IN
    /\ h.at = "finish"
    /\ \/ /\ row' = [row EXCEPT ![j] = [@ EXCEPT !.status = h.outcome, !.error = error]]
          /\ results' = results \cup (IF h.outcome = "SUCCEEDED" THEN {j} ELSE {})
       \/ UNCHANGED <<row, results>>
    /\ Goto(w, "return")
    /\ UNCHANGED <<age, queueVars, api, canceller, reaper>>

\* The handler never throws, so BullMQ is told the job completed.
Leave(w) ==
    /\ handler[w].at = "return"
    /\ Report(w, handler[w].job, "completed")
    /\ handler' = [handler EXCEPT ![w] = Idle]
    /\ UNCHANGED <<row, age, api, canceller, reaper, results>>

Crash(w) ==
    /\ handler[w].at # "idle"
    /\ handler' = [handler EXCEPT ![w] = Idle]
    /\ UNCHANGED <<jobVars, results>>

LockExpires(j) ==
    /\ Stall(j)
    /\ UNCHANGED <<row, age, api, canceller, reaper, workerVars>>

-----------------------------------------------------------------------------

WorkerStep(w) ==
    \/ Claim(w) \/ ClaimThrows(w)
    \/ Checkpoint(w) \/ StartCall(w) \/ CallEnds(w) \/ LoopEnds(w)
    \/ PostCheck(w) \/ Finish(w)
    \/ Leave(w)

Next ==
    \/ JobStep /\ UNCHANGED workerVars
    \/ \E w \in Workers : WorkerStep(w) \/ Crash(w)
    \/ \E w \in Workers, j \in Jobs : Deliver(w, j)
    \/ \E j \in Jobs : LockExpires(j)

Abandoned(j) == ~\E w \in Workers : holder[j] = w /\ handler[w].job = j

\* LLM and simulation calls have timeouts, BullMQ delivers what waits, and it
\* finds out about a dead worker.
Fairness ==
    /\ JobFairness
    /\ \A w \in Workers : WF_vars(WorkerStep(w))
    /\ \A j \in Jobs :
          /\ SF_vars(\E w \in Workers : Deliver(w, j))
          /\ WF_vars(Abandoned(j) /\ LockExpires(j))

Spec == Init /\ [][Next]_vars

FairSpec == Spec /\ Fairness

-----------------------------------------------------------------------------

\* Of all handlers that got past the claim of a job at most one spends money on
\* it, through re-deliveries, crashes and lost locks (processDesignJob's claim).
SingleRunner ==
    \A w1, w2 \in Workers :
        /\ handler[w1].at \in Working
        /\ handler[w2].at \in Working
        /\ handler[w1].job = handler[w2].job
        => w1 = w2

\* The verdicts of the handlers that are about to write the row by its id alone.
HeldOutcomes(j) ==
    {handler[w].outcome : w \in {w \in Workers : handler[w].at = "finish" /\ handler[w].job = j}}

Lifecycle == INSTANCE JobLifecycle WITH
    Artifacts <- {"result"},
    status <- [j \in Jobs |-> row[j].status],
    published <- [j \in Jobs |-> IF j \in results THEN {"result"} ELSE {}],
    held <- [j \in Jobs |-> StaleCancels(j) \cup HeldOutcomes(j)]

\* The row goes through the life cycle a polling client expects, except that a
\* cancel that read QUEUED or a handler that has its outcome may settle it again
\* (requestCancel, finish).  Nobody else does, the reaper and the API's failed
\* enqueue included; no row becomes live again; and no handler stores a result over
\* the result of another.
KeepsLifecycle == Lifecycle!Spec

\* Every design job is settled in the end, whatever crashes or gets lost.
Settles ==
    \A j \in Jobs : row[j].status \in Live ~> row[j].status \in Terminal

=============================================================================
