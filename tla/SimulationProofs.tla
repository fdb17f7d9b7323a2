------------------------- MODULE SimulationProofs --------------------------
(***************************************************************************)
(* Proofs about a simulation: part I its row, its queue jobs and their       *)
(* handlers (SimulationJob), part II the ngspice runs of a job in its        *)
(* directory (SimulationRunner).                                             *)
(*                                                                           *)
(* Part I is for any number of rows, worker slots, attempts and retries.     *)
(* Two things are hard to see in the code: that a row which no operator has  *)
(* retried never becomes live again, although a handler may claim a RUNNING  *)
(* row; and that a handler on its last attempt knows that BullMQ will not    *)
(* deliver the job again for a failure, although the job may have been       *)
(* delivered elsewhere since.                                                *)
(*                                                                           *)
(* Part II is for any number of deliveries of the job, remedies, attempts    *)
(* and crashes.  A run that shares the directory may read another's files;   *)
(* what it says of an outage is right all the same, and a batch that has the *)
(* directory for itself judges no variant on data of another.                *)
(***************************************************************************)
EXTENDS SimulationJob, SimulationRunner, SequenceTheorems, TLAPS

\* A step that names no prover is given a minute of each.
USE SMTT(60), ZenonT(60)

-----------------------------------------------------------------------------
(* I. The job.  Type correctness.                                          *)

\* TypeOK's part on the handlers, with what makes it inductive: a handler that
\* works has a row, and one that is about to write has a verdict.
HandlersOK ==
    /\ handler \in [Workers -> Handler]
    /\ \A w \in Workers :
          /\ handler[w].at # "idle" => handler[w].sim \in Sims
          /\ handler[w].at = "write" => handler[w].outcome \in Terminal

RowsOK ==
    /\ deck \in [Sims -> Deck]
    /\ row \in [Sims -> Status]
    /\ retries \in [Sims -> 0..MaxRetries]
    /\ disturbed \subseteq Sims

QueueOK == queue \in [Sims -> [Ids -> QueueJob]]

CallsOK ==
    /\ api \in [Sims -> {"idle", "adding", "done"}]
    /\ retrier \in [Sims -> {"idle", "read", "reset", "removed", "revert"}]
    /\ canceller \in [Sims -> {"idle", "read", "removed"}]

Typed == HandlersOK /\ RowsOK /\ QueueOK /\ CallsOK

LEMMA FreshJob ==
  ASSUME NEW state \in QueueState PROVE NewJob(state) \in QueueJob
BY SimulationJobAssumption DEF NewJob, QueueJob

\* A handler is replaced.
LEMMA HandlerReplaced ==
  ASSUME HandlersOK, NEW w \in Workers, NEW h \in Handler,
         h.at # "idle" => h.sim \in Sims, h.at = "write" => h.outcome \in Terminal,
         handler' = [handler EXCEPT ![w] = h]
  PROVE  /\ HandlersOK'
         /\ handler'[w] = h
         /\ \A x \in Workers \ {w} : handler'[x] = handler[x]
BY DEF HandlersOK

\* A handler goes on.
LEMMA GoneTo ==
  ASSUME HandlersOK, NEW w \in Workers, handler[w].at # "idle",
         NEW to \in {"run", "catch", "return", "throw"}, Goto(w, to)
  PROVE  /\ HandlersOK'
         /\ handler'[w] \in Handler
         /\ handler'[w].at = to /\ handler'[w].sim = handler[w].sim
         /\ handler'[w].id = handler[w].id /\ handler'[w].final = handler[w].final
         /\ \A x \in Workers \ {w} : handler'[x] = handler[x]
<1> DEFINE h == [handler[w] EXCEPT !.at = to, !.outcome = "none"]
<1>1. /\ h \in Handler /\ h.at = to /\ h.sim = handler[w].sim /\ h.id = handler[w].id
      /\ h.final = handler[w].final /\ h.sim \in Sims
  BY DEF HandlersOK, Handler, Stage
<1>2. handler' = [handler EXCEPT ![w] = h]
  BY DEF Goto
<1> HIDE DEF h
<1> QED  BY <1>1, <1>2, HandlerReplaced

\* A handler comes to a verdict.
LEMMA Concluded ==
  ASSUME HandlersOK, NEW w \in Workers, handler[w].at # "idle",
         NEW outcome \in Terminal, Conclude(w, outcome)
  PROVE  /\ HandlersOK'
         /\ handler'[w] \in Handler
         /\ handler'[w].at = "write" /\ handler'[w].sim = handler[w].sim
         /\ handler'[w].id = handler[w].id /\ handler'[w].final = handler[w].final
         /\ handler'[w].outcome = outcome
         /\ \A x \in Workers \ {w} : handler'[x] = handler[x]
<1> DEFINE h == [handler[w] EXCEPT !.at = "write", !.outcome = outcome]
<1>1. /\ h \in Handler /\ h.at = "write" /\ h.sim = handler[w].sim /\ h.id = handler[w].id
      /\ h.final = handler[w].final /\ h.sim \in Sims /\ h.outcome = outcome
  BY DEF HandlersOK, Handler, Stage
<1>2. handler' = [handler EXCEPT ![w] = h]
  BY DEF Conclude
<1> HIDE DEF h
<1> QED  BY <1>1, <1>2, HandlerReplaced

LEMMA IdleOK == Idle \in Handler /\ Idle.at = "idle"
BY SimulationJobAssumption DEF Idle, Fresh, Handler, Stage, Ids

LEMMA FreshOK ==
  ASSUME NEW s \in Sims, NEW id \in Ids, NEW final \in BOOLEAN,
         NEW h, h = Fresh("claim", s, id, final)
  PROVE  h \in Handler /\ h.at = "claim" /\ h.sim = s /\ h.id = id /\ h.final = final
BY DEF Fresh, Handler, Stage

\* What BullMQ makes of a job: handed out, let go, delivered again, tried again.
LEMMA HandedOut ==
  ASSUME NEW old \in QueueJob, NEW w \in Workers,
         NEW job, job = [old EXCEPT !.state = "active", !.holder = w]
  PROVE  job \in QueueJob /\ job.state = "active" /\ job.made = old.made
BY DEF QueueJob, QueueState

LEMMA LetGo ==
  ASSUME NEW old \in QueueJob, NEW job, job = [old EXCEPT !.holder = NoWorker]
  PROVE  job \in QueueJob /\ job.state = old.state /\ job.made = old.made
BY DEF QueueJob

LEMMA DeliveredAgain ==
  ASSUME NEW old \in QueueJob, old.stalls < MaxStalled,
         NEW job, job = [old EXCEPT !.state = "waiting", !.stalls = old.stalls + 1]
  PROVE  job \in QueueJob /\ job.state = "waiting" /\ job.made = old.made
<1>1. old.stalls + 1 \in 0..MaxStalled
  BY SimulationJobAssumption DEF QueueJob
<1> QED  BY <1>1 DEF QueueJob, QueueState

LEMMA TriedAgain ==
  ASSUME NEW old \in QueueJob, old.made + 1 \in 0..MaxAttempts,
         NEW job, job = [old EXCEPT !.state = "waiting", !.made = old.made + 1,
                                    !.holder = NoWorker]
  PROVE  job \in QueueJob /\ job.state = "waiting" /\ job.made = old.made + 1
BY DEF QueueJob, QueueState

-----------------------------------------------------------------------------
(* The inductive invariant.                                                *)

Done == Terminal \cup {"GONE"}

Pending == {"waiting", "active"}

\* What is known of a row: nothing refers to it before it is inserted, only an
\* operator's retry gives it a second BullMQ job, and as long as there is none its
\* settlement is final and its infrastructure failure the last word of BullMQ's.
SimFacts(s) ==
    LET job == queue[s]["api"]
    IN  /\ row[s] = "ABSENT" <=> api[s] = "idle"
        /\ api[s] # "done" => job.state = "missing"
        /\ api[s] = "adding" /\ retries[s] = 0 => row[s] \in {"QUEUED", "GONE"}
        /\ api[s] = "idle" => retries[s] = 0
        /\ retries[s] = 0 =>
              /\ queue[s]["row"].state = "missing"
              /\ retrier[s] = "idle"
              /\ canceller[s] # "removed"
        /\ job.made < MaxAttempts
        /\ job.state = "completed" /\ retries[s] = 0 => row[s] \in Done
        /\ row[s] = "INFRA" /\ retries[s] = 0 /\ deck[s] # "batch" /\ job.state \in Pending =>
              job.made = MaxAttempts - 1

\* What a handler's stage says of its row and of the job it was given.
HandlerFacts(w) ==
    LET h == handler[w]
        s == h.sim
    IN  h.at # "idle" =>
          /\ api[s] # "idle"
          /\ h.id = "api" => api[s] = "done"
          /\ h.id = "row" => retries[s] > 0
          /\ h.at \in {"run", "write"} /\ retries[s] = 0 => row[s] # "QUEUED"
          /\ h.at = "write" => h.outcome \in Lifecycle!Outcomes(s)
          /\ h.at = "write" /\ h.outcome = "INFRA" /\ deck[s] # "batch" => h.final
          /\ h.at = "return" /\ retries[s] = 0 => row[s] \in Done
          /\ h.final /\ h.id = "api" /\ queue[s]["api"].state \in Pending =>
                queue[s]["api"].made = MaxAttempts - 1

Inv ==
    /\ Typed
    /\ \A s \in Sims : SimFacts(s)
    /\ \A w \in Workers : HandlerFacts(w)

\* What no step does: lose a row or an operator's retry, make a settled row live
\* again without one, or deliver the API's job once more after its last attempt.
Kept(s) ==
    /\ deck'[s] = deck[s]
    /\ retries'[s] = 0 => retries[s] = 0
    /\ s \in disturbed => s \in disturbed'
    /\ api[s] # "idle" => api'[s] # "idle"
    /\ api[s] = "done" => api'[s] = "done"
    /\ retries'[s] = 0 /\ row'[s] = "QUEUED" => row[s] \in {"ABSENT", "QUEUED"}
    /\ retries'[s] = 0 /\ row[s] \in Done => row'[s] \in Done
    /\ api[s] = "done" /\ queue'[s]["api"].state \in Pending =>
          /\ queue[s]["api"].state \in Pending
          /\ queue[s]["api"].made = MaxAttempts - 1 => queue'[s]["api"].made = MaxAttempts - 1

\* Later outcomes are no fewer.
LEMMA OutcomesGrow ==
  ASSUME Inv, Typed', NEW s \in Sims, Kept(s)
  PROVE  Lifecycle!Outcomes(s) \subseteq Lifecycle!Outcomes(s)'
<1>1. retries[s] \in Nat /\ retries'[s] \in Nat
  BY SimulationJobAssumption DEF Inv, Typed, RowsOK
<1>2. s \in {t \in Sims : retries[t] > 0} => s \in {t \in Sims : retries'[t] > 0}
  BY <1>1 DEF Kept
<1>3. deck'[s] = deck[s] /\ (s \in disturbed => s \in disturbed')
  BY DEF Kept
<1> QED  BY <1>2, <1>3 DEF Lifecycle!Outcomes

\* What is known of a handler survives the steps of everybody else.
LEMMA FactsKept ==
  ASSUME Inv, Typed', NEW w \in Workers, UNCHANGED handler[w], \A s \in Sims : Kept(s)
  PROVE  HandlerFacts(w)'
<1> DEFINE s == handler[w].sim
<1>1. CASE handler[w].at = "idle"
  BY <1>1 DEF HandlerFacts
<1>2. CASE handler[w].at # "idle"
  <2>1. /\ s \in Sims /\ HandlerFacts(w) /\ SimFacts(s)
        /\ retries[s] \in Nat /\ retries'[s] \in Nat
    BY <1>2, SimulationJobAssumption DEF Inv, Typed, HandlersOK, RowsOK
  <2>2. Kept(s)
    BY <2>1
  <2>3. Lifecycle!Outcomes(s) \subseteq Lifecycle!Outcomes(s)'
    BY <2>1, <2>2, OutcomesGrow
  <2> QED  BY <1>2, <2>1, <2>2, <2>3 DEF HandlerFacts, Kept, SimFacts
<1> QED  BY <1>1, <1>2

\* Inv is kept if its parts are, and each handler stays or has its facts anew.
LEMMA Assembled ==
  ASSUME Inv, Typed', \A s \in Sims : Kept(s) /\ SimFacts(s)',
         \A w \in Workers : UNCHANGED handler[w] \/ HandlerFacts(w)'
  PROVE  Inv'
<1>1. \A w \in Workers : HandlerFacts(w)'
  BY FactsKept
<1> QED  BY <1>1 DEF Inv

Unmoved(s) ==
    /\ UNCHANGED <<deck[s], row[s], retries[s], disturbed, api[s], retrier[s], canceller[s]>>
    /\ \A id \in Ids : UNCHANGED queue[s][id]

LEMMA UnmovedKept ==
  ASSUME Inv, NEW s \in Sims, Unmoved(s) PROVE Kept(s) /\ SimFacts(s)'
<1>1. SimFacts(s) /\ UNCHANGED <<queue[s]["api"], queue[s]["row"]>>
  BY DEF Inv, Unmoved, Ids
<1> QED  BY <1>1 DEF SimFacts, Kept, Unmoved

\* A step on one row.
LEMMA Local ==
  ASSUME Inv, Typed', NEW t \in Sims, \A s \in Sims \ {t} : Unmoved(s),
         Kept(t) /\ SimFacts(t)',
         \A w \in Workers : UNCHANGED handler[w] \/ HandlerFacts(w)'
  PROVE  Inv'
<1>1. \A s \in Sims : Kept(s) /\ SimFacts(s)'
  BY UnmovedKept
<1> QED  BY <1>1, Assembled

\* The types at one row.
LEMMA TypesAt ==
  ASSUME Inv, NEW s \in Sims
  PROVE  /\ SimFacts(s)
         /\ deck[s] \in Deck /\ row[s] \in Status /\ retries[s] \in 0..MaxRetries
         /\ retries[s] \in Nat /\ MaxRetries \in Nat
         /\ queue[s]["api"] \in QueueJob /\ queue[s]["row"] \in QueueJob
         /\ api[s] \in {"idle", "adding", "done"}
BY SimulationJobAssumption DEF Inv, Typed, RowsOK, QueueOK, CallsOK, Ids

\* The calls of the API and of operators that leave BullMQ alone.
RowStep(s) ==
    \/ Create(s) \/ Delete(s)
    \/ CancelRead(s) \/ CancelWrite(s) \/ CancelLost(s)
    \/ RetryRead(s) \/ RetryReset(s) \/ RetryRevert(s) \/ RetryLost(s)

LEMMA RowStepInv ==
  ASSUME Inv, NEW t \in Sims, RowStep(t)
  PROVE  Inv'
<1>0. /\ HandlersOK /\ RowsOK /\ QueueOK /\ CallsOK
      /\ UNCHANGED <<deck, disturbed, queue, handler>>
  BY DEF Inv, Typed, RowStep, callVars, Create, Delete, CancelRead, CancelWrite, CancelLost,
     RetryRead, RetryReset, RetryRevert, RetryLost
<1>1. RowsOK'
  <2>1. RetryRead(t) => retries[t] + 1 \in 0..MaxRetries
    BY TypesAt DEF RetryRead
  <2>2. {"QUEUED", "GONE", "CANCELED", "FAILED"} \in SUBSET Status
    BY DEF Status, Live, Terminal, Retriable
  <2>3. retries' \in [Sims -> 0..MaxRetries]
    BY <1>0, <2>1 DEF RowsOK, RowStep, callVars, Create, Delete, CancelRead, CancelWrite,
       CancelLost, RetryRead, RetryReset, RetryRevert, RetryLost
  <2>4. row' \in [Sims -> Status]
    BY <1>0, <2>2 DEF RowsOK, RowStep, callVars, Create, Delete, CancelRead, CancelWrite,
       CancelLost, RetryRead, RetryReset, RetryRevert, RetryLost
  <2> QED  BY <1>0, <2>3, <2>4 DEF RowsOK
<1>2. CallsOK'
  BY <1>0 DEF CallsOK, RowStep, callVars, Create, Delete, CancelRead, CancelWrite, CancelLost,
     RetryRead, RetryReset, RetryRevert, RetryLost
<1>3. Typed'
  BY <1>0, <1>1, <1>2 DEF Typed, HandlersOK, QueueOK
<1>4. \A s \in Sims \ {t} : Unmoved(s)
  BY <1>0 DEF RowsOK, CallsOK, Unmoved, RowStep, callVars, Create, Delete, CancelRead,
     CancelWrite, CancelLost, RetryRead, RetryReset, RetryRevert, RetryLost
<1>5. Kept(t) /\ SimFacts(t)'
  <2>0. /\ SimFacts(t) /\ retries[t] \in Nat
        /\ UNCHANGED <<deck[t], queue[t]["api"], queue[t]["row"]>>
    BY <1>0, TypesAt
  <2> USE <1>0, <2>0 DEF RowsOK, CallsOK, Kept, SimFacts
  <2>1. CASE Create(t)
    BY <2>1 DEF Create, Pending, Done, Terminal, Retriable
  <2>2. CASE Delete(t)
    BY <2>2 DEF Delete, callVars, Done
  <2>3. CASE CancelRead(t) \/ CancelWrite(t) \/ CancelLost(t)
    BY <2>3 DEF CancelRead, CancelWrite, CancelLost, Retriable
  <2>4. CASE RetryRead(t)
    <3>1. retries'[t] # 0
      BY <2>4 DEF RetryRead
    <3> QED  BY <2>4, <3>1 DEF RetryRead, Retriable
  <2>5. CASE RetryReset(t) \/ RetryRevert(t) \/ RetryLost(t)
    BY <2>5 DEF RetryReset, RetryRevert, RetryLost
  <2> QED  BY <2>1, <2>2, <2>3, <2>4, <2>5 DEF RowStep
<1> QED  BY <1>0, <1>3, <1>4, <1>5, Local

\* A step that replaces one BullMQ job of a row, and at most the state of a call
\* about that row with it.
LEMMA OneJob ==
  ASSUME Inv, NEW t \in Sims, NEW id \in Ids, NEW job \in QueueJob,
         queue' = [queue EXCEPT ![t][id] = job],
         CallsOK', \A s \in Sims \ {t} : UNCHANGED <<api[s], retrier[s], canceller[s]>>,
         HandlersOK', UNCHANGED <<deck, disturbed, row, retries>>
  PROVE  /\ Typed'
         /\ queue'[t][id] = job /\ \A i \in Ids \ {id} : queue'[t][i] = queue[t][i]
         /\ \A s \in Sims \ {t} : Unmoved(s)
<1>1. QueueOK
  BY DEF Inv, Typed
<1>2. /\ QueueOK' /\ queue'[t][id] = job
      /\ \A s \in Sims, i \in Ids : (s # t \/ i # id) => queue'[s][i] = queue[s][i]
  BY <1>1 DEF QueueOK
<1>3. Typed'
  BY <1>2 DEF Inv, Typed, RowsOK
<1>4. \A s \in Sims \ {t} : Unmoved(s)
  BY <1>2 DEF Unmoved
<1> QED  BY <1>2, <1>3, <1>4

\* No job is changed: one is replaced by itself.
LEMMA SameJob ==
  ASSUME QueueOK, NEW t \in Sims, NEW id \in Ids, UNCHANGED queue
  PROVE  queue' = [queue EXCEPT ![t][id] = queue[t][id]]
BY DEF QueueOK

\* What an operator does to the job under the row's id is nobody else's business.
LEMMA OperatorStep ==
  ASSUME Inv, NEW t \in Sims, NEW job \in QueueJob, retries[t] > 0,
         queue' = [queue EXCEPT ![t]["row"] = job],
         CallsOK', \A s \in Sims \ {t} : UNCHANGED <<api[s], retrier[s], canceller[s]>>,
         UNCHANGED <<deck, disturbed, row, retries, handler, api>>
  PROVE  Inv'
<1>1. HandlersOK' /\ "row" \in Ids /\ "api" \in Ids
  BY DEF Inv, Typed, HandlersOK, Ids
<1>2. /\ Typed' /\ \A s \in Sims \ {t} : Unmoved(s)
      /\ \A i \in Ids \ {"row"} : queue'[t][i] = queue[t][i]
  BY <1>1, OneJob
<1>3. queue'[t]["api"] = queue[t]["api"]
  BY <1>1, <1>2
<1>4. Kept(t) /\ SimFacts(t)'
  BY <1>3, TypesAt DEF Kept, SimFacts
<1> QED  BY <1>2, <1>4, Local

\* CancelRemove, RetryRemove, RetryAdd and RetryAddThrows.
LEMMA OperatorInv ==
  ASSUME Inv, NEW t \in Sims,
         CancelRemove(t) \/ RetryRemove(t) \/ RetryAdd(t) \/ RetryAddThrows(t)
  PROVE  Inv'
<1>0. /\ HandlersOK /\ RowsOK /\ QueueOK /\ CallsOK
      /\ UNCHANGED <<deck, disturbed, row, retries, handler, api>>
  BY DEF Inv, Typed, CancelRemove, RetryRemove, RetryAdd, RetryAddThrows
<1>1. CallsOK' /\ \A s \in Sims \ {t} : UNCHANGED <<api[s], retrier[s], canceller[s]>>
  BY <1>0 DEF CallsOK, CancelRemove, RetryRemove, RetryAdd, RetryAddThrows
<1>2. NewJob("missing") \in QueueJob /\ NewJob("waiting") \in QueueJob
  BY FreshJob DEF QueueState
<1>3. queue[t]["row"] \in QueueJob
  BY TypesAt
<1>4. CASE retries[t] > 0
  <2>1. UNCHANGED queue => queue' = [queue EXCEPT ![t]["row"] = queue[t]["row"]]
    BY <1>0, SameJob DEF Ids
  <2>2. \/ queue' = [queue EXCEPT ![t]["row"] = NewJob("missing")]
        \/ queue' = [queue EXCEPT ![t]["row"] = NewJob("waiting")]
        \/ UNCHANGED queue
    BY DEF CancelRemove, RetryRemove, RetryAdd, RetryAddThrows, Enqueued
  <2> QED  BY <1>0, <1>1, <1>2, <1>3, <1>4, <2>1, <2>2, OperatorStep
\* Without a retry there is nothing to remove, and the cancel is refused.
<1>5. CASE retries[t] = 0
  <2>1. /\ queue[t]["row"].state = "missing" /\ retrier[t] = "idle" /\ SimFacts(t)
        /\ retries[t] \in Nat
    BY <1>5, TypesAt DEF SimFacts
  <2>2. CancelRemove(t) /\ UNCHANGED <<queue, retrier>> /\ canceller'[t] = "idle"
    BY <1>0, <2>1 DEF CallsOK, CancelRemove, RetryRemove, RetryAdd, RetryAddThrows, Removable
  <2>3. Typed'
    BY <1>0, <1>1, <2>2 DEF Typed, HandlersOK, RowsOK, QueueOK
  <2>4. \A s \in Sims \ {t} : Unmoved(s)
    BY <1>0, <1>1, <2>2 DEF Unmoved
  <2>5. Kept(t) /\ SimFacts(t)'
    BY <1>0, <2>1, <2>2 DEF Kept, SimFacts
  <2> QED  BY <1>0, <2>3, <2>4, <2>5, Local
<1> QED  BY <1>4, <1>5, TypesAt

LEMMA AddInv ==
  ASSUME Inv, NEW t \in Sims, Add(t) PROVE Inv'
<1>0. /\ HandlersOK /\ RowsOK /\ QueueOK /\ CallsOK
      /\ UNCHANGED <<deck, disturbed, row, retries, handler, retrier, canceller>>
      /\ api[t] = "adding" /\ api'[t] = "done" /\ "api" \in Ids /\ "row" \in Ids
  BY DEF Inv, Typed, CallsOK, Add, Ids
<1>1. CallsOK' /\ \A s \in Sims \ {t} : UNCHANGED <<api[s], retrier[s], canceller[s]>>
  BY <1>0 DEF CallsOK, Add
<1>2. NewJob("waiting") \in QueueJob /\ NewJob("waiting").state = "waiting" /\ NewJob("waiting").made = 0
  BY FreshJob DEF QueueState, NewJob
<1>3. PICK job \in QueueJob :
        /\ queue' = [queue EXCEPT ![t]["api"] = job]
        /\ job = queue[t]["api"] \/ job = NewJob("waiting")
  BY <1>0, <1>2, SameJob, TypesAt DEF Add
<1>4. /\ Typed' /\ \A s \in Sims \ {t} : Unmoved(s)
      /\ queue'[t]["api"] = job /\ queue'[t]["row"] = queue[t]["row"]
  <2>1. HandlersOK'
    BY <1>0 DEF HandlersOK
  <2>2. queue' = [queue EXCEPT ![t]["api"] = job]
    BY <1>3
  <2>3. /\ Typed' /\ \A s \in Sims \ {t} : Unmoved(s)
        /\ queue'[t]["api"] = job /\ \A i \in Ids \ {"api"} : queue'[t][i] = queue[t][i]
    BY <1>0, <1>1, <2>1, <2>2, OneJob
  <2> QED  BY <1>0, <2>3
<1>5. Kept(t) /\ SimFacts(t)'
  <2>1. SimFacts(t) /\ (queue[t]["api"].state = "missing")
    BY <1>0, TypesAt DEF SimFacts
  <2>2. job.made < MaxAttempts /\ job.state \in {"missing", "waiting"}
    BY <1>2, <1>3, <2>1, SimulationJobAssumption DEF SimFacts
  <2>3. row[t] # "INFRA" \/ retries[t] # 0
    BY <1>0, <2>1 DEF SimFacts
  <2> QED  BY <1>0, <1>4, <2>1, <2>2, <2>3 DEF Kept, SimFacts
<1> QED  BY <1>0, <1>4, <1>5, Local

\* A step of BullMQ, or of a handler that tells it how it went: the job stays or is
\* given up, tried again, moved on.
LEMMA JobMoves ==
  ASSUME Inv, NEW t \in Sims, NEW id \in Ids, NEW job \in QueueJob,
         queue[t][id].state # "missing",
         queue' = [queue EXCEPT ![t][id] = job],
         HandlersOK', UNCHANGED <<deck, disturbed, row, retries, callVars>>,
         id = "api" =>
            /\ job.made < MaxAttempts
            /\ job.state \in Pending =>
                  /\ queue[t]["api"].state \in Pending
                  /\ queue[t]["api"].made = MaxAttempts - 1 => job.made = MaxAttempts - 1
            /\ job.state = "completed" /\ retries[t] = 0 => row[t] \in Done
  PROVE  /\ Typed' /\ \A s \in Sims : Kept(s) /\ SimFacts(s)'
         /\ queue'[t][id] = job /\ \A i \in Ids \ {id} : queue'[t][i] = queue[t][i]
<1>0. SimFacts(t) /\ retries[t] \in Nat /\ "api" \in Ids /\ "row" \in Ids
  BY TypesAt DEF Ids
<1>1. /\ Typed' /\ queue'[t][id] = job /\ \A i \in Ids \ {id} : queue'[t][i] = queue[t][i]
      /\ \A s \in Sims \ {t} : Unmoved(s)
  <2>1. CallsOK' /\ \A s \in Sims \ {t} : UNCHANGED <<api[s], retrier[s], canceller[s]>>
    BY DEF Inv, Typed, CallsOK, callVars
  <2> QED  BY <2>1, OneJob
<1>2. Kept(t) /\ SimFacts(t)'
  <2>1. CASE id = "api"
    <3>1. queue'[t]["api"] = job /\ queue'[t]["row"] = queue[t]["row"]
      BY <1>0, <1>1, <2>1
    <3>2. api[t] = "done"
      BY <1>0, <2>1 DEF SimFacts
    <3>3. Kept(t)
      BY <2>1, <3>1 DEF Kept, callVars
    <3> QED  BY <1>0, <2>1, <3>1, <3>2, <3>3 DEF SimFacts, callVars
  <2>2. CASE id = "row"
    <3>1. queue'[t]["api"] = queue[t]["api"] /\ retries[t] # 0
      BY <1>0, <1>1, <2>2 DEF SimFacts
    <3> QED  BY <1>0, <3>1 DEF Kept, SimFacts, callVars
  <2> QED  BY <2>1, <2>2 DEF Ids
<1>3. \A s \in Sims : Kept(s) /\ SimFacts(s)'
  BY <1>1, <1>2, UnmovedKept
<1> QED  BY <1>1, <1>3

LEMMA BullInv ==
  ASSUME Inv, NEW t \in Sims, NEW id \in Ids,
         LockExpires(t, id) \/ Stall(t, id) \/ Evict(t, id)
  PROVE  Inv'
<1> DEFINE old == queue[t][id]
<1>0. /\ QueueOK /\ HandlersOK /\ old \in QueueJob /\ old.state # "missing"
      /\ UNCHANGED <<deck, disturbed, row, retries, handler, callVars>>
      /\ id = "api" => old.made < MaxAttempts
  BY TypesAt DEF Inv, Typed, QueueOK, SimFacts, LockExpires, Stall, Evict
<1>1. HandlersOK'
  BY <1>0 DEF HandlersOK
<1>2. \A state \in {"missing", "failed"} :
         NewJob(state) \in QueueJob /\ NewJob(state).state = state /\ NewJob(state).made = 0
  BY FreshJob DEF NewJob, QueueState
<1>3. PICK job \in QueueJob :
        /\ queue' = [queue EXCEPT ![t][id] = job]
        /\ \/ job.state \in {"missing", "failed"} /\ job.made = 0
           \/ old.state \in Pending /\ job.made = old.made /\ job.state \in Pending
  <2>1. CASE LockExpires(t, id)
    <3> DEFINE new == [old EXCEPT !.holder = NoWorker]
    <3>1. queue' = [queue EXCEPT ![t][id] = new] /\ old.state = "active"
      BY <1>0, <2>1 DEF LockExpires, QueueOK
    <3>2. new \in QueueJob /\ new.state = old.state /\ new.made = old.made
      BY <1>0, LetGo
    <3> HIDE DEF old, new
    <3> QED  BY <3>1, <3>2 DEF Pending
  <2>2. CASE Stall(t, id)
    <3> DEFINE new == [old EXCEPT !.state = "waiting", !.stalls = old.stalls + 1]
    <3>1. CASE old.stalls < MaxStalled
      <4>1. queue' = [queue EXCEPT ![t][id] = new] /\ old.state = "active"
        BY <2>2, <3>1 DEF Stall
      <4>2. new \in QueueJob /\ new.state = "waiting" /\ new.made = old.made
        BY <1>0, <3>1, DeliveredAgain
      <4> HIDE DEF old, new
      <4> QED  BY <4>1, <4>2 DEF Pending
    <3>2. CASE ~(old.stalls < MaxStalled)
      BY <1>2, <2>2, <3>2 DEF Stall
    <3> QED  BY <3>1, <3>2
  <2>3. CASE Evict(t, id)
    BY <1>2, <2>3 DEF Evict
  <2> QED  BY <2>1, <2>2, <2>3
<1>4. Typed' /\ \A s \in Sims : Kept(s) /\ SimFacts(s)'
  <2>1. id = "api" =>
           /\ job.made < MaxAttempts
           /\ job.state \in Pending =>
                 /\ queue[t]["api"].state \in Pending
                 /\ queue[t]["api"].made = MaxAttempts - 1 => job.made = MaxAttempts - 1
           /\ job.state = "completed" /\ retries[t] = 0 => row[t] \in Done
    BY <1>0, <1>3, SimulationJobAssumption DEF Pending
  <2> QED  BY <1>0, <1>1, <1>3, <2>1, JobMoves
<1> QED  BY <1>0, <1>4, Assembled

\* The handler that is given a job starts, on a row that is there, and knows whether
\* it is the last.
LEMMA DeliverInv ==
  ASSUME Inv, NEW w \in Workers, NEW t \in Sims, NEW id \in Ids, Deliver(w, t, id)
  PROVE  Inv'
<1> DEFINE old == queue[t][id]
           h == Fresh("claim", t, id, IsFinalAttempt(old.made, Attempts(id)))
           job == [old EXCEPT !.state = "active", !.holder = w]
<1>0. /\ QueueOK /\ HandlersOK /\ old \in QueueJob /\ old.state = "waiting"
      /\ UNCHANGED <<deck, disturbed, row, retries, callVars>>
      /\ SimFacts(t) /\ retries[t] \in Nat
      /\ queue' = [queue EXCEPT ![t][id] = job]
      /\ handler' = [handler EXCEPT ![w] = h]
  BY TypesAt DEF Inv, Typed, QueueOK, Deliver
<1>1. /\ h \in Handler /\ h.at = "claim" /\ h.sim = t /\ h.id = id
      /\ h.final <=> old.made + 1 >= Attempts(id)
  <2> DEFINE final == IsFinalAttempt(old.made, Attempts(id))
  <2>1. final \in BOOLEAN /\ (final <=> old.made + 1 >= Attempts(id))
    BY DEF IsFinalAttempt
  <2>2. h = Fresh("claim", t, id, final)
    OBVIOUS
  <2> HIDE DEF h, final
  <2>3. h \in Handler /\ h.at = "claim" /\ h.sim = t /\ h.id = id /\ h.final = final
    BY <2>1, <2>2, FreshOK
  <2> QED  BY <2>1, <2>3
<1>2. job \in QueueJob /\ job.state = "active" /\ job.made = old.made
  <2>1. old \in QueueJob
    BY <1>0
  <2>2. job = [old EXCEPT !.state = "active", !.holder = w]
    OBVIOUS
  <2> HIDE DEF old, job
  <2> QED  BY <2>1, <2>2, HandedOut
<1> HIDE DEF h, job
<1>3. HandlersOK' /\ handler'[w] = h /\ \A x \in Workers \ {w} : handler'[x] = handler[x]
  BY <1>0, <1>1, HandlerReplaced
<1>4. /\ Typed' /\ \A s \in Sims : Kept(s) /\ SimFacts(s)'
      /\ queue'[t][id] = job
  <2>1. id = "api" =>
           /\ job.made < MaxAttempts
           /\ job.state \in Pending =>
                 /\ queue[t]["api"].state \in Pending
                 /\ queue[t]["api"].made = MaxAttempts - 1 => job.made = MaxAttempts - 1
           /\ job.state = "completed" /\ retries[t] = 0 => row[t] \in Done
    BY <1>0, <1>2 DEF SimFacts, Pending
  <2> QED  BY <1>0, <1>2, <1>3, <2>1, JobMoves, ZenonT(60)
<1>5. HandlerFacts(w)'
  <2>1. id = "api" => api[t] = "done"
    BY <1>0 DEF SimFacts
  <2>2. id = "row" => retries[t] > 0
    BY <1>0 DEF SimFacts
  <2>3. api[t] # "idle"
    BY <1>0, <2>1, <2>2 DEF SimFacts, Ids
  <2>4. h.final /\ id = "api" => queue'[t]["api"].made = MaxAttempts - 1
    <3>1. old.made \in Nat /\ MaxAttempts \in Nat
      BY <1>0, SimulationJobAssumption DEF QueueJob
    <3>2. id = "api" => old.made < MaxAttempts
      BY <1>0 DEF SimFacts
    <3>3. h.final /\ id = "api" => old.made + 1 >= MaxAttempts
      BY <1>1 DEF Attempts
    <3>4. id = "api" => queue'[t]["api"].made = old.made
      BY <1>2, <1>4
    <3> HIDE DEF old
    <3> QED  BY <3>1, <3>2, <3>3, <3>4
  <2> QED  BY <1>0, <1>1, <1>3, <2>1, <2>2, <2>3, <2>4 DEF HandlerFacts, callVars
<1> QED  BY <1>3, <1>4, <1>5, Assembled

\* A handler that returns or throws: only a handler whose row is settled reports the
\* job as completed, and only one before its last attempt has it tried again.
LEMMA LeaveInv ==
  ASSUME Inv, NEW w \in Workers, Leave(w)
  PROVE  Inv'
<1>p. PICK t \in Sims, id \in Ids : t = handler[w].sim /\ id = handler[w].id
  BY DEF Inv, Typed, HandlersOK, Handler, Leave
<1> DEFINE old == queue[t][id]
<1>0. /\ QueueOK /\ HandlersOK /\ old \in QueueJob
      /\ UNCHANGED <<deck, disturbed, row, retries, callVars>>
      /\ SimFacts(t) /\ HandlerFacts(w)
      /\ handler' = [handler EXCEPT ![w] = Idle]
      /\ handler[w].at \in {"return", "throw"}
  BY <1>p, TypesAt DEF Inv, Typed, QueueOK, Leave
<1>1. HandlersOK' /\ handler'[w] = Idle /\ \A x \in Workers \ {w} : handler'[x] = handler[x]
  BY <1>0, IdleOK, HandlerReplaced
<1>2. HandlerFacts(w)'
  BY <1>1, IdleOK DEF HandlerFacts
<1>3. \A state \in {"completed", "failed"} :
         NewJob(state) \in QueueJob /\ NewJob(state).state = state /\ NewJob(state).made = 0
  BY FreshJob DEF NewJob, QueueState
<1>4. CASE old.state = "active" /\ old.holder = w
  <2>1. PICK job \in QueueJob :
          /\ queue' = [queue EXCEPT ![t][id] = job]
          /\ \/ job.state = "completed" /\ job.made = 0 /\ handler[w].at = "return"
             \/ job.state = "failed" /\ job.made = 0
             \/ job.state = "waiting" /\ job.made = old.made + 1 /\ job.made < Attempts(id)
    <3> DEFINE again == [old EXCEPT !.state = "waiting", !.made = old.made + 1,
                                    !.holder = NoWorker]
    <3>1. CASE handler[w].at = "return"
      BY <1>p, <1>0, <1>3, <1>4, <3>1 DEF Leave
    <3>2. CASE handler[w].at = "throw" /\ old.made + 1 < Attempts(id)
      <4>1. old.made + 1 \in 0..MaxAttempts
        BY <1>0, <3>2, SimulationJobAssumption DEF Attempts, QueueJob
      <4>2. again \in QueueJob /\ again.state = "waiting" /\ again.made = old.made + 1
        BY <1>0, <4>1, TriedAgain
      <4>3. queue' = [queue EXCEPT ![t][id] = again]
        BY <1>p, <1>4, <3>2 DEF Leave
      <4> HIDE DEF again
      <4> QED  BY <3>2, <4>2, <4>3
    <3>3. CASE handler[w].at = "throw" /\ ~(old.made + 1 < Attempts(id))
      BY <1>p, <1>0, <1>3, <1>4, <3>3 DEF Leave
    <3> QED  BY <1>0, <3>1, <3>2, <3>3
  <2>2. handler[w].at = "return" /\ retries[t] = 0 => row[t] \in Done
    BY <1>p, <1>0 DEF HandlerFacts
  <2>3. Typed' /\ \A s \in Sims : Kept(s) /\ SimFacts(s)'
    <3>1. id = "api" /\ job.made = old.made + 1 /\ job.made < Attempts(id) =>
             job.made < MaxAttempts /\ old.made # MaxAttempts - 1
      BY <1>0, SimulationJobAssumption DEF Attempts, QueueJob
    <3> QED
      <4>1. id = "api" =>
               /\ job.made < MaxAttempts
               /\ job.state \in Pending =>
                     /\ queue[t]["api"].state \in Pending
                     /\ queue[t]["api"].made = MaxAttempts - 1 => job.made = MaxAttempts - 1
               /\ job.state = "completed" /\ retries[t] = 0 => row[t] \in Done
        BY <1>4, <2>1, <2>2, <3>1, SimulationJobAssumption DEF Pending
      <4>2. old.state # "missing"
        BY <1>4
      <4> QED  BY <1>0, <1>1, <2>1, <4>1, <4>2, JobMoves
  <2> QED  BY <1>1, <1>2, <2>3, Assembled
<1>5. CASE ~(old.state = "active" /\ old.holder = w)
  <2>1. UNCHANGED queue
    BY <1>p, <1>5 DEF Leave
  <2>2. Typed'
    BY <1>0, <1>1, <2>1 DEF Inv, Typed, RowsOK, QueueOK, CallsOK, callVars
  <2>3. \A s \in Sims : Unmoved(s)
    BY <1>0, <2>1 DEF Unmoved, callVars
  <2> QED  BY <1>1, <1>2, <2>2, <2>3, UnmovedKept, Assembled
<1> QED  BY <1>4, <1>5

LEMMA CrashInv ==
  ASSUME Inv, NEW w \in Workers, Crash(w)
  PROVE  Inv'
<1>0. /\ HandlersOK /\ UNCHANGED <<deck, disturbed, row, retries, queue, callVars>>
      /\ handler' = [handler EXCEPT ![w] = Idle]
  BY DEF Inv, Typed, Crash
<1>1. HandlersOK' /\ handler'[w] = Idle /\ \A x \in Workers \ {w} : handler'[x] = handler[x]
  BY <1>0, IdleOK, HandlerReplaced
<1>2. HandlerFacts(w)'
  BY <1>1, IdleOK DEF HandlerFacts
<1>3. Typed'
  BY <1>0, <1>1 DEF Inv, Typed, RowsOK, QueueOK, CallsOK, callVars
<1>4. \A s \in Sims : Unmoved(s)
  BY <1>0 DEF Unmoved, callVars
<1> QED  BY <1>1, <1>2, <1>3, <1>4, UnmovedKept, Assembled

\* A step of a handler that may write its row.  It makes no row QUEUED, settles what
\* is settled again, and blames the infrastructure only when BullMQ is done with the
\* job or the row is a batch's.
LEMMA HandlerStep ==
  ASSUME Inv, NEW w \in Workers, handler[w].at # "idle",
         NEW t \in Sims, t = handler[w].sim, NEW new \in Status,
         row' = [row EXCEPT ![t] = new],
         UNCHANGED <<deck, disturbed, retries, queue, callVars>>,
         HandlersOK', \A x \in Workers \ {w} : handler'[x] = handler[x],
         handler'[w].sim = t, handler'[w].id = handler[w].id,
         handler'[w].final = handler[w].final,
         new # "ABSENT",
         retries[t] = 0 /\ new = "QUEUED" => row[t] = "QUEUED",
         retries[t] = 0 /\ row[t] \in Done => new \in Done,
         new = "INFRA" /\ deck[t] # "batch" => row[t] = "INFRA" \/ handler[w].final,
         handler'[w].at \in {"run", "write"} /\ retries[t] = 0 => new # "QUEUED",
         handler'[w].at = "write" =>
            /\ handler'[w].outcome \in Lifecycle!Outcomes(t)
            /\ handler'[w].outcome = "INFRA" /\ deck[t] # "batch" => handler[w].final,
         handler'[w].at = "return" /\ retries[t] = 0 => new \in Done
  PROVE  Inv'
<1>0. /\ HandlersOK /\ RowsOK /\ SimFacts(t) /\ HandlerFacts(w) /\ retries[t] \in Nat
      /\ handler[w].id \in {"api", "row"}
  BY TypesAt DEF Inv, Typed, HandlersOK, Handler, Ids
<1>1. /\ RowsOK' /\ row'[t] = new /\ \A s \in Sims \ {t} : row'[s] = row[s]
  BY <1>0 DEF RowsOK
<1>2. Typed'
  BY <1>1 DEF Inv, Typed, QueueOK, CallsOK, callVars
<1>3. \A s \in Sims \ {t} : Unmoved(s)
  BY <1>1 DEF Unmoved, callVars
<1>4. retries[t] = 0 => handler[w].id = "api" /\ api[t] = "done"
  BY <1>0 DEF HandlerFacts
<1>5. Kept(t)
  BY <1>0, <1>1, <1>4 DEF Kept, callVars
<1>6. SimFacts(t)'
  <2>1. row[t] # "ABSENT"
    BY <1>0 DEF HandlerFacts, SimFacts
  <2>2. /\ new = "INFRA" /\ retries[t] = 0 /\ deck[t] # "batch"
        /\ queue[t]["api"].state \in Pending
        => queue[t]["api"].made = MaxAttempts - 1
    BY <1>0, <1>4 DEF HandlerFacts, SimFacts
  <2> QED  BY <1>0, <1>1, <1>4, <2>1, <2>2 DEF SimFacts, callVars
<1>7. HandlerFacts(w)'
  <2>1. Lifecycle!Outcomes(t)' = Lifecycle!Outcomes(t)
    BY DEF Lifecycle!Outcomes
  <2> QED  BY <1>0, <1>1, <2>1 DEF HandlerFacts, callVars
<1> QED  BY <1>1, <1>2, <1>3, <1>5, <1>6, <1>7, Local

\* The handler's own row and what is known of it.
LEMMA AtWork ==
  ASSUME Inv, NEW w \in Workers, handler[w].at # "idle"
  PROVE  /\ HandlersOK /\ handler[w] \in Handler /\ HandlerFacts(w)
         /\ handler[w].sim \in Sims
         /\ deck[handler[w].sim] \in Deck /\ row[handler[w].sim] \in Status \ {"ABSENT"}
         /\ retries[handler[w].sim] \in Nat
         /\ SimFacts(handler[w].sim)
         /\ row = [row EXCEPT ![handler[w].sim] = row[handler[w].sim]]
<1>1. /\ HandlersOK /\ handler[w] \in Handler /\ HandlerFacts(w) /\ handler[w].sim \in Sims
      /\ row \in [Sims -> Status]
  BY DEF Inv, Typed, RowsOK, HandlersOK
<1>2. SimFacts(handler[w].sim) /\ row[handler[w].sim] # "ABSENT"
  BY <1>1, TypesAt DEF HandlerFacts, SimFacts
<1> QED  BY <1>1, <1>2, TypesAt

LEMMA ClaimInv ==
  ASSUME Inv, NEW w \in Workers, Claim(w) PROVE Inv'
<1>p. PICK t \in Sims : t = handler[w].sim
  BY AtWork DEF Claim
<1>0. /\ HandlersOK /\ handler[w].at = "claim" /\ row[t] \in Status \ {"ABSENT"}
      /\ UNCHANGED <<deck, disturbed, retries, queue, callVars>>
      /\ row = [row EXCEPT ![t] = row[t]]
  BY <1>p, AtWork DEF Claim
<1>1. PICK new \in Status, to \in {"run", "catch", "return"} :
        /\ row' = [row EXCEPT ![t] = new] /\ Goto(w, to)
        /\ \/ row[t] \in Live /\ new = "RUNNING" /\ to \in {"run", "catch"}
           \/ row[t] \notin Live /\ new = row[t] /\ to = "return"
           \/ new = row[t] /\ to = "catch"
  <2>1. "RUNNING" \in Status
    BY DEF Status, Live
  <2>2. CASE UNCHANGED row /\ Goto(w, "catch")
    BY <1>0, <2>2
  <2>3. CASE row[t] \in Live /\ row' = [row EXCEPT ![t] = "RUNNING"] /\ Goto(w, "run")
    BY <2>1, <2>3
  <2>4. CASE row[t] \in Live /\ row' = [row EXCEPT ![t] = "RUNNING"] /\ Goto(w, "catch")
    BY <2>1, <2>4
  <2>5. CASE row[t] \notin Live /\ UNCHANGED row /\ Goto(w, "return")
    BY <1>0, <2>5
  <2> QED  BY <1>p, <2>2, <2>3, <2>4, <2>5 DEF Claim
<1>2. /\ HandlersOK' /\ handler'[w].at = to /\ handler'[w].sim = t
      /\ handler'[w].id = handler[w].id /\ handler'[w].final = handler[w].final
      /\ \A x \in Workers \ {w} : handler'[x] = handler[x]
  BY <1>p, <1>0, <1>1, GoneTo
<1>3. \A s \in Status \ (Live \cup {"ABSENT"}) : s \in Done
  BY DEF Status, Done
<1>4. "RUNNING" # "INFRA" /\ Live \cap Done = {}
  BY DEF Live, Done, Terminal, Retriable
<1>5. /\ new # "ABSENT" /\ (new = "QUEUED" => row[t] = "QUEUED")
      /\ row[t] \in Done => new \in Done
      /\ new = "INFRA" => row[t] = "INFRA"
      /\ to \in {"run", "write"} => new # "QUEUED"
      /\ to = "return" => new \in Done
      /\ to # "write"
  BY <1>0, <1>1, <1>3, <1>4
<1> QED  BY <1>p, <1>0, <1>1, <1>2, <1>5, HandlerStep

\* The outcome of a run is one its deck can have.
LEMMA RunInv ==
  ASSUME Inv, NEW w \in Workers, Run(w) PROVE Inv'
<1>p. PICK t \in Sims : t = handler[w].sim
  BY AtWork DEF Run
<1> DEFINE h == handler[w]
<1>0. /\ HandlersOK /\ h \in Handler /\ h.at = "run" /\ row[t] \in Status \ {"ABSENT"}
      /\ HandlerFacts(w) /\ deck[t] \in Deck /\ retries[t] \in Nat
      /\ UNCHANGED <<deck, disturbed, retries, queue, callVars>>
      /\ row' = [row EXCEPT ![t] = row[t]]
  BY <1>p, AtWork DEF Run
<1>1. retries[t] = 0 => row[t] # "QUEUED"
  BY <1>p, <1>0 DEF HandlerFacts
<1>2. deck[t] = "batch" /\ ~IsBatch(h) => t \in {s \in Sims : retries[s] > 0}
  <2>1. h.id \in {"api", "row"}
    BY <1>0 DEF Handler, Ids
  <2> QED  BY <1>p, <1>0, <2>1 DEF IsBatch, HandlerFacts
<1>3. ASSUME NEW outcome \in Terminal, Conclude(w, outcome),
             outcome \in Lifecycle!Outcomes(t),
             outcome = "INFRA" /\ deck[t] # "batch" => h.final
      PROVE  Inv'
  <2>1. /\ HandlersOK' /\ handler'[w].at = "write" /\ handler'[w].sim = t
        /\ handler'[w].id = h.id /\ handler'[w].final = h.final
        /\ handler'[w].outcome = outcome
        /\ \A x \in Workers \ {w} : handler'[x] = handler[x]
    BY <1>p, <1>0, <1>3, Concluded
  <2> QED  BY <1>p, <1>0, <1>1, <1>3, <2>1, HandlerStep
<1>4. ASSUME NEW to \in {"throw", "catch"}, Goto(w, to) PROVE Inv'
  <2>1. /\ HandlersOK' /\ handler'[w].at = to /\ handler'[w].sim = t
        /\ handler'[w].id = h.id /\ handler'[w].final = h.final
        /\ \A x \in Workers \ {w} : handler'[x] = handler[x]
    BY <1>p, <1>0, <1>4, GoneTo
  <2> QED  BY <1>p, <1>0, <1>1, <1>4, <2>1, HandlerStep
<1>5. {"SUCCEEDED", "FAILED", "TIMED_OUT", "INFRA"} \in SUBSET Terminal
  BY DEF Terminal, Retriable
<1>6. ASSUME NEW verdict \in Verdicts(h), Conclude(w, verdict) PROVE Inv'
  <2>1. verdict \in {"SUCCEEDED", "FAILED"}
    BY DEF Verdicts
  <2>2. h.id = "row" => t \in {s \in Sims : retries[s] > 0}
    BY <1>p, <1>0 DEF HandlerFacts
  <2>3. verdict \in Lifecycle!Outcomes(t)
    <3>1. CASE deck[t] = "batch"
      BY <1>p, <1>2, <3>1, <2>1 DEF Verdicts, Lifecycle!Outcomes
    <3>2. CASE deck[t] = "good"
      BY <1>p, <2>1, <2>2, <3>2 DEF Verdicts, Lifecycle!Outcomes, IsBatch
    <3>3. CASE deck[t] = "bad"
      BY <2>1, <3>3 DEF Lifecycle!Outcomes
    <3> QED  BY <1>0, <3>1, <3>2, <3>3 DEF Deck
  <2> QED  BY <1>3, <1>5, <1>6, <2>1, <2>3
<1>7. CASE ~IsBatch(h) /\ Conclude(w, "TIMED_OUT")
  <2>1. "TIMED_OUT" \in Lifecycle!Outcomes(t)
    BY <1>0, <1>2, <1>7 DEF Lifecycle!Outcomes, Deck
  <2> QED  BY <1>3, <1>5, <1>7, <2>1
<1>8. CASE (IsBatch(h) \/ h.final) /\ Conclude(w, "INFRA")
  <2>1. "INFRA" \in Lifecycle!Outcomes(t)
    BY <1>0 DEF Lifecycle!Outcomes, Deck
  <2>2. deck[t] # "batch" => h.final
    BY <1>p, <1>8 DEF IsBatch
  <2> QED  BY <1>3, <1>5, <1>8, <2>1, <2>2
<1> QED  BY <1>4, <1>6, <1>7, <1>8 DEF Run

\* A simulation that is disturbed can only come to more.
LEMMA DisturbInv ==
  ASSUME Inv, NEW w \in Workers, Disturb(w) PROVE Inv'
<1>1. PICK t \in Sims : disturbed' = disturbed \cup {t}
  BY AtWork DEF Disturb, Simulating
<1>2. UNCHANGED <<deck, row, retries, queue, handler, callVars>>
  BY DEF Disturb
<1>3. Typed'
  BY <1>1, <1>2 DEF Inv, Typed, HandlersOK, RowsOK, QueueOK, CallsOK, callVars
<1>4. \A s \in Sims : Kept(s) /\ SimFacts(s)'
  BY <1>1, <1>2 DEF Inv, Kept, SimFacts, callVars
<1> QED  BY <1>2, <1>3, <1>4, Assembled

\* The terminal write and what follows a failed one: the row is settled by an outcome
\* of its deck, or left alone.
LEMMA WriteInv ==
  ASSUME Inv, NEW w \in Workers, Write(w) \/ WriteFails(w) \/ WriteFindsNothing(w)
  PROVE  Inv'
<1>p. PICK t \in Sims : t = handler[w].sim
  BY AtWork DEF Write, WriteFails, WriteFindsNothing
<1> DEFINE h == handler[w]
<1>0. /\ HandlersOK /\ h \in Handler /\ h.at = "write" /\ row[t] \in Status \ {"ABSENT"}
      /\ HandlerFacts(w) /\ retries[t] \in Nat /\ deck[t] \in Deck
      /\ UNCHANGED <<deck, disturbed, retries, queue, callVars>>
      /\ row = [row EXCEPT ![t] = row[t]]
  BY <1>p, AtWork DEF Write, WriteFails, WriteFindsNothing
<1>1. /\ h.outcome \in Terminal
      /\ h.outcome = "INFRA" /\ deck[t] # "batch" => h.final
      /\ retries[t] = 0 => row[t] # "QUEUED"
  BY <1>p, <1>0 DEF HandlersOK, HandlerFacts
<1>2. \A s \in Terminal \cup {"GONE"} :
         s \in Status /\ s \in Done /\ s # "QUEUED" /\ s # "ABSENT"
  BY DEF Status, Done, Terminal, Retriable
<1>3. PICK new \in Status :
        /\ row' = [row EXCEPT ![t] = new]
        /\ new = h.outcome \/ (new = row[t] /\ (Write(w) => FALSE))
        /\ WriteFindsNothing(w) => row[t] = "GONE"
  BY <1>p, <1>0, <1>1, <1>2 DEF Write, WriteFails, WriteFindsNothing
<1>4. /\ new # "ABSENT"
      /\ retries[t] = 0 => new # "QUEUED"
      /\ row[t] \in Done => new \in Done
      /\ new = "INFRA" /\ deck[t] # "batch" => row[t] = "INFRA" \/ h.final
  BY <1>0, <1>1, <1>2, <1>3
<1>5. ASSUME NEW to \in {"throw", "catch", "return"}, Goto(w, to),
             to = "return" => new \in Done
      PROVE  Inv'
  <2>1. /\ HandlersOK' /\ handler'[w].at = to /\ handler'[w].sim = t
        /\ handler'[w].id = h.id /\ handler'[w].final = h.final
        /\ \A x \in Workers \ {w} : handler'[x] = handler[x]
    BY <1>p, <1>0, <1>5, GoneTo
  <2> QED  BY <1>p, <1>0, <1>3, <1>4, <1>5, <2>1, HandlerStep
<1>6. CASE IsBatch(h) /\ Conclude(w, "INFRA")
  <2>1. "INFRA" \in Terminal /\ "INFRA" \in Lifecycle!Outcomes(t) /\ deck[t] = "batch"
    BY <1>p, <1>0, <1>6 DEF Terminal, Retriable, Lifecycle!Outcomes, Deck, IsBatch
  <2>2. /\ HandlersOK' /\ handler'[w].at = "write" /\ handler'[w].sim = t
        /\ handler'[w].id = h.id /\ handler'[w].final = h.final
        /\ handler'[w].outcome = "INFRA"
        /\ \A x \in Workers \ {w} : handler'[x] = handler[x]
    BY <1>p, <1>0, <1>6, <2>1, Concluded
  <2> QED  BY <1>p, <1>0, <1>3, <1>4, <2>1, <2>2, HandlerStep
<1>7. CASE Write(w)
  <2>1. new \in Done
    BY <1>1, <1>2, <1>3, <1>7
  <2> QED  BY <1>5, <1>7, <2>1 DEF Write
<1>8. CASE WriteFails(w)
  BY <1>5, <1>6, <1>8 DEF WriteFails
<1>9. CASE WriteFindsNothing(w)
  <2>1. new \in Done
    BY <1>1, <1>2, <1>3, <1>9
  <2> QED  BY <1>5, <1>6, <1>9, <2>1 DEF WriteFindsNothing
<1> QED  BY <1>7, <1>8, <1>9

\* The catch block blames the infrastructure on the last attempt only.
LEMMA CatchInv ==
  ASSUME Inv, NEW w \in Workers, Catch(w) PROVE Inv'
<1>p. PICK t \in Sims : t = handler[w].sim
  BY AtWork DEF Catch
<1>0. /\ HandlersOK /\ handler[w].at = "catch" /\ row[t] \in Status \ {"ABSENT"}
      /\ UNCHANGED <<deck, disturbed, retries, queue, callVars>>
      /\ row = [row EXCEPT ![t] = row[t]]
  BY <1>p, AtWork DEF Catch
<1>1. "INFRA" \in Status /\ "INFRA" \in Done
  BY DEF Status, Done, Terminal, Retriable
<1>2. PICK new \in Status :
        /\ row' = [row EXCEPT ![t] = new]
        /\ new = row[t] \/ (new = "INFRA" /\ handler[w].final)
  BY <1>p, <1>0, <1>1 DEF Catch
<1>3. /\ HandlersOK' /\ handler'[w].at = "throw" /\ handler'[w].sim = t
      /\ handler'[w].id = handler[w].id /\ handler'[w].final = handler[w].final
      /\ \A x \in Workers \ {w} : handler'[x] = handler[x]
  BY <1>p, <1>0, GoneTo DEF Catch
<1>4. /\ new # "ABSENT" /\ (new = "QUEUED" => row[t] = "QUEUED")
      /\ row[t] \in Done => new \in Done
      /\ new = "INFRA" => row[t] = "INFRA" \/ handler[w].final
  BY <1>0, <1>1, <1>2
<1> QED  BY <1>p, <1>0, <1>2, <1>3, <1>4, HandlerStep

\* Inv holds of every reachable state, whatever the constants are.
THEOREM Invariance == Spec => []Inv
<1>1. Init => Inv
  <2> SUFFICES ASSUME Init PROVE Inv
    OBVIOUS
  <2>1. HandlersOK /\ \A w \in Workers : handler[w].at = "idle"
    BY IdleOK DEF Init, HandlersOK
  <2>2. RowsOK /\ \A s \in Sims : row[s] = "ABSENT" /\ retries[s] = 0
    BY SimulationJobAssumption DEF Init, RowsOK, Status
  <2>3. QueueOK
    BY FreshJob DEF Init, QueueOK, QueueState
  <2>4. \A s \in Sims, id \in Ids : queue[s][id].state = "missing" /\ queue[s][id].made = 0
    BY DEF Init, NewJob
  <2>5. CallsOK /\ \A s \in Sims : api[s] = "idle" /\ retrier[s] = "idle" /\ canceller[s] = "idle"
    BY DEF Init, CallsOK
  <2>6. ASSUME NEW s \in Sims PROVE SimFacts(s)
    <3>1. /\ queue[s]["api"].state = "missing" /\ queue[s]["api"].made = 0
          /\ queue[s]["row"].state = "missing"
      BY <2>4 DEF Ids
    <3> QED  BY <2>2, <2>5, <3>1, SimulationJobAssumption DEF SimFacts, Pending
  <2>7. \A w \in Workers : HandlerFacts(w)
    BY <2>1 DEF HandlerFacts
  <2> QED  BY <2>1, <2>2, <2>3, <2>5, <2>6, <2>7 DEF Inv, Typed
<1>2. Inv /\ [Next]_vars => Inv'
  <2> SUFFICES ASSUME Inv, [Next]_vars PROVE Inv'
    OBVIOUS
  <2>1. ASSUME NEW w \in Workers, WorkerStep(w) PROVE Inv'
    BY <2>1, ClaimInv, DisturbInv, RunInv, WriteInv, CatchInv, LeaveInv, CrashInv
       DEF WorkerStep
  <2>2. ASSUME NEW s \in Sims,
               \/ RowStep(s) \/ Add(s)
               \/ CancelRemove(s) \/ RetryRemove(s) \/ RetryAdd(s) \/ RetryAddThrows(s)
        PROVE  Inv'
    BY <2>2, RowStepInv, AddInv, OperatorInv
  <2>3. ASSUME NEW s \in Sims, NEW id \in Ids,
               \/ LockExpires(s, id) \/ Stall(s, id) \/ Evict(s, id)
               \/ \E w \in Workers : Deliver(w, s, id)
        PROVE  Inv'
    BY <2>3, BullInv, DeliverInv
  <2>4. CASE UNCHANGED vars
    <3>1. Typed'
      BY <2>4 DEF vars, Inv, Typed, HandlersOK, RowsOK, QueueOK, CallsOK
    <3>2. \A s \in Sims : Unmoved(s)
      BY <2>4 DEF vars, Unmoved
    <3> QED  BY <2>4, <3>1, <3>2, UnmovedKept, Assembled DEF vars
  <2> QED  BY <2>1, <2>2, <2>3, <2>4 DEF Next, RowStep
<1> QED  BY <1>1, <1>2, PTL DEF Spec

\* Every variable of SimulationJob stays within its type; in particular a handler
\* that is about to write has a verdict to write, and a job is not delivered more
\* often than BullMQ may (processJob, handleFailure).
THEOREM TypeCorrect == Spec => []TypeOK
<1>1. Inv => TypeOK
  BY DEF Inv, Typed, HandlersOK, RowsOK, QueueOK, CallsOK, TypeOK
<1> QED  BY <1>1, Invariance, PTL

\* While BullMQ will still retry a job, a poll does not see it failed for
\* infrastructure, however many handlers were given it (processJob).
THEOREM NoneTooEarly == Spec => []NoPrematureVerdict
<1>1. Inv => NoPrematureVerdict
  BY DEF Inv, SimFacts, NoPrematureVerdict, Pending
<1> QED  BY <1>1, Invariance, PTL

\* A job BullMQ reports as completed has settled its row (claimSimulationJob).
THEOREM CompletionSettles == Spec => []CompletedIsSettled
<1>1. Inv => CompletedIsSettled
  BY DEF Inv, SimFacts, CompletedIsSettled, Done
<1> QED  BY <1>1, Invariance, PTL

-----------------------------------------------------------------------------
(* SimulationJob implements SimulationLifecycle.                           *)

Retried == {s \in Sims : retries[s] > 0}

Abstract == [Lifecycle!LifecycleNext]_(Lifecycle!lifecycleVars)

\* A step that leaves the rows and the retries alone is no step of the life cycle.
LEMMA Stutters ==
  ASSUME UNCHANGED <<deck, disturbed, row, retries>> PROVE Abstract
BY DEF Abstract, Lifecycle!lifecycleVars

\* A write of one row, by whom it may be made.
LEMMA RowWritten ==
  ASSUME Inv, NEW s \in Sims, NEW next, row' = [row EXCEPT ![s] = next],
         UNCHANGED <<deck, disturbed, retries>>,
         \/ row[s] = "ABSENT" /\ next = "QUEUED"
         \/ row[s] = "QUEUED" /\ next = "RUNNING"
         \/ /\ next \in Lifecycle!Outcomes(s)
            /\ row[s] # "QUEUED" \/ retries[s] > 0
            /\ row[s] \notin {"ABSENT", "GONE"}
         \/ row[s] \notin {"ABSENT", "GONE"} /\ next = "INFRA"
         \/ row[s] = "QUEUED" /\ next = "CANCELED" /\ retries[s] > 0
         \/ /\ row[s] \notin {"ABSENT", "GONE"} /\ retries[s] > 0
            /\ next \in {"QUEUED", "FAILED"}
         \/ row[s] \notin {"ABSENT", "GONE"} /\ next = "GONE"
         \/ next = row[s]
  PROVE  Abstract
<1>0. row \in [Sims -> Status] /\ deck[s] \in Deck /\ row[s] \in Status
  BY DEF Inv, Typed, RowsOK
<1> USE DEF Abstract, Lifecycle!LifecycleNext, Lifecycle!Served
<1>1. Lifecycle!Becomes(s, next) /\ (retries[s] > 0 => s \in Retried)
  BY DEF Lifecycle!Becomes, Retried
<1>2. CASE row[s] = "ABSENT" /\ next = "QUEUED"
  <2>1. Lifecycle!Insert(s)
    BY <1>1, <1>2 DEF Lifecycle!Insert
  <2> QED  BY <2>1
<1>3. CASE row[s] = "QUEUED" /\ next = "RUNNING"
  <2>1. Lifecycle!Start(s)
    BY <1>1, <1>3 DEF Lifecycle!Start
  <2> QED  BY <2>1
<1>4. ASSUME next \in Lifecycle!Outcomes(s), row[s] # "QUEUED" \/ retries[s] > 0,
             row[s] \notin {"ABSENT", "GONE"}
      PROVE  Abstract
  <2>1. \/ row[s] \in {"RUNNING"} \cup Lifecycle!Settled
        \/ row[s] = "QUEUED" /\ s \in Retried
    BY <1>0, <1>1, <1>4 DEF Lifecycle!Settled, Status, Live, Terminal, Retriable
  <2>2. Lifecycle!Settle(s)
    BY <1>1, <1>4, <2>1 DEF Lifecycle!Settle, Retried
  <2> QED  BY <2>2
<1>5. ASSUME row[s] \notin {"ABSENT", "GONE"}, next = "INFRA"
      PROVE  Abstract
  <2>1. CASE row[s] = "QUEUED"
    <3>1. Lifecycle!FailQueued(s)
      BY <1>1, <1>5, <2>1 DEF Lifecycle!FailQueued
    <3> QED  BY <3>1
  <2>2. CASE row[s] # "QUEUED"
    <3>1. next \in Lifecycle!Outcomes(s)
      BY <1>0, <1>5 DEF Lifecycle!Outcomes, Deck
    <3> QED  BY <1>4, <1>5, <2>2, <3>1
  <2> QED  BY <2>1, <2>2
<1>6. CASE row[s] = "QUEUED" /\ next = "CANCELED" /\ retries[s] > 0
  <2>1. Lifecycle!Cancel(s)
    BY <1>1, <1>6 DEF Lifecycle!Cancel, Retried
  <2> QED  BY <2>1
<1>7. CASE /\ row[s] \notin {"ABSENT", "GONE"} /\ retries[s] > 0
           /\ next \in {"QUEUED", "FAILED"}
  <2>1. Lifecycle!Reset(s)
    BY <1>1, <1>7 DEF Lifecycle!Reset, Retried
  <2> QED  BY <2>1
<1>8. CASE row[s] \notin {"ABSENT", "GONE"} /\ next = "GONE"
  <2>1. Lifecycle!Delete(s)
    BY <1>1, <1>8 DEF Lifecycle!Delete
  <2> QED  BY <2>1
<1>9. CASE next = row[s]
  <2>1. row' = row
    BY <1>0, <1>9
  <2> QED  BY <2>1, Stutters
<1> QED  BY <1>2, <1>3, <1>4, <1>5, <1>6, <1>7, <1>8, <1>9

\* A retry is asked for once it has read a row that has failed.
LEMMA RetryAsked ==
  ASSUME Inv, NEW s \in Sims, RetryRead(s) PROVE Abstract
<1>1. retries \in [Sims -> 0..MaxRetries] /\ retries[s] \in Nat
  BY TypesAt DEF Inv, Typed, RowsOK
<1>2. {t \in Sims : retries'[t] > 0} = {t \in Sims : retries[t] > 0} \cup {s}
  BY <1>1 DEF RetryRead
<1>3. Lifecycle!Retry(s)
  BY <1>2 DEF Lifecycle!Retry, RetryRead, Retriable, Lifecycle!Settled
<1> QED  BY <1>3 DEF Abstract, Lifecycle!LifecycleNext, Lifecycle!Served

\* A call about a row is a step of the life cycle.
LEMMA CallAbstract ==
  ASSUME Inv, NEW s \in Sims, RowStep(s) PROVE Abstract
<1>0. /\ SimFacts(s)
      /\ row = [row EXCEPT ![s] = row[s]]
  BY TypesAt DEF Inv, Typed, RowsOK
<1>1. CASE Create(s)
  BY <1>0, <1>1, RowWritten DEF Create, SimFacts
<1>2. CASE Delete(s)
  BY <1>2, RowWritten DEF Delete
<1>3. CASE CancelRead(s) \/ CancelLost(s) \/ RetryLost(s)
  BY <1>3, Stutters DEF CancelRead, CancelLost, RetryLost
<1>4. ASSUME canceller[s] = "removed" \/ retrier[s] # "idle" PROVE retries[s] > 0
  <2>1. retries[s] # 0 /\ retries[s] \in Nat
    BY <1>0, <1>4, TypesAt DEF SimFacts
  <2> QED  BY <2>1
<1>5. CASE CancelWrite(s)
  BY <1>0, <1>4, <1>5, RowWritten DEF CancelWrite
<1>6. CASE RetryRead(s)
  BY <1>6, RetryAsked
<1>7. ASSUME retries[s] > 0 PROVE row[s] # "ABSENT"
  <2>1. retries[s] # 0
    BY <1>7
  <2> QED  BY <1>0, <2>1 DEF SimFacts
<1>8. CASE RetryReset(s) \/ RetryRevert(s)
  BY <1>4, <1>7, <1>8, RowWritten DEF RetryReset, RetryRevert
<1> QED  BY <1>1, <1>2, <1>3, <1>5, <1>6, <1>8 DEF RowStep

\* So is a disturbance of a handler's simulation.
LEMMA DisturbAbstract ==
  ASSUME Inv, NEW w \in Workers, Disturb(w) PROVE Abstract
<1>1. PICK t \in Sims : t = handler[w].sim
  BY AtWork DEF Disturb, Simulating
<1>2. row[t] # "ABSENT"
  BY <1>1, AtWork DEF Disturb, Simulating
<1>3. Lifecycle!Disturb(t)
  BY <1>1, <1>2 DEF Disturb, Lifecycle!Disturb
<1> QED  BY <1>3 DEF Abstract, Lifecycle!LifecycleNext, Lifecycle!Served

\* So is a handler's write.
LEMMA HandlerAbstract ==
  ASSUME Inv, NEW w \in Workers, WorkerStep(w) PROVE Abstract
<1>1. CASE Run(w) \/ WriteFindsNothing(w) \/ Leave(w) \/ Crash(w)
  BY <1>1, Stutters DEF Run, WriteFindsNothing, Leave, Crash
<1>2. ASSUME Claim(w) \/ Write(w) \/ WriteFails(w) \/ Catch(w) PROVE Abstract
  <2>p. PICK t \in Sims : t = handler[w].sim
    BY <1>2, AtWork DEF Claim, Write, WriteFails, Catch
  <2>0. /\ row[t] # "ABSENT" /\ HandlerFacts(w) /\ retries[t] \in Nat
        /\ UNCHANGED <<deck, disturbed, retries>>
    BY <1>2, <2>p, AtWork DEF Claim, Write, WriteFails, Catch
  <2>1. CASE UNCHANGED row
    BY <2>0, <2>1, Stutters
  <2>2. CASE row[t] \in Live /\ row' = [row EXCEPT ![t] = "RUNNING"]
    BY <2>0, <2>2, RowWritten DEF Live
  <2>3. CASE row[t] # "GONE" /\ row' = [row EXCEPT ![t] = "INFRA"]
    BY <2>0, <2>3, RowWritten
  <2>4. ASSUME handler[w].at = "write", row[t] # "GONE",
               row' = [row EXCEPT ![t] = handler[w].outcome]
        PROVE  Abstract
    <3>1. handler[w].outcome \in Lifecycle!Outcomes(t)
      BY <2>p, <2>0, <2>4 DEF HandlerFacts
    <3>2. row[t] # "QUEUED" \/ retries[t] > 0
      BY <2>p, <2>0, <2>4 DEF HandlerFacts
    <3> QED  BY <2>0, <2>4, <3>1, <3>2, RowWritten
  <2> QED  BY <1>2, <2>p, <2>1, <2>2, <2>3, <2>4 DEF Claim, Write, WriteFails, Catch
<1> QED  BY <1>1, <1>2, DisturbAbstract DEF WorkerStep

\* A poll sees the life cycle it may rely on: a verdict on the circuit is one its
\* deck has, or that of a simulation disturbed by another handler or by the host, or
\* of an operator's retry, never that of an outage the worker noticed; and no settled
\* row runs again without an operator, for any number of handlers that BullMQ gave
\* the same job.
THEOREM ImplementsLifecycle == Spec => KeepsLifecycle
<1>1. Init => Lifecycle!LifecycleInit
  <2> SUFFICES ASSUME Init PROVE Lifecycle!LifecycleInit
    OBVIOUS
  <2>1. \A s \in Sims : ~(retries[s] > 0)
    BY DEF Init
  <2> QED  BY <2>1 DEF Init, Deck, Lifecycle!LifecycleInit
<1>2. Inv /\ [Next]_vars => Abstract
  <2> SUFFICES ASSUME Inv, [Next]_vars PROVE Abstract
    OBVIOUS
  <2>1. ASSUME NEW w \in Workers, WorkerStep(w) PROVE Abstract
    BY <2>1, HandlerAbstract
  <2>2. ASSUME NEW s \in Sims,
               \/ RowStep(s) \/ Add(s)
               \/ CancelRemove(s) \/ RetryRemove(s) \/ RetryAdd(s) \/ RetryAddThrows(s)
        PROVE  Abstract
    BY <2>2, CallAbstract, Stutters
       DEF Add, CancelRemove, RetryRemove, RetryAdd, RetryAddThrows
  <2>3. ASSUME NEW s \in Sims, NEW id \in Ids,
               \/ LockExpires(s, id) \/ Stall(s, id) \/ Evict(s, id)
               \/ \E w \in Workers : Deliver(w, s, id)
        PROVE  Abstract
    BY <2>3, Stutters DEF LockExpires, Stall, Evict, Deliver
  <2>4. CASE UNCHANGED vars
    BY <2>4, Stutters DEF vars
  <2> QED  BY <2>1, <2>2, <2>3, <2>4 DEF Next, RowStep
<1> QED  BY <1>1, <1>2, Invariance, PTL DEF Spec, Abstract, KeepsLifecycle, Lifecycle!LifecycleSpec

-----------------------------------------------------------------------------
(* II. The runs in a job's directory.  Their invariant.                    *)

\* An attempt is under way.
Trying == {"deck", "spawn", "load", "running", "reading"}

Inside(x) == x.at \notin {"idle", "done", "crashed"}

\* What a simulation's run knows of its attempts.
SimulationOK(x) ==
    /\ x.samples = <<>>
    /\ x.at \in Trying =>
          /\ "infra" \notin x.seen /\ x.attempt <= Ladder + 1
          /\ x.attempt > 1 => x.first \in {"convergence", "timeoutWarned"}
    /\ x.at \in {"cleaning", "done"} =>
          /\ x.result = "infra" <=> "infra" \in x.seen
          /\ x.result \in Failure \ {"infra"} /\ x.attempt > 1 => x.result = x.first

\* What a batch's run has counted: one outcome for each attempt it has ended.
BatchOK(x) == x.at \in Trying => Len(x.samples) = x.attempt - 1 /\ x.attempt <= AttemptCap

OwnSamples(r, x) ==
    ~x.shared => \A i \in 1..Len(x.samples) :
                    x.samples[i].ok # "errored" => x.samples[i].data = [run |-> r, number |-> i]

RunOK(r, x) ==
    /\ x.at \in Trying => x.attempt >= 1
    /\ kind = "sim" => SimulationOK(x)
    /\ kind = "batch" => BatchOK(x)
    /\ OwnSamples(r, x)

\* What a batch that has the directory for itself finds in it.
FilesOK(r, x, d) ==
    kind = "batch" /\ ~x.shared =>
        LET own == [run |-> r, number |-> x.attempt] IN
        /\ x.at \in {"spawn", "load"} => d.deck = own /\ d.csv = None
        /\ x.at = "running" => x.deck = own /\ d.csv = None
        /\ x.at = "reading" => d.csv \in {None, own}

Apart == \A r, s \in Runs : r # s /\ Inside(run[r]) /\ Inside(run[s]) => run[r].shared

RunnerInv ==
    /\ kind \in Kinds /\ dir \in Dir
    /\ run \in [Runs -> RunState]
    /\ \A r \in Runs : RunOK(r, run[r]) /\ FilesOK(r, run[r], dir)
    /\ Apart

-----------------------------------------------------------------------------
(* Types, and what one run's step may do.                                  *)

Sample == [ok : {"errored", "fail", "pass"}, data : Attempt \cup {None}]

LEMMA Bounds ==
  /\ Ladder \in Nat /\ AttemptCap \in Nat \ {0} /\ Target \in Nat \ {0} /\ MinRuns \in Nat \ {0}
  /\ AttemptBound \in Nat /\ Ladder + 1 <= AttemptBound /\ AttemptCap <= AttemptBound
  /\ Kinds \subseteq {"sim", "batch"}
BY SimulationRunnerAssumption DEF AttemptBound

LEMMA FieldTypes ==
  ASSUME NEW x \in RunState
  PROVE  /\ x.at \in {"idle", "deck", "spawn", "load", "running", "reading", "cleaning",
                      "done", "crashed"}
         /\ x.gen \in Nat /\ x.attempt \in 0..AttemptBound /\ x.attempt \in Nat
         /\ x.deck \in Attempt \cup {None}
         /\ x.first \in Failure \cup {"none"} /\ x.seen \in SUBSET Failure
         /\ x.result \in Failure \cup {"none", "success", "recovered", "counted"}
         /\ x.data \in Attempt \cup {None} /\ x.samples \in Seq(Sample)
         /\ x.stoppedEarly \in BOOLEAN /\ x.shared \in BOOLEAN
<1>1. x.attempt \in 0..AttemptBound
  BY DEF RunState
<1>2. x.attempt \in Nat
  BY <1>1, Bounds
<1> QED  BY <1>1, <1>2 DEF RunState, Sample

LEMMA ThisTypes ==
  ASSUME RunnerInv, NEW r \in Runs, run[r].at \in Trying
  PROVE  This(r) \in Attempt /\ This(r) = [run |-> r, number |-> run[r].attempt]
         /\ run[r].attempt \in 1..AttemptBound
<1>1. run[r] \in RunState /\ run[r].attempt >= 1
  BY DEF RunnerInv, RunOK
<1>2. run[r].attempt \in 1..AttemptBound
  BY <1>1, FieldTypes
<1> QED  BY <1>2 DEF This, Attempt

LEMMA NoneIsNotAnAttempt == None \notin Attempt
<1>1. \A a \in Attempt : DOMAIN a = {"run", "number"}
  BY DEF Attempt
<1>2. DOMAIN None = {"run"}
  BY DEF None
<1>3. "number" \in {"run", "number"} /\ "number" \notin {"run"}
  OBVIOUS
<1> QED  BY <1>1, <1>2, <1>3, ZenonT(60)

\* A run that has the directory for itself is the only one inside.
LEMMA Alone ==
  ASSUME RunnerInv, NEW r \in Runs, Inside(run[r]), NEW s \in Runs, s # r,
         Inside(run[s])
  PROVE  run[s].shared
BY DEF RunnerInv, Apart

\* A step of one run inside, which may change the directory: what is to be shown
\* of the new state of that run only.
LEMMA OneSteps ==
  ASSUME RunnerInv, NEW r \in Runs, Inside(run[r]), NEW x \in RunState,
         run' = [run EXCEPT ![r] = x], kind' = kind, dir' \in Dir,
         x.shared = run[r].shared, RunOK(r, x), FilesOK(r, x, dir')
  PROVE  RunnerInv'
<1>1. /\ run \in [Runs -> RunState] /\ run' \in [Runs -> RunState] /\ run'[r] = x
      /\ \A s \in Runs \ {r} : run'[s] = run[s]
  BY DEF RunnerInv
<1>2. \A s, y : RunOK(s, y)' <=> (RunOK(s, y))
  BY DEF RunOK, SimulationOK, BatchOK, OwnSamples
<1>3. \A s, y, d : FilesOK(s, y, d)' <=> (FilesOK(s, y, d))
  BY DEF FilesOK
<1>4. ASSUME NEW s \in Runs
      PROVE  RunOK(s, run'[s]) /\ FilesOK(s, run'[s], dir')
  <2>1. CASE s = r
    BY <1>1, <2>1
  <2>2. CASE s # r /\ run[s].shared
    BY <1>1, <2>2 DEF RunnerInv, FilesOK
  <2>3. CASE s # r /\ ~Inside(run[s])
    <3>1. RunOK(s, run[s])
      BY DEF RunnerInv
    <3>2. FilesOK(s, run[s], dir')
      BY <2>3 DEF FilesOK, Inside
    <3> QED  BY <1>1, <2>3, <3>1, <3>2
  <2> QED  BY <2>1, <2>2, <2>3, Alone
<1>5. ASSUME NEW s \in Runs
      PROVE  (RunOK(s, run[s]) /\ FilesOK(s, run[s], dir))'
  BY <1>4 DEF RunOK, SimulationOK, BatchOK, OwnSamples, FilesOK
<1>6. Apart'
  <2>1. \A s \in Runs : Inside(run'[s]) => Inside(run[s]) /\ run'[s].shared = run[s].shared
    BY <1>1
  <2>2. \A a, b \in Runs : a # b /\ Inside(run[a]) /\ Inside(run[b]) => run[a].shared
    BY DEF RunnerInv, Apart
  <2> QED  BY <2>1, <2>2 DEF Apart, Inside
<1> QED  BY <1>1, <1>5, <1>6 DEF RunnerInv

-----------------------------------------------------------------------------
(* How an attempt counts.                                                  *)

LEMMA NoFiles ==
  ASSUME NEW r, NEW x, NEW d, x.at \in {"idle", "deck", "cleaning", "done", "crashed"}
  PROVE  FilesOK(r, x, d)
BY DEF FilesOK

\* A simulation ends, or takes the next rung of the ladder.
LEMMA JudgeOK ==
  ASSUME kind = "sim", NEW r \in Runs, run[r] \in RunState, RunOK(r, run[r]),
         run[r].at \in Trying, NEW failure \in Failure
  PROVE  /\ Judge(r, failure) \in RunState /\ Judge(r, failure).shared = run[r].shared
         /\ Judge(r, failure).at \in {"deck", "cleaning"} /\ RunOK(r, Judge(r, failure))
<1>1. PICK h \in RunState : h = run[r]
  OBVIOUS
<1> DEFINE x == Judge(r, failure)
           had == [h EXCEPT !.seen = @ \cup {failure}]
           finish(result) == [had EXCEPT !.at = "cleaning", !.result = result]
           next(first) == [had EXCEPT !.at = "deck", !.attempt = @ + 1, !.deck = None,
                                      !.first = first]
<1>2. /\ h.samples = <<>> /\ "infra" \notin h.seen /\ h.attempt \in Nat /\ h.attempt >= 1
      /\ h.attempt <= Ladder + 1 /\ OwnSamples(r, h) /\ h.shared \in BOOLEAN
      /\ h.attempt > 1 => h.first \in {"convergence", "timeoutWarned"}
      /\ h.seen \in SUBSET Failure /\ h.first \in Failure \cup {"none"}
  BY <1>1, FieldTypes DEF RunOK, SimulationOK
<1>3. /\ had \in RunState /\ had.seen = h.seen \cup {failure} /\ had.samples = h.samples
      /\ had.attempt = h.attempt /\ had.shared = h.shared /\ had.first = h.first
  BY <1>2, ZenonT(60) DEF RunState
<1>4. had.at = h.at
  BY ZenonT(60) DEF RunState
<1> HIDE DEF had
<1>5. ASSUME NEW result \in Failure
      PROVE  /\ finish(result) \in RunState /\ finish(result).at = "cleaning"
             /\ finish(result).result = result /\ finish(result).seen = h.seen \cup {failure}
             /\ finish(result).samples = <<>> /\ finish(result).shared = h.shared
             /\ finish(result).attempt = h.attempt /\ finish(result).first = h.first
  BY <1>2, <1>3, <1>5, ZenonT(120) DEF RunState
<1>6. ASSUME NEW first \in {"convergence", "timeoutWarned"}, h.attempt <= Ladder
      PROVE  /\ next(first) \in RunState /\ next(first).at = "deck"
             /\ next(first).seen = h.seen \cup {failure} /\ next(first).samples = <<>>
             /\ next(first).shared = h.shared /\ next(first).attempt = h.attempt + 1
             /\ next(first).first = first
  <2>1. had.attempt + 1 \in 0..AttemptBound
    BY <1>2, <1>3, <1>6, Bounds
  <2>2. first \in Failure \cup {"none"}
    BY DEF Failure
  <2>3. None \in Attempt \cup {None}
    OBVIOUS
  <2>4. next(first) \in RunState
    BY <1>3, <2>1, <2>2, <2>3, ZenonT(120) DEF RunState
  <2>5. /\ next(first).at = "deck" /\ next(first).seen = had.seen
        /\ next(first).samples = had.samples /\ next(first).shared = had.shared
        /\ next(first).attempt = had.attempt + 1 /\ next(first).first = first
    BY <1>3, ZenonT(120) DEF RunState
  <2> QED  BY <1>2, <1>3, <2>4, <2>5
<1>7. x = IF h.attempt = 1
          THEN IF failure \in {"convergence", "timeoutWarned"} /\ Ladder > 0
               THEN next(failure) ELSE finish(failure)
          ELSE CASE failure = "infra"                        -> finish("infra")
                 [] failure \in {"timeout", "timeoutWarned"} -> finish(h.first)
                 [] OTHER -> IF h.attempt > Ladder THEN finish(h.first) ELSE next(h.first)
  BY <1>1 DEF Judge, had
<1> HIDE DEF x, finish, next
<1>8. \/ /\ h.attempt = 1 /\ failure \in {"convergence", "timeoutWarned"} /\ Ladder > 0
         /\ x = next(failure)
      \/ h.attempt = 1 /\ x = finish(failure)
      \/ h.attempt # 1 /\ failure = "infra" /\ x = finish("infra")
      \/ h.attempt # 1 /\ failure # "infra" /\ x = finish(h.first)
      \/ h.attempt # 1 /\ failure # "infra" /\ ~(h.attempt > Ladder) /\ x = next(h.first)
  BY <1>7
<1>9. \/ \E result \in Failure :
           /\ x = finish(result)
           /\ h.attempt = 1 => result = failure
           /\ h.attempt # 1 /\ failure # "infra" => result = h.first
           /\ h.attempt # 1 /\ failure = "infra" => result = "infra"
      \/ \E first \in {"convergence", "timeoutWarned"} :
           failure # "infra" /\ h.attempt <= Ladder /\ x = next(first)
  <2>1. h.attempt # 1 => h.attempt > 1 /\ h.first \in Failure
    BY <1>2 DEF Failure
  <2>2. "infra" \in Failure
    BY DEF Failure
  <2>3. Ladder \in Nat
    BY Bounds
  <2>4. CASE x = finish(h.first) /\ h.attempt # 1 /\ failure # "infra"
    BY <2>1, <2>4
  <2> QED  BY <1>2, <1>8, <2>1, <2>2, <2>3, <2>4
<1>10. CASE \E result \in Failure :
              /\ x = finish(result)
              /\ h.attempt = 1 => result = failure
              /\ h.attempt # 1 /\ failure # "infra" => result = h.first
              /\ h.attempt # 1 /\ failure = "infra" => result = "infra"
  <2>1. PICK result \in Failure :
              /\ x = finish(result)
              /\ h.attempt = 1 => result = failure
              /\ h.attempt # 1 /\ failure # "infra" => result = h.first
              /\ h.attempt # 1 /\ failure = "infra" => result = "infra"
    BY <1>10
  <2>2. /\ x \in RunState /\ x.at = "cleaning" /\ x.result = result
        /\ x.seen = h.seen \cup {failure} /\ x.samples = <<>> /\ x.shared = h.shared
        /\ x.attempt = h.attempt /\ x.first = h.first
    BY <1>5, <2>1
  <2>3. x.result = "infra" <=> "infra" \in x.seen
    <3>1. h.attempt # 1 => h.first # "infra"
      BY <1>2
    <3> QED  BY <1>2, <2>1, <2>2, <3>1
  <2>4. SimulationOK(x)
    BY <1>2, <2>1, <2>2, <2>3 DEF SimulationOK, Trying
  <2>5. OwnSamples(r, x) /\ x.at \notin Trying
    BY <2>2 DEF OwnSamples, Trying
  <2>6. RunOK(r, x)
    BY <2>4, <2>5 DEF RunOK
  <2> QED  BY <1>1, <2>2, <2>6 DEF x
<1>11. CASE \E first \in {"convergence", "timeoutWarned"} :
              failure # "infra" /\ h.attempt <= Ladder /\ x = next(first)
  <2>1. PICK first \in {"convergence", "timeoutWarned"} :
              failure # "infra" /\ h.attempt <= Ladder /\ x = next(first)
    BY <1>11
  <2>2. /\ x \in RunState /\ x.at = "deck" /\ x.seen = h.seen \cup {failure}
        /\ x.samples = <<>> /\ x.shared = h.shared /\ x.attempt = h.attempt + 1
        /\ x.first = first
    BY <1>6, <2>1
  <2>3. SimulationOK(x) /\ x.attempt >= 1
    BY <1>2, <2>1, <2>2, Bounds DEF SimulationOK, Trying
  <2>4. OwnSamples(r, x)
    BY <2>2 DEF OwnSamples
  <2>5. RunOK(r, x)
    BY <2>3, <2>4 DEF RunOK
  <2> QED  BY <1>1, <2>2, <2>5 DEF x
<1> QED  BY <1>9, <1>10, <1>11

\* A batch ends, or takes the next attempt, with one more outcome.
LEMMA CountOK ==
  ASSUME kind = "batch", NEW r \in Runs, run[r] \in RunState, RunOK(r, run[r]),
         run[r].at \in Trying, NEW sample \in Sample, NEW decided, NEW overBudget \in BOOLEAN,
         ~run[r].shared /\ sample.ok # "errored" => sample.data = This(r)
  PROVE  LET x == Count(r, sample, decided, overBudget)
         IN  /\ x \in RunState /\ x.shared = run[r].shared
             /\ x.at \in {"deck", "cleaning"} /\ RunOK(r, x)
<1>1. PICK h \in RunState : h = run[r]
  OBVIOUS
<1> DEFINE x == Count(r, sample, decided, overBudget)
           samples == Append(h.samples, sample)
           evaluated == Evaluated(samples)
           early == \/ sample.ok = "errored" /\ evaluated = 0 /\ Len(samples) >= MinRuns
                    \/ sample.ok # "errored" /\ evaluated >= MinRuns /\ decided
           full == Len(samples) = AttemptCap \/ evaluated >= Target
           stopped == early \/ (overBudget /\ ~full)
           ends == [h EXCEPT !.at = "cleaning", !.result = "counted", !.samples = samples,
                             !.stoppedEarly = stopped]
           goes == [h EXCEPT !.at = "deck", !.attempt = @ + 1, !.deck = None,
                             !.samples = samples]
<1>2. /\ h.samples \in Seq(Sample) /\ h.attempt \in Nat /\ h.attempt >= 1
      /\ Len(h.samples) = h.attempt - 1 /\ h.attempt <= AttemptCap /\ OwnSamples(r, h)
      /\ h.shared \in BOOLEAN
  BY <1>1, FieldTypes DEF RunOK, BatchOK
<1>3. samples \in Seq(Sample) /\ Len(samples) = h.attempt
      /\ samples[h.attempt] = sample /\ \A i \in 1..(h.attempt - 1) : samples[i] = h.samples[i]
  BY <1>2
<1>4. ASSUME NEW y \in RunState, y.samples = samples, y.shared = h.shared
      PROVE  OwnSamples(r, y)
  <2>1. ASSUME ~y.shared, NEW i \in 1..Len(y.samples), y.samples[i].ok # "errored"
        PROVE  y.samples[i].data = [run |-> r, number |-> i]
    <3>1. CASE i = h.attempt
      BY <1>1, <1>3, <1>4, <2>1, <3>1 DEF This
    <3>2. CASE i # h.attempt
      <4>1. i \in 1..(h.attempt - 1) /\ samples[i] = h.samples[i]
        BY <1>2, <1>3, <1>4, <2>1, <3>2
      <4> QED  BY <1>2, <1>4, <2>1, <4>1 DEF OwnSamples
    <3> QED  BY <3>1, <3>2
  <2> QED  BY <2>1 DEF OwnSamples
<1>5. x = IF early \/ full \/ overBudget THEN ends ELSE goes
  <2>1. [Finish(r, "counted") EXCEPT !.samples = samples, !.stoppedEarly = stopped] = ends
    BY <1>1, ZenonT(60) DEF Finish, RunState
  <2>2. [NextAttempt(r) EXCEPT !.samples = samples] = goes
    BY <1>1, ZenonT(60) DEF NextAttempt, RunState
  <2> QED  BY <1>1, <2>1, <2>2 DEF Count
<1>6. samples \in Seq([ok : {"errored", "fail", "pass"}, data : Attempt \cup {None}])
  BY <1>3 DEF Sample
<1>7. stopped \in BOOLEAN /\ None \in Attempt \cup {None}
  OBVIOUS
<1>8. ~full => h.attempt + 1 <= AttemptCap
  BY <1>2, <1>3, Bounds
<1> HIDE DEF x, samples, early, full, stopped
<1>9. CASE x = ends
  <2>1. x \in RunState
    BY <1>6, <1>7, <1>9, ZenonT(60) DEF RunState
  <2>2. x.at = "cleaning" /\ x.samples = samples /\ x.shared = h.shared
    BY <1>9, ZenonT(60) DEF RunState
  <2>3. RunOK(r, x)
    BY <1>4, <2>1, <2>2 DEF RunOK, BatchOK, Trying
  <2> QED  BY <1>1, <2>1, <2>2, <2>3 DEF x
<1>10. CASE x = goes /\ ~full
  <2>1. h.attempt + 1 \in 0..AttemptBound
    BY <1>2, <1>8, <1>10, Bounds
  <2>2. x \in RunState
    BY <1>6, <1>7, <1>10, <2>1, ZenonT(60) DEF RunState
  <2>3. /\ x.at = "deck" /\ x.samples = samples /\ x.shared = h.shared
        /\ x.attempt = h.attempt + 1
    BY <1>10, ZenonT(60) DEF RunState
  <2>4. OwnSamples(r, x)
    BY <1>4, <2>2, <2>3
  <2>5. Len(x.samples) = x.attempt - 1 /\ x.attempt <= AttemptCap /\ x.attempt >= 1
    BY <1>2, <1>3, <1>8, <1>10, <2>3
  <2>6. RunOK(r, x)
    BY <2>4, <2>5 DEF RunOK, BatchOK
  <2> QED  BY <1>1, <2>2, <2>3, <2>6 DEF x
<1> QED  BY <1>5, <1>9, <1>10

-----------------------------------------------------------------------------
(* The steps.                                                              *)

LEMMA TryingInside ==
  ASSUME NEW x, x.at \in Trying
  PROVE  Inside(x)
BY DEF Trying, Inside

\* An attempt goes on as it was.
LEMMA GoesOn ==
  ASSUME NEW r, NEW h \in RunState, RunOK(r, h), h.at \in Trying, NEW x \in RunState,
         x.at \in Trying, x.attempt = h.attempt, x.seen = h.seen, x.first = h.first,
         x.samples = h.samples, x.shared = h.shared
  PROVE  RunOK(r, x)
<1>1. x.at \notin {"cleaning", "done"}
  BY DEF Trying
<1> QED  BY <1>1 DEF RunOK, SimulationOK, BatchOK, OwnSamples

LEMMA FailsStep ==
  ASSUME RunnerInv, NEW r \in Runs, run[r].at \in Trying, NEW failure \in Failure,
         Fails(r, failure), kind' = kind, dir' \in Dir
  PROVE  RunnerInv'
<1>1. run[r] \in RunState /\ RunOK(r, run[r]) /\ kind \in {"sim", "batch"} /\ Inside(run[r])
  BY Bounds, TryingInside DEF RunnerInv
<1>2. CASE kind = "sim"
  <2> DEFINE x == Judge(r, failure)
  <2>1. /\ x \in RunState /\ x.shared = run[r].shared /\ x.at \in {"deck", "cleaning"}
        /\ RunOK(r, x)
    BY <1>1, <1>2, JudgeOK
  <2>2. run' = [run EXCEPT ![r] = x]
    BY <1>2 DEF Fails
  <2> HIDE DEF x
  <2>3. FilesOK(r, x, dir')
    BY <2>1, NoFiles
  <2> QED  BY <1>1, <2>1, <2>2, <2>3, OneSteps
<1>3. CASE kind = "batch"
  <2> DEFINE sample == [ok |-> "errored", data |-> None]
  <2>1. PICK overBudget \in BOOLEAN :
          run' = [run EXCEPT ![r] = Count(r, sample, FALSE, overBudget)]
    BY <1>3 DEF Fails
  <2>2. sample \in Sample /\ sample.ok = "errored"
    BY DEF Sample
  <2> HIDE DEF sample
  <2> DEFINE x == Count(r, sample, FALSE, overBudget)
  <2>3. /\ x \in RunState /\ x.shared = run[r].shared /\ x.at \in {"deck", "cleaning"}
        /\ RunOK(r, x)
    BY <1>1, <1>3, <2>2, CountOK
  <2>4. run' = [run EXCEPT ![r] = x]
    BY <2>1
  <2> HIDE DEF x
  <2>5. FilesOK(r, x, dir')
    BY <2>3, NoFiles
  <2> QED  BY <1>1, <2>3, <2>4, <2>5, OneSteps
<1> QED  BY <1>1, <1>2, <1>3

LEMMA DirTypes ==
  ASSUME NEW d \in Dir
  PROVE  /\ d.gen \in Nat /\ d.exists \in BOOLEAN /\ d.deck \in Attempt \cup {None}
         /\ d.csv \in Attempt \cup {None} /\ d.whole \in BOOLEAN
BY DEF Dir

LEMMA IdleRunTypes ==
  IdleRun \in RunState /\ IdleRun.at = "idle" /\ IdleRun.samples = <<>> /\ IdleRun.seen = {}
<1>1. <<>> \in Seq([ok : {"errored", "fail", "pass"}, data : Attempt \cup {None}])
  OBVIOUS
<1>2. 0 \in 0..AttemptBound /\ 0 \in Nat
  BY Bounds
<1> QED  BY <1>1, <1>2, ZenonT(60) DEF RunState, IdleRun

LEMMA StartStep ==
  ASSUME RunnerInv, NEW r \in Runs, Start(r)
  PROVE  RunnerInv'
<1> DEFINE new == [IdleRun EXCEPT !.at = "deck", !.attempt = 1, !.shared = InDir # {}]
<1>1. /\ run[r].at = "idle" /\ kind' = kind /\ kind \in Kinds /\ dir \in Dir
      /\ run \in [Runs -> RunState] /\ kind \in {"sim", "batch"}
      /\ \A s \in Runs : RunOK(s, run[s]) /\ FilesOK(s, run[s], dir)
  BY Bounds DEF Start, At, RunnerInv
<1>2. run' = [s \in Runs |-> IF s = r THEN new
                             ELSE IF s \in InDir THEN [run[s] EXCEPT !.shared = TRUE] ELSE run[s]]
  BY DEF Start
<1>3. dir' \in Dir
  <2>1. CASE dir.exists
    BY <1>1, <2>1 DEF Start
  <2>2. CASE ~dir.exists
    <3>1. dir' = [gen |-> dir.gen + 1, exists |-> TRUE, deck |-> None, csv |-> None,
                  whole |-> FALSE]
      BY <2>2 DEF Start, NoDir
    <3>2. dir.gen + 1 \in Nat
      BY <1>1, DirTypes
    <3> QED  BY <3>1, <3>2 DEF Dir
  <2> QED  BY <2>1, <2>2
<1>4. /\ new \in RunState /\ new.at = "deck" /\ new.attempt = 1 /\ new.samples = <<>>
      /\ new.seen = {} /\ (new.shared <=> InDir # {})
  <2>1. 1 \in 0..AttemptBound
    BY Bounds
  <2>2. IdleRun \in RunState /\ IdleRun.samples = <<>> /\ IdleRun.seen = {}
    BY IdleRunTypes
  <2>3. PICK i \in RunState : i = IdleRun
    BY <2>2
  <2>4. PICK b \in BOOLEAN : b = (InDir # {})
    OBVIOUS
  <2>5. new = [i EXCEPT !.at = "deck", !.attempt = 1, !.shared = b]
    BY <2>3, <2>4
  <2>6. /\ new \in RunState /\ new.at = "deck" /\ new.attempt = 1
        /\ new.samples = i.samples /\ new.seen = i.seen /\ new.shared = b
    BY <2>1, <2>5, ZenonT(60) DEF RunState
  <2> QED  BY <2>2, <2>3, <2>4, <2>6
<1> HIDE DEF new
<1>5. RunOK(r, new)
  BY <1>4, Bounds DEF RunOK, SimulationOK, BatchOK, OwnSamples, Trying
<1>6. ASSUME NEW s \in InDir
      PROVE  /\ s \in Runs /\ s # r /\ Inside(run[s]) /\ run'[s] \in RunState /\ run'[s].shared
             /\ Inside(run'[s]) /\ RunOK(s, run'[s])
  <2>1. s \in Runs /\ s # r /\ run[s] \in RunState /\ RunOK(s, run[s]) /\ Inside(run[s])
    BY <1>1 DEF InDir, Inside
  <2>2. PICK h \in RunState : h = run[s]
    BY <2>1
  <2> DEFINE x == [h EXCEPT !.shared = TRUE]
  <2>3. /\ x \in RunState /\ x.shared /\ x.at = h.at /\ x.attempt = h.attempt /\ x.seen = h.seen
        /\ x.first = h.first /\ x.samples = h.samples /\ x.result = h.result
    BY ZenonT(60) DEF RunState
  <2>4. run'[s] = x
    BY <1>2, <2>1, <2>2
  <2> HIDE DEF x
  <2>5. RunOK(s, x)
    BY <2>1, <2>2, <2>3 DEF RunOK, SimulationOK, BatchOK, OwnSamples
  <2> QED  BY <2>1, <2>2, <2>3, <2>4, <2>5 DEF Inside
<1>7. ASSUME NEW s \in Runs \ {r}, s \notin InDir
      PROVE  run'[s] = run[s] /\ ~Inside(run[s])
  BY <1>2, <1>7 DEF InDir, Inside
<1>8. run'[r] = new
  BY <1>2
<1>9. ASSUME NEW s \in Runs
      PROVE  run'[s] \in RunState /\ RunOK(s, run'[s]) /\ FilesOK(s, run'[s], dir')
  <2>1. CASE s = r
    BY <1>4, <1>5, <1>8, <2>1, NoFiles
  <2>2. CASE s # r /\ s \in InDir
    BY <1>6, <2>2 DEF FilesOK
  <2>3. CASE s # r /\ s \notin InDir
    <3>1. FilesOK(s, run[s], dir')
      BY <1>7, <2>3 DEF FilesOK, Inside
    <3> QED  BY <1>1, <1>7, <2>3, <3>1
  <2> QED  BY <2>1, <2>2, <2>3
<1>10. ASSUME NEW s \in Runs
       PROVE  (RunOK(s, run[s]) /\ FilesOK(s, run[s], dir))'
  BY <1>1, <1>9 DEF RunOK, SimulationOK, BatchOK, OwnSamples, FilesOK
<1>11. run' \in [Runs -> RunState]
  BY <1>2, <1>9
<1>12. ASSUME NEW a \in Runs, NEW b \in Runs, a # b, Inside(run'[a]), Inside(run'[b])
       PROVE  run'[a].shared
  <2>1. CASE a = r
    BY <1>4, <1>7, <1>8, <1>12, <2>1
  <2>2. CASE a # r
    BY <1>6, <1>7, <1>12, <2>2
  <2> QED  BY <2>1, <2>2
<1>13. Apart'
  BY <1>12 DEF Apart, Inside
<1> QED  BY <1>1, <1>3, <1>10, <1>11, <1>13 DEF RunnerInv

LEMMA WriteDeckStep ==
  ASSUME RunnerInv, NEW r \in Runs, WriteDeck(r)
  PROVE  RunnerInv'
<1>1. /\ run[r].at = "deck" /\ run[r].at \in Trying /\ kind' = kind /\ dir \in Dir
      /\ run[r] \in RunState /\ RunOK(r, run[r]) /\ Inside(run[r])
  BY TryingInside DEF WriteDeck, At, RunnerInv, Trying
<1>2. PICK h \in RunState : h = run[r]
  BY <1>1
<1>3. This(r) \in Attempt /\ This(r) = [run |-> r, number |-> h.attempt]
  BY <1>1, <1>2, ThisTypes
<1>4. /\ dir' \in Dir
      /\ kind = "batch" => dir'.deck = This(r) /\ dir'.csv = None
  <2>1. PICK d \in Dir : d = dir
    BY <1>1
  <2>2. This(r) \in Attempt \cup {None} /\ None \in Attempt \cup {None}
    BY <1>3
  <2>3. CASE kind = "batch"
    <3>1. dir' = [d EXCEPT !.deck = This(r), !.csv = None, !.whole = FALSE]
      BY <2>1, <2>3 DEF WriteDeck
    <3> QED  BY <2>2, <3>1, ZenonT(60) DEF Dir
  <2>4. CASE kind # "batch"
    <3>1. dir' = [d EXCEPT !.deck = This(r)]
      BY <2>1, <2>4 DEF WriteDeck
    <3>2. dir' \in Dir
      BY <2>2, <3>1, ZenonT(60) DEF Dir
    <3> QED  BY <2>4, <3>2
  <2> QED  BY <2>3, <2>4
<1> DEFINE x == [h EXCEPT !.at = "spawn"]
<1>5. /\ x \in RunState /\ x.at = "spawn" /\ x.attempt = h.attempt /\ x.seen = h.seen
      /\ x.first = h.first /\ x.samples = h.samples /\ x.shared = h.shared
  BY ZenonT(60) DEF RunState
<1>6. run' = [run EXCEPT ![r] = x]
  BY <1>2 DEF WriteDeck
<1> HIDE DEF x
<1>7. RunOK(r, x)
  BY <1>1, <1>2, <1>5, GoesOn DEF Trying
<1>8. FilesOK(r, x, dir')
  BY <1>3, <1>4, <1>5 DEF FilesOK
<1> QED  BY <1>1, <1>2, <1>4, <1>5, <1>6, <1>7, <1>8, OneSteps

LEMMA WriteThrowsStep ==
  ASSUME RunnerInv, NEW r \in Runs, WriteThrows(r)
  PROVE  RunnerInv'
<1>1. /\ run[r].at = "deck" /\ run[r].at \in Trying /\ kind' = kind /\ dir' = dir /\ dir \in Dir
      /\ run[r] \in RunState /\ RunOK(r, run[r]) /\ Inside(run[r])
  BY TryingInside DEF WriteThrows, At, RunnerInv, Trying
<1>2. CASE kind = "sim"
  <2>1. PICK h \in RunState : h = run[r]
    BY <1>1
  <2> DEFINE x == [h EXCEPT !.at = "cleaning", !.result = "infra", !.seen = @ \cup {"infra"}]
  <2>2. h.seen \cup {"infra"} \in SUBSET Failure /\ "infra" \in Failure
    BY FieldTypes DEF Failure
  <2>3. /\ x \in RunState /\ x.at = "cleaning" /\ x.result = "infra"
        /\ x.seen = h.seen \cup {"infra"} /\ x.samples = h.samples /\ x.shared = h.shared
    BY <2>2, ZenonT(60) DEF RunState
  <2>4. [Finish(r, "infra") EXCEPT !.seen = @ \cup {"infra"}] = x
    BY <2>1, ZenonT(60) DEF Finish, RunState
  <2>5. run' = [run EXCEPT ![r] = x]
    BY <1>2, <2>4 DEF WriteThrows
  <2> HIDE DEF x
  <2>6. h.samples = <<>>
    BY <1>1, <1>2, <2>1 DEF RunOK, SimulationOK
  <2>7. RunOK(r, x)
    BY <1>2, <2>3, <2>6 DEF RunOK, SimulationOK, OwnSamples, Trying
  <2>8. FilesOK(r, x, dir')
    BY <2>3, NoFiles
  <2> QED  BY <1>1, <2>1, <2>3, <2>5, <2>7, <2>8, OneSteps
<1>3. CASE kind # "sim"
  <2>1. Fails(r, "infra")
    BY <1>3 DEF WriteThrows
  <2>2. "infra" \in Failure
    BY DEF Failure
  <2> QED  BY <1>1, <2>1, <2>2, FailsStep
<1> QED  BY <1>2, <1>3

LEMMA SpawnStep ==
  ASSUME RunnerInv, NEW r \in Runs, Spawn(r)
  PROVE  RunnerInv'
<1>1. /\ run[r].at = "spawn" /\ run[r].at \in Trying /\ kind' = kind /\ dir' = dir /\ dir \in Dir
      /\ run[r] \in RunState /\ RunOK(r, run[r]) /\ Inside(run[r]) /\ FilesOK(r, run[r], dir)
  BY TryingInside DEF Spawn, At, RunnerInv, Trying
<1>2. PICK h \in RunState : h = run[r]
  BY <1>1
<1> DEFINE x == [h EXCEPT !.at = "load", !.gen = dir.gen]
<1>3. dir.gen \in Nat
  BY <1>1, DirTypes
<1>4. /\ x \in RunState /\ x.at = "load" /\ x.attempt = h.attempt /\ x.seen = h.seen
      /\ x.first = h.first /\ x.samples = h.samples /\ x.shared = h.shared
  BY <1>3, ZenonT(60) DEF RunState
<1>5. run' = [run EXCEPT ![r] = x]
  BY <1>1, <1>2 DEF Spawn, RunnerInv
<1> HIDE DEF x
<1>6. RunOK(r, x)
  BY <1>1, <1>2, <1>4, GoesOn DEF Trying
<1>7. FilesOK(r, x, dir')
  BY <1>1, <1>2, <1>4 DEF FilesOK
<1> QED  BY <1>1, <1>2, <1>4, <1>5, <1>6, <1>7, OneSteps

LEMMA LoadStep ==
  ASSUME RunnerInv, NEW r \in Runs, Load(r)
  PROVE  RunnerInv'
<1>1. /\ run[r].at = "load" /\ run[r].at \in Trying /\ kind' = kind /\ dir' = dir /\ dir \in Dir
      /\ run[r] \in RunState /\ RunOK(r, run[r]) /\ Inside(run[r]) /\ FilesOK(r, run[r], dir)
  BY TryingInside DEF Load, At, RunnerInv, Trying
<1>2. PICK h \in RunState : h = run[r]
  BY <1>1
<1> DEFINE x == [h EXCEPT !.at = "running", !.deck = dir.deck]
<1>3. dir.deck \in Attempt \cup {None}
  BY <1>1, DirTypes
<1>4. /\ x \in RunState /\ x.at = "running" /\ x.attempt = h.attempt /\ x.seen = h.seen
      /\ x.first = h.first /\ x.samples = h.samples /\ x.shared = h.shared
      /\ x.deck = dir.deck
  BY <1>3, ZenonT(60) DEF RunState
<1>5. run' = [run EXCEPT ![r] = x]
  BY <1>1, <1>2 DEF Load, RunnerInv
<1> HIDE DEF x
<1>6. RunOK(r, x)
  BY <1>1, <1>2, <1>4, GoesOn DEF Trying
<1>7. FilesOK(r, x, dir')
  BY <1>1, <1>2, <1>4 DEF FilesOK
<1> QED  BY <1>1, <1>2, <1>4, <1>5, <1>6, <1>7, OneSteps

LEMMA WritesTypes ==
  ASSUME RunnerInv, NEW r \in Runs, NEW data, Writes(r, data)
  PROVE  dir' \in Dir /\ dir'.csv \in {dir.csv, run[r].deck}
<1>1. PICK d \in Dir : d = dir
  BY DEF RunnerInv
<1>2. run[r].deck \in Attempt \cup {None}
  BY FieldTypes DEF RunnerInv
<1>3. PICK whole \in BOOLEAN : whole = (data = "whole")
  OBVIOUS
<1>4. dir' = [d EXCEPT !.csv = run[r].deck, !.whole = whole] \/ dir' = d
  BY <1>1, <1>3 DEF Writes
<1>5. ASSUME dir' = [d EXCEPT !.csv = run[r].deck, !.whole = whole]
      PROVE  dir' \in Dir /\ dir'.csv = run[r].deck
  BY <1>2, <1>5, ZenonT(60) DEF Dir
<1> QED  BY <1>1, <1>4, <1>5

LEMMA ExitsStep ==
  ASSUME RunnerInv, NEW r \in Runs, NEW data, Exits(r, data)
  PROVE  RunnerInv'
<1>1. /\ run[r].at = "running" /\ run[r].at \in Trying /\ kind' = kind
      /\ run[r] \in RunState /\ RunOK(r, run[r]) /\ Inside(run[r]) /\ FilesOK(r, run[r], dir)
  BY TryingInside DEF Exits, At, RunnerInv, Trying
<1>2. PICK h \in RunState : h = run[r]
  BY <1>1
<1>3. dir' \in Dir /\ dir'.csv \in {dir.csv, h.deck}
  BY <1>2, WritesTypes DEF Exits
<1> DEFINE x == [h EXCEPT !.at = "reading"]
<1>4. /\ x \in RunState /\ x.at = "reading" /\ x.attempt = h.attempt /\ x.seen = h.seen
      /\ x.first = h.first /\ x.samples = h.samples /\ x.shared = h.shared
  BY ZenonT(60) DEF RunState
<1>5. run' = [run EXCEPT ![r] = x]
  BY <1>2 DEF Exits
<1> HIDE DEF x
<1>6. RunOK(r, x)
  BY <1>1, <1>2, <1>4, GoesOn DEF Trying
<1>7. FilesOK(r, x, dir')
  BY <1>1, <1>2, <1>3, <1>4 DEF FilesOK
<1> QED  BY <1>1, <1>2, <1>3, <1>4, <1>5, <1>6, <1>7, OneSteps

LEMMA FailingSteps ==
  ASSUME RunnerInv, NEW r \in Runs,
         \/ SpawnFails(r) \/ ReadNothing(r) \/ ReadTooMuch(r)
         \/ \E data \in {"none", "whole", "truncated"}, failure \in Failure \ {"infra"} :
              ExitsBadly(r, data, failure)
  PROVE  RunnerInv'
<1>1. dir \in Dir
  BY DEF RunnerInv
<1>2. {"infra", "fault", "convergence"} \subseteq Failure
  BY DEF Failure
<1>3. CASE SpawnFails(r)
  BY <1>1, <1>2, <1>3, FailsStep DEF SpawnFails, At, Trying
<1>4. CASE ReadNothing(r)
  BY <1>1, <1>2, <1>4, FailsStep DEF ReadNothing, At, Trying
<1>5. CASE ReadTooMuch(r)
  BY <1>1, <1>2, <1>5, FailsStep DEF ReadTooMuch, At, Trying
<1>6. ASSUME NEW data, NEW failure \in Failure \ {"infra"}, ExitsBadly(r, data, failure)
      PROVE  RunnerInv'
  BY <1>6, WritesTypes, FailsStep DEF ExitsBadly, At, Trying
<1> QED  BY <1>3, <1>4, <1>5, <1>6

LEMMA ReadResultStep ==
  ASSUME RunnerInv, NEW r \in Runs, ReadResult(r)
  PROVE  RunnerInv'
<1>1. /\ run[r].at = "reading" /\ run[r].at \in Trying /\ kind' = kind /\ dir' = dir /\ dir \in Dir
      /\ run[r] \in RunState /\ RunOK(r, run[r]) /\ Inside(run[r]) /\ FilesOK(r, run[r], dir)
      /\ kind \in {"sim", "batch"} /\ dir.csv # None /\ dir.csv \in Attempt \cup {None}
  BY Bounds, TryingInside, DirTypes DEF ReadResult, At, RunnerInv, Trying
<1>2. CASE kind = "sim"
  <2>1. PICK h \in RunState : h = run[r]
    BY <1>1
  <2>2. PICK result \in {"success", "recovered"} :
          run' = [run EXCEPT ![r] = [Finish(r, result) EXCEPT !.data = dir.csv]]
    BY <1>2 DEF ReadResult
  <2> DEFINE x == [h EXCEPT !.at = "cleaning", !.result = result, !.data = dir.csv]
  <2>3. /\ x \in RunState /\ x.at = "cleaning" /\ x.result = result /\ x.seen = h.seen
        /\ x.samples = h.samples /\ x.shared = h.shared
    BY <1>1, ZenonT(60) DEF RunState
  <2>4. [Finish(r, result) EXCEPT !.data = dir.csv] = x
    BY <2>1, ZenonT(60) DEF Finish, RunState
  <2>5. run' = [run EXCEPT ![r] = x]
    BY <2>2, <2>4
  <2> HIDE DEF x
  <2>6. h.samples = <<>> /\ "infra" \notin h.seen
    BY <1>1, <1>2, <2>1 DEF RunOK, SimulationOK
  <2>7. result # "infra" /\ result \notin Failure
    BY DEF Failure
  <2>8. RunOK(r, x)
    BY <1>2, <2>3, <2>6, <2>7 DEF RunOK, SimulationOK, OwnSamples, Trying
  <2>9. FilesOK(r, x, dir')
    BY <2>3, NoFiles
  <2> QED  BY <1>1, <2>1, <2>3, <2>5, <2>8, <2>9, OneSteps
<1>3. CASE kind = "batch"
  <2>1. PICK ok \in {"pass", "fail"}, decided, overBudget \in BOOLEAN :
          run' = [run EXCEPT ![r] = Count(r, [ok |-> ok, data |-> dir.csv], decided, overBudget)]
    BY <1>3 DEF ReadResult
  <2> DEFINE sample == [ok |-> ok, data |-> dir.csv]
             x == Count(r, sample, decided, overBudget)
  <2>2. sample \in Sample /\ sample.data = dir.csv
    BY <1>1 DEF Sample
  <2>3. run' = [run EXCEPT ![r] = x]
    BY <2>1
  <2>4. ~run[r].shared => sample.data = This(r)
    BY <1>1, <1>3, <2>2 DEF FilesOK, This
  <2> HIDE DEF sample
  <2>5. /\ x \in RunState /\ x.shared = run[r].shared /\ x.at \in {"deck", "cleaning"}
        /\ RunOK(r, x)
    BY <1>1, <1>3, <2>2, <2>4, CountOK
  <2> HIDE DEF x
  <2>6. FilesOK(r, x, dir')
    BY <2>5, NoFiles
  <2> QED  BY <1>1, <2>3, <2>5, <2>6, OneSteps
<1> QED  BY <1>1, <1>2, <1>3

LEMMA CleanStep ==
  ASSUME RunnerInv, NEW r \in Runs, Clean(r)
  PROVE  RunnerInv'
<1>1. /\ run[r].at = "cleaning" /\ kind' = kind /\ dir \in Dir
      /\ run[r] \in RunState /\ RunOK(r, run[r]) /\ Inside(run[r])
  BY DEF Clean, At, RunnerInv, Inside
<1>2. PICK h \in RunState : h = run[r]
  BY <1>1
<1>3. dir' \in Dir
  <2>1. dir' = [gen |-> dir.gen, exists |-> FALSE, deck |-> None, csv |-> None, whole |-> FALSE]
    BY DEF Clean, NoDir
  <2>2. dir.gen \in Nat
    BY <1>1, DirTypes
  <2> QED  BY <2>1, <2>2 DEF Dir
<1> DEFINE x == [h EXCEPT !.at = "done"]
<1>4. /\ x \in RunState /\ x.at = "done" /\ x.attempt = h.attempt /\ x.seen = h.seen
      /\ x.first = h.first /\ x.samples = h.samples /\ x.shared = h.shared
      /\ x.result = h.result
  BY ZenonT(60) DEF RunState
<1>5. run' = [run EXCEPT ![r] = x]
  BY <1>2 DEF Clean
<1> HIDE DEF x
<1>6. RunOK(r, x)
  BY <1>1, <1>2, <1>4 DEF RunOK, SimulationOK, BatchOK, OwnSamples, Trying
<1>7. FilesOK(r, x, dir')
  BY <1>4, NoFiles
<1> QED  BY <1>1, <1>2, <1>3, <1>4, <1>5, <1>6, <1>7, OneSteps

LEMMA RunCrashesStep ==
  ASSUME RunnerInv, NEW r \in Runs, RunCrashes(r)
  PROVE  RunnerInv'
<1>1. /\ kind' = kind /\ dir' = dir /\ dir \in Dir
      /\ run[r] \in RunState /\ RunOK(r, run[r]) /\ Inside(run[r])
  BY DEF RunCrashes, InDir, RunnerInv, Inside
<1>2. PICK h \in RunState : h = run[r]
  BY <1>1
<1> DEFINE x == [h EXCEPT !.at = "crashed"]
<1>3. x \in RunState /\ x.at = "crashed" /\ x.samples = h.samples /\ x.shared = h.shared
  BY ZenonT(60) DEF RunState
<1>4. run' = [run EXCEPT ![r] = x]
  BY <1>2 DEF RunCrashes
<1> HIDE DEF x
<1>5. RunOK(r, x)
  BY <1>1, <1>2, <1>3 DEF RunOK, SimulationOK, BatchOK, OwnSamples, Trying
<1>6. FilesOK(r, x, dir')
  BY <1>3, NoFiles
<1> QED  BY <1>1, <1>2, <1>3, <1>4, <1>5, <1>6, OneSteps

LEMMA RunnerInitially == RunnerInit => RunnerInv
<1> SUFFICES ASSUME RunnerInit PROVE RunnerInv
  OBVIOUS
<1>1. IdleRun \in RunState /\ IdleRun.at = "idle" /\ IdleRun.samples = <<>>
  BY IdleRunTypes
<1>2. NoDir \in Dir
  BY DEF NoDir, Dir
<1>3. \A r \in Runs : run[r] = IdleRun
  BY DEF RunnerInit
<1>4. ASSUME NEW r \in Runs
      PROVE  RunOK(r, IdleRun) /\ FilesOK(r, IdleRun, dir)
  BY <1>1, NoFiles DEF RunOK, SimulationOK, BatchOK, OwnSamples, Trying
<1>5. Apart
  BY <1>1, <1>3 DEF Apart, Inside
<1> QED  BY <1>1, <1>2, <1>3, <1>4, <1>5 DEF RunnerInit, RunnerInv

LEMMA RunnerKept == RunnerInv /\ [RunnerNext]_runnerVars => RunnerInv'
<1> SUFFICES ASSUME RunnerInv, [RunnerNext]_runnerVars PROVE RunnerInv'
  OBVIOUS
<1>1. ASSUME NEW r \in Runs,
             \/ Start(r) \/ WriteDeck(r) \/ WriteThrows(r) \/ Spawn(r) \/ Load(r)
             \/ ReadResult(r) \/ Clean(r) \/ RunCrashes(r)
      PROVE  RunnerInv'
  BY <1>1, StartStep, WriteDeckStep, WriteThrowsStep, SpawnStep, LoadStep, ReadResultStep,
     CleanStep, RunCrashesStep
<1>2. ASSUME NEW r \in Runs, NEW data, Exits(r, data)
      PROVE  RunnerInv'
  BY <1>2, ExitsStep
<1>3. ASSUME NEW r \in Runs,
             \/ SpawnFails(r) \/ ReadNothing(r) \/ ReadTooMuch(r)
             \/ \E data \in {"none", "whole", "truncated"}, failure \in Failure \ {"infra"} :
                  ExitsBadly(r, data, failure)
      PROVE  RunnerInv'
  BY <1>3, FailingSteps
<1>4. ASSUME UNCHANGED runnerVars
      PROVE  RunnerInv'
  BY <1>4 DEF runnerVars, RunnerInv, RunOK, SimulationOK, BatchOK, OwnSamples, FilesOK, Apart
<1>5. CASE RunnerNext
  BY <1>1, <1>2, <1>3, <1>4, <1>5 DEF RunnerNext, Ended
<1> QED  BY <1>4, <1>5

-----------------------------------------------------------------------------
(* The theorems.                                                           *)

\* What two deliveries of a job make of its directory, and of the attempts each
\* of them counts, at every step (runner.ts, variant-runner.ts).
THEOREM RunnerInvariant == RunnerSpec => []RunnerInv
BY RunnerInitially, RunnerKept, PTL DEF RunnerSpec

\* Every run's record has its type, the number of an attempt never exceeding what
\* the ladder or the batch allows.
THEOREM RunnerTypes == RunnerSpec => []RunnerTypeOK
<1>1. RunnerInv => RunnerTypeOK
  BY DEF RunnerInv, RunnerTypeOK
<1> QED  BY <1>1, RunnerInvariant, PTL

\* A simulation says infrastructure exactly when something could not be launched or
\* written, and otherwise the failure of its first attempt (runSimulation).
THEOREM OutagesAreToldApart == RunnerSpec => []InfraToldApart
<1>1. RunnerInv => InfraToldApart
  BY DEF RunnerInv, RunOK, SimulationOK, InfraToldApart
<1> QED  BY <1>1, RunnerInvariant, PTL

\* A variant that has the directory for itself is judged on the data its own process
\* wrote, whatever was left there (executeAndMeasure removes the old file first).
THEOREM SamplesAreOwn == RunnerSpec => []OwnData
<1>1. RunnerInv => OwnData
  <2> SUFFICES ASSUME RunnerInv, NEW r \in Runs, ~run[r].shared,
                      NEW i \in DOMAIN run[r].samples, run[r].samples[i].ok # "errored"
               PROVE  run[r].samples[i].data = [run |-> r, number |-> i]
    BY DEF OwnData
  <2>1. OwnSamples(r, run[r]) /\ run[r].samples \in Seq(Sample)
    BY FieldTypes DEF RunnerInv, RunOK
  <2>2. i \in 1..Len(run[r].samples)
    BY <2>1
  <2> QED  BY <2>1, <2>2 DEF OwnSamples
<1> QED  BY <1>1, RunnerInvariant, PTL

=============================================================================
