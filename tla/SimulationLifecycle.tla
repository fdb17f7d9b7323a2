-------------------------- MODULE SimulationLifecycle --------------------------
(***************************************************************************)
(* What whoever polls the row of a simulation may see of it: a verdict on    *)
(* the circuit only by its deck, unless its simulation was disturbed from    *)
(* outside, settled rows settled anew by handlers that were overtaken, and,  *)
(* once an operator retried it, whatever the retry brings.  SimulationJob    *)
(* implements it; VerifyDesign waits for it.                                 *)
(***************************************************************************)
CONSTANT Sims

VARIABLES
    deck,       \* what the row's netlist makes of the simulator
    status,     \* of the row; INFRA is FAILED with failureClass 'infra'
    retried,    \* rows an operator has asked to retry
    disturbed   \* rows a simulation of which was disturbed from outside, good decks only

lifecycleVars == <<deck, status, retried, disturbed>>

Settled == {"SUCCEEDED", "FAILED", "INFRA", "TIMED_OUT", "CANCELED"}

LifecycleTypeOK ==
    /\ deck \in [Sims -> {"good", "bad", "batch"}]
    /\ status \in [Sims -> {"ABSENT", "QUEUED", "RUNNING", "GONE"} \cup Settled]
    /\ retried \subseteq Sims
    /\ disturbed \subseteq Sims

LifecycleInit ==
    /\ deck \in [Sims -> {"good", "bad", "batch"}]
    /\ status = [s \in Sims |-> "ABSENT"]
    /\ retried = {}
    /\ disturbed = {}

\* A batch is not blamed on the circuit; what an operator's retry makes of its row,
\* which has no netlist, is, and so is a retry without the model files.
Outcomes(s) ==
    CASE deck[s] = "bad" -> {"SUCCEEDED", "FAILED", "TIMED_OUT", "INFRA"}
      [] deck[s] = "good" -> {"SUCCEEDED", "TIMED_OUT", "INFRA"} \cup
                             IF s \in retried \cup disturbed THEN {"FAILED"} ELSE {}
      [] OTHER -> {"SUCCEEDED", "INFRA"} \cup IF s \in retried THEN {"FAILED", "TIMED_OUT"} ELSE {}

Becomes(s, next) ==
    /\ status' = [status EXCEPT ![s] = next]
    /\ UNCHANGED <<deck, retried, disturbed>>

Insert(s) == status[s] = "ABSENT" /\ Becomes(s, "QUEUED")

Start(s) == status[s] = "QUEUED" /\ Becomes(s, "RUNNING")

\* By a handler that has claimed the row, perhaps long ago.
Settle(s) ==
    /\ status[s] \in {"RUNNING"} \cup Settled \/ (status[s] = "QUEUED" /\ s \in retried)
    /\ \E outcome \in Outcomes(s) : Becomes(s, outcome)

\* The claim itself failed.
FailQueued(s) == status[s] = "QUEUED" /\ Becomes(s, "INFRA")

\* Only a job under the row's id can be canceled, and it takes a retry to make one.
Cancel(s) == s \in retried /\ status[s] = "QUEUED" /\ Becomes(s, "CANCELED")

Retry(s) ==
    /\ status[s] \in Settled \ {"SUCCEEDED"}
    /\ retried' = retried \cup {s}
    /\ UNCHANGED <<deck, status, disturbed>>

\* By another handler in the directory of its simulation, or by the host: the row may
\* have been settled, by one of the two, or deleted meanwhile.
Disturb(s) ==
    /\ status[s] # "ABSENT"
    /\ deck[s] = "good"
    /\ disturbed' = disturbed \cup {s}
    /\ UNCHANGED <<deck, status, retried>>

\* The retry resets the row it has read, and fails it if it cannot be enqueued.
Reset(s) ==
    /\ s \in retried
    /\ status[s] \notin {"ABSENT", "GONE"}
    /\ Becomes(s, "QUEUED") \/ Becomes(s, "FAILED")

Delete(s) == status[s] \notin {"ABSENT", "GONE"} /\ Becomes(s, "GONE")

Served(s) ==
    \/ Start(s) \/ Settle(s) \/ FailQueued(s)
    \/ Cancel(s) \/ Retry(s) \/ Reset(s) \/ Delete(s) \/ Disturb(s)

LifecycleNext == \E s \in Sims : Insert(s) \/ Served(s)

LifecycleSpec == LifecycleInit /\ [][LifecycleNext]_lifecycleVars

=============================================================================
