---------------------------- MODULE JobLifecycle ----------------------------
(***************************************************************************)
(* What a client that polls a job row may rely on: a job is submitted,     *)
(* started at most once, settled at most once, and has artifacts to        *)
(* download only if it succeeded.                                          *)
(*                                                                         *)
(* A settled job changes after all only by a verdict that somebody holds:  *)
(* one that rests on an earlier look at the job and is written without     *)
(* another.  Who holds what is an input of this module; no step of it says *)
(* how that changes.  Even so, artifacts are stored once.                  *)
(***************************************************************************)
CONSTANTS Jobs, Artifacts

VARIABLES
    status, published,
    held        \* the verdicts of which each job's writers are not to be talked out

lifecycleVars == <<status, published>>

Settled == {"SUCCEEDED", "FAILED", "CANCELED"}

Init ==
    /\ status = [j \in Jobs |-> "ABSENT"]
    /\ published = [j \in Jobs |-> {}]

Late(j, verdict) == status[j] \in Settled /\ verdict \in held[j]

Submit(j) ==
    /\ status[j] = "ABSENT"
    /\ status' = [status EXCEPT ![j] = "QUEUED"]
    /\ UNCHANGED published

Start(j) ==
    /\ status[j] = "QUEUED"
    /\ status' = [status EXCEPT ![j] = "RUNNING"]
    /\ UNCHANGED published

Succeed(j) ==
    /\ status[j] = "RUNNING" \/ (Late(j, "SUCCEEDED") /\ published[j] = {})
    /\ status' = [status EXCEPT ![j] = "SUCCEEDED"]
    /\ \E a \in SUBSET Artifacts : published' = [published EXCEPT ![j] = a]

Fail(j) ==
    /\ status[j] \in {"QUEUED", "RUNNING"} \/ Late(j, "FAILED")
    /\ status' = [status EXCEPT ![j] = "FAILED"]
    /\ UNCHANGED published

Cancel(j) ==
    /\ status[j] \in {"QUEUED", "RUNNING"} \/ Late(j, "CANCELED")
    /\ status' = [status EXCEPT ![j] = "CANCELED"]
    /\ UNCHANGED published

Next == \E j \in Jobs :
    Submit(j) \/ Start(j) \/ Succeed(j) \/ Fail(j) \/ Cancel(j)

Spec == Init /\ [][Next]_lifecycleVars
=============================================================================
