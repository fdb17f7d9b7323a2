-------------------------- MODULE SimulationRunner --------------------------
(***************************************************************************)
(* ngspice runs in one job directory (worker-sim: runner.ts,                *)
(* variant-runner.ts, job-dir.ts, and runMonteCarlo of eda-core): a          *)
(* simulation with its ladder of solver remedies, or a batch of variants.    *)
(* The directory is named after the job and the run that ends removes it, so *)
(* a job the queue delivers a second time shares it with the first run.  A   *)
(* worker may crash at any step and leave the directory as it is.            *)
(* What a file holds is the attempt that wrote it.                           *)
(***************************************************************************)
EXTENDS Naturals, Sequences, FiniteSets

CONSTANTS
    Runs,           \* deliveries of one job
    Kinds,          \* what the job may be: "sim", "batch"
    Ladder,         \* solver remedies
    Target,         \* n: usable samples a batch collects
    AttemptCap,     \* attempts it may spend on them
    MinRuns,        \* attempts before it stops or gives up early
    MaxCrashes      \* bound: crashed runs

ASSUME SimulationRunnerAssumption ==
    /\ Kinds \subseteq {"sim", "batch"}
    /\ Ladder \in Nat /\ MaxCrashes \in Nat
    /\ Target \in Nat \ {0} /\ AttemptCap \in Nat \ {0} /\ MinRuns \in Nat \ {0}
    /\ Target <= AttemptCap /\ MinRuns <= AttemptCap

VARIABLES
    kind,   \* what the job is
    dir,    \* its directory
    run     \* its runs

runnerVars == <<kind, dir, run>>

-----------------------------------------------------------------------------

\* The most a run may spend: the deck as it came and the remedies, or the variants.
AttemptBound == IF AttemptCap > Ladder THEN AttemptCap ELSE Ladder + 1

Attempt == [run : Runs, number : 1..AttemptBound]

None == [run |-> "none"]

\* gen: which creation of the directory; a process keeps the one it started in.
Dir == [gen : Nat, exists : BOOLEAN, deck : Attempt \cup {None}, csv : Attempt \cup {None},
        whole : BOOLEAN]

Failure == {"fault", "convergence", "timeout", "timeoutWarned", "infra"}

\* deck: the one ngspice has loaded; first: how the first attempt failed; seen:
\* every way an attempt failed; samples: a batch's outcomes, with their sources;
\* shared: another run was in the directory at the same time.
RunState == [at : {"idle", "deck", "spawn", "load", "running", "reading", "cleaning", "done", "crashed"},
        gen : Nat, attempt : 0..AttemptBound, deck : Attempt \cup {None},
        first : Failure \cup {"none"}, seen : SUBSET Failure,
        result : Failure \cup {"none", "success", "recovered", "counted"},
        data : Attempt \cup {None}, samples : Seq([ok : {"errored", "fail", "pass"},
                                                   data : Attempt \cup {None}]),
        stoppedEarly : BOOLEAN, shared : BOOLEAN]

IdleRun == [at |-> "idle", gen |-> 0, attempt |-> 0, deck |-> None, first |-> "none", seen |-> {},
         result |-> "none", data |-> None, samples |-> <<>>, stoppedEarly |-> FALSE,
         shared |-> FALSE]

RunnerTypeOK ==
    /\ kind \in Kinds
    /\ dir \in Dir
    /\ run \in [Runs -> RunState]

NoDir == [gen |-> 0, exists |-> FALSE, deck |-> None, csv |-> None, whole |-> FALSE]

RunnerInit ==
    /\ kind \in Kinds
    /\ dir = NoDir
    /\ run = [r \in Runs |-> IdleRun]

-----------------------------------------------------------------------------

At(r, step) == run[r].at = step

InDir == {r \in Runs : run[r].at \notin {"idle", "done", "crashed"}}

This(r) == [run |-> r, number |-> run[r].attempt]

Evaluated(samples) == Cardinality({i \in DOMAIN samples : samples[i].ok # "errored"})

Finish(r, result) ==
    [run[r] EXCEPT !.at = "cleaning", !.result = result]

NextAttempt(r) ==
    [run[r] EXCEPT !.at = "deck", !.attempt = @ + 1, !.deck = None]

-----------------------------------------------------------------------------
(* How an attempt counts.                                                  *)

\* Mutant of Judge: a remedy that cannot be launched is one that did not help.
JudgeBuriesInfra(r, failure) ==
    LET seen == [run[r] EXCEPT !.seen = @ \cup {failure}]
        finish(result) == [seen EXCEPT !.at = "cleaning", !.result = result]
        next(first) == [seen EXCEPT !.at = "deck", !.attempt = @ + 1, !.deck = None,
                                    !.first = first]
    IN  IF run[r].attempt = 1
        THEN IF failure \in {"convergence", "timeoutWarned"} /\ Ladder > 0
             THEN next(failure)
             ELSE finish(failure)
        ELSE IF failure \in {"timeout", "timeoutWarned"} \/ run[r].attempt > Ladder
             THEN finish(run[r].first)
             ELSE next(run[r].first)

\* A simulation: a failure that looks like convergence, which a timeout with a
\* solver warning on stderr does, walks the ladder.  A remedy that cannot be
\* launched ends the job as infrastructure; one that times out ends the walk, and
\* so does the last one, with the failure of the first attempt.
Judge(r, failure) ==
    LET seen == [run[r] EXCEPT !.seen = @ \cup {failure}]
        finish(result) == [seen EXCEPT !.at = "cleaning", !.result = result]
        next(first) == [seen EXCEPT !.at = "deck", !.attempt = @ + 1, !.deck = None,
                                    !.first = first]
    IN  IF run[r].attempt = 1
        THEN IF failure \in {"convergence", "timeoutWarned"} /\ Ladder > 0
             THEN next(failure)
             ELSE finish(failure)
        ELSE CASE failure = "infra"                           -> finish("infra")
               [] failure \in {"timeout", "timeoutWarned"}    -> finish(run[r].first)
               [] OTHER -> IF run[r].attempt > Ladder
                           THEN finish(run[r].first)
                           ELSE next(run[r].first)

\* A batch: one more outcome, and the rules that end it.  decided: the interval
\* settles the tier; overBudget: the wall-clock budget is spent.
Count(r, sample, decided, overBudget) ==
    LET samples == Append(run[r].samples, sample)
        evaluated == Evaluated(samples)
        early == \/ sample.ok = "errored" /\ evaluated = 0 /\ Len(samples) >= MinRuns
                 \/ sample.ok # "errored" /\ evaluated >= MinRuns /\ decided
        full == Len(samples) = AttemptCap \/ evaluated >= Target
    IN  IF early \/ full \/ overBudget
        THEN [Finish(r, "counted") EXCEPT !.samples = samples,
                                          !.stoppedEarly = early \/ (overBudget /\ ~full)]
        ELSE [NextAttempt(r) EXCEPT !.samples = samples]

\* The attempt of r has failed.
Fails(r, failure) ==
    IF kind = "sim"
    THEN run' = [run EXCEPT ![r] = Judge(r, failure)]
    ELSE \E overBudget \in BOOLEAN :
           run' = [run EXCEPT ![r] =
                     Count(r, [ok |-> "errored", data |-> None], FALSE, overBudget)]

-----------------------------------------------------------------------------
(* One run.                                                                *)

\* Create the directory, or find the one that is there.
Start(r) ==
    /\ At(r, "idle")
    /\ dir' = IF dir.exists THEN dir ELSE [NoDir EXCEPT !.gen = dir.gen + 1, !.exists = TRUE]
    /\ run' = [s \in Runs |->
                 IF s = r THEN [IdleRun EXCEPT !.at = "deck", !.attempt = 1, !.shared = InDir # {}]
                 ELSE IF s \in InDir THEN [run[s] EXCEPT !.shared = TRUE] ELSE run[s]]
    /\ UNCHANGED kind

\* Mutant of WriteDeck: the variant before it left its data.
WriteDeckOnly(r) ==
    /\ At(r, "deck") /\ dir.exists
    /\ dir' = [dir EXCEPT !.deck = This(r)]
    /\ run' = [run EXCEPT ![r].at = "spawn"]
    /\ UNCHANGED kind

\* Write the netlist.  A batch first removes what the last variant has left.
WriteDeck(r) ==
    /\ At(r, "deck") /\ dir.exists
    /\ dir' = IF kind = "batch"
              THEN [dir EXCEPT !.deck = This(r), !.csv = None, !.whole = FALSE]
              ELSE [dir EXCEPT !.deck = This(r)]
    /\ run' = [run EXCEPT ![r].at = "spawn"]
    /\ UNCHANGED kind

\* Writing the netlist throws, as it must when the directory is gone.  It ends a
\* simulation whatever it was doing.
WriteThrows(r) ==
    /\ At(r, "deck")
    /\ IF kind = "sim"
       THEN run' = [run EXCEPT ![r] = [Finish(r, "infra") EXCEPT !.seen = @ \cup {"infra"}]]
       ELSE Fails(r, "infra")
    /\ UNCHANGED <<kind, dir>>

\* The process needs its working directory.
Spawn(r) ==
    /\ At(r, "spawn") /\ dir.exists
    /\ run' = [run EXCEPT ![r].at = "load", ![r].gen = dir.gen]
    /\ UNCHANGED <<kind, dir>>

SpawnFails(r) ==
    /\ At(r, "spawn")
    /\ Fails(r, "infra")
    /\ UNCHANGED <<kind, dir>>

\* ngspice opens the netlist by its path.
Load(r) ==
    /\ At(r, "load")
    /\ run' = [run EXCEPT ![r].at = "running", ![r].deck = dir.deck]
    /\ UNCHANGED <<kind, dir>>

\* A process writes into the directory it was started in.
Writes(r, data) ==
    dir' = IF data # "none" /\ dir.exists /\ dir.gen = run[r].gen
           THEN [dir EXCEPT !.csv = run[r].deck, !.whole = (data = "whole")]
           ELSE dir

\* ngspice ends, with or without data; without a netlist it only fails.
Exits(r, data) ==
    /\ At(r, "running") /\ run[r].deck # None
    /\ Writes(r, data)
    /\ run' = [run EXCEPT ![r].at = "reading"]
    /\ UNCHANGED kind

ExitsBadly(r, data, failure) ==
    /\ At(r, "running")
    /\ run[r].deck = None => data = "none" /\ failure = "fault"
    /\ Writes(r, data)
    /\ Fails(r, failure)
    /\ UNCHANGED kind

\* The output is read by its path; none at all counts as convergence, and so does
\* a transient that ended early.  The last listing may say convergence as well.
ReadNothing(r) ==
    /\ At(r, "reading") /\ (dir.csv = None \/ ~dir.whole)
    /\ Fails(r, "convergence")
    /\ UNCHANGED <<kind, dir>>

ReadTooMuch(r) ==
    /\ At(r, "reading") /\ dir.csv # None
    /\ \E failure \in {"fault", "convergence"} : Fails(r, failure)
    /\ UNCHANGED <<kind, dir>>

ReadResult(r) ==
    /\ At(r, "reading") /\ dir.csv # None /\ dir.whole
    /\ IF kind = "sim"
       THEN run' = [run EXCEPT ![r] =
                      [Finish(r, IF run[r].attempt = 1 THEN "success" ELSE "recovered")
                         EXCEPT !.data = dir.csv]]
       ELSE \E ok \in {"pass", "fail"}, decided, overBudget \in BOOLEAN :
              run' = [run EXCEPT ![r] =
                        Count(r, [ok |-> ok, data |-> dir.csv], decided, overBudget)]
    /\ UNCHANGED <<kind, dir>>

\* The directory goes with the run, whoever else is in it.
Clean(r) ==
    /\ At(r, "cleaning")
    /\ dir' = [NoDir EXCEPT !.gen = dir.gen]
    /\ run' = [run EXCEPT ![r].at = "done"]
    /\ UNCHANGED kind

RunCrashes(r) ==
    /\ r \in InDir
    /\ Cardinality({s \in Runs : At(s, "crashed")}) < MaxCrashes
    /\ run' = [run EXCEPT ![r].at = "crashed"]
    /\ UNCHANGED <<kind, dir>>

Ended == (\A r \in Runs : run[r].at \in {"done", "crashed"}) /\ UNCHANGED runnerVars

RunnerNext ==
    \/ \E r \in Runs :
         \/ Start(r) \/ WriteDeck(r) \/ WriteThrows(r) \/ Spawn(r) \/ SpawnFails(r) \/ Load(r)
         \/ \E data \in {"none", "whole", "truncated"} :
              \/ Exits(r, data)
              \/ \E failure \in Failure \ {"infra"} : ExitsBadly(r, data, failure)
         \/ ReadNothing(r) \/ ReadTooMuch(r) \/ ReadResult(r) \/ Clean(r) \/ RunCrashes(r)
    \/ Ended

RunnerSpec == RunnerInit /\ [][RunnerNext]_runnerVars

-----------------------------------------------------------------------------
(* Properties.                                                             *)

\* An outage is never blamed on the circuit: a simulation is reported as
\* infrastructure exactly when something could not be launched or written, at
\* whatever rung of the ladder and whoever else is in the directory, and a failure
\* it does report is the one of its first attempt.
InfraToldApart ==
    \A r \in Runs :
        kind = "sim" /\ run[r].at \in {"cleaning", "done"} =>
            /\ run[r].result = "infra" <=> "infra" \in run[r].seen
            /\ run[r].result \in Failure \ {"infra"} /\ run[r].attempt > 1 =>
                  run[r].result = run[r].first

\* A variant is judged on its own data, also in a directory that a crashed run
\* has left full: whatever it did not write itself is gone when it starts.
OwnData ==
    \A r \in Runs : ~run[r].shared =>
        \A i \in DOMAIN run[r].samples :
            run[r].samples[i].ok # "errored" =>
                run[r].samples[i].data = [run |-> r, number |-> i]

=============================================================================
