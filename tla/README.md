# Circuit Forge: a formal model

Circuit Forge is an electronics workbench: a web editor for circuits, an API over
Postgres and Redis, and workers that simulate a circuit with ngspice, let an LLM
design one, and lay out a board with Freerouting and KiCad. This directory holds TLA+
models of the parts in which concurrency, failure and ordering decide whether the
program is right, and of the algorithms that decide what a circuit's names, wires and
verdicts mean; TLC configurations that check them on small instances; and TLAPS proofs
for every size. `PROJECT.json` ties every definition to the source lines it models;
this file says what is modelled, what is shown, and what is left.

To check a run: `tlc -config MCLayoutJob.cfg MCLayoutJob.tla`. To check the proofs:
`tlapm` on `JobQueueProofs`, `LayoutJobProofs`, `DesignProofs`, `SimulationProofs`,
`CircuitProofs`, `OrganizationProofs`, `SessionsProofs` and `EditorProofs`.

## 1. Inventory

| Component | State it keeps | Operations | Hard because |
|---|---|---|---|
| API: layout and design jobs (`apps/api/src/layout`, `generation`) | job row in Postgres | create, cancel, read | row and queue are two stores; cancel is read-then-write |
| Queues (BullMQ on Redis) | waiting/active/finished jobs, locks, attempt and stall counters | add, deliver, report, stall, evict, remove | at-least-once delivery, lost locks |
| PCB worker (`apps/pcb-worker`) | the handler's position; artifacts in S3 | claim, lay out, judge, export, render, finish | crash anywhere, cancel seen late or swallowed, partial uploads |
| Design worker (`apps/worker-sim/src/design`) | the handler's position, calls of the model | claim, loop, checkpoint, finish | terminal write without a condition; cancel between checkpoints |
| Design loop and candidates (`llm-core/design-core.ts`, `multi-candidate.ts`) | rounds, criteria, results of a request | screen, generate, fix, simulate, rank, pick | verdicts and circuits of different rounds meet; a budget looked at now and then, of requests that are billed several times |
| Reapers (`reaper.ts`, twice) | a snapshot of stale rows | sweep: query, look, conditional write | acts on a snapshot |
| Simulation API and worker (`apps/api/src/simulation`, `apps/worker-sim/src/simulation`) | row, BullMQ job with retries | create, claim, run, write, catch | retries against re-deliveries; verdict or infrastructure; no reaper |
| Simulation runner (`runner.ts`, `variant-runner.ts`, `job-dir.ts`) | a job directory | write deck, spawn ngspice, read data, remedy, clean | two deliveries share a directory, which the first to end removes; crashed runs leave files; five ways to fail |
| Verification of a design (`verification.service.ts`) | a request's evidence | check rules, simulate, judge, four robustness batches | reads a row twice; infrastructure must not read as a verdict |
| Yield statistics (`eda-core/montecarlo.ts`) | none | sample, stop early, grade | sampler and grader must agree |
| Circuit to deck to verdict (`eda-core`: `erc`, `netlist`, `analysis`) | none | rule check, node names, bridges, columns, criteria | four independent answers to "which net is this" |
| Admin (`apps/api/src/admin`) | none of its own | cancel and retry a simulation, members, storage sweep | row and queue again; a second queue job for one row; lists compared |
| Working copy (`apps/api/src/working-copy`) | one row per project, `updatedAt` as token | get, save with or without token, discard | compare-and-set by `updatedAt`, read back in a second query |
| Web document (`useDocument.ts`, `draftStore.ts`, `useAsync.ts`) | queue of one, save in flight, two timers, local copy, recovery | load, edit, undo, autosave, conflict, recover, leave | every completion meets a state that has moved on |
| Web editor (`ProjectEditor.tsx`, `SchematicCanvas.tsx`, `editor-core`) | document, undo stacks, a drag | gestures on parts, nets, wires; undo, redo, load | netlist and drawing are two descriptions of one thing; a drag outlives an undo |
| Organizations, invitations (`orgs`, `invitations`, `admin`) | memberships, invitations | change role, remove, invite, revoke, accept, lapse | reads justify later writes, nothing is locked |
| Authentication and web client (`auth`, `client.ts`, `tokens.ts`) | refresh families; tabs' copies of a token | refresh, rotate, revoke, logout; 401s, storage events | rotation under concurrency, lost answers, several tabs |
| Assets, storage gate, sweep (`assets`, `usage`, `admin-storage`) | objects and rows, advisory lock | presign, commit, delete, sweep, spill | two stores without a transaction; gate read before the lock |
| Parts, projects, versions, templates, health, e-mail; `pcb-core` geometry; Rust engine; viewer; scripts | none or external catalogues | – | request-response, pure computation, rendering |

How they interact. The API inserts a row and then adds a BullMQ job; the job and the
row share an id, except for simulations, whose id BullMQ makes up. A worker process
takes a job with a lock it has to renew, claims the row with one conditional update,
works, and writes the row. A cancel is a flag on the row which the worker polls. One
reaper per worker process compares rows with queue states. A verification and a design
job create simulations and poll their rows. The editor talks to the working-copy
routes and to `localStorage`; it never hears from the server unasked; its tabs hear of
each other by storage events only.

What makes each component right, in a sentence:

* a job row is settled exactly once, in the end always, by whoever; what it offers for
  download exists; at most one handler spends money or CPU on it; a cancel is
  reported only if it was asked for;
* a simulation's verdict does not blame the circuit for an outage the worker noticed, and
  is not given while BullMQ will still retry; a run reads its own output and nobody
  else's; a verification fails, or passes, a design only for a reason about the design;
* what the loop returns as verified is the circuit that was simulated and judged last,
  by the criteria the user asked for;
* a criterion is answered by the voltage of the net it names, or not at all;
* the document on screen is on the server, or queued for it, or the user is told, and
  it survives the tab; its drawing agrees with its netlist; undo walks the user's line;
* an offer gives one seat; only owners make owners; a spent refresh token is presented
  only for a reason, and one token of a family is live;
* no row refers to an object the program removed, no object is leaked but where two
  stores allow it, and commits fit under the limit.

## 2. Modules

| Module | Models | Checked by |
|---|---|---|
| `JobQueue` | what layout and design jobs share: row, API, cancel, BullMQ, reaper, time as two thresholds | the runs of the next two |
| `LayoutJob` | the PCB worker on top of `JobQueue` | `layout` |
| `DesignJob` | the design worker on top of `JobQueue` | `design` |
| `JobLifecycle` | the abstract life of a job row as a polling client sees it | refined by both |
| `DesignLoop` | one design request inside the design worker: loop, candidates, budget | `designloop` |
| `SimulationJob` | simulations: retries, operator's cancel and retry, deletion | `sim` |
| `SimulationLifecycle` | the abstract life of a simulation row as whoever polls it sees it | refined by `SimulationJob`, used by `VerifyDesign` |
| `SimulationRunner` | runs of one job over its directory, remedies, batches | `runner` |
| `VerifyDesign` | a verify-design request against `SimulationLifecycle` | `verify` |
| `YieldBatch` | Monte-Carlo sampling, stopping and grading | `verify` |
| `Circuit`, `ErcChecker`, `SpiceDeck`, `CircuitCheck` | a circuit, the rule check, the deck, criteria answered end to end | `circuits` |
| `DocumentSync` | working-copy row, saves on the wire, `useDocument`, local copy | `document` |
| `Schematic` | netlist edits and the drawing, as functions | `editor` |
| `EditHistory`, `UndoTimeline` | the undo stacks, and what undo promises | `editor`: the first refines the second |
| `EditorSession` | the gestures of the editor over both | `editor` |
| `OrgMembers` | members and invitations of an organization | `members` |
| `AssetStore` | objects, rows, the storage gate and the sweep | `assets` |
| `Sessions` | refresh tokens on the server and in the tabs | `sessions` |
| `JobQueueProofs` | lemmas on the steps layout and design jobs share | TLAPS |
| `LayoutJobProofs` | theorems about `LayoutJob` | TLAPS |
| `DesignProofs` | theorems about `DesignJob` (part I), `DesignLoop` (II), `VerifyDesign` with `YieldBatch` (III) | TLAPS |
| `SimulationProofs` | theorems about `SimulationJob` (part I), `SimulationRunner` (II) | TLAPS |
| `CircuitProofs` | theorems about `CircuitCheck` with `SpiceDeck` and `ErcChecker` | TLAPS |
| `OrganizationProofs` | theorems about `OrgMembers` (part I), `AssetStore` (II) | TLAPS |
| `SessionsProofs` | theorems about `Sessions` | TLAPS |
| `EditorProofs` | theorems about `DocumentSync` (part I), `EditorSession` with `Schematic` and `EditHistory` (II) | TLAPS |
| `MC…` | instances for TLC | |

An `MC` module holds what a `.cfg` cannot say: symmetries, and the sets of circuits,
drafts, documents and combinations of checks to try. An operator whose comment starts
with "Mutant of" is not part of a specification: it is the bug a property is there to
catch, kept next to the definition it distorts.

### JobQueue, LayoutJob, DesignJob

A row is its status, the abort flag, whether `startedAt` is set and past the deadline,
and whose message is in `errorMessage`. `row`, `age` and `api`/`canceller`/`reaper`
are what Postgres and the callers in flight hold; `queueJob`, `stalls`, `holder` are
what Redis holds; `handler[w]` is the local state of `processLayoutJob` or
`processDesignJob` in a worker slot. Each await on a store is a step boundary:

* `create` is `Create`, then `AddSucceeds` or `AddThrows` (with the job stored or
  not), then `FailRefused`; the process may die in between (`ApiCrash`);
* `requestCancel` is `CancelRead`, then `CancelQueued` or `CancelRunning`, by what was
  read;
* a sweep is `SweepStart` (one query), `SweepLook` (queue state of one row, decision)
  and `SweepWrite` (conditional), with `SweepSkip` for a row whose look fails;
* the claim is one conditional update; it may throw with or without having been
  applied. In the PCB worker that leaves the handler; in the design worker it is
  caught and becomes a FAILED row;
* the layout is a loop of routing attempts with the cancel flag polled in between.
  `SeeAbort` has two outcomes because `layoutCircuit` lets the abort through before a
  placement rung and swallows it inside the margin ladder;
* `Finish` of the PCB worker is conditional on RUNNING, that of the design worker
  names the row by id alone. That one difference gives the two modules different
  guarantees. `JobLifecycle` lets a settled row be settled again only with a verdict that
  is `held`: one that rests on an earlier look at the job and is written without another.
  The refinement says who holds one: a cancel that read QUEUED (`StaleCancels`) and, of
  the design worker, a handler that has its outcome (`HeldOutcomes`). A blind write of
  the reaper, of a failed enqueue or of a handler that lost its claim is none of these.

BullMQ is external. Modelled from its use: a job is delivered to one slot and locked;
a lost lock leads to a re-delivery or, after `MaxStalled` of them, to failure; a
report without the lock is not heard; finished jobs are evicted. A lock may be lost
while its handler still runs (`LockExpires` needs no crash), which is how two
handlers of one job come about.

### DesignLoop

`processDesignJob`'s call of the loop, in detail: `runDesignCore` for one candidate
(generate, rule check, netlist, simulate, judge, fix), and around it the screening of
`n` candidates, the ranking and deduplication of finalists, the full loop for `k` of
them and the pick. An answer of the language model is an element of `Drafts`: what the
checks will meet first in that circuit, which criteria it meets, and the criteria and
analysis that came with it. The number of the `generateCircuit` or `fixCircuit` names a
version, so that a verdict, a circuit and an assertion can be compared by where they came
from; `asked` counts them, and so does the code (`llmCalls`). What the provider bills are
the HTTP calls behind them, `billed`: a round of the conversation for each of up to
`tools` rounds with tools, one without, a repair of an invalid answer (`runWithRepair`),
and each of these resent once if it fails for a moment. The worker has no tools; the API's
own loop of one candidate may. `MC` picks six drafts that between them take every branch.

### SimulationJob, SimulationLifecycle

The row is reduced to its status, FAILED with `failureClass: 'infra'` being `INFRA`
and a deleted row `GONE`. A row has up to two BullMQ jobs: the API's, with `Attempts`
retries, and the one an operator's retry adds under the row's id, without retries.
`deck` says what ngspice will make of the row's netlist, so that a verdict can be
compared with the truth: `good` gives data at the first attempt, with the model files the
author named; a `bad` one may still be rescued by a remedy. `Run` is the simulator, or the
infrastructure around it; `Catch` is the handler's catch block, which gives a verdict on
the last attempt only. Two things come between a good deck and its data without the
runner noticing, and `disturbed` remembers the rows they happened to (`Disturb`): another
handler of the row ends first and removes the directory both work in (`runner.ts:73`,
`:175`), or the host kills ngspice. An operator's retry has no model files
(`admin.service.ts:831`), so a good deck may fail in it too.

`SimulationLifecycle` forgets queue, handlers and callers and keeps what a poller may
see: a failure of a circuit for its own sake only if its deck can fail, an operator
retried it or its run was disturbed, and no settled row running again without an
operator. `SimulationJob` implements it with `status <- row`, `retried` the rows an
operator has retried, and `disturbed` as it is.

### SimulationRunner

Two deliveries of one job and a directory named after it. A file's content is the
attempt that wrote it, so that reading another run's output is visible. Each file
operation, the spawn and each way ngspice can end is a step; a run that ends removes
the directory, a crashed one leaves it. A single simulation walks the ladder of
remedies; a batch counts usable samples and attempts.

### VerifyDesign, YieldBatch

`verify` on the worker path: `Review` (rules and deck), `Open`/`Enqueue` (row, queue),
`Poll`/`PollEnds`, `ReadResult` (the second read of the row), and the same steps for
each requested check, in the order of `assessRobustness`. What is found out about the
design is chosen when it is looked at. Its environment is `SimulationLifecycle`, whose
steps are taken on the row the request waits for. `YieldBatch` has the Wilson interval
in integers: a bar is a share of `Whole` (0.999 is 999 of 1000), and "the lower bound
reaches the bar" is an inequality between squares, without a root. `Batches(n)` is the
set of all samples a batch can end with, by any order of draws, early stops and cuts.

### Circuit, ErcChecker, SpiceDeck, CircuitCheck

A circuit is nets and parts with pins. `ErcChecker` has every rule that refuses a
circuit; `SpiceDeck` the sanitiser, the node map, the analog and event twins of a mixed
net, the refusals, the rewriting of probes and the columns of the deck; `CircuitCheck`
runs a circuit through them and evaluates every criterion the circuit can name
(voltages, differences, branch currents), on the path of a verification and on that of
the design loop. ngspice is external: it writes the columns it knows, and nothing of a
line that names a vector it does not. Values are not simulated; the question is which
column answers which criterion. The plan of the bridges goes through the nets in the
order of the document; the code goes through a map of the nets that have logic pins. The
names that two nets can be given never overlap, so the order does not show. Only the first
`MaxDefaultProbes` nets that are not ground are sampled unasked (64 in the code).

### DocumentSync

A document is a number: 0 is the saved version, each edit makes the next, `Foreign` is
whatever another client saves. `updatedAt` is a number equal to none that anybody
holds, which is all the code uses. `editor[t]` is the `w` ref of `useDocument` with the
React state that its decisions depend on; a timer is a flag; `calls[t]` are the saves
on the wire, which outlive the editor that sent them; `late[t]` is the local write
that a closed editor's timer will still make. `safe` and `waived` are history: what
the server last told the editor it holds, and what the user gave up;
`overwritten[t]` that another tab of the device has written or removed the copy since
`t` did. A save with a
token is three steps (`CompareAndSet`, `ReadBack`, `Succeed`), without one it is two,
and `Fail` may strike at each. The project page is keyed by the project's id, so the
hook is remounted for each project: the model has one project.

### Schematic, EditHistory, EditorSession

`Schematic` has the netlist edits (connect, disconnect, move, split, add, delete,
duplicate) as functions from a circuit to a circuit, and `SyncDrawing`: labels and
wires brought back in line after an edit. The sheet is a row of places; a wire is its
two end points and the terminals recorded there. `EditHistory` is the commit kernel's
stacks over opaque documents; `UndoTimeline` is a line of documents and a position in
it. `EditorSession` takes every gesture that changes the document: keys, the panels,
drawing and deleting wires, a drag from press to release with keys live meanwhile, and
a document arriving from the server.

### OrgMembers

A call is a record of what it has read. `TenantCalls` and `OperatorCalls` start one;
`LookAtTarget`, `CountOwners`, `LookForMember`, `LookForPending`, `ReadOffer` are its
reads; `WriteMember`, `WriteInvite`, `WriteRevoked`, `WriteExpired`, `ClaimOffer` its
writes, each a transaction by key. Two calls run over one another.

### AssetStore

One key of an organization in S3, the rows that refer to it, and each statement and S3
request of presign, `commit`, `delete`, the spill of simulation results and the
operator's sweep. An object is in the grace period or older. A check under the
advisory lock is one step with the lock held until the insert.

### Sessions

The refresh tokens of a user in the order of their issue, the calls on the wire, the
token in `localStorage`, each tab's copy and the storage events not yet delivered. A
request sends, gets a 401, joins or starts its tab's refresh and is resumed when that
settles. Every call may be lost before or after the server acted.

## 3. Runs

| Run | Instance | States | Shows |
|---|---|---|---|
| `layout` | 1 job, 2 slots, 1 reaper, 1 re-delivery, 1 attempt | 378,875 | `SingleRunner`, `BundleBacked`, `AbortIsNotFailure`; implements `JobLifecycle`, stale cancels held (`KeepsLifecycle`); every job is settled (`Settles`) |
| `design` | 1 job, 2 slots, 1 reaper, 1 re-delivery, 2 calls | 341,555 | `SingleRunner`; implements `JobLifecycle`, stale cancels and the handlers' outcomes held; `Settles` |
| `sim` | 1 row, 2 slots, 2 attempts, 1 stall, 1 operator's retry, a host that kills | 1,944,790 (slots symmetric) | `NoPrematureVerdict`, `CompletedIsSettled`; implements `SimulationLifecycle` |
| `verify` | nominal and up to 3 batches, 4 combinations of checks, bars 0.6 and 0.5, batches of 2 to 8 samples | 12,795,434 | `FailIsEarned`, `PassIsEarned`, `SamplerAndGraderAgree` |
| `runner` | 2 deliveries of a job, 2 remedies, a batch of 2 with 3 attempts, 1 crash | 1,455,094 | `InfraToldApart`, `OwnData` |
| `designloop` | 6 drafts, 6 circuits asked for, a round of tools | 5,916,798 | `ClaimsAreBacked`, `RubricKept`, `SpendBounded` |
| `document` | 1 editor, 2 edits, other clients without limit | 857,868 | `LatestIsQueued`, `CleanMeansSaved`, `Backed`; the queue drains (`QueueDrains`) |
| `editor` | 3 parts, 3 places, 3 wires, 2 edits, 1 level of undo, groups of 2 | 169,530 | `WiresAgree`; `EditHistory` implements `UndoTimeline` (`KeepsTimeline`); `EditsMoveNothing`, `DeletionParts` |
| `circuits` | 20,890 circuits, verification and design loop | 251,682 | `BoundToNamedNet`, `NamedNetIsAnswered`, `LogicIsDriven`, `NoSilentMerge` |
| `members` | 2 users, 1 address, 2 calls, 2 offers | 2,483,849 | `OneJoinPerOffer`, `OwnersDecideOwnership`, `LastOwnerLostOnlyByRace` |
| `assets` | 1 key, 2 commits, limits 0 and 1, 1 spilled result | 2,026,540 | `DanglingOnlyInWindow`, `NothingLeaks`, `CommitsFit` |
| `sessions` | 2 tabs of 2 requests, 3 tokens, 2 calls | 906,854 | `OneLiveToken`, `ReuseHasCause`, `SignOutIsFinal` |

Four configurations beside these are not meant to pass: each checks what a comment of the
code says and the code does not do, and TLC answers with an execution that shows it
(Refuted statements, below).

**Types.** Every module with variables states its type invariant. It is a theorem for
`LayoutJob`, `DesignJob`, `SimulationJob`, `SimulationRunner`, `OrgMembers`,
`CircuitCheck`, `DocumentSync` and `EditorSession`, and a conjunct of the proved
invariant for `Sessions` and `AssetStore`. `DesignLoop` and `VerifyDesign` have proved
invariants with types of their own (`RequestTypes`, which leaves out the bound TLC
needs; `LifecycleTypeOK` and `RequestOK`). No run repeats them: an `INVARIANT` line in a
`.cfg` checks one.

**Bounds.** Layout, design and simulation rows do not interact: every action names one
row, except the reaper, whose sweep takes its rows one at a time, so one job shows what
many do (the proofs are for any number). Two slots are needed for two handlers of one
job; a third adds none of a new kind. `MaxStalled = 1` is BullMQ's default.
`MaxAttempts` of `LayoutJob` bounds the margin ladder: an attempt has no effect on the
row. `MaxAttempts = 2` of `SimulationJob` (3 in the program) has a first and a last
attempt, which is what `isFinalAttempt` tells apart; `MaxRetries` bounds only the
operator. `Ladder = 2` (3 in the program) has a remedy after which another one follows
and a last one; `HostKills` lets the host kill a process; `AttemptCap` is above `Target`
and `Target` is `MinRuns`, so a batch can be full, short but usable, and short. In
`verify` the bars of the program's robustness profiles, which ask for hundreds of
samples, are lowered until a batch that stops early, one that is full and one that is
cut differ and every grade is reached within eight samples; a flawless batch needs
`RequiredRuns` = 6 of them. Six circuits in `designloop` let two candidates be screened
and one of them be repaired twice, past the budget; one round of tools tells a
conversation with them from one without. In `document` two edits and one level of undo
give an edit in flight, a newer one queued, and a return to the older; other clients
save without bound; `MaxOrphans` bounds the saves a closed editor may have on the wire
while the next one is opened (0: the next editor opens when they have ended). One tab is
enough since `SavedElsewhere` does to it what any other could on another device;
`PatientUser` says that the user waits for "load theirs" to be answered (see
Divergences), and `SharedDevice` lets tabs share `localStorage`: `document` has one tab,
so that it makes no difference there; two tabs with one copy are the instance of
`MCSharedDevice.cfg`, and of the theorem `WorkIsBacked`. In `editor` one level of history is what
makes the oldest document fall off after two edits. The boards of `circuits` are all
those of a supply and up to four parts of a catalogue (resistors, a controlled source,
gates, flip-flops, tristates, connectors) over four nets; a divider and a gate with
every pair of ids and names that are hard on the sanitiser; and boards chosen for two
grounds, a second source, a branch current, a net that only catalogue parts touch, or a
part with a terminal missing; `MaxDefaultProbes = 3` leaves a net of the larger boards
beyond the default probes. Two calls in `members` are what a race needs; `MaxOffers`
lets an address be invited again after an offer lapsed, and the two users are the one
who owns and the one who is invited, in any mix of roles. Three tokens in `sessions` are
a family with a used, a live and a next token. `assets` has one key since keys carry the
asset's id; the limit reached by one commit is met by the second.

Of the passing runs, deadlock is checked in `members`, `assets`, `designloop`, `runner` and
`editor`. In the other seven the system stops: a settled job whose queue job was evicted, a closed
editor, a finished request, a session without token, a circuit that was judged.

**Fairness.** `layout` and `design` assume that a create call ends; that clocks
advance; that the reaper's interval fires and that its query, its look at a row and
its write do not fail for ever (strong fairness of the last two, because an error
skips the row until the next sweep: `startLayoutReaper` runs for the life of the
worker); that a handler that has not crashed goes on (routers and KiCad run under
timeouts, LLM calls too); that BullMQ delivers a waiting job (strong, because slots
are busy in between); and that it notices a dead worker's lock. Nothing is assumed of
users, crashes, or locks lost by living workers. `document` assumes that the user
pauses for the debounce now and then, and that a request is answered or fails. The
other runs claim no liveness. For `sim` there is none to claim: simulations have no
reaper, and a row whose enqueue failed or whose job BullMQ gave up on stays QUEUED or
RUNNING; the pollers of `verify` end by their own deadline, which is an action here.

**Mutants.** Every property of a run has a mutant in `PROJECT.json`: a bug of the kind
it is there for (a claim by id alone, a save's failure that does not requeue, a batch
graded by its raw yield, a refresh that ignores what another tab stored), under which
the run must fail.

### Refuted statements

Four sentences of the code, stated as properties that TLC finds violated. No passing run
and no theorem rests on them.

| Configuration (module) | Property | The code says | What it does |
|---|---|---|---|
| `MCSimulationShared.cfg` (`MCSimulationJob`) | `OutageIsNotBlamed` | "an infra outage must never be reported to the user as a design failure" (`runner.ts:55`) | the handlers of one row work in one directory (`runner.ts:73`), which the first to end removes (`:175`); after a lost lock that takes the netlist from under the other, ngspice exits with an error, and a good deck is FAILED with class `sim` |
| `MCDesignBudget.cfg` (`MCDesignLoop`) | `BudgetIsCeiling` | "Hard ceiling on paid LLM requests for the whole design request" (`multi-candidate.ts:39`, also `:11`, `config.ts:120`) | the budget is compared before each finalist (`:140`), whose fixes are added when its loop is over (`:151`): the result itself counts more |
| `MCDesignBilling.cfg` (`MCDesignLoop`) | `BilledOnceEach` | "exactly one request per generate/fix" of the tool-less worker (`worker-sim/src/design/processor.ts:53`) | a repair (`llm-core/src/index.ts:350`) and a resend (`model-client.ts:130`) are billed too: up to four requests for one |
| `MCSharedDevice.cfg` (`MCDocumentSync`) | `ClearedWhenSafe` | "Cleared ONLY here, where the document is genuinely safe elsewhere" (`useDocument.ts:468`) | the copy is kept by project (`draftStore.ts:71`): a save that ends in one tab removes the copy of what another tab of the browser has not saved |

`KeepsLifecycle` and `FailIsEarned` therefore except rows that were disturbed, `SpendBounded`
states the bounds the code keeps, and `Backed` is about tabs whose copy no other tab has
touched since.

### Divergences found while modelling

Places where the code does something other than a comment, a document or a reader would
say. The models have them as the code has them, which is why some properties are weaker
than one would like; the properties of the runs hold with all of them.

Jobs:

* `layout.service.ts:176`: a cancel reads the row, awaits, and writes CANCELED by id: it
  can overwrite a settled row, against "First terminal state wins" (`processor.ts:76`).
  Of `JobLifecycle` this is a held verdict (`StaleCancels`).
* `pcb-worker/src/layout/processor.ts:372`: `glbKey` is assigned before its upload and
  survives the catch, so a SUCCEEDED row can name a rendering nobody stored.
* `reaper.ts:129`: the sweep's snapshot may have `startedAt` null for a job that has
  started since; it is then judged by `createdAt`, and killed healthy if it had waited
  for long, against the header of the file (16–18).
* `worker-sim/src/design/processor.ts:212`: `finish` names the row by id alone and
  overwrites a CANCELED row, or one the reaper has failed (`HeldOutcomes`).
* `admin-queue.service.ts:72`: an operator's cancel looks a simulation's job up under the
  row's id, under which only a retry enqueues; a waiting simulation is refused as started.
* `admin.service.ts:856`: a retry ignores that the old job of that id could not be
  removed; the new one is dropped as a duplicate and the row stays QUEUED. The retry that
  fails writes FAILED without a failure class, which reads as the design's fault, and no
  retry asks the quota again. Its payload has no `modelAssets` (the comment at 831 says
  so), so that a deck which needs them fails for itself.

Simulation and verification:

* `runner.ts:114`: a run killed by the timeout is diagnosed by its stderr and may climb
  the ladder, against `runner.ts:108`.
* Two deliveries of a job share a directory: they can overwrite each other's deck, and the
  first to end removes it (above). `OwnData` is about runs that had theirs to
  themselves; `InfraToldApart` holds of all, as what the runner noticed.
* `runner.ts:222`: an ngspice that the host kills, for its memory, is
  reported like one that rejected the deck. `sim` has it as a disturbance.
* `verification.service.ts`: the row is read again after the poll, and an operator's
  retry in between gives a QUEUED row without stderr, judged as failed. A rate limit is
  reported as an unreachable worker. A check that was asked for is silently left out
  when the earlier batch turns the gate, an overload declared without assertions stays
  `inconclusive`, a corner all of whose runs failed is disclosed as violated at 0, and a
  batch in which nothing could be evaluated is reported as a design without tolerances.
  Batches get the circuit without `attachGenericModels`. An analysis that leaves no
  series (`.sens`) completes and is judged as failed.
* `design-core.ts:213`: the loop asks the generator for the branch currents of its
  criteria only, not for `extraProbesForCriteria`: a criterion on `v(a,b)` has no column
  and can never be met in the loop, though a verification answers it
  (`assertions.ts:211` calls the seam "the ONE place").
* `design-core.ts:260`: the fix after a netlist that cannot be generated does not
  preserve the metric overlays, unlike the other two.

Netlists (`eda-core`):

* `generator.ts:1047`: "verification is never starved" by the cap on default probes, since a
  criterion's probe is supplied explicitly (1031); but `extraProbesForCriteria` adds none
  for the voltage of one net (`assertions.ts:215`, "auto-probed"), so a criterion on a net
  beyond the 64th is never answered. `NamedNetIsAnswered` is about sampled nets.
* a resistor called `1` is emitted as `r1` and answers a criterion on the current of a
  controlled source called `r1`, which is emitted as `er1`; a name that is another net's
  twin (`nb_p` beside the logic net `b`) captures that net's default probe; a ground net that
  only a gate's output touches gets the twin `0_p`, which is then what `0` means in a
  difference. `BoundToNamedNet` and `NamedNetIsAnswered` assume `NamesAreApart` for these.
* a default probe of a net whose node has another net's name is rewritten to that other
  node, and its own column is lost (`generator.ts`, near 455); an analog twin named like
  an id overrides that id in the probe map; nets called `one` and `none` share the
  evaluator's key; a net that no device touches gets a default probe, which makes ngspice
  drop the line; `@d1[id]` never finds the column of `i(D1)`.
* the rule check takes unflagged ground symbols and net 0 as ground, the generator only
  `isGround`; it counts logic gates as conducting; an undeclared net in the digital part
  throws a plain `Error`.

Web:

* `working-copy.service.ts:81`: the token is read back in a second query, so an answer
  can carry another client's token and the next save replaces a document nobody showed.
* `useDocument.ts:682`: "load theirs" forgets a save that is still on the wire, whose
  completion then reports clean over a document the server does not hold. `document`
  therefore assumes a patient user.
* The local copy is keyed by the project alone: with two tabs on one device a discard, like
  a clean save (above), deletes the copy of the other tab's unsent work.
* `SchematicCanvas.tsx:1113`, `ProjectEditor.tsx:203`: turning, mirroring and aligning a
  part leave its wires' recorded ends behind. `WiresAgree` is therefore about the
  terminals that a wire records, not its coordinates. A drag that an undo has crossed
  writes positions of parts that are gone (`SchematicCanvas.tsx:1252`), and the first
  deletion of a wire starts from the raw drawing (`ProjectEditor.tsx:366`). No property
  is about such a position; a copy that gets the number of a part that is gone is placed
  beside its original, whatever position was left.
* `client.ts:275`: a late 401 that joins another pair's refresh can end a session whose
  token is good.

Organizations and usage:

* `orgs.service.ts:229`: owners are counted in one statement and removed in another; two
  calls leave an organization without an owner. `LastOwnerLostOnlyByRace` states that
  nothing but such a race does.
* `getOrgUsage` shows the limit of the environment, not the organization's override; the
  override `partsCallsPerMonth` is used nowhere; a suspension is read before the lock,
  which no property forbids. A commit whose second look finds no object and whose
  roll-back then fails leaves its row (`assets.service.ts:139`): `DanglingOnlyInWindow` is
  about commits that were answered with success.

## 4. Proofs

Of the forty properties of the passing runs, thirty-seven are theorems. Each proof is for every
value of the constants that the named `ASSUME` of the modules allows; TLC evaluates these
assumptions in every run. A theorem `Spec => []P` is proved by an invariant that implies
`P`, a theorem `Spec => [][A]_v` by showing `A` of every step from such an invariant; a
refinement by mapping initial states and steps. The parts of an invariant are named for
what they say, and the lemmas come one per action, or group of actions that change the
same thing.

| Constants | Assumed |
|---|---|
| `JobQueue`, `LayoutJob`, `DesignJob`, `SimulationJob` | the value for "nobody" is no worker and no job; whether the host kills is true or false; bounds are naturals, attempts at least 1 where the code has at least one |
| `DesignLoop` | there is an answer of the model, answers and requests are of the DTO's ranges |
| `VerifyDesign`, `YieldBatch` | the runs of a request are the nominal one and the checks asked for; bars are shares of `Whole`, neither none nor all of it, the marginal below the robust |
| `SimulationRunner` | at least one sample is wanted, and no more than may be attempted |
| `OrgMembers` | an invited address is a user's, "nobody" is none of them, bounds are naturals |
| `CircuitCheck` | nets and parts are lists, a part has finitely many pins, a net is known by its id (`probe-map.ts:62` relies on it, nothing checks it); a criterion is on nets or parts of its circuit; no node is called `0` but ground's, and the names tried for a made-up node differ, which is about the spelling of numbers and beyond the provers |
| `Sessions` | at least one token may be issued |
| `AssetStore` | finitely many commits, 0 (no limit) among the limits |
| `DocumentSync` | finitely many tabs |
| `Schematic`, `EditHistory` | a part has finitely many pins, there are places for all parts; undo keeps at least one document |
| `EditorSession` | a document that is opened is `Stored`: every pin of its parts is on a net of the design, and of the model's signals at most as many as there are pins are on no pin (the code's `n1`, `n2`, ... never run out); if the editor owns its drawing, that has a place for every part and wires that agree with the netlist; otherwise it has no wires; parts and wires are at places of the sheet |

### Jobs: JobQueueProofs, LayoutJobProofs, DesignProofs I

`LayoutJobProofs`, for any sets of jobs, slots and reapers, any stall limit and any
attempt budget:

| Theorem | Says |
|---|---|
| `TypeCorrect`, `Invariance` | types, and the inductive invariant `Inv` |
| `OneRunner` | at most one handler works on a job |
| `BundlesAreBacked` | an offered bundle is stored, and its row succeeded or was canceled late |
| `SuccessHasNoError` | a SUCCEEDED row has no message |
| `NoSpontaneousCancel` | CANCELED was asked for |
| `AbortCancels` | a seen abort ends as CANCELED |
| `ImplementsLifecycle` | every step of the row is one of `JobLifecycle` or a stutter: once settled, it changes only by a cancel that read QUEUED |

`TypeOK` is inductive; the safety properties are not. `SingleRunner` says nothing of a
second handler that is about to claim: it needs that a handler past the claim has a
row that is not QUEUED, and that no step makes a row QUEUED again. `BundleBacked` looks at
the row, but what is true of it is decided in the handler: a handler that will
publish has stored the bundle first, and publishes only with SUCCEEDED.
`AbortIsNotFailure` needs that after a swallowed abort only `judge` can follow.
`HandlerFacts(w)` collects what each stage knows, `RowExists` that a row which is
queued, active or being handled exists; `Inv` is their conjunction with the types and
the properties.

`JobQueueProofs` holds what layout and design jobs share: the steps of the API, the
client, the reaper and time. It says that they keep the types (`JobStepType`), that they
take no row back and make none QUEUED but a new one (`JobStepGrows`), that a row which
is queued or being created exists (`JobStepExists`), and that each is one update of one
row that is live, or the write of a cancel that read QUEUED (`JobStepUpdate`). The
reaper's write is over a set; it is one update since a sweep dooms at most one row
(`OneDoomed`).

`DesignProofs`, part I, proves `TypeCorrect`, `Invariance`, `OneSpender` (at most one
handler works on a job) and `ImplementsLifecycle` for the design worker. Its terminal
write has no condition, so a settled row may be settled again. What the argument rests
on instead is that no step makes a row QUEUED: a handler past its claim has a row that
is not QUEUED for good. Only a handler whose claim threw comes to its terminal write
without having claimed, and only to fail the row; hence a SUCCEEDED never meets a QUEUED
row, and every write is a `Succeed`, a `Fail` or a `Cancel` of the life cycle, over a
settled row one that the handler `held`. That no handler stores a result over another's
(`Succeed` asks for none) needs `OneRuns` once more: the first to succeed is the only
one past its claim (`FirstResult`), and stays so (`FirstStays`).

### Design requests: DesignProofs II

For any answers of the model, any request the DTO allows, any budget:

| Theorem | Says |
|---|---|
| `LoopInvariant` | `LoopSpec => []LoopInv` |
| `ResultsAreBacked` | what a result claims was established on the very circuit it returns |
| `RubricIsKept` | no fix drops or relaxes a criterion the candidate was generated with |
| `SpendIsBounded` | the circuits asked for are bounded, the calls billed by four for each and two for a round of tools; a fanned-out result counts the circuits |

A result is put together by the last round from pieces of several: the circuit of the
latest answer, the criteria of the first, verdicts of the judge. `ResultsOK` says of each
collected result what is to hold of the one picked. `Kept(rubric, criteria)` is a loop
invariant: every fix hands the criteria on, and adds one only for a required quantity
that the rubric does not measure. The bound needs more than the sum of the screens and
the loops: the orchestrator counts a loop when it is over, and looks at its budget
between finalists only. `SpendOK` says that its count of circuits is the truth but for the loop
under way (`Spent`), that a finalist was begun under the budget, and that before the
first finalist nothing but the screens was asked for. `BillsOK` says what was billed for
as many circuits; tools are used in the first answer of a single candidate only.

### Verifications: DesignProofs III

For any checks asked for, any bars and sizes of batches:

| Theorem | Says |
|---|---|
| `VerificationInvariant` | `VerifySpec => []VerifyInv` |
| `FailuresAreEarned` | a design is called failed only for a reason about the circuit, unless an operator retried its run, or another handler or the host disturbed it |
| `PassesAreEarned` | a design called verified ran, met its criteria, and no whole batch on the user's own tolerances condemned it |
| `SamplerAgreesWithGrader` | a batch ended early because its tier was decided is given a tier; a flawless batch of the required size is robust |

`FailIsEarned` looks at the answer, but the row that is read twice (`ResultOK`) decides
it: without an operator's retry, a row that was seen SUCCEEDED is still one that can
succeed when it is read again, and one seen FAILED belongs to a deck that can fail or to
a disturbed run, whatever handlers of it are left. This is where
`SimulationLifecycle`, which `SimulationJob` implements by `SimulationProofs`, carries a
guarantee of one component into another. `VerdictOK` must hold while batches are still
running, so the verdict is open exactly until the nominal run was judged (`RequestOK`).
The third theorem is arithmetic on the Wilson interval, with squares instead of roots:
the batch of `RequiredRuns` is where `n * (Whole - bar) >= z^2 * bar` first holds, and
the lemmas go from there to the lower bound of a flawless batch, for every `Whole`; with
1000 and a bar of 999 it has 3838 samples, as in `montecarlo.ts:260`.

### Simulations: SimulationProofs I

For any numbers of rows, slots, attempts, stalls and retries:

| Theorem | Says |
|---|---|
| `TypeCorrect`, `Invariance` | types, and the inductive invariant |
| `NoneTooEarly` | while BullMQ will retry a job, no poll sees it failed for infrastructure |
| `CompletionSettles` | a completed BullMQ job has settled its row |
| `ImplementsLifecycle` | every step of the row, and of what disturbs it, is one of `SimulationLifecycle` or a stutter |

Here a RUNNING row may be claimed again, so that several handlers may run one row and
each may write it. None of the properties is inductive. `SimFacts(s)` says what holds of
a row that no operator has retried: it has no second BullMQ job, a completed job has
settled it, and an infrastructure failure means that the job is on its last attempt.
`HandlerFacts(w)` says what a handler may still do to it: a handler that is about to
write has an outcome that its row may have (by the deck, a retry, or a disturbance, which
is never forgotten), one that is about to report success has a settled row,
and one that was told it is the last still is, as long as the job is pending at all.
What makes these stable under everybody else's steps is `Kept(s)`: no step takes back an
operator's retry, makes a settled row live without one, or delivers the API's job again
after its last attempt. Every action is shown to satisfy `Kept`, and one lemma
(`Assembled`) draws the conclusion.

### The job directory: SimulationProofs II

For any number of deliveries of a job, remedies, attempts and crashes:

| Theorem | Says |
|---|---|
| `RunnerInvariant`, `RunnerTypes` | the inductive invariant `RunnerInv`, and types |
| `OutagesAreToldApart` | infrastructure is reported exactly when something could not be launched or written; any other failure is the first attempt's |
| `SamplesAreOwn` | a batch that has the directory for itself judges each variant on its own process's data |

`OwnData` is about the samples; what is true of them is decided by files. `FilesOK` says
which attempt wrote the deck and the data that a batch meets at each of its steps: the
data of the attempt before are removed before the next process is started, so that a
process which writes nothing leaves nothing to be read. It holds only of a run that
shares the directory with nobody, and two runs in one directory are both marked
(`Apart`), a fact that entering and leaving the directory must keep. `OutagesAreToldApart`
needs no such condition: `SimulationOK` says, at each step, that a run still trying has
met no outage, and that it climbs the ladder only from a first failure that looks like
one to converge.

### Circuits: CircuitProofs

For any list of nets and parts, any names and any criteria on them:

| Theorem | Says |
|---|---|
| `CircuitInvariant`, `CircuitTypeCorrect` | the invariant of a check, and types |
| `NothingMerges` | two pins meet in a node exactly when the drawing connects them and they are of one domain; made-up nodes are apart from all others |
| `LogicHasOneDriver` | in the deck of a circuit that passed the rules every logic input is driven, and nothing is fought over |
| `CriteriaAreBound` | a criterion is decided by the column of the net it names |
| `WhatIsNamedIsAnswered` | the line is lost only to a net that no device touches, and a verification answers every criterion on sampled nets |

A check has three steps and its invariant says little more than that each starts from what
the one before made (`CircuitInv`). The work is in what is made. The plan of the bridges is
a recursion over the nets, the output line one over the probes. Each is unfolded once, and
`Ascent`, an induction over `0 .. n` for a set and not for an operator, carries a fact from
each position to the next. `PlanOK(c, plan, k)` says what is true of the plan when `k` nets
have been looked at: which nets have a twin or an event node, which bridge each has and in
which direction, and that every made-up node was unused when it was made. That an unused
name is always found is the pigeonhole principle (`FreshName`).

`NothingMerges` follows from the plan and from the refusal of colliding nodes.
`LogicHasOneDriver` is about two modules that never speak to each other: the rules count
drivers on a net, the deck has nodes. The pins at a node are the pins of one domain on one
net (`WhereTwoPinsMeet`), hence its outputs are those that the rules counted and its bridge
goes the way the rules assumed. For the criteria, `LineFacts` says that the line holds the
columns of its probes and no others, and `Reaches` what a name is rewritten to: the node
that carries the voltage of the net it names, if the names are apart. The same rewriting
is done to the probe that makes the column and to the criterion that looks for it, and
again by the sanitiser to both keys (`SameSpelling`); that the two ends meet is the point of
both theorems.

### Members and invitations: OrganizationProofs I

For any users, addresses, calls and number of offers:

| Theorem | Says |
|---|---|
| `MembersTypeCorrect`, `MembersInvariant` | types, and the inductive invariant |
| `JoinedOncePerOffer` | an invitation's link gives one seat |
| `OwnershipIsDecidedByOwners` | only an owner, an operator or an owner's offer changes who owns |
| `LastOwnerIsLostOnlyByRace` | the last owner is lost only to a call whose count was overtaken |

`OneJoinPerOffer` is about uses that lie apart in time: it needs that an offer which
still stands has not been used (`OffersOK`, `ClaimsOK`), through renewals and
revocations that cross an acceptance. The two action properties look at one write, but
what justifies the write was read by its call earlier: `CallsOK` says of a call about to
write what it has been allowed, and that an administrator's offer is never of ownership.

### Sessions: SessionsProofs

For any tabs, requests, tokens and calls on the wire:

| Theorem | Says |
|---|---|
| `Invariance` | `Spec => []Inv`, types included |
| `SessionHasOneToken` | a session never has two live tokens |
| `ReuseIsNotSelfMade` | a reuse is seen only if another tab presented the token too, or a tab had given up waiting for its refresh |
| `SignOutsAreFinal` | after a sign-out the session comes back only by signing in, or in a tab the event has not reached |

The first rests on the server alone. `RotationOK`: only the last row of a family is not
used, and every other was used by a granted call; `GrantsOK`: by one, which was given
the successor. That a tab makes no reuse by itself needs the browser: the tab must never
again hold a token whose refresh it has dealt with. But a tab takes over what is in
`localStorage`, which other tabs write from answers that arrive in any order. `SpentOK`
says that a token once out of `localStorage` does not come back to it. It is inductive
only with `HandoverOK`: the successor in an answer that is on its way is known to no
tab, is not stored and has been presented by nobody, since the one tab that waits for
it stores it, once; whoever does not wait any more drops it.

### Assets: OrganizationProofs II

For any keys, any finite set of commits, any limits:

| Theorem | Says |
|---|---|
| `StorageInvariant` | `Spec => []Inv`, types included |
| `RowsKeepTheirObjects` | a row without its object went in between a deletion's last check and its request, or a commit's second look had failed |
| `DeletesLeaveNothing` | when the last row of a key is deleted and nothing failed or came back, the object is gone |
| `LimitHolds` | commits that see a limit take no more room together than the limit each read |

`LockOK` ties the lock to the one commit that has checked; `RoomOK` says that what it
checked, the spilled bytes being those it read, stays true until its insert, because
deletions only free room and no other commit inserts under a limit meanwhile.
`WindowOK`: a deletion's window, between counting the rows of the key and removing the
object, opens only on a key without rows, so a row met in it is marked as having raced.
The counts are of finite sets, with the library's facts on `Cardinality`.

### Saving a document: EditorProofs I

For any tabs and edits, and any number of saves left on the wire:

| Theorem | Under | Says |
|---|---|---|
| `TypeCorrect` | – | types; there is always a fresh token |
| `SessionsHold` | `PatientUser` | the invariant of an editor |
| `WorkIsQueued` | `PatientUser` | no failed, refused or overtaken save drops what is on screen |
| `SavedIsTrue` | `PatientUser` | "saved" is said only of what the server accepted or gave out |
| `WorkIsBacked` | `PatientUser` | what the server does not hold is on the device or about to be, unless another tab of the device has written or removed the copy since |

The hypothesis is the constant the run sets and is needed: it excludes the divergence
above in which "load theirs" forgets a save. Whether tabs share a device is open; where
none do, `overwritten` is FALSE by the types and the exception is empty. The invariant
is a formula on one editor, its calls and its request: at most one call is heard, and it
carries the document in flight (`WireOK`); an editor that loads again has nothing to
send (`LoadOK`); what is queued, or in flight with an empty queue, is what is shown
(`QueueOK`). For the local copy, `CopyOK` also follows the write that a closed editor's
timer will still make, which the next editor's own write must come after. Since an
editor's part has no primes, each step is proved on values, and one lemma (`TabKeeps`)
carries them to the state.

### Gestures and undo: EditorProofs II

For any design, any drawing it may be opened with, any limit of the history:

| Theorem | Says |
|---|---|
| `EditorInvariant` | `EditorSpec => []EditorInv` |
| `DrawingAgrees` | a stored wire names a net of the design and ends only on its terminals |
| `HistoryKeepsTimeline` | the commit kernel implements `UndoTimeline` |
| `NothingMoves` | an edit of the netlist, done, undone or redone, moves no part and no wire that stays |
| `DeletionPartsNets` | deleting wires parts what only they held together, and nothing else |
| `EditorTypeCorrect` | types: every document of the history, and a drag, lies on the sheet |

The stacks with the document on screen are one line of documents (`Line`); its length is
bounded, each document may be stored (`Stored`), and neighbours show what they share in
one place (`Still`). The last is what makes `NothingMoves` true of undo: it walks between
neighbours, which were made neighbours by an edit. `KernelSteps` says that a gesture is, to
the kernel, a commit of a document that may stand next to the one shown, an undo, a redo,
or a document from elsewhere that starts a line of its own. The drawing
of a netlist nobody has drawn is frozen before it is edited, which needs an order of the
pins; that a next number for a wire exists needs that drawings are finite. A wire is
redrawn from the terminals it records, so `RedrawnIsStored` holds whatever the edits did
to the netlist, as long as it is still a design.

That it is, `ListsKeep` says for any list of edits, one lemma per edit under it (`ConnectKeeps`,
`DisconnectKeeps`, ...). Each that makes nets needs signals not yet taken: a merge, a move or
a split leaves no more of them unused than pins, which is the last part of `CircuitOK`.

`DeletionPartsNets` is proved in four steps. `Joined` is a closure computed in as many
rounds as there are members; `JoinedIs` shows it to be the least closed set, by the round
in which it stops growing, and `ConductorIs` and `IslandIs` read conductors and islands
off it. Fewer wires hold less together (`MoreWires`), so the pieces of a deletion refine
the islands before it (`PlannedPieces`). A list of splits separates two pins of a net
exactly if one split takes one of them alone (`SplitsPart`). Last, the redrawing after
the splits drops none of the wires that were left (`WiresStay`), because all the ends
recorded on a conductor are in one piece (`EndsTogether`): what the property reads as the
wires left is what is stored.

`EditorTypeCorrect` adds `SheetInv` to the invariant: one lemma per gesture shows that it
leaves a drawing on the sheet. The one that could fail is `PlaceForAll`: a part without a
position finds a free place, because no more places are taken than parts are placed.

### Only model-checked

* `Settles` of both jobs and `QueueDrains`: liveness needs fairness and `ENABLED`, which
  TLAPS does not support.

## 5. Not modelled

* What tools compute: ngspice, Freerouting, KiCad, the LLM and its prompts and providers.
  Their answers are choices; what is done with them is modelled.
* The numerical half of `eda-core` (values, metrics of a waveform, device models, the
  statistics of a distribution), the geometry of `pcb-core` and `pcb-preflight` and the
  Rust placement engine: sequential computation over floating-point numbers, with unit
  tests; a finite model of it would check the model's arithmetic and not the code's.
* Rendering, routing of screen wires, panels, the shell of the web application, the 3D
  viewer, scripts, seeds and benchmarks. Most of the repository's lines are of these two
  kinds, which is why the map covers a part of them only.
* Parts catalogues, projects, versions, templates, health and e-mail: each request is one
  or two statements on rows nobody else writes concurrently in a way a rule depends on.
* The lock-out counter, registration and password change of `auth`; rate limits. Queue
  pausing, priorities: they delay a delivery, which the model allows for any time anyway.
* Reads, listings, DTO validation, logging, metrics. The inline simulator of the API and
  the disclosure manifest of a verification.
* Switching projects inside one `useDocument`: the page's key prevents it. The working
  copy's DELETE, which no screen of the web app calls.

## 6. Plan

Done: the modules of section 2, and theorems for every property of a run that is within
the provers' reach as the modules stand. Next, in this order:

1. Admission and quotas (`usage.service.ts`): guarded creates under the
   per-organization lock, suspension, changed limits.
2. Integer algorithms left: placement legality and net ordering of `pcb-core` against
   reference definitions.
