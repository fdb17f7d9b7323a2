----------------------------- MODULE DocumentSync -----------------------------
(***************************************************************************)
(* The draft of one project, edited in several tabs.                       *)
(*                                                                         *)
(* The server keeps one row, its document and an updatedAt that serves as  *)
(* concurrency token (WorkingCopyService).  Each tab runs useDocument: an  *)
(* edit is scheduled, sent after a pause, and kept on the device until the *)
(* server has it; a save may be refused, fail, or be applied although its  *)
(* reply is lost.  A document is a number: 0 is the saved version the      *)
(* project opens with when it has no draft, an edit makes the next one, and *)
(* Foreign is what clients outside the model save.                         *)
(***************************************************************************)
EXTENDS Integers, FiniteSets

CONSTANTS
    Tabs,          \* browser tabs that open the project
    SharedDevice,  \* TRUE: the tabs share a device, so one local draft store
    PatientUser,   \* TRUE: after "load theirs" the user waits for the answer
    MaxEdits,      \* bound: edits made in all tabs
    MaxOrphans     \* bound: saves a closed editor has left on the wire

ASSUME DocumentSyncAssumption ==
    /\ IsFiniteSet(Tabs)
    /\ SharedDevice \in BOOLEAN /\ PatientUser \in BOOLEAN
    /\ MaxEdits \in Nat
    /\ MaxOrphans \in Nat

VARIABLES
    draft,    \* the working-copy row
    calls,    \* saves on the wire, per tab
    editor,   \* useDocument's state, per tab
    load,     \* the request that opens or reloads the project, per tab
    device,   \* the local copy in the draft store
    overwritten, \* another tab of the device has written or removed it since
    late,     \* local write that outlives the editor that scheduled it
    edits     \* edits made so far

vars == <<draft, calls, editor, load, device, overwritten, late, edits>>

copyVars == <<device, overwritten>>

-----------------------------------------------------------------------------

NoDoc == -1
NoToken == 0
Foreign == MaxEdits + 1
Docs == 0..Foreign
MaybeDoc == Docs \cup {NoDoc}

Draft == [doc : Docs, token : Nat]

\* sent      on its way to the server     applied   row updated, token not read back
\* ok        answered with a token        refused   answered 409
\* heard: the editor that sent it still runs.
Call == [doc : Docs, expect : Nat, token : Nat, heard : BOOLEAN,
         stage : {"sent", "applied", "ok", "refused"}]

\* doc: what is on screen; under: what one undo, or redo, would show.
\* safe: what the server last told this editor it holds, by a load or a save;
\* waived: what the user gave up, the next save or the local copy of doc.
Editor == [open : {"closed", "loading", "open"}, doc : MaybeDoc, under : MaybeDoc,
           token : Nat, pending : MaybeDoc, inFlight : MaybeDoc, timer : BOOLEAN,
           unpersisted : MaybeDoc, backup : BOOLEAN, recovery : MaybeDoc,
           status : {"clean", "dirty", "saving", "conflict", "error"},
           safe : MaybeDoc, waived : SUBSET {"save", "copy"}]

Fresh(open) ==
    [open |-> open, doc |-> NoDoc, under |-> NoDoc, token |-> NoToken,
     pending |-> NoDoc, inFlight |-> NoDoc, timer |-> FALSE,
     unpersisted |-> NoDoc, backup |-> TRUE, recovery |-> NoDoc,
     status |-> "clean", safe |-> NoDoc, waived |-> {}]

Load == [stage : {"none", "asked", "read"}, doc : MaybeDoc, token : Nat]

LoadStage(stage) == [stage |-> stage, doc |-> NoDoc, token |-> NoToken]

TypeOK ==
    /\ draft \in Draft
    /\ \A t \in Tabs : calls[t] \subseteq Call
    /\ editor \in [Tabs -> Editor]
    /\ \A t \in Tabs : editor[t].open # "open" => ~editor[t].timer
    /\ load \in [Tabs -> Load]
    /\ device \in [Tabs -> MaybeDoc]
    /\ overwritten \in [Tabs -> {FALSE, SharedDevice}]
    /\ late \in [Tabs -> MaybeDoc]
    /\ edits \in 0..MaxEdits

Init ==
    /\ draft = [doc |-> 0, token |-> NoToken]
    /\ calls = [t \in Tabs |-> {}]
    /\ editor = [t \in Tabs |-> Fresh("closed")]
    /\ load = [t \in Tabs |-> LoadStage("none")]
    /\ device = [t \in Tabs |-> NoDoc]
    /\ overwritten = [t \in Tabs |-> FALSE]
    /\ late = [t \in Tabs |-> NoDoc]
    /\ edits = 0

\* The store a tab writes to.
Store(t) == IF SharedDevice THEN CHOOSE u \in Tabs : TRUE ELSE t

\* t writes the copy, or removes it, whichever tab it came from.
Keep(t, doc) ==
    /\ device' = [device EXCEPT ![Store(t)] = doc]
    /\ overwritten' = [u \in Tabs |-> u # t /\ (overwritten[u] \/ Store(u) = Store(t))]

-----------------------------------------------------------------------------
(* The server.                                                             *)

TokensHeld ==
    {draft.token} \cup {editor[t].token : t \in Tabs} \cup {load[t].token : t \in Tabs}
    \cup UNION {{c.expect, c.token} : c \in UNION {calls[t] : t \in Tabs}}

\* A new updatedAt: different from every one that anybody still holds.
NewToken == CHOOSE n \in 1..(Cardinality(TokensHeld) + 1) : n \notin TokensHeld

\* The answer to an editor that is gone is not kept.
Answer(t, c, answer) ==
    calls' = [calls EXCEPT ![t] = (@ \ {c}) \cup (IF c.heard THEN {answer} ELSE {})]

\* Without a token an upsert, whose answer carries the row's new token.
Upsert(t, c) ==
    /\ c.stage = "sent"
    /\ c.expect = NoToken
    /\ draft' = [doc |-> c.doc, token |-> NewToken]
    /\ Answer(t, c, [c EXCEPT !.stage = "ok", !.token = NewToken])
    /\ UNCHANGED <<editor, load, copyVars, late, edits>>

\* With a token one conditional update.
CompareAndSet(t, c) ==
    /\ c.stage = "sent"
    /\ c.expect # NoToken
    /\ IF draft.token = c.expect
       THEN /\ draft' = [doc |-> c.doc, token |-> NewToken]
            /\ Answer(t, c, [c EXCEPT !.stage = "applied"])
       ELSE /\ UNCHANGED draft
            /\ Answer(t, c, [c EXCEPT !.stage = "refused"])
    /\ UNCHANGED <<editor, load, copyVars, late, edits>>

\* The token of the row is read back in a query of its own.
ReadBack(t, c) ==
    /\ c.stage = "applied"
    /\ Answer(t, c, [c EXCEPT !.stage = "ok", !.token = draft.token])
    /\ UNCHANGED <<draft, editor, load, copyVars, late, edits>>

\* Another client's save, from a tab that is not in Tabs, on another device.
SavedElsewhere ==
    /\ draft' = [doc |-> Foreign, token |-> NewToken]
    /\ UNCHANGED <<calls, editor, load, copyVars, late, edits>>

LoadRead(t) ==
    /\ load[t].stage = "asked"
    /\ load' = [load EXCEPT ![t] = [stage |-> "read", doc |-> draft.doc,
                                    token |-> draft.token]]
    /\ UNCHANGED <<draft, calls, editor, copyVars, late, edits>>

-----------------------------------------------------------------------------
(* The save that ends.                                                     *)

NewCall(doc, expect) ==
    [doc |-> doc, expect |-> expect, token |-> NoToken, heard |-> TRUE, stage |-> "sent"]

\* sendFor up to its await: e sends doc.
Sending(e, doc) == [e EXCEPT !.inFlight = doc, !.pending = NoDoc, !.status = "saving"]

\* Mutant of Succeed: what was queued meanwhile is taken as saved.
SucceedForgetsQueue(t, c) ==
    /\ c.heard /\ c.stage = "ok"
    /\ editor' = [editor EXCEPT ![t] =
                    [@ EXCEPT !.token = c.token, !.safe = c.doc, !.pending = NoDoc,
                              !.inFlight = NoDoc, !.status = "clean", !.unpersisted = NoDoc]]
    /\ Keep(t, NoDoc)
    /\ calls' = [calls EXCEPT ![t] = @ \ {c}]
    /\ UNCHANGED <<draft, load, late, edits>>

\* Mutant of Succeed: what was queued meanwhile waits for a timer that has fired.
SucceedLeavesQueue(t, c) ==
    LET queued == editor[t].pending # NoDoc IN
    /\ c.heard /\ c.stage = "ok"
    /\ editor' = [editor EXCEPT ![t] =
                    [@ EXCEPT !.token = c.token, !.safe = c.doc, !.inFlight = NoDoc,
                              !.status = IF queued THEN "dirty" ELSE "clean"]]
    /\ calls' = [calls EXCEPT ![t] = @ \ {c}]
    /\ UNCHANGED <<draft, load, copyVars, late, edits>>

\* Mutant of Succeed: the local copy goes although more edits are queued.
SucceedClearsAlways(t, c) ==
    LET saved  == [editor[t] EXCEPT !.token = c.token, !.safe = c.doc,
                                    !.unpersisted = NoDoc]
        queued == saved.pending \notin {NoDoc, c.doc}
    IN
    /\ c.heard /\ c.stage = "ok"
    /\ editor' = [editor EXCEPT ![t] =
                    IF queued THEN Sending(saved, saved.pending)
                    ELSE [saved EXCEPT !.pending = NoDoc, !.inFlight = NoDoc,
                                       !.status = "clean"]]
    /\ Keep(t, NoDoc)
    /\ calls' = [calls EXCEPT ![t] = (@ \ {c}) \cup
                    (IF queued THEN {NewCall(saved.pending, c.token)} ELSE {})]
    /\ UNCHANGED <<draft, load, late, edits>>

\* The save succeeded.  What was edited meanwhile is sent at once; otherwise all
\* is clean and the local copy goes.
Succeed(t, c) ==
    LET saved  == [editor[t] EXCEPT !.token = c.token, !.safe = c.doc]
        queued == saved.pending \notin {NoDoc, c.doc}
    IN
    /\ c.heard /\ c.stage = "ok"
    /\ IF queued
       THEN /\ editor' = [editor EXCEPT ![t] = Sending(saved, saved.pending)]
            /\ calls' = [calls EXCEPT ![t] =
                            (@ \ {c}) \cup {NewCall(saved.pending, c.token)}]
            /\ UNCHANGED copyVars
       ELSE /\ editor' = [editor EXCEPT ![t] =
                            [saved EXCEPT !.pending = NoDoc, !.inFlight = NoDoc,
                                          !.status = "clean", !.unpersisted = NoDoc]]
            /\ calls' = [calls EXCEPT ![t] = @ \ {c}]
            /\ Keep(t, NoDoc)
    /\ UNCHANGED <<draft, load, late, edits>>

\* Mutant of Fail: the document that failed does not go back in the queue.
FailForgets(t, c) ==
    /\ c.heard
    /\ editor' = [editor EXCEPT ![t] =
                    [@ EXCEPT !.inFlight = NoDoc,
                              !.status = IF c.stage = "refused" THEN "conflict" ELSE "error"]]
    /\ calls' = [calls EXCEPT ![t] = @ \ {c}]
    /\ UNCHANGED <<draft, load, copyVars, late, edits>>

\* A 409, or an error that may hit the call before or after the row was updated.
\* The document goes back in the queue unless a newer one is there.
Fail(t, c) ==
    LET e == editor[t] IN
    /\ c.heard
    /\ \E status \in {"error"} \cup (IF c.stage = "refused" THEN {"conflict"} ELSE {}) :
          editor' = [editor EXCEPT ![t] =
                       [e EXCEPT !.inFlight = IF @ = c.doc THEN NoDoc ELSE @,
                                 !.pending = IF @ = NoDoc THEN c.doc ELSE @,
                                 !.status = status]]
    /\ calls' = [calls EXCEPT ![t] = @ \ {c}]
    /\ UNCHANGED <<draft, load, copyVars, late, edits>>

\* A call nobody listens to is lost before the server sees it.
Vanish(t, c) ==
    /\ ~c.heard
    /\ calls' = [calls EXCEPT ![t] = @ \ {c}]
    /\ UNCHANGED <<draft, editor, load, copyVars, late, edits>>

-----------------------------------------------------------------------------
(* Opening, reloading and leaving.                                         *)

Mount(t) ==
    /\ editor[t].open = "closed"
    /\ Cardinality(calls[t]) <= MaxOrphans
    /\ editor' = [editor EXCEPT ![t] = Fresh("loading")]
    /\ load' = [load EXCEPT ![t] = LoadStage("asked")]
    /\ UNCHANGED <<draft, calls, copyVars, late, edits>>

LoadFails(t) ==
    /\ load[t].stage \in {"asked", "read"}
    /\ load' = [load EXCEPT ![t] = LoadStage("none")]
    /\ UNCHANGED <<draft, calls, editor, copyVars, late, edits>>

\* The loaded document replaces what is on screen.  A local copy that differs
\* is offered, one that is the same is dropped; a local write that is still
\* scheduled stays scheduled.
Adopt(t) ==
    LET opened == load[t]
        kept == device[Store(t)]
    IN
    /\ opened.stage = "read"
    /\ editor' = [editor EXCEPT ![t] =
                    [Fresh("open") EXCEPT !.doc = opened.doc, !.safe = opened.doc,
                        !.token = opened.token,
                        !.unpersisted = editor[t].unpersisted,
                        !.backup = editor[t].backup,
                        !.recovery = IF kept = opened.doc THEN NoDoc ELSE kept]]
    /\ IF kept = opened.doc THEN Keep(t, NoDoc) ELSE UNCHANGED copyVars
    /\ load' = [load EXCEPT ![t] = LoadStage("none")]
    /\ UNCHANGED <<draft, calls, late, edits>>

\* The editor is gone: of its calls only those that may still change the row matter.
Unheard(cs) == {[c EXCEPT !.heard = FALSE] : c \in {d \in cs : d.stage = "sent"}}

Flushed(e) ==
    IF e.pending # NoDoc /\ e.inFlight = NoDoc THEN {NewCall(e.pending, e.token)} ELSE {}

\* The editor is closed and the page lives on: what is pending is sent, unless
\* a save is open, and the local write will still happen.  Bound: one local write
\* at a time outlives its editor.
Unmount(t) ==
    LET e == editor[t] IN
    /\ e.open # "closed"
    /\ late[t] = NoDoc \/ e.unpersisted = NoDoc
    /\ calls' = [calls EXCEPT ![t] = Unheard(@ \cup Flushed(e))]
    /\ late' = [late EXCEPT ![t] = IF e.unpersisted = NoDoc THEN @ ELSE e.unpersisted]
    /\ editor' = [editor EXCEPT ![t] = Fresh("closed")]
    /\ load' = [load EXCEPT ![t] = LoadStage("none")]
    /\ UNCHANGED <<draft, copyVars, edits>>

\* The tab is gone, with everything in its memory.
Crash(t) ==
    /\ editor[t].open # "closed" \/ late[t] # NoDoc
    /\ calls' = [calls EXCEPT ![t] = Unheard(@)]
    /\ late' = [late EXCEPT ![t] = NoDoc]
    /\ editor' = [editor EXCEPT ![t] = Fresh("closed")]
    /\ load' = [load EXCEPT ![t] = LoadStage("none")]
    /\ UNCHANGED <<draft, copyVars, edits>>

-----------------------------------------------------------------------------
(* The local copy.                                                         *)

\* persistNow: after 250 ms or on pagehide.  The store may refuse.  The timer of
\* the tab's earlier editor is older and fires first.
Persist(t) ==
    LET e == editor[t] IN
    /\ e.unpersisted # NoDoc
    /\ late[t] = NoDoc
    /\ \/ /\ Keep(t, e.unpersisted)
          /\ editor' = [editor EXCEPT ![t] = [e EXCEPT !.unpersisted = NoDoc, !.backup = TRUE]]
       \/ /\ UNCHANGED copyVars
          /\ editor' = [editor EXCEPT ![t] = [e EXCEPT !.unpersisted = NoDoc, !.backup = FALSE]]
    /\ UNCHANGED <<draft, calls, load, late, edits>>

PersistLate(t) ==
    /\ late[t] # NoDoc
    /\ late' = [late EXCEPT ![t] = NoDoc]
    /\ \/ Keep(t, late[t])
       \/ UNCHANGED copyVars
    /\ UNCHANGED <<draft, calls, editor, load, edits>>

-----------------------------------------------------------------------------
(* The user.                                                               *)

\* The editor is open and the user does something in it.
Acts(t) ==
    /\ editor[t].open = "open"
    /\ PatientUser => load[t].stage = "none"

\* schedule: e shows doc from now on.
Scheduled(e, doc) ==
    [e EXCEPT !.doc = doc, !.pending = doc, !.timer = TRUE, !.unpersisted = doc,
              !.status = IF @ = "conflict" THEN @ ELSE "dirty", !.waived = {}]

Edit(t) ==
    /\ Acts(t)
    /\ edits < MaxEdits
    /\ edits' = edits + 1
    /\ editor' = [editor EXCEPT ![t] = [Scheduled(@, edits + 1) EXCEPT !.under = editor[t].doc]]
    /\ UNCHANGED <<draft, calls, load, copyVars, late>>

\* One level of history: an undo and the redo that takes it back.
UndoRedo(t) ==
    LET e == editor[t] IN
    /\ Acts(t)
    /\ e.under # NoDoc
    /\ editor' = [editor EXCEPT ![t] = [Scheduled(e, e.under) EXCEPT !.under = e.doc]]
    /\ UNCHANGED <<draft, calls, load, copyVars, late, edits>>

\* The queue is sent, unless a save is open.
Flush(t) ==
    LET e == [editor[t] EXCEPT !.timer = FALSE] IN
    /\ IF e.pending # NoDoc /\ e.inFlight = NoDoc
       THEN /\ editor' = [editor EXCEPT ![t] = Sending(e, e.pending)]
            /\ calls' = [calls EXCEPT ![t] = @ \cup {NewCall(e.pending, e.token)}]
       ELSE editor' = [editor EXCEPT ![t] = e] /\ UNCHANGED calls
    /\ UNCHANGED <<draft, load, copyVars, late, edits>>

Autosave(t) == editor[t].timer /\ Flush(t)

\* "Try again".
Retry(t) ==
    /\ Acts(t)
    /\ editor[t].status = "error"
    /\ editor[t].recovery = NoDoc
    /\ Flush(t)

InConflict(t) ==
    /\ Acts(t)
    /\ editor[t].status = "conflict"
    /\ editor[t].recovery = NoDoc

\* "Save mine": without a token.
OverwriteWithMine(t) ==
    LET e == editor[t]
        mine == IF e.pending # NoDoc THEN e.pending ELSE e.doc
    IN
    /\ InConflict(t)
    /\ e.inFlight = NoDoc
    /\ editor' = [editor EXCEPT ![t] = [Sending(e, mine) EXCEPT !.waived = @ \ {"save"}]]
    /\ calls' = [calls EXCEPT ![t] = @ \cup {NewCall(mine, NoToken)}]
    /\ UNCHANGED <<draft, load, copyVars, late, edits>>

\* "Discard mine": what is pending goes and the project is loaded again.
TakeTheirs(t) ==
    LET e == editor[t] IN
    /\ InConflict(t)
    /\ editor' = [editor EXCEPT ![t] =
                    [e EXCEPT !.timer = FALSE, !.pending = NoDoc, !.waived = @ \cup {"save"}]]
    /\ load' = [load EXCEPT ![t] = LoadStage("asked")]
    /\ UNCHANGED <<draft, calls, copyVars, late, edits>>

RecoverLocal(t) ==
    LET e == editor[t] IN
    /\ Acts(t)
    /\ e.recovery # NoDoc
    /\ editor' = [editor EXCEPT ![t] =
                    [Scheduled(e, e.recovery) EXCEPT !.under = NoDoc, !.recovery = NoDoc]]
    /\ UNCHANGED <<draft, calls, load, copyVars, late, edits>>

\* The copy goes, and the one scheduled for what is on screen with it.
DiscardLocal(t) ==
    LET e == editor[t] IN
    /\ Acts(t)
    /\ e.recovery # NoDoc
    /\ Keep(t, NoDoc)
    /\ editor' = [editor EXCEPT ![t] =
                    [e EXCEPT !.recovery = NoDoc, !.unpersisted = NoDoc,
                              !.waived = @ \cup {"copy"}]]
    /\ UNCHANGED <<draft, calls, load, late, edits>>

-----------------------------------------------------------------------------

ServerStep(t) == \E c \in calls[t] :
    Upsert(t, c) \/ CompareAndSet(t, c) \/ ReadBack(t, c)

ReplyStep(t) == \E c \in calls[t] : Succeed(t, c) \/ Fail(t, c)

UserStep(t) ==
    \/ Edit(t) \/ UndoRedo(t) \/ Retry(t) \/ OverwriteWithMine(t) \/ TakeTheirs(t)
    \/ RecoverLocal(t) \/ DiscardLocal(t)

TabStep(t) ==
    \/ Mount(t) \/ LoadFails(t) \/ Adopt(t) \/ Unmount(t) \/ Crash(t)
    \/ Autosave(t) \/ Persist(t) \/ PersistLate(t)

Next ==
    \/ SavedElsewhere
    \/ \E t \in Tabs :
          \/ ServerStep(t) \/ LoadRead(t) \/ ReplyStep(t)
          \/ \E c \in calls[t] : Vanish(t, c)
          \/ UserStep(t) \/ TabStep(t)

\* The user pauses for the debounce now and then, and a request is answered or
\* fails in the end.
Fairness == \A t \in Tabs :
    WF_vars(Autosave(t)) /\ WF_vars(ServerStep(t)) /\ WF_vars(ReplyStep(t))

Spec == Init /\ [][Next]_vars

FairSpec == Spec /\ Fairness

-----------------------------------------------------------------------------

\* What is on screen and not on the server is what will be sent next, through
\* failed and refused saves, edits and undos while a save is open, and reloads:
\* the buttons that resolve a conflict have the user's work to send (useDocument:
\* "A CONFLICT MUST HAVE A WAY OUT THAT KEEPS THE WORK").
LatestIsQueued ==
    \A t \in Tabs : LET e == editor[t] IN
        e.open = "open" /\ e.doc # e.safe /\ "save" \notin e.waived
        => e.doc = IF e.pending # NoDoc THEN e.pending ELSE e.inFlight

\* An editor that shows "saved" shows a document the server accepted from it or
\* gave to it last (useDocument: the save state "clean").
CleanMeansSaved ==
    \A t \in Tabs : editor[t].open = "open" /\ editor[t].status = "clean"
        => editor[t].doc = editor[t].safe

\* The work of a tab survives the tab: it is on the device or about to be written
\* there, unless the editor says that the device refused or the user threw the copy
\* away.
Survives(t) ==
    LET e == editor[t] IN
    e.open = "open" /\ e.doc # e.safe /\ "copy" \notin e.waived /\ e.backup
    => e.unpersisted = e.doc \/ device[Store(t)] = e.doc

\* What is on screen and not on the server survives the tab, as long as no other
\* tab of the device writes the copy or removes it (useDocument: persistNow and
\* what a save that ends clears, against what is scheduled and what outlives an
\* earlier editor).
Backed == \A t \in Tabs : overwritten[t] \/ Survives(t)

\* The copy is "Cleared ONLY here, where the document is genuinely safe elsewhere",
\* says useDocument of a save that ends.  The store has one copy of a project for
\* all tabs of the device, and it may be another tab's work that the save clears.
ClearedWhenSafe ==
    [][\A t, u \in Tabs :
          Survives(t) /\ (\E c \in calls[u] : Succeed(u, c)) => Survives(t)']_vars

\* What is queued is sent in the end, or the editor says what went wrong, or it
\* is closed (useDocument: without the queue "the last keystrokes of a fast typist
\* would sit unsaved until they typed again").
QueueDrains ==
    \A t \in Tabs :
        editor[t].pending # NoDoc ~>
            \/ editor[t].pending = NoDoc
            \/ editor[t].status \in {"conflict", "error"}

=============================================================================
