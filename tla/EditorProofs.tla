---------------------------- MODULE EditorProofs ----------------------------
(***************************************************************************)
(* Proofs about the web editor.                                            *)
(*                                                                         *)
(* I.  DocumentSync, for any number of tabs and of edits.  Types need      *)
(* nothing; what an editor still has to send (LatestIsQueued) and what it  *)
(* says of that (CleanMeansSaved) need a user who waits for "load theirs"  *)
(* to be answered, and so does the local copy (Backed), whose owner another *)
(* tab of the device can take it from.  An editor's part of the invariant is a formula on its     *)
(* state, its calls and its request, without primes: each step is proved   *)
(* on those values, and TabKeeps carries the result to the state.          *)
(*                                                                         *)
(* II.  EditorSession, for any history limit and any design.  The undo     *)
(* stacks are looked at as one line of documents with a place on it.  Each *)
(* document of the line may be stored, and next to each other they show    *)
(* the parts and wires they share in one place; a gesture adds a document  *)
(* to the line or walks along it.  Then what a deletion of wires parts,    *)
(* from what a closure and a list of edits do; and the types.              *)
(***************************************************************************)
EXTENDS DocumentSync, EditorSession, FiniteSetTheorems, SequenceTheorems,
        WellFoundedInduction, TLAPS

\* A step that names no prover is given a minute of each.
USE SMTT(60), ZenonT(60)

-----------------------------------------------------------------------------
(* I.  Documents and local copies.                                         *)

-----------------------------------------------------------------------------
(* The inductive invariant.                                                *)

\* An open editor shows a document, and a request that was read brings one.
ShownOK(e, l) ==
    /\ e.open = "open" => e.doc \in Docs
    /\ e.open # "open" => ~e.timer
    /\ l.stage = "read" => l.doc \in Docs

CallsOK ==
    /\ calls \in [Tabs -> SUBSET Call]
    /\ \A t \in Tabs : IsFiniteSet(calls[t])

Types == TypeOK /\ CallsOK /\ \A t \in Tabs : ShownOK(editor[t], load[t])

\* At most one call is heard, that of the document in flight.
WireOK(e, cs) ==
    /\ \A c \in cs, d \in cs : c.heard /\ d.heard => c = d
    /\ \A c \in cs : c.heard => e.open = "open" /\ c.doc = e.inFlight

\* While an open editor is loaded again, it has nothing to send.
LoadOK(e, l) ==
    e.open = "open" /\ l.stage # "none" =>
        e.inFlight = NoDoc /\ e.pending = NoDoc /\ ~e.timer

\* What is queued, or in flight with an empty queue, is what is shown; with
\* neither, what is shown is safe or waived.
QueueOK(e) ==
    e.open = "open" =>
        /\ e.pending \in {NoDoc, e.doc}
        /\ e.pending = NoDoc => e.inFlight \in {NoDoc, e.doc}
        /\ e.pending = NoDoc /\ e.inFlight = NoDoc => e.doc = e.safe \/ "save" \in e.waived
        /\ e.status = "conflict" => e.inFlight = NoDoc
        /\ e.status = "clean" => e.pending = NoDoc /\ e.inFlight = NoDoc /\ e.doc = e.safe

SessionOK(e, cs, l) == WireOK(e, cs) /\ LoadOK(e, l) /\ QueueOK(e)

Sessions == \A t \in Tabs : SessionOK(editor[t], calls[t], load[t])

\* The editor claims a copy of what it shows on its device.
Claims(e) == e.open = "open" /\ e.status # "clean" /\ "copy" \notin e.waived /\ e.backup

\* d: the copy on the device; o: another tab has written or removed it since; w: the
\* write of an earlier editor that is still to come, and after which this editor's
\* own comes.
CopyOK(e, d, o, w) ==
    /\ e.open = "open" /\ e.status # "clean" => e.unpersisted \in {NoDoc, e.doc}
    /\ Claims(e) /\ ~o => e.unpersisted = e.doc \/ d = e.doc
    /\ Claims(e) /\ w # NoDoc => e.unpersisted = e.doc

Copies ==
    \A t \in Tabs : CopyOK(editor[t], device[Store(t)], overwritten[t], late[t])

-----------------------------------------------------------------------------
(* Tokens.                                                                 *)

LEMMA ImageFinite ==
  ASSUME NEW S, IsFiniteSet(S), NEW f
  PROVE  IsFiniteSet({f[x] : x \in S})
<1> DEFINE T == {f[x] : x \in S}
           g == [x \in S |-> f[x]]
<1>1. g \in Surjection(S, T)
  BY DEF Surjection
<1> QED  BY <1>1, FS_Surjection

\* There is a fresh token: fewer are held than there are to choose from.
LEMMA TokenIsNumber ==
  ASSUME Types
  PROVE  NewToken \in Nat
<1>1. IsFiniteSet(Tabs) /\ CallsOK
  BY DocumentSyncAssumption DEF Types
<1>2. IsFiniteSet({editor[t].token : t \in Tabs}) /\ IsFiniteSet({load[t].token : t \in Tabs})
  <2> DEFINE f == [t \in Tabs |-> editor[t].token]
             g == [t \in Tabs |-> load[t].token]
  <2>1. IsFiniteSet({f[t] : t \in Tabs}) /\ IsFiniteSet({g[t] : t \in Tabs})
    BY <1>1, ImageFinite
  <2>2. {f[t] : t \in Tabs} = {editor[t].token : t \in Tabs}
    OBVIOUS
  <2>3. {g[t] : t \in Tabs} = {load[t].token : t \in Tabs}
    OBVIOUS
  <2> QED  BY <2>1, <2>2, <2>3
<1> DEFINE all == UNION {calls[t] : t \in Tabs}
           pairs == {{c.expect, c.token} : c \in all}
<1>3. IsFiniteSet(all)
  <2>1. IsFiniteSet({calls[t] : t \in Tabs})
    BY <1>1, ImageFinite
  <2>2. \A T \in {calls[t] : t \in Tabs} : IsFiniteSet(T)
    BY <1>1 DEF CallsOK
  <2> QED  BY <2>1, <2>2, FS_UNION
<1> HIDE DEF all
<1>4. IsFiniteSet(UNION pairs)
  <2> DEFINE f == [c \in all |-> {c.expect, c.token}]
  <2>1. IsFiniteSet({f[c] : c \in all})
    BY <1>3, ImageFinite
  <2>2. {f[c] : c \in all} = pairs
    OBVIOUS
  <2>3. IsFiniteSet(pairs)
    BY <2>1, <2>2
  <2>4. ASSUME NEW T \in pairs
        PROVE  IsFiniteSet(T)
    <3>1. PICK c \in all : T = {c.expect, c.token}
      OBVIOUS
    <3>2. T = ({} \cup {c.expect}) \cup {c.token}
      BY <3>1
    <3>3. IsFiniteSet({} \cup {c.expect})
      BY FS_EmptySet, FS_AddElement
    <3> QED  BY <3>2, <3>3, FS_AddElement
  <2> QED  BY <2>3, <2>4, FS_UNION
<1>5. IsFiniteSet(TokensHeld)
  <2>1. IsFiniteSet({draft.token})
    BY FS_Singleton
  <2>2. IsFiniteSet({draft.token} \cup {editor[t].token : t \in Tabs})
    BY <1>2, <2>1, FS_Union
  <2>3. IsFiniteSet({draft.token} \cup {editor[t].token : t \in Tabs}
                      \cup {load[t].token : t \in Tabs})
    BY <1>2, <2>2, FS_Union
  <2>4. IsFiniteSet({draft.token} \cup {editor[t].token : t \in Tabs}
                      \cup {load[t].token : t \in Tabs} \cup UNION pairs)
    BY <1>4, <2>3, FS_Union
  <2> QED  BY <2>4 DEF TokensHeld, all
<1>6. PICK k \in Nat : k = Cardinality(TokensHeld)
  BY <1>5, FS_CardinalityType
<1>7. \E n \in 1..(k + 1) : n \notin TokensHeld
  <2>1. SUFFICES ASSUME 1..(k + 1) \in SUBSET TokensHeld
                 PROVE  FALSE
    OBVIOUS
  <2>2. Cardinality(1..(k + 1)) <= k
    BY <1>5, <1>6, <2>1, FS_Subset
  <2>3. Cardinality(1..(k + 1)) = k + 1
    BY FS_Interval
  <2> QED  BY <2>2, <2>3
<1>8. NewToken \in 1..(k + 1)
  BY <1>6, <1>7 DEF NewToken
<1> QED  BY <1>8

-----------------------------------------------------------------------------
(* A step of one tab.                                                      *)

\* What every step is proved to keep, and under which hypotheses.
Keeps ==
    /\ Types'
    /\ PatientUser /\ Sessions => Sessions'
    /\ PatientUser /\ Sessions /\ Copies => Copies'

\* t goes on with the editor e, the calls cs and the request l.
Moves(t, e, cs, l) ==
    /\ editor' = [editor EXCEPT ![t] = e]
    /\ calls' = [calls EXCEPT ![t] = cs]
    /\ load' = [load EXCEPT ![t] = l]

\* The rest of the state keeps its type.
RestTyped ==
    /\ draft' \in Draft /\ edits' \in 0..MaxEdits
    /\ device' \in [Tabs -> MaybeDoc] /\ late' \in [Tabs -> MaybeDoc]
    /\ overwritten' \in [Tabs -> {FALSE, SharedDevice}]

SessionStep(t, e, cs, l) ==
    PatientUser /\ SessionOK(editor[t], calls[t], load[t]) => SessionOK(e, cs, l)

\* The other tabs of the device know whether their copy is touched.
OthersKnow(t) ==
    \A u \in Tabs : u # t /\ ~overwritten'[u] =>
        ~overwritten[u] /\ device'[Store(u)] = device[Store(u)]

CopyStep(t, e) ==
    PatientUser /\ SessionOK(editor[t], calls[t], load[t])
    /\ CopyOK(editor[t], device[Store(t)], overwritten[t], late[t]) =>
        /\ \A u \in Tabs : u # t => late'[u] = late[u]
        /\ OthersKnow(t)
        /\ CopyOK(e, device'[Store(t)], overwritten'[t], late'[t])

\* What is known of a tab before its step.
LEMMA Here ==
  ASSUME Types, NEW t \in Tabs
  PROVE  /\ editor[t] \in Editor /\ calls[t] \in SUBSET Call /\ load[t] \in Load
         /\ device[t] \in MaybeDoc /\ late[t] \in MaybeDoc
         /\ IsFiniteSet(calls[t]) /\ ShownOK(editor[t], load[t])
         /\ editor \in [Tabs -> Editor] /\ calls \in [Tabs -> SUBSET Call]
         /\ load \in [Tabs -> Load] /\ device \in [Tabs -> MaybeDoc]
         /\ overwritten \in [Tabs -> {FALSE, SharedDevice}]
         /\ late \in [Tabs -> MaybeDoc] /\ draft \in Draft /\ edits \in 0..MaxEdits
         /\ editor = [editor EXCEPT ![t] = editor[t]] /\ calls = [calls EXCEPT ![t] = calls[t]]
         /\ load = [load EXCEPT ![t] = load[t]]
<1>1. /\ editor \in [Tabs -> Editor] /\ calls \in [Tabs -> SUBSET Call]
      /\ load \in [Tabs -> Load] /\ device \in [Tabs -> MaybeDoc]
      /\ overwritten \in [Tabs -> {FALSE, SharedDevice}]
      /\ late \in [Tabs -> MaybeDoc] /\ draft \in Draft /\ edits \in 0..MaxEdits
      /\ IsFiniteSet(calls[t]) /\ ShownOK(editor[t], load[t])
  BY DEF Types, TypeOK, CallsOK
<1> QED  BY <1>1

\* A tab that writes the copy has it, and the others of its device know.
LEMMA StoreWritten ==
  ASSUME Types, NEW t \in Tabs, NEW doc \in MaybeDoc, Keep(t, doc)
  PROVE  /\ device' \in [Tabs -> MaybeDoc] /\ overwritten' \in [Tabs -> {FALSE, SharedDevice}]
         /\ device'[Store(t)] = doc /\ OthersKnow(t)
<1>1. device \in [Tabs -> MaybeDoc] /\ overwritten \in [Tabs -> {FALSE, SharedDevice}]
  BY Here
<1>2. \A u \in Tabs : Store(u) \in Tabs /\ (~SharedDevice => Store(u) = u)
  BY DEF Store
<1>3. /\ device' = [device EXCEPT ![Store(t)] = doc]
      /\ overwritten' = [u \in Tabs |-> u # t /\ (overwritten[u] \/ Store(u) = Store(t))]
  BY DEF Keep
<1>4. device' \in [Tabs -> MaybeDoc] /\ device'[Store(t)] = doc
  BY <1>1, <1>2, <1>3
<1>5. ASSUME NEW u \in Tabs
      PROVE  overwritten'[u] \in {FALSE, SharedDevice}
  <2>1. CASE SharedDevice
    BY <1>3, <2>1, DocumentSyncAssumption
  <2>2. CASE ~SharedDevice
    BY <1>1, <1>2, <1>3, <2>2, DocumentSyncAssumption
  <2> QED  BY <2>1, <2>2
<1>6. OthersKnow(t)
  <2> SUFFICES ASSUME NEW u \in Tabs, u # t, ~overwritten'[u]
               PROVE  ~overwritten[u] /\ device'[Store(u)] = device[Store(u)]
    BY DEF OthersKnow
  <2>1. ~overwritten[u] /\ Store(u) # Store(t)
    BY <1>3
  <2> QED  BY <1>1, <1>2, <1>3, <2>1
<1>7. overwritten' \in [Tabs -> {FALSE, SharedDevice}]
  BY <1>3, <1>5
<1> QED  BY <1>4, <1>6, <1>7

\* The copy stays.
LEMMA StoreStays ==
  ASSUME Types, NEW t \in Tabs, UNCHANGED <<device, overwritten>>
  PROVE  /\ device' \in [Tabs -> MaybeDoc] /\ overwritten' \in [Tabs -> {FALSE, SharedDevice}]
         /\ OthersKnow(t)
BY Here DEF OthersKnow

LEMMA TabKeeps ==
  ASSUME Types, NEW t \in Tabs, NEW e \in Editor, NEW cs \in SUBSET Call, NEW l \in Load,
         Moves(t, e, cs, l), IsFiniteSet(cs), ShownOK(e, l), RestTyped,
         SessionStep(t, e, cs, l), CopyStep(t, e)
  PROVE  Keeps
<1>1. /\ editor' \in [Tabs -> Editor] /\ calls' \in [Tabs -> SUBSET Call]
      /\ load' \in [Tabs -> Load]
      /\ editor'[t] = e /\ calls'[t] = cs /\ load'[t] = l
      /\ \A u \in Tabs : u # t => /\ editor'[u] = editor[u] /\ calls'[u] = calls[u]
                                  /\ load'[u] = load[u]
  BY Here DEF Moves
<1>2. \A u \in Tabs : ShownOK(editor'[u], load'[u]) /\ IsFiniteSet(calls'[u])
  BY <1>1 DEF Types, CallsOK
<1>3. \A u \in Tabs : editor'[u].open # "open" => ~editor'[u].timer
  BY <1>2 DEF ShownOK
<1>4. Types'
  <2>1. TypeOK'
    BY <1>1, <1>3 DEF TypeOK, RestTyped
  <2>2. CallsOK'
    BY <1>1, <1>2 DEF CallsOK
  <2>3. \A u \in Tabs : ShownOK(editor[u], load[u])'
    BY <1>2
  <2> QED  BY <2>1, <2>2, <2>3 DEF Types
<1>5. ASSUME PatientUser, Sessions PROVE Sessions'
  <2>1. SessionOK(e, cs, l)
    BY <1>5 DEF Sessions, SessionStep
  <2>2. ASSUME NEW u \in Tabs
        PROVE  SessionOK(editor'[u], calls'[u], load'[u])
    <3>1. CASE u = t
      BY <1>1, <2>1, <3>1
    <3>2. CASE u # t
      BY <1>1, <1>5, <3>2 DEF Sessions
    <3> QED  BY <3>1, <3>2
  <2> QED  BY <2>2 DEF Sessions
<1>6. ASSUME PatientUser, Sessions, Copies PROVE Copies'
  <2>1. /\ \A u \in Tabs : u # t => late'[u] = late[u]
        /\ OthersKnow(t)
        /\ CopyOK(e, device'[Store(t)], overwritten'[t], late'[t])
    BY <1>6 DEF Sessions, Copies, CopyStep
  <2>2. ASSUME NEW u \in Tabs
        PROVE  CopyOK(editor'[u], device'[Store(u)], overwritten'[u], late'[u])
    <3>1. CASE u = t
      BY <1>1, <2>1, <3>1
    <3>2. CASE u # t
      BY <1>1, <1>6, <2>1, <3>2 DEF Copies, CopyOK, OthersKnow
    <3> QED  BY <3>1, <3>2
  <2> QED  BY <2>2 DEF Copies
<1> QED  BY <1>4, <1>5, <1>6 DEF Keeps

\* No editor is touched.
LEMMA StillKeeps ==
  ASSUME Types, draft' \in Draft, UNCHANGED <<calls, editor, load, device, overwritten, late, edits>>
  PROVE  Keeps
BY DEF Keeps, Types, TypeOK, CallsOK, Sessions, Copies

-----------------------------------------------------------------------------
(* The server.                                                             *)

\* A call is answered in its place, or forgotten; its editor does not know yet.
LEMMA AnswerKeeps ==
  ASSUME Types, NEW t \in Tabs, NEW c \in calls[t], NEW answer \in Call,
         answer.heard = c.heard, answer.doc = c.doc, Answer(t, c, answer),
         draft' \in Draft, UNCHANGED <<editor, load, device, overwritten, late, edits>>
  PROVE  Keeps
<1> DEFINE cs == (calls[t] \ {c}) \cup (IF c.heard THEN {answer} ELSE {})
<1>1. cs \in SUBSET Call
  BY Here
<1>2. IsFiniteSet(cs)
  <2>1. IsFiniteSet(calls[t] \ {c})
    BY Here, FS_RemoveElement
  <2>2. CASE c.heard
    BY <2>1, <2>2, FS_AddElement
  <2>3. CASE ~c.heard
    BY <2>1, <2>3
  <2> QED  BY <2>2, <2>3
<1>3. Moves(t, editor[t], cs, load[t])
  BY Here DEF Moves, Answer
<1>4. RestTyped /\ ShownOK(editor[t], load[t])
  BY Here DEF RestTyped
<1>5. SessionStep(t, editor[t], cs, load[t])
  BY DEF SessionStep, SessionOK, WireOK
<1>6. CopyStep(t, editor[t])
  BY DEF CopyStep, OthersKnow
<1> HIDE DEF cs
<1> QED  BY <1>1, <1>2, <1>3, <1>4, <1>5, <1>6, Here, TabKeeps

LEMMA ServerKeeps ==
  ASSUME Types, NEW t \in Tabs, ServerStep(t)
  PROVE  Keeps
<1>1. PICK c \in calls[t] : Upsert(t, c) \/ CompareAndSet(t, c) \/ ReadBack(t, c)
  BY DEF ServerStep
<1>2. c \in Call /\ draft \in Draft /\ NewToken \in Nat
  BY Here, TokenIsNumber
<1>3. /\ c.doc \in Docs /\ draft.token \in Nat
      /\ [doc |-> c.doc, token |-> NewToken] \in Draft
  BY <1>2 DEF Call, Draft
<1>4. UNCHANGED <<editor, load, device, overwritten, late, edits>> /\ draft' \in Draft
  BY <1>1, <1>2, <1>3 DEF Upsert, CompareAndSet, ReadBack, copyVars
<1>5. PICK answer \in Call : answer.heard = c.heard /\ answer.doc = c.doc /\ Answer(t, c, answer)
  <2> DEFINE a1 == [c EXCEPT !.stage = "ok", !.token = NewToken]
             a2 == [c EXCEPT !.stage = "applied"]
             a3 == [c EXCEPT !.stage = "refused"]
             a4 == [c EXCEPT !.stage = "ok", !.token = draft.token]
  <2>1. /\ a1 \in Call /\ a1.heard = c.heard /\ a1.doc = c.doc
        /\ a2 \in Call /\ a2.heard = c.heard /\ a2.doc = c.doc
        /\ a3 \in Call /\ a3.heard = c.heard /\ a3.doc = c.doc
        /\ a4 \in Call /\ a4.heard = c.heard /\ a4.doc = c.doc
    BY <1>2, <1>3 DEF Call
  <2>2. Answer(t, c, a1) \/ Answer(t, c, a2) \/ Answer(t, c, a3) \/ Answer(t, c, a4)
    BY <1>1 DEF Upsert, CompareAndSet, ReadBack
  <2> HIDE DEF a1, a2, a3, a4
  <2> QED  BY <2>1, <2>2
<1> QED  BY <1>4, <1>5, AnswerKeeps

LEMMA SavedElsewhereKeeps ==
  ASSUME Types, SavedElsewhere
  PROVE  Keeps
<1>1. Foreign \in Docs
  BY DocumentSyncAssumption DEF Foreign, Docs
<1>2. draft' \in Draft
  BY <1>1, TokenIsNumber DEF SavedElsewhere, Draft
<1> QED  BY <1>2, StillKeeps DEF SavedElsewhere, copyVars

-----------------------------------------------------------------------------
(* The save that ends.                                                     *)

\* A new call, and the editor that sends it.
LEMMA SendingTypes ==
  ASSUME NEW e \in Editor, NEW doc \in Docs, NEW expect \in Nat
  PROVE  /\ NewCall(doc, expect) \in Call /\ NewCall(doc, expect).heard
         /\ NewCall(doc, expect).doc = doc
         /\ Sending(e, doc) \in Editor
         /\ Sending(e, doc).inFlight = doc /\ Sending(e, doc).pending = NoDoc
         /\ Sending(e, doc).status = "saving"
         /\ Sending(e, doc).open = e.open /\ Sending(e, doc).doc = e.doc
         /\ Sending(e, doc).safe = e.safe /\ Sending(e, doc).waived = e.waived
         /\ Sending(e, doc).timer = e.timer /\ Sending(e, doc).backup = e.backup
         /\ Sending(e, doc).unpersisted = e.unpersisted
BY DEF NewCall, Call, NoToken, Sending, Editor, MaybeDoc

\* An editor whose local copy stays as it is, that goes on showing a document
\* which is not safe.
LEMMA CopyStays ==
  ASSUME NEW t \in Tabs, NEW e \in Editor, UNCHANGED <<device, overwritten, late>>,
         e.doc = editor[t].doc, e.unpersisted = editor[t].unpersisted,
         e.backup = editor[t].backup, e.open = editor[t].open,
         "copy" \in editor[t].waived => "copy" \in e.waived,
         SessionOK(editor[t], calls[t], load[t]) => editor[t].status # "clean" \/ e.status = "clean"
  PROVE  CopyStep(t, e)
BY DEF CopyStep, CopyOK, Claims, OthersKnow

LEMMA SucceedKeeps ==
  ASSUME Types, NEW t \in Tabs, NEW c \in calls[t], Succeed(t, c)
  PROVE  Keeps
<1> DEFINE old == editor[t]
           saved == [old EXCEPT !.token = c.token, !.safe = c.doc]
<1>1. /\ old \in Editor /\ c \in Call /\ calls[t] \in SUBSET Call /\ IsFiniteSet(calls[t])
      /\ load[t] \in Load /\ ShownOK(old, load[t])
      /\ UNCHANGED <<draft, load, late, edits>> /\ c.heard
  BY Here DEF Succeed
<1>2. /\ c.doc \in Docs /\ c.token \in Nat /\ c.doc # NoDoc
  BY <1>1 DEF Call, Docs, NoDoc
<1>3. /\ saved \in Editor /\ saved.open = old.open /\ saved.doc = old.doc
      /\ saved.pending = old.pending /\ saved.inFlight = old.inFlight
      /\ saved.timer = old.timer /\ saved.unpersisted = old.unpersisted
      /\ saved.backup = old.backup /\ saved.status = old.status
      /\ saved.waived = old.waived /\ saved.safe = c.doc
  BY <1>1, <1>2, ZenonT(60) DEF Editor, MaybeDoc
<1>4. IsFiniteSet(calls[t] \ {c}) /\ calls[t] \ {c} \in SUBSET Call
  BY <1>1, FS_RemoveElement
<1>5. CASE saved.pending \notin {NoDoc, c.doc}
  <2> DEFINE e == Sending(saved, saved.pending)
             n == NewCall(saved.pending, c.token)
             cs == (calls[t] \ {c}) \cup {n}
  <2>1. saved.pending \in Docs
    BY <1>3, <1>5 DEF Editor, MaybeDoc
  <2> HIDE DEF saved
  <2>2. /\ n \in Call /\ n.heard /\ n.doc = saved.pending
        /\ e \in Editor /\ e.inFlight = saved.pending /\ e.pending = NoDoc
        /\ e.status = "saving" /\ e.open = old.open /\ e.doc = old.doc
        /\ e.safe = c.doc /\ e.waived = old.waived /\ e.timer = old.timer
        /\ e.backup = old.backup /\ e.unpersisted = old.unpersisted
    BY <1>2, <1>3, <2>1, SendingTypes
  <2>3. /\ editor' = [editor EXCEPT ![t] = e] /\ calls' = [calls EXCEPT ![t] = cs]
        /\ UNCHANGED <<device, overwritten>>
    BY <1>5 DEF Succeed, saved, copyVars
  <2> HIDE DEF e, n
  <2>4. cs \in SUBSET Call /\ IsFiniteSet(cs)
    BY <1>4, <2>2, FS_AddElement
  <2>5. Moves(t, e, cs, load[t]) /\ RestTyped
    BY <1>1, <2>3, Here DEF Moves, RestTyped
  <2>6. ShownOK(e, load[t])
    BY <1>1, <2>2 DEF ShownOK
  <2>7. ASSUME SessionOK(old, calls[t], load[t])
        PROVE  SessionOK(e, cs, load[t])
    <3>1. old.open = "open" /\ c.doc = old.inFlight
      BY <1>1, <2>7 DEF SessionOK, WireOK
    <3>2. \A d \in calls[t] : d.heard => d = c
      BY <1>1, <2>7 DEF SessionOK, WireOK
    <3>3. WireOK(e, cs)
      BY <2>2, <3>1, <3>2 DEF WireOK
    <3>4. LoadOK(e, load[t])
      BY <1>2, <2>7, <3>1 DEF SessionOK, LoadOK
    <3>5. old.pending = old.doc
      BY <1>3, <1>5, <2>7, <3>1 DEF SessionOK, QueueOK
    <3>6. QueueOK(e)
      BY <1>3, <1>5, <2>2, <3>1, <3>5 DEF QueueOK
    <3> QED  BY <3>3, <3>4, <3>6 DEF SessionOK
  <2>8. SessionStep(t, e, cs, load[t])
    BY <2>7 DEF SessionStep
  <2>9. CopyStep(t, e)
    <3>1. SessionOK(old, calls[t], load[t]) => old.status # "clean"
      BY <1>1, <1>2 DEF SessionOK, WireOK, QueueOK
    <3> QED  BY <1>1, <2>2, <2>3, <3>1, CopyStays
  <2> HIDE DEF cs
  <2> QED  BY <1>1, <2>2, <2>4, <2>5, <2>6, <2>8, <2>9, TabKeeps
<1>6. CASE saved.pending \in {NoDoc, c.doc}
  <2> DEFINE e == [saved EXCEPT !.pending = NoDoc, !.inFlight = NoDoc,
                                !.status = "clean", !.unpersisted = NoDoc]
             cs == calls[t] \ {c}
  <2>1. /\ e \in Editor /\ e.open = old.open /\ e.doc = old.doc /\ e.safe = c.doc
        /\ e.pending = NoDoc /\ e.inFlight = NoDoc /\ e.status = "clean"
        /\ e.timer = old.timer /\ e.unpersisted = NoDoc
    BY <1>3 DEF Editor, MaybeDoc
  <2>2. /\ editor' = [editor EXCEPT ![t] = e] /\ calls' = [calls EXCEPT ![t] = cs]
        /\ Keep(t, NoDoc)
    BY <1>6 DEF Succeed
  <2> HIDE DEF e, saved
  <2>3. /\ device' \in [Tabs -> MaybeDoc] /\ overwritten' \in [Tabs -> {FALSE, SharedDevice}]
        /\ OthersKnow(t)
    BY <2>2, StoreWritten DEF MaybeDoc
  <2>4. Moves(t, e, cs, load[t]) /\ RestTyped
    BY <1>1, <2>2, <2>3, Here DEF Moves, RestTyped
  <2>5. ShownOK(e, load[t])
    BY <1>1, <2>1 DEF ShownOK
  <2>6. ASSUME SessionOK(old, calls[t], load[t])
        PROVE  SessionOK(e, cs, load[t])
    <3>1. old.open = "open" /\ c.doc = old.inFlight
      BY <1>1, <2>6 DEF SessionOK, WireOK
    <3>2. WireOK(e, cs)
      BY <1>1, <2>6 DEF SessionOK, WireOK
    <3>3. LoadOK(e, load[t])
      BY <1>2, <2>6, <3>1 DEF SessionOK, LoadOK
    <3>4. old.doc = c.doc
      BY <1>2, <1>3, <1>6, <2>6, <3>1 DEF SessionOK, QueueOK
    <3> QED  BY <2>1, <3>2, <3>3, <3>4 DEF SessionOK, QueueOK
  <2>7. SessionStep(t, e, cs, load[t])
    BY <2>6 DEF SessionStep
  <2>8. CopyStep(t, e)
    BY <1>1, <2>1, <2>3 DEF CopyStep, CopyOK, Claims, OthersKnow
  <2> HIDE DEF cs
  <2> QED  BY <1>1, <1>4, <2>1, <2>4, <2>5, <2>7, <2>8, TabKeeps DEF cs
<1> QED  BY <1>5, <1>6

LEMMA FailKeeps ==
  ASSUME Types, NEW t \in Tabs, NEW c \in calls[t], Fail(t, c)
  PROVE  Keeps
<1> DEFINE old == editor[t]
           cs == calls[t] \ {c}
<1>1. /\ old \in Editor /\ c \in Call /\ calls[t] \in SUBSET Call /\ IsFiniteSet(calls[t])
      /\ load[t] \in Load /\ ShownOK(old, load[t])
      /\ UNCHANGED <<draft, load, device, overwritten, late, edits>> /\ c.heard
      /\ calls' = [calls EXCEPT ![t] = cs]
  BY Here DEF Fail, copyVars
<1>2. c.doc \in Docs /\ c.doc # NoDoc
  BY <1>1 DEF Call, Docs, NoDoc
<1>3. PICK status \in {"error", "conflict"} :
         editor' = [editor EXCEPT ![t] =
                      [old EXCEPT !.inFlight = IF @ = c.doc THEN NoDoc ELSE @,
                                  !.pending = IF @ = NoDoc THEN c.doc ELSE @,
                                  !.status = status]]
  <2>1. PICK answers : answers = IF c.stage = "refused" THEN {"conflict"} ELSE {}
    OBVIOUS
  <2>2. answers \subseteq {"conflict"}
    BY <2>1
  <2>3. PICK status \in {"error"} \cup answers :
           editor' = [editor EXCEPT ![t] =
                        [old EXCEPT !.inFlight = IF @ = c.doc THEN NoDoc ELSE @,
                                    !.pending = IF @ = NoDoc THEN c.doc ELSE @,
                                    !.status = status]]
    BY <2>1, ZenonT(60) DEF Fail
  <2> HIDE DEF old
  <2> QED  BY <2>2, <2>3, ZenonT(60)
<1> DEFINE flight == IF old.inFlight = c.doc THEN NoDoc ELSE old.inFlight
           queue == IF old.pending = NoDoc THEN c.doc ELSE old.pending
           e == [old EXCEPT !.inFlight = flight, !.pending = queue, !.status = status]
<1>4. flight \in MaybeDoc /\ queue \in MaybeDoc
  BY <1>1, <1>2 DEF Editor, MaybeDoc
<1>5. editor' = [editor EXCEPT ![t] = e]
  BY <1>3
<1> HIDE DEF flight, queue
<1>6. /\ e \in Editor /\ e.open = old.open /\ e.doc = old.doc /\ e.safe = old.safe
      /\ e.inFlight = flight /\ e.pending = queue
      /\ e.status = status /\ e.timer = old.timer /\ e.unpersisted = old.unpersisted
      /\ e.backup = old.backup /\ e.waived = old.waived
  BY <1>1, <1>4 DEF Editor
<1> HIDE DEF e
<1>7. IsFiniteSet(cs) /\ cs \in SUBSET Call
  BY <1>1, FS_RemoveElement
<1>8. Moves(t, e, cs, load[t]) /\ RestTyped
  BY <1>1, <1>5, Here DEF Moves, RestTyped
<1>9. ShownOK(e, load[t])
  BY <1>1, <1>6 DEF ShownOK
<1>10. ASSUME SessionOK(old, calls[t], load[t])
      PROVE  SessionOK(e, cs, load[t])
  <2>1. old.open = "open" /\ c.doc = old.inFlight
    BY <1>1, <1>10 DEF SessionOK, WireOK
  <2>2. WireOK(e, cs)
    BY <1>1, <1>10 DEF SessionOK, WireOK
  <2>3. LoadOK(e, load[t])
    BY <1>2, <1>10, <2>1 DEF SessionOK, LoadOK
  <2>4. QueueOK(e)
    BY <1>2, <1>6, <1>10, <2>1 DEF SessionOK, QueueOK, flight, queue
  <2> QED  BY <2>2, <2>3, <2>4 DEF SessionOK
<1>11. SessionStep(t, e, cs, load[t])
  BY <1>10 DEF SessionStep
<1>12. CopyStep(t, e)
  <2>1. SessionOK(old, calls[t], load[t]) => old.status # "clean"
    BY <1>1, <1>2 DEF SessionOK, WireOK, QueueOK
  <2> QED  BY <1>1, <1>6, <2>1, CopyStays
<1> HIDE DEF cs
<1> QED  BY <1>1, <1>6, <1>7, <1>8, <1>9, <1>11, <1>12, TabKeeps

LEMMA VanishKeeps ==
  ASSUME Types, NEW t \in Tabs, NEW c \in calls[t], Vanish(t, c)
  PROVE  Keeps
<1> DEFINE cs == calls[t] \ {c}
<1>1. /\ UNCHANGED <<draft, editor, load, device, overwritten, late, edits>>
      /\ calls' = [calls EXCEPT ![t] = cs]
  BY DEF Vanish, copyVars
<1>2. IsFiniteSet(cs) /\ cs \in SUBSET Call
  BY Here, FS_RemoveElement
<1>3. Moves(t, editor[t], cs, load[t]) /\ RestTyped
  BY <1>1, Here DEF Moves, RestTyped
<1>4. SessionStep(t, editor[t], cs, load[t]) /\ CopyStep(t, editor[t])
  BY <1>1 DEF SessionStep, CopyStep, OthersKnow, SessionOK, WireOK
<1> HIDE DEF cs
<1> QED  BY <1>2, <1>3, <1>4, Here, TabKeeps

-----------------------------------------------------------------------------
(* Opening, reloading and leaving.                                         *)

LEMMA FreshTypes ==
  ASSUME NEW open \in {"closed", "loading", "open"}
  PROVE  /\ Fresh(open) \in Editor /\ Fresh(open).open = open /\ ~Fresh(open).timer
         /\ Fresh(open).status = "clean" /\ Fresh(open).pending = NoDoc
         /\ Fresh(open).inFlight = NoDoc
         /\ Fresh(open).doc = NoDoc
<1>1. NoDoc \in MaybeDoc
  BY DEF MaybeDoc
<1> QED  BY <1>1 DEF Fresh, Editor, NoToken

LEMMA LoadTypes ==
  /\ LoadStage("none") \in Load /\ LoadStage("none").stage = "none"
  /\ LoadStage("asked") \in Load /\ LoadStage("asked").stage = "asked"
BY DEF LoadStage, Load, MaybeDoc, NoToken

\* An editor that is not open has nothing to keep.
LEMMA NothingToKeep ==
  ASSUME NEW e, NEW cs, NEW l, NEW d, NEW o, NEW w,
         e.open # "open", \A c \in cs : ~c.heard
  PROVE  SessionOK(e, cs, l) /\ CopyOK(e, d, o, w)
BY DEF SessionOK, WireOK, LoadOK, QueueOK, CopyOK, Claims

\* The request goes on, the editor does not know.
LEMMA LoadingKeeps ==
  ASSUME Types, NEW t \in Tabs, LoadRead(t) \/ LoadFails(t)
  PROVE  Keeps
<1>1. UNCHANGED <<draft, calls, editor, device, overwritten, late, edits>> /\ load[t].stage \in {"asked", "read"}
  BY DEF LoadRead, LoadFails, copyVars
<1>2. PICK l \in Load : /\ load' = [load EXCEPT ![t] = l]
                        /\ l.stage = "read" => l.doc \in Docs
                        /\ l.stage # "none" => load[t].stage # "none"
  <2>1. CASE LoadRead(t)
    <3> DEFINE l == [stage |-> "read", doc |-> draft.doc, token |-> draft.token]
    <3>1. l \in Load /\ l.doc \in Docs /\ l.stage = "read"
      BY Here DEF Draft, Load, MaybeDoc
    <3>2. load' = [load EXCEPT ![t] = l]
      BY <2>1 DEF LoadRead
    <3> HIDE DEF l
    <3> QED  BY <1>1, <3>1, <3>2
  <2>2. CASE LoadFails(t)
    BY <2>2, LoadTypes DEF LoadFails
  <2> QED  BY <2>1, <2>2
<1>3. Moves(t, editor[t], calls[t], l) /\ RestTyped
  BY <1>1, <1>2, Here DEF Moves, RestTyped
<1>4. ShownOK(editor[t], l)
  BY <1>2, Here DEF ShownOK
<1>5. SessionStep(t, editor[t], calls[t], l) /\ CopyStep(t, editor[t])
  BY <1>1, <1>2 DEF SessionStep, CopyStep, OthersKnow, SessionOK, LoadOK
<1> QED  BY <1>3, <1>4, <1>5, Here, TabKeeps

LEMMA MountKeeps ==
  ASSUME Types, NEW t \in Tabs, Mount(t)
  PROVE  Keeps
<1>1. /\ UNCHANGED <<draft, calls, device, overwritten, late, edits>> /\ editor[t].open = "closed"
      /\ editor' = [editor EXCEPT ![t] = Fresh("loading")]
      /\ load' = [load EXCEPT ![t] = LoadStage("asked")]
  BY DEF Mount, copyVars
<1>2. Moves(t, Fresh("loading"), calls[t], LoadStage("asked")) /\ RestTyped
  BY <1>1, Here DEF Moves, RestTyped
<1>3. ShownOK(Fresh("loading"), LoadStage("asked"))
  BY FreshTypes, LoadTypes DEF ShownOK
<1>4. SessionOK(editor[t], calls[t], load[t]) => \A c \in calls[t] : ~c.heard
  BY <1>1 DEF SessionOK, WireOK
<1>5. /\ SessionStep(t, Fresh("loading"), calls[t], LoadStage("asked"))
      /\ CopyStep(t, Fresh("loading"))
  BY <1>1, <1>4, FreshTypes, NothingToKeep DEF SessionStep, CopyStep, OthersKnow
<1> QED  BY <1>2, <1>3, <1>5, Here, FreshTypes, LoadTypes, TabKeeps

\* The editor is loaded: nothing is on its way, and it is clean.
LEMMA AdoptKeeps ==
  ASSUME Types, NEW t \in Tabs, Adopt(t)
  PROVE  Keeps
<1> DEFINE opened == load[t]
           kept == device[Store(t)]
           offer == IF kept = opened.doc THEN NoDoc ELSE kept
           e == [Fresh("open") EXCEPT !.doc = opened.doc, !.safe = opened.doc,
                    !.token = opened.token, !.unpersisted = editor[t].unpersisted,
                    !.backup = editor[t].backup, !.recovery = offer]
<1>1. /\ UNCHANGED <<draft, calls, late, edits>> /\ opened.stage = "read"
      /\ editor' = [editor EXCEPT ![t] = e]
      /\ Keep(t, NoDoc) \/ UNCHANGED <<device, overwritten>>
      /\ load' = [load EXCEPT ![t] = LoadStage("none")]
  BY DEF Adopt, copyVars
<1>2. opened.doc \in Docs /\ opened.token \in Nat
  BY <1>1, Here DEF ShownOK, Load
<1>3. offer \in MaybeDoc
  <2>1. Store(t) \in Tabs
    BY DEF Store
  <2> QED  BY <2>1, Here DEF MaybeDoc
<1>4. /\ e \in Editor /\ e.open = "open" /\ e.doc = opened.doc /\ e.safe = opened.doc
      /\ e.pending = NoDoc /\ e.inFlight = NoDoc /\ e.status = "clean" /\ ~e.timer
  <2>1. editor[t].unpersisted \in MaybeDoc /\ editor[t].backup \in BOOLEAN
    BY Here DEF Editor
  <2> HIDE DEF opened, offer
  <2> QED  BY <1>2, <1>3, <2>1 DEF Fresh, Editor, MaybeDoc, NoToken
<1> HIDE DEF e, offer
<1>5. /\ device' \in [Tabs -> MaybeDoc] /\ overwritten' \in [Tabs -> {FALSE, SharedDevice}]
      /\ OthersKnow(t)
  BY <1>1, StoreWritten, StoreStays DEF MaybeDoc
<1>6. Moves(t, e, calls[t], LoadStage("none")) /\ RestTyped
  BY <1>1, <1>5, Here DEF Moves, RestTyped
<1>7. ShownOK(e, LoadStage("none"))
  BY <1>2, <1>4, LoadTypes DEF ShownOK
<1>8. ASSUME SessionOK(editor[t], calls[t], load[t])
      PROVE  SessionOK(e, calls[t], LoadStage("none"))
  <2>1. ASSUME NEW c \in calls[t]
        PROVE  ~c.heard
    <3>1. calls[t] \in SUBSET Call
      BY Here
    <3>2. c.doc # NoDoc
      BY <3>1 DEF Call, Docs, NoDoc
    <3> QED  BY <1>1, <1>8, <3>2 DEF SessionOK, WireOK, LoadOK
  <2> QED  BY <1>4, <2>1, LoadTypes DEF SessionOK, WireOK, LoadOK, QueueOK
<1>9. SessionStep(t, e, calls[t], LoadStage("none")) /\ CopyStep(t, e)
  BY <1>1, <1>4, <1>5, <1>8 DEF SessionStep, CopyStep, CopyOK, Claims, OthersKnow
<1> QED  BY <1>4, <1>6, <1>7, <1>9, Here, LoadTypes, TabKeeps

LEMMA UnheardTypes ==
  ASSUME NEW cs \in SUBSET Call, IsFiniteSet(cs)
  PROVE  /\ Unheard(cs) \in SUBSET Call /\ IsFiniteSet(Unheard(cs))
         /\ \A c \in Unheard(cs) : ~c.heard
<1> DEFINE sent == {d \in cs : d.stage = "sent"}
           f == [c \in sent |-> [c EXCEPT !.heard = FALSE]]
<1>1. Unheard(cs) = {f[c] : c \in sent}
  BY DEF Unheard
<1>2. IsFiniteSet(sent)
  BY FS_Subset
<1>3. \A c \in Call : [c EXCEPT !.heard = FALSE] \in Call /\ ~[c EXCEPT !.heard = FALSE].heard
  BY DEF Call
<1>4. IsFiniteSet(Unheard(cs))
  <2> HIDE DEF sent, f
  <2>1. IsFiniteSet({f[c] : c \in sent})
    BY <1>2, ImageFinite
  <2> QED  BY <1>1, <2>1
<1> QED  BY <1>3, <1>4 DEF Unheard

\* The editor is gone: its calls are heard by nobody.
LEMMA LeavingKeeps ==
  ASSUME Types, NEW t \in Tabs, Unmount(t) \/ Crash(t)
  PROVE  Keeps
<1> DEFINE old == editor[t]
<1>1. /\ UNCHANGED <<draft, device, overwritten, edits>>
      /\ editor' = [editor EXCEPT ![t] = Fresh("closed")]
      /\ load' = [load EXCEPT ![t] = LoadStage("none")]
  BY DEF Unmount, Crash, copyVars
<1>2. PICK cs \in SUBSET Call : /\ calls' = [calls EXCEPT ![t] = cs] /\ IsFiniteSet(cs)
                                /\ \A c \in cs : ~c.heard
  <2>1. Flushed(old) \in SUBSET Call /\ IsFiniteSet(Flushed(old))
    <3>1. old.pending \in MaybeDoc /\ old.token \in Nat
      BY Here DEF Editor
    <3>2. CASE old.pending # NoDoc /\ old.inFlight = NoDoc
      <4>1. old.pending \in Docs /\ old \in Editor
        BY <3>1, <3>2, Here DEF MaybeDoc
      <4>2. NewCall(old.pending, old.token) \in Call
        BY <3>1, <4>1, SendingTypes
      <4> QED  BY <3>2, <4>2, FS_Singleton DEF Flushed
    <3>3. CASE ~(old.pending # NoDoc /\ old.inFlight = NoDoc)
      <4>1. Flushed(old) = {}
        BY <3>3 DEF Flushed
      <4> QED  BY <4>1, FS_EmptySet
    <3> QED  BY <3>2, <3>3
  <2>2. /\ (calls[t] \cup Flushed(old)) \in SUBSET Call /\ calls[t] \in SUBSET Call
        /\ IsFiniteSet(calls[t] \cup Flushed(old)) /\ IsFiniteSet(calls[t])
    BY <2>1, Here, FS_Union
  <2>3. CASE Unmount(t)
    <3>1. calls' = [calls EXCEPT ![t] = Unheard(calls[t] \cup Flushed(old))]
      BY <2>3 DEF Unmount
    <3> QED  BY <2>2, <3>1, UnheardTypes
  <2>4. CASE Crash(t)
    <3>1. calls' = [calls EXCEPT ![t] = Unheard(calls[t])]
      BY <2>4 DEF Crash
    <3> QED  BY <2>2, <3>1, UnheardTypes
  <2> QED  BY <2>3, <2>4
<1>3. /\ late' \in [Tabs -> MaybeDoc]
      /\ \A u \in Tabs : u # t => late'[u] = late[u]
  <2>1. old.unpersisted \in MaybeDoc /\ NoDoc \in MaybeDoc
    BY Here DEF Editor, MaybeDoc
  <2>2. late \in [Tabs -> MaybeDoc]
    BY Here
  <2>3. PICK doc \in MaybeDoc : late' = [late EXCEPT ![t] = doc]
    <3>1. CASE Unmount(t)
      <4>1. late' = [late EXCEPT ![t] = IF old.unpersisted = NoDoc THEN late[t]
                                        ELSE old.unpersisted]
        BY <3>1 DEF Unmount
      <4>2. late[t] \in MaybeDoc
        BY <2>2
      <4> QED  BY <2>1, <4>1, <4>2
    <3>2. CASE Crash(t)
      <4>1. late' = [late EXCEPT ![t] = NoDoc]
        BY <3>2 DEF Crash
      <4> QED  BY <2>1, <4>1
    <3> QED  BY <3>1, <3>2
  <2> QED  BY <2>2, <2>3
<1>4. Moves(t, Fresh("closed"), cs, LoadStage("none")) /\ RestTyped
  BY <1>1, <1>2, <1>3, Here DEF Moves, RestTyped
<1>5. ShownOK(Fresh("closed"), LoadStage("none"))
  BY FreshTypes, LoadTypes DEF ShownOK
<1>6. SessionStep(t, Fresh("closed"), cs, LoadStage("none")) /\ CopyStep(t, Fresh("closed"))
  BY <1>1, <1>2, <1>3, FreshTypes, NothingToKeep DEF SessionStep, CopyStep, OthersKnow
<1> QED  BY <1>2, <1>4, <1>5, <1>6, FreshTypes, LoadTypes, TabKeeps

-----------------------------------------------------------------------------
(* The local copy.                                                         *)

\* The copy that is written is of what is shown, or of what a clean editor showed.
LEMMA PersistKeeps ==
  ASSUME Types, NEW t \in Tabs, Persist(t)
  PROVE  Keeps
<1> DEFINE old == editor[t]
<1>1. /\ UNCHANGED <<draft, calls, load, late, edits>>
      /\ old.unpersisted # NoDoc /\ late[t] = NoDoc /\ old \in Editor
  BY Here DEF Persist
<1>2. PICK stored \in BOOLEAN :
         /\ editor' = [editor EXCEPT ![t] = [old EXCEPT !.unpersisted = NoDoc, !.backup = stored]]
         /\ IF stored THEN Keep(t, old.unpersisted) ELSE UNCHANGED <<device, overwritten>>
  <2>1. CASE Keep(t, old.unpersisted)
             /\ editor' = [editor EXCEPT ![t] = [old EXCEPT !.unpersisted = NoDoc, !.backup = TRUE]]
    BY <2>1
  <2>2. CASE UNCHANGED <<device, overwritten>>
             /\ editor' = [editor EXCEPT ![t] = [old EXCEPT !.unpersisted = NoDoc, !.backup = FALSE]]
    BY <2>2
  <2> QED  BY <2>1, <2>2 DEF Persist, copyVars
<1> DEFINE e == [old EXCEPT !.unpersisted = NoDoc, !.backup = stored]
<1>3. /\ e \in Editor /\ e.open = old.open /\ e.doc = old.doc /\ e.safe = old.safe
      /\ e.pending = old.pending /\ e.inFlight = old.inFlight /\ e.timer = old.timer
      /\ e.status = old.status /\ e.waived = old.waived /\ e.unpersisted = NoDoc
      /\ e.backup = stored
  BY <1>1, ZenonT(60) DEF Editor, MaybeDoc
<1>4. editor' = [editor EXCEPT ![t] = e]
  BY <1>2
<1> HIDE DEF e
<1>5. /\ device' \in [Tabs -> MaybeDoc] /\ overwritten' \in [Tabs -> {FALSE, SharedDevice}]
      /\ OthersKnow(t)
      /\ stored => device'[Store(t)] = old.unpersisted
  <2>1. old.unpersisted \in MaybeDoc
    BY <1>1 DEF Editor
  <2> QED  BY <1>2, <2>1, StoreWritten, StoreStays
<1>6. Moves(t, e, calls[t], load[t]) /\ RestTyped
  BY <1>1, <1>4, <1>5, Here DEF Moves, RestTyped
<1>7. ShownOK(e, load[t])
  BY <1>3, Here DEF ShownOK
<1>8. SessionStep(t, e, calls[t], load[t])
  BY <1>3 DEF SessionStep, SessionOK, WireOK, LoadOK, QueueOK
<1>9. CopyStep(t, e)
  BY <1>1, <1>3, <1>5 DEF CopyStep, CopyOK, Claims, OthersKnow
<1> QED  BY <1>3, <1>6, <1>7, <1>8, <1>9, Here, TabKeeps

\* The write that outlived its editor comes first; the present editor's follows.
LEMMA PersistLateKeeps ==
  ASSUME Types, NEW t \in Tabs, PersistLate(t)
  PROVE  Keeps
<1>1. /\ UNCHANGED <<draft, calls, editor, load, edits>> /\ late[t] # NoDoc
      /\ late' = [late EXCEPT ![t] = NoDoc]
      /\ Keep(t, late[t]) \/ UNCHANGED <<device, overwritten>>
  BY DEF PersistLate, copyVars
<1>2. /\ late' \in [Tabs -> MaybeDoc] /\ late'[t] = NoDoc
      /\ \A u \in Tabs : u # t => late'[u] = late[u]
  BY <1>1, Here DEF MaybeDoc
<1>3. /\ device' \in [Tabs -> MaybeDoc] /\ overwritten' \in [Tabs -> {FALSE, SharedDevice}]
      /\ OthersKnow(t)
  BY <1>1, Here, StoreWritten, StoreStays
<1>4. Moves(t, editor[t], calls[t], load[t]) /\ RestTyped
  BY <1>1, <1>2, <1>3, Here DEF Moves, RestTyped
<1>5. SessionStep(t, editor[t], calls[t], load[t])
  BY DEF SessionStep
<1>6. CopyStep(t, editor[t])
  BY <1>1, <1>2, <1>3 DEF CopyStep, CopyOK
<1> QED  BY <1>4, <1>5, <1>6, Here, TabKeeps

-----------------------------------------------------------------------------
(* The user.                                                               *)

Shows(e, doc, under, recovery) ==
    [Scheduled(e, doc) EXCEPT !.under = under, !.recovery = recovery]

LEMMA ShowsTypes ==
  ASSUME NEW e \in Editor, NEW doc \in Docs, NEW under \in MaybeDoc, NEW recovery \in MaybeDoc,
         NEW n, n = Shows(e, doc, under, recovery)
  PROVE  /\ n \in Editor /\ n.open = e.open /\ n.doc = doc /\ n.pending = doc
         /\ n.timer /\ n.unpersisted = doc /\ n.inFlight = e.inFlight
         /\ n.safe = e.safe /\ n.backup = e.backup /\ n.waived = {}
         /\ n.status \in {"conflict", "dirty"}
         /\ n.status = "conflict" <=> e.status = "conflict"
<1> DEFINE status == IF e.status = "conflict" THEN e.status ELSE "dirty"
           m == [e EXCEPT !.doc = doc, !.pending = doc, !.timer = TRUE, !.unpersisted = doc,
                          !.status = status, !.waived = {}]
<1>1. status \in {"conflict", "dirty"} /\ (status = "conflict" <=> e.status = "conflict")
  OBVIOUS
<1>2. n = [m EXCEPT !.under = under, !.recovery = recovery]
  BY DEF Shows, Scheduled
<1> HIDE DEF status
<1>3. /\ m \in Editor /\ m.open = e.open /\ m.doc = doc /\ m.pending = doc
      /\ m.timer /\ m.unpersisted = doc /\ m.inFlight = e.inFlight
      /\ m.safe = e.safe /\ m.backup = e.backup /\ m.waived = {} /\ m.status = status
  BY <1>1 DEF Editor, MaybeDoc
<1> HIDE DEF m
<1>4. /\ n \in Editor /\ n.open = m.open /\ n.doc = m.doc /\ n.pending = m.pending
      /\ n.timer = m.timer /\ n.unpersisted = m.unpersisted /\ n.inFlight = m.inFlight
      /\ n.safe = m.safe /\ n.backup = m.backup /\ n.waived = m.waived /\ n.status = m.status
  BY <1>2, <1>3, ZenonT(60) DEF Editor
<1> QED  BY <1>1, <1>3, <1>4

\* Something else is shown from now on, and queued.
LEMMA ScheduleKeeps ==
  ASSUME Types, NEW t \in Tabs, Edit(t) \/ UndoRedo(t) \/ RecoverLocal(t)
  PROVE  Keeps
<1> DEFINE old == editor[t]
<1>1. /\ UNCHANGED <<draft, calls, load, device, overwritten, late>> /\ old \in Editor
      /\ old.open = "open" /\ (PatientUser => load[t].stage = "none")
  BY Here DEF Edit, UndoRedo, RecoverLocal, Acts, copyVars
<1>2. edits' \in 0..MaxEdits
  <2>1. edits \in 0..MaxEdits /\ MaxEdits \in Nat
    BY Here, DocumentSyncAssumption
  <2> QED  BY <2>1 DEF Edit, UndoRedo, RecoverLocal
<1>3. PICK doc \in Docs, under \in MaybeDoc, recovery \in MaybeDoc :
         editor' = [editor EXCEPT ![t] = Shows(old, doc, under, recovery)]
  <2>1. old.doc \in MaybeDoc /\ old.under \in MaybeDoc /\ old.recovery \in MaybeDoc
    BY <1>1 DEF Editor
  <2>2. NoDoc \in MaybeDoc
    BY DEF MaybeDoc
  <2>3. CASE Edit(t)
    <3>1. edits + 1 \in Docs
      <4>1. edits \in 0..MaxEdits /\ MaxEdits \in Nat /\ edits < MaxEdits
        BY <2>3, Here, DocumentSyncAssumption DEF Edit
      <4> QED  BY <4>1 DEF Docs, Foreign
    <3>2. [Scheduled(old, edits + 1) EXCEPT !.under = old.doc]
            = Shows(old, edits + 1, old.doc, old.recovery)
      BY <1>1 DEF Shows, Scheduled, Editor
    <3>3. editor' = [editor EXCEPT ![t] = [Scheduled(old, edits + 1) EXCEPT !.under = old.doc]]
      BY <2>3 DEF Edit
    <3> QED  BY <2>1, <3>1, <3>2, <3>3
  <2>4. CASE UndoRedo(t)
    <3>1. old.under \in Docs
      BY <2>1, <2>4 DEF UndoRedo, MaybeDoc
    <3>2. [Scheduled(old, old.under) EXCEPT !.under = old.doc]
            = Shows(old, old.under, old.doc, old.recovery)
      BY <1>1 DEF Shows, Scheduled, Editor
    <3>3. editor' = [editor EXCEPT ![t] = [Scheduled(old, old.under) EXCEPT !.under = old.doc]]
      BY <2>4 DEF UndoRedo
    <3> QED  BY <2>1, <3>1, <3>2, <3>3
  <2>5. CASE RecoverLocal(t)
    <3>1. old.recovery \in Docs
      BY <2>1, <2>5 DEF RecoverLocal, MaybeDoc
    <3>2. editor' = [editor EXCEPT ![t] = Shows(old, old.recovery, NoDoc, NoDoc)]
      BY <2>5 DEF RecoverLocal, Shows
    <3> QED  BY <2>2, <3>1, <3>2
  <2> QED  BY <2>3, <2>4, <2>5
<1> DEFINE e == Shows(old, doc, under, recovery)
<1>4. /\ e \in Editor /\ e.open = "open" /\ e.doc = doc /\ e.pending = doc
      /\ e.timer /\ e.unpersisted = doc /\ e.inFlight = old.inFlight
      /\ e.safe = old.safe /\ e.backup = old.backup /\ e.waived = {}
      /\ e.status \in {"conflict", "dirty"}
      /\ e.status = "conflict" <=> old.status = "conflict"
  BY <1>1, ShowsTypes
<1>5. Moves(t, e, calls[t], load[t]) /\ RestTyped
  BY <1>1, <1>2, <1>3, Here DEF Moves, RestTyped
<1> HIDE DEF e
<1>6. ShownOK(e, load[t])
  BY <1>4, Here DEF ShownOK
<1>7. ASSUME PatientUser, SessionOK(old, calls[t], load[t])
      PROVE  SessionOK(e, calls[t], load[t])
  <2>1. WireOK(e, calls[t])
    BY <1>1, <1>4, <1>7 DEF SessionOK, WireOK
  <2>2. LoadOK(e, load[t])
    BY <1>1, <1>7 DEF LoadOK
  <2>3. QueueOK(e)
    <3>1. doc # NoDoc
      BY DEF Docs, NoDoc
    <3> QED  BY <1>1, <1>4, <1>7, <3>1 DEF SessionOK, QueueOK
  <2> QED  BY <2>1, <2>2, <2>3 DEF SessionOK
<1>8. SessionStep(t, e, calls[t], load[t]) /\ CopyStep(t, e)
  BY <1>1, <1>4, <1>7 DEF SessionStep, CopyStep, CopyOK, Claims, OthersKnow
<1> QED  BY <1>4, <1>5, <1>6, <1>8, Here, TabKeeps

\* t's editor goes on as s, with doc in flight.
Sends(t, s, doc) ==
    /\ s.inFlight = doc /\ s.pending = NoDoc /\ s.status = "saving"
    /\ s.open = "open" /\ s.doc = editor[t].doc /\ s.safe = editor[t].safe
    /\ s.unpersisted = editor[t].unpersisted /\ s.backup = editor[t].backup
    /\ s.waived \in {editor[t].waived, editor[t].waived \ {"save"}}

\* What is sent is what is shown, and nothing is being loaded over it.
SendsLatest(t, doc) ==
    PatientUser /\ SessionOK(editor[t], calls[t], load[t]) =>
        doc = editor[t].doc /\ load[t].stage = "none" /\ editor[t].status # "clean"

LEMMA SendKeeps ==
  ASSUME Types, NEW t \in Tabs, NEW s \in Editor, NEW doc \in Docs, NEW expect \in Nat,
         UNCHANGED <<draft, load, device, overwritten, late, edits>>,
         editor' = [editor EXCEPT ![t] = s],
         calls' = [calls EXCEPT ![t] = @ \cup {NewCall(doc, expect)}],
         editor[t].open = "open", editor[t].inFlight = NoDoc,
         Sends(t, s, doc), SendsLatest(t, doc)
  PROVE  Keeps
<1> DEFINE n == NewCall(doc, expect)
           cs == calls[t] \cup {n}
<1>1. n \in Call /\ n.heard /\ n.doc = doc
  BY SendingTypes
<1>2. calls' = [calls EXCEPT ![t] = cs]
  OBVIOUS
<1> HIDE DEF n
<1>3. IsFiniteSet(cs) /\ cs \in SUBSET Call
  BY <1>1, Here, FS_AddElement
<1>4. Moves(t, s, cs, load[t]) /\ RestTyped
  BY <1>2, Here DEF Moves, RestTyped
<1>5. ShownOK(s, load[t])
  BY Here DEF ShownOK, Sends
<1>6. ASSUME PatientUser, SessionOK(editor[t], calls[t], load[t])
      PROVE  SessionOK(s, cs, load[t])
  <2>1. \A c \in calls[t] : ~c.heard
    <3>1. calls[t] \in SUBSET Call
      BY Here
    <3>2. \A c \in calls[t] : c.doc # NoDoc
      BY <3>1 DEF Call, Docs, NoDoc
    <3> QED  BY <1>6, <3>2 DEF SessionOK, WireOK
  <2>2. doc # NoDoc
    BY DEF Docs, NoDoc
  <2> QED
    BY <1>1, <1>6, <2>1, <2>2 DEF Sends, SendsLatest, SessionOK, WireOK, LoadOK, QueueOK
<1>7. SessionStep(t, s, cs, load[t])
  BY <1>6 DEF SessionStep
<1>8. CopyStep(t, s)
  BY DEF Sends, SendsLatest, CopyStep, CopyOK, Claims, OthersKnow
<1> HIDE DEF cs
<1> QED  BY <1>3, <1>4, <1>5, <1>7, <1>8, Here, TabKeeps

\* The queue is sent, after a pause or on "try again".
LEMMA FlushKeeps ==
  ASSUME Types, NEW t \in Tabs, Autosave(t) \/ Retry(t)
  PROVE  Keeps
<1> DEFINE old == editor[t]
           e == [old EXCEPT !.timer = FALSE]
           s == Sending(e, e.pending)
<1>1. /\ UNCHANGED <<draft, load, device, overwritten, late, edits>> /\ old \in Editor
      /\ old.open = "open" /\ ShownOK(old, load[t])
      /\ old.timer \/ (old.status = "error" /\ (PatientUser => load[t].stage = "none"))
  BY Here DEF Autosave, Retry, Flush, Acts, ShownOK, copyVars
<1>2. /\ e \in Editor /\ e.open = old.open /\ e.doc = old.doc /\ e.safe = old.safe
      /\ e.pending = old.pending /\ e.inFlight = old.inFlight /\ ~e.timer
      /\ e.status = old.status /\ e.waived = old.waived /\ e.backup = old.backup
      /\ e.unpersisted = old.unpersisted /\ e.token = old.token
  BY <1>1 DEF Editor
<1>3. IF e.pending # NoDoc /\ e.inFlight = NoDoc
      THEN /\ editor' = [editor EXCEPT ![t] = s]
           /\ calls' = [calls EXCEPT ![t] = @ \cup {NewCall(e.pending, e.token)}]
      ELSE editor' = [editor EXCEPT ![t] = e] /\ UNCHANGED calls
  BY DEF Autosave, Retry, Flush
<1>4. CASE e.pending # NoDoc /\ e.inFlight = NoDoc
  <2> HIDE DEF e
  <2>1. e.pending \in Docs /\ e.token \in Nat
    BY <1>2, <1>4 DEF Editor, MaybeDoc
  <2>2. s \in Editor /\ Sends(t, s, e.pending)
    BY <1>1, <1>2, <2>1, SendingTypes DEF Sends
  <2>3. SendsLatest(t, e.pending)
    BY <1>1, <1>2, <1>4 DEF SendsLatest, SessionOK, LoadOK, QueueOK
  <2> HIDE DEF s
  <2>4. /\ editor' = [editor EXCEPT ![t] = s]
        /\ calls' = [calls EXCEPT ![t] = @ \cup {NewCall(e.pending, e.token)}]
    BY <1>3, <1>4
  <2> QED  BY <1>1, <1>2, <1>4, <2>1, <2>2, <2>3, <2>4, SendKeeps
<1>5. CASE ~(e.pending # NoDoc /\ e.inFlight = NoDoc)
  <2> HIDE DEF e
  <2>1. Moves(t, e, calls[t], load[t]) /\ RestTyped
    BY <1>1, <1>3, <1>5, Here DEF Moves, RestTyped
  <2>2. ShownOK(e, load[t])
    BY <1>1, <1>2 DEF ShownOK
  <2>3. SessionStep(t, e, calls[t], load[t])
    BY <1>2 DEF SessionStep, SessionOK, WireOK, LoadOK, QueueOK
  <2>4. CopyStep(t, e)
    BY <1>1, <1>2 DEF CopyStep, CopyOK, Claims, OthersKnow
  <2> QED  BY <1>2, <2>1, <2>2, <2>3, <2>4, Here, TabKeeps
<1> QED  BY <1>4, <1>5

\* "Save mine" sends what is shown, queued or not.
LEMMA OverwriteKeeps ==
  ASSUME Types, NEW t \in Tabs, OverwriteWithMine(t)
  PROVE  Keeps
<1> DEFINE old == editor[t]
           mine == IF old.pending # NoDoc THEN old.pending ELSE old.doc
           m == Sending(old, mine)
           s == [m EXCEPT !.waived = @ \ {"save"}]
<1>1. /\ UNCHANGED <<draft, load, device, overwritten, late, edits>> /\ old \in Editor
      /\ old.open = "open" /\ old.inFlight = NoDoc /\ old.status = "conflict"
      /\ PatientUser => load[t].stage = "none"
      /\ editor' = [editor EXCEPT ![t] = s]
      /\ calls' = [calls EXCEPT ![t] = @ \cup {NewCall(mine, NoToken)}]
  BY Here DEF OverwriteWithMine, InConflict, Acts, copyVars
<1>2. mine \in Docs
  BY <1>1, Here DEF ShownOK, Editor, MaybeDoc
<1>3. SendsLatest(t, mine)
  BY <1>1 DEF SendsLatest, SessionOK, QueueOK
<1> HIDE DEF mine
<1>4. /\ m \in Editor /\ m.inFlight = mine /\ m.pending = NoDoc /\ m.status = "saving"
      /\ m.open = old.open /\ m.doc = old.doc /\ m.safe = old.safe /\ m.waived = old.waived
      /\ m.backup = old.backup /\ m.unpersisted = old.unpersisted
  BY <1>1, <1>2, SendingTypes
<1> HIDE DEF m
<1>5. s \in Editor /\ Sends(t, s, mine)
  BY <1>1, <1>4 DEF Editor, Sends
<1> HIDE DEF s
<1>6. NoToken \in Nat
  BY DEF NoToken
<1> QED  BY <1>1, <1>2, <1>3, <1>5, <1>6, SendKeeps

\* "Discard mine" drops the queue and waives the next save.
LEMMA TakeTheirsKeeps ==
  ASSUME Types, NEW t \in Tabs, TakeTheirs(t)
  PROVE  Keeps
<1> DEFINE old == editor[t]
           e == [old EXCEPT !.timer = FALSE, !.pending = NoDoc, !.waived = @ \cup {"save"}]
<1>1. /\ UNCHANGED <<draft, calls, device, overwritten, late, edits>> /\ old \in Editor
      /\ old.open = "open" /\ old.status = "conflict"
      /\ editor' = [editor EXCEPT ![t] = e]
      /\ load' = [load EXCEPT ![t] = LoadStage("asked")]
  BY Here DEF TakeTheirs, InConflict, Acts, copyVars
<1>2. /\ e \in Editor /\ e.open = "open" /\ e.doc = old.doc /\ e.safe = old.safe
      /\ e.pending = NoDoc /\ e.inFlight = old.inFlight /\ ~e.timer
      /\ e.status = old.status /\ e.waived = old.waived \cup {"save"}
      /\ e.backup = old.backup /\ e.unpersisted = old.unpersisted
  BY <1>1, ZenonT(60) DEF Editor, MaybeDoc
<1> HIDE DEF e
<1>3. Moves(t, e, calls[t], LoadStage("asked")) /\ RestTyped
  BY <1>1, Here DEF Moves, RestTyped
<1>4. ShownOK(e, LoadStage("asked"))
  BY <1>1, <1>2, Here, LoadTypes DEF ShownOK
<1>5. SessionStep(t, e, calls[t], LoadStage("asked"))
  BY <1>1, <1>2 DEF SessionStep, SessionOK, WireOK, LoadOK, QueueOK
<1>6. CopyStep(t, e)
  BY <1>1, <1>2 DEF CopyStep, CopyOK, Claims, OthersKnow
<1> QED  BY <1>2, <1>3, <1>4, <1>5, <1>6, Here, LoadTypes, TabKeeps

\* The local copy is waived.
LEMMA DiscardKeeps ==
  ASSUME Types, NEW t \in Tabs, DiscardLocal(t)
  PROVE  Keeps
<1> DEFINE old == editor[t]
           e == [old EXCEPT !.recovery = NoDoc, !.unpersisted = NoDoc,
                            !.waived = @ \cup {"copy"}]
<1>1. /\ UNCHANGED <<draft, calls, load, late, edits>> /\ old \in Editor
      /\ editor' = [editor EXCEPT ![t] = e]
      /\ Keep(t, NoDoc)
  BY Here DEF DiscardLocal
<1>2. /\ e \in Editor /\ e.open = old.open /\ e.doc = old.doc /\ e.safe = old.safe
      /\ e.pending = old.pending /\ e.inFlight = old.inFlight /\ e.timer = old.timer
      /\ e.status = old.status /\ e.waived = old.waived \cup {"copy"}
      /\ e.unpersisted = NoDoc
  BY <1>1 DEF Editor, MaybeDoc
<1> HIDE DEF e
<1>3. /\ device' \in [Tabs -> MaybeDoc] /\ overwritten' \in [Tabs -> {FALSE, SharedDevice}]
      /\ OthersKnow(t)
  BY <1>1, StoreWritten DEF MaybeDoc
<1>4. Moves(t, e, calls[t], load[t]) /\ RestTyped
  BY <1>1, <1>3, Here DEF Moves, RestTyped
<1>5. ShownOK(e, load[t])
  BY <1>2, Here DEF ShownOK
<1>6. SessionStep(t, e, calls[t], load[t])
  BY <1>2 DEF SessionStep, SessionOK, WireOK, LoadOK, QueueOK
<1>7. CopyStep(t, e)
  BY <1>1, <1>2, <1>3 DEF CopyStep, CopyOK, Claims, OthersKnow
<1> QED  BY <1>2, <1>4, <1>5, <1>6, <1>7, Here, TabKeeps

-----------------------------------------------------------------------------
(* The theorems.                                                           *)

LEMMA NextKeeps ==
  ASSUME Types, [Next]_vars
  PROVE  Keeps
<1>1. CASE SavedElsewhere
  BY <1>1, SavedElsewhereKeeps
<1>2. CASE \E t \in Tabs : ServerStep(t) \/ LoadRead(t)
  BY <1>2, ServerKeeps, LoadingKeeps
<1>3. CASE \E t \in Tabs : ReplyStep(t) \/ \E c \in calls[t] : Vanish(t, c)
  BY <1>3, SucceedKeeps, FailKeeps, VanishKeeps DEF ReplyStep
<1>4. CASE \E t \in Tabs : UserStep(t)
  BY <1>4, ScheduleKeeps, FlushKeeps, OverwriteKeeps, TakeTheirsKeeps, DiscardKeeps
     DEF UserStep
<1>5. CASE \E t \in Tabs : TabStep(t)
  BY <1>5, MountKeeps, LoadingKeeps, AdoptKeeps, LeavingKeeps, FlushKeeps, PersistKeeps,
     PersistLateKeeps DEF TabStep
<1>6. CASE UNCHANGED vars
  <2>1. draft \in Draft
    BY DEF Types, TypeOK
  <2> QED  BY <1>6, <2>1, StillKeeps DEF vars, copyVars
<1> QED  BY <1>1, <1>2, <1>3, <1>4, <1>5, <1>6 DEF Next

LEMMA InitTypes ==
  ASSUME Init
  PROVE  Types /\ Sessions /\ Copies
<1>1. \A t \in Tabs : /\ editor[t] = Fresh("closed") /\ load[t] = LoadStage("none")
                      /\ calls[t] = {} /\ late[t] = NoDoc
  BY DEF Init
<1>2. 0 \in 0..MaxEdits /\ 0 \in Docs /\ NoDoc \in MaybeDoc
  BY DocumentSyncAssumption DEF Docs, Foreign, MaybeDoc
<1>3. draft \in Draft
  BY <1>2 DEF Init, Draft, NoToken
<1>4. \A t \in Tabs : editor[t].open # "open" /\ ~editor[t].timer /\ load[t].stage = "none"
  BY <1>1, FreshTypes, LoadTypes
<1>5. TypeOK
  <2>1. Fresh("closed") \in Editor /\ LoadStage("none") \in Load
    BY FreshTypes, LoadTypes
  <2> QED  BY <1>2, <1>3, <1>4, <2>1 DEF Init, TypeOK
<1>6. CallsOK
  <2>1. calls \in [Tabs -> SUBSET Call]
    BY DEF Init
  <2>2. \A t \in Tabs : IsFiniteSet(calls[t])
    BY <1>1, FS_EmptySet
  <2> QED  BY <2>1, <2>2 DEF CallsOK
<1>7. \A t \in Tabs : ShownOK(editor[t], load[t])
  BY <1>4 DEF ShownOK
<1>8. \A t \in Tabs : /\ SessionOK(editor[t], calls[t], load[t])
                      /\ CopyOK(editor[t], device[Store(t)], overwritten[t], late[t])
  BY <1>1, <1>4, NothingToKeep
<1> QED  BY <1>5, <1>6, <1>7, <1>8 DEF Types, Sessions, Copies

\* The row, the calls, the editors and the local copies keep their types, also
\* when every token that anybody holds has to be avoided by a new one.
THEOREM TypeCorrect == Spec => []TypeOK
<1>1. Init => Types
  BY InitTypes
<1>2. Types /\ [Next]_vars => Types'
  BY NextKeeps DEF Keeps
<1>3. Types => TypeOK
  BY DEF Types
<1> QED  BY <1>1, <1>2, <1>3, PTL DEF Spec

\* What an editor has on the wire, in its queue and on its screen belongs together.
THEOREM SessionsHold ==
  ASSUME PatientUser
  PROVE  Spec => [](Types /\ Sessions)
<1>1. Init => Types /\ Sessions
  BY InitTypes
<1>2. (Types /\ Sessions) /\ [Next]_vars => (Types /\ Sessions)'
  BY NextKeeps DEF Keeps
<1> QED  BY <1>1, <1>2, PTL DEF Spec

\* No failed, refused or overtaken save loses the work on the screen: what the
\* server does not hold is what will be sent next (useDocument.ts).
THEOREM WorkIsQueued ==
  ASSUME PatientUser
  PROVE  Spec => []LatestIsQueued
<1>1. Types /\ Sessions => LatestIsQueued
  BY DEF Sessions, SessionOK, QueueOK, LatestIsQueued
<1> QED  BY <1>1, SessionsHold, PTL

\* "Saved" is said only of a document that the server accepted or gave out.
THEOREM SavedIsTrue ==
  ASSUME PatientUser
  PROVE  Spec => []CleanMeansSaved
<1>1. Types /\ Sessions => CleanMeansSaved
  BY DEF Sessions, SessionOK, QueueOK, CleanMeansSaved
<1> QED  BY <1>1, SessionsHold, PTL

\* Work that the server does not hold is on the device, or is about to be, unless
\* the editor has said otherwise or another tab of the device has written the copy
\* or removed it since: for any number of tabs, on one device or on several (where
\* there is no such tab: overwritten is FALSE by TypeCorrect).
THEOREM WorkIsBacked ==
  ASSUME PatientUser
  PROVE  Spec => []Backed
<1>1. Init => Types /\ Sessions /\ Copies
  BY InitTypes
<1>2. (Types /\ Sessions /\ Copies) /\ [Next]_vars => (Types /\ Sessions /\ Copies)'
  BY NextKeeps DEF Keeps
<1>3. Types /\ Sessions /\ Copies => Backed
  BY DEF Sessions, SessionOK, QueueOK, Copies, CopyOK, Claims, Backed, Survives
<1> QED  BY <1>1, <1>2, <1>3, PTL DEF Spec

-----------------------------------------------------------------------------
(* II.  An open project: the history is a line.                            *)

Line == past \o <<present>> \o future

\* What the kernel keeps is bounded as a whole, so that redo never drops a step.
HistoryOK ==
    /\ \E D : past \in Seq(D) /\ future \in Seq(D) /\ present \in D
    /\ Len(past) + Len(future) <= HistoryLimit

\* A line is made of what lies behind, the document on screen and what lies ahead.
LEMMA LineOf ==
  ASSUME NEW D, NEW p \in Seq(D), NEW x \in D, NEW f \in Seq(D),
         NEW l, l = p \o <<x>> \o f
  PROVE  /\ l \in Seq(D) /\ Len(l) = Len(p) + 1 + Len(f)
         /\ \A i \in 1..Len(p) : l[i] = p[i]
         /\ l[Len(p) + 1] = x
         /\ \A i \in 1..Len(f) : l[Len(p) + 1 + i] = f[i]
<1>1. /\ <<x>> \in Seq(D) /\ Len(<<x>>) = 1 /\ <<x>>[1] = x
      /\ Len(p) \in Nat /\ Len(f) \in Nat
  OBVIOUS
<1> DEFINE q == p \o <<x>>
<1>2. /\ q \in Seq(D) /\ Len(q) = Len(p) + 1
      /\ \A i \in 1..(Len(p) + 1) : q[i] = IF i <= Len(p) THEN p[i] ELSE <<x>>[i - Len(p)]
  BY <1>1, ConcatProperties
<1> HIDE DEF q
<1>3. /\ q \o f \in Seq(D) /\ Len(q \o f) = Len(q) + Len(f)
      /\ \A i \in 1..(Len(q) + Len(f)) :
            (q \o f)[i] = IF i <= Len(q) THEN q[i] ELSE f[i - Len(q)]
  <2>1. q \in Seq(D)
    BY <1>2
  <2> QED  BY <2>1, ConcatProperties
<1>4. \A i \in 1..Len(p) : (q \o f)[i] = p[i]
  BY <1>1, <1>2, <1>3
<1>5. (q \o f)[Len(p) + 1] = x
  BY <1>1, <1>2, <1>3
<1>6. ASSUME NEW i \in 1..Len(f)
      PROVE  (q \o f)[Len(p) + 1 + i] = f[i]
  <2>1. Len(p) + 1 + i \in 1..(Len(q) + Len(f)) /\ ~(Len(p) + 1 + i <= Len(q))
        /\ Len(p) + 1 + i - Len(q) = i
    BY <1>1, <1>2
  <2> QED  BY <1>3, <2>1
<1>7. q \o f = l
  BY DEF q
<1> QED  BY <1>2, <1>3, <1>4, <1>5, <1>6, <1>7

\* Two sequences over one set are the same if they have the same elements.
LEMMA SameSeq ==
  ASSUME NEW D, NEW s \in Seq(D), NEW t \in Seq(D), Len(s) = Len(t),
         \A i \in 1..Len(s) : s[i] = t[i]
  PROVE  s = t
OBVIOUS

\* The last of a sequence's elements, as the kernel keeps them.
LEMMA KeptOf ==
  ASSUME NEW D, NEW s \in Seq(D), Len(s) <= HistoryLimit + 1, s # <<>>
  PROVE  \E first \in 1..Len(s) :
            /\ first = IF Len(s) > HistoryLimit THEN Len(s) - HistoryLimit + 1 ELSE 1
            /\ Kept(s) = SubSeq(s, first, Len(s)) /\ Kept(s) \in Seq(D)
            /\ Len(Kept(s)) = Len(s) - first + 1 /\ Len(Kept(s)) <= HistoryLimit
            /\ \A i \in 1..Len(Kept(s)) : first + i - 1 \in 1..Len(s) /\ Kept(s)[i] = s[first + i - 1]
<1> DEFINE first == IF Len(s) > HistoryLimit THEN Len(s) - HistoryLimit + 1 ELSE 1
<1>1. Len(s) \in Nat /\ Len(s) >= 1 /\ HistoryLimit \in Nat /\ HistoryLimit >= 1
  BY EditHistoryAssumption
<1>2. first \in 1..Len(s)
  BY <1>1
<1>3. Kept(s) = SubSeq(s, first, Len(s))
  <2>1. SubSeq(s, 1, Len(s)) = s
    BY SubSeqFull
  <2>2. CASE Len(s) <= HistoryLimit
    <3>1. first = 1
      BY <1>1, <2>2
    <3>2. Kept(s) = s
      BY <2>2 DEF Kept
    <3> HIDE DEF first
    <3> QED  BY <2>1, <3>1, <3>2
  <2>3. CASE ~(Len(s) <= HistoryLimit)
    <3>1. Kept(s) = SubSeq(s, Len(s) - HistoryLimit + 1, Len(s))
      BY <2>3 DEF Kept
    <3>2. first = Len(s) - HistoryLimit + 1
      BY <1>1, <2>3
    <3> HIDE DEF first
    <3> QED  BY <3>1, <3>2
  <2> QED  BY <2>2, <2>3
<1>4. \A i \in first..Len(s) : s[i] \in D
  BY <1>1, <1>2
<1>5. /\ SubSeq(s, first, Len(s)) \in Seq(D)
      /\ Len(SubSeq(s, first, Len(s))) = Len(s) - first + 1
      /\ \A i \in 1..(Len(s) - first + 1) : SubSeq(s, first, Len(s))[i] = s[first + i - 1]
  <2>1. first \in Int /\ Len(s) \in Int /\ first <= Len(s)
    BY <1>1, <1>2
  <2> HIDE DEF first
  <2> QED  BY <1>4, <2>1, SubSeqProperties
<1>6. \A i \in 1..(Len(s) - first + 1) : first + i - 1 \in 1..Len(s)
  BY <1>1, <1>2
<1>7. Len(s) - first + 1 <= HistoryLimit
  BY <1>1
<1> HIDE DEF first
<1>8. first = IF Len(s) > HistoryLimit THEN Len(s) - HistoryLimit + 1 ELSE 1
  BY DEF first
<1>9. /\ Kept(s) \in Seq(D)
      /\ Len(Kept(s)) = Len(s) - first + 1 /\ Len(Kept(s)) <= HistoryLimit
      /\ \A i \in 1..Len(Kept(s)) : first + i - 1 \in 1..Len(s) /\ Kept(s)[i] = s[first + i - 1]
  BY <1>3, <1>5, <1>6, <1>7
<1> QED  BY <1>2, <1>3, <1>8, <1>9

\* A revision, as the line sees it: the document on screen is followed by the new one,
\* and of what lies behind the last HistoryLimit documents stay.
LEMMA CommitMoves ==
  ASSUME HistoryOK, NEW doc, Commit(doc)
  PROVE  /\ Timeline!Author
         /\ HistoryOK'
         /\ Len(Line') > 1 /\ Len(past') + 1 = Len(Line') /\ Line'[Len(Line')] = doc
         /\ Line'[Len(Line') - 1] = present
         /\ \E first \in 1..Len(Line) :
                \A i \in 1..(Len(Line') - 1) :
                   first + i - 1 \in 1..Len(Line) /\ Line'[i] = Line[first + i - 1]
<1>1. PICK D : past \in Seq(D) /\ future \in Seq(D) /\ present \in D /\ doc \in D
  <2>1. PICK E : past \in Seq(E) /\ future \in Seq(E) /\ present \in E
    BY DEF HistoryOK
  <2>2. past \in Seq(E \cup {doc}) /\ future \in Seq(E \cup {doc}) /\ present \in E \cup {doc}
    BY <2>1
  <2> QED  BY <2>2
<1>2. PICK n \in Nat, f \in Nat, H \in Nat :
          n = Len(past) /\ f = Len(future) /\ H = HistoryLimit /\ H >= 1 /\ n <= H
  <2>1. Len(past) \in Nat /\ Len(future) \in Nat
    BY <1>1
  <2>2. HistoryLimit \in Nat /\ HistoryLimit >= 1 /\ Len(past) + Len(future) <= HistoryLimit
    BY EditHistoryAssumption DEF HistoryOK
  <2> QED  BY <2>1, <2>2
<1>3. PICK full \in Seq(D) : /\ full = Append(past, present) /\ Len(full) = n + 1
                             /\ full[n + 1] = present /\ \A i \in 1..n : full[i] = past[i]
  <2>1. /\ Append(past, present) \in Seq(D) /\ Len(Append(past, present)) = Len(past) + 1
        /\ \A i \in 1..Len(past) : Append(past, present)[i] = past[i]
        /\ Append(past, present)[Len(past) + 1] = present
    BY <1>1, AppendProperties
  <2> QED  BY <1>2, <2>1
<1>4. PICK l \in Seq(D) : /\ l = Line /\ Len(l) = n + 1 + f
                          /\ \A i \in 1..n : l[i] = past[i]
                          /\ l[n + 1] = present
  <2>1. Line = past \o <<present>> \o future
    BY DEF Line
  <2>2. /\ Line \in Seq(D) /\ Len(Line) = Len(past) + 1 + Len(future)
        /\ \A i \in 1..Len(past) : Line[i] = past[i]
        /\ Line[Len(past) + 1] = present
    BY <1>1, <2>1, LineOf
  <2> QED  BY <1>2, <2>2
<1>5. \A i \in 1..(n + 1) : l[i] = full[i]
  BY <1>3, <1>4
<1>6. PICK first \in 1..(n + 1), p \in Seq(D) :
          /\ first = IF n + 1 > H THEN n + 1 - H + 1 ELSE 1
          /\ p = past' /\ p = SubSeq(full, first, n + 1) /\ Len(p) = n + 1 - first + 1
          /\ Len(p) <= H
          /\ \A i \in 1..Len(p) : first + i - 1 \in 1..(n + 1) /\ p[i] = full[first + i - 1]
  <2>1. full # <<>> /\ Len(full) <= HistoryLimit + 1
    BY <1>2, <1>3, EmptySeq
  <2>2. past' = Kept(full)
    BY <1>3 DEF Commit
  <2>3. PICK first \in 1..Len(full) :
            /\ first = IF Len(full) > HistoryLimit THEN Len(full) - HistoryLimit + 1 ELSE 1
            /\ Kept(full) = SubSeq(full, first, Len(full)) /\ Kept(full) \in Seq(D)
            /\ Len(Kept(full)) = Len(full) - first + 1 /\ Len(Kept(full)) <= HistoryLimit
            /\ \A i \in 1..Len(Kept(full)) :
                  first + i - 1 \in 1..Len(full) /\ Kept(full)[i] = full[first + i - 1]
    BY <2>1, KeptOf
  <2>4. PICK p \in Seq(D) : p = Kept(full)
    BY <2>3
  <2>5. /\ first \in 1..(n + 1)
        /\ first = IF n + 1 > H THEN n + 1 - H + 1 ELSE 1
        /\ p = SubSeq(full, first, n + 1) /\ Len(p) = n + 1 - first + 1 /\ Len(p) <= H
    BY <1>2, <1>3, <2>3, <2>4
  <2>6. \A i \in 1..Len(p) : first + i - 1 \in 1..(n + 1) /\ p[i] = full[first + i - 1]
    BY <1>3, <2>3, <2>4
  <2> QED  BY <2>2, <2>4, <2>5, <2>6
<1>7. present' = doc /\ future' = <<>> /\ <<>> \in Seq(D) /\ Len(<<>>) = 0
  BY DEF Commit
<1>8. PICK m \in Seq(D) : /\ m = Line' /\ Len(m) = Len(p) + 1
                          /\ \A i \in 1..Len(p) : m[i] = p[i]
                          /\ m[Len(p) + 1] = doc
  <2>1. Line' = p \o <<doc>> \o <<>>
    BY <1>6, <1>7 DEF Line
  <2>2. /\ Line' \in Seq(D) /\ Len(Line') = Len(p) + 1 + Len(<<>>)
        /\ \A i \in 1..Len(p) : Line'[i] = p[i]
        /\ Line'[Len(p) + 1] = doc
    BY <1>1, <1>7, <2>1, LineOf
  <2>3. Len(p) + 1 + 0 = Len(p) + 1
    BY <1>6
  <2> QED  BY <1>7, <2>2, <2>3
<1>9. \A i \in 1..Len(p) : first + i - 1 \in 1..(n + 1) /\ m[i] = l[first + i - 1]
  BY <1>5, <1>6, <1>8
<1>10. Len(p) >= 1 /\ first + Len(p) - 1 = n + 1
  BY <1>6
<1>11. m[Len(p)] = present
  <2>1. Len(p) \in 1..Len(p)
    BY <1>6, <1>10
  <2> QED  BY <1>4, <1>9, <1>10, <2>1
<1>12. SubSeq(l, first, n + 1) = p
  <2>1. first \in Int /\ n + 1 \in Int /\ first <= n + 1
        /\ \A i \in first..(n + 1) : i \in 1..Len(l)
    BY <1>4
  <2>2. \A i \in first..(n + 1) : l[i] \in D
    BY <2>1, ElementOfSeq
  <2>3. /\ SubSeq(l, first, n + 1) \in Seq(D)
        /\ Len(SubSeq(l, first, n + 1)) = n + 1 - first + 1
        /\ \A i \in 1..(n + 1 - first + 1) : SubSeq(l, first, n + 1)[i] = l[first + i - 1]
    BY <2>1, <2>2, SubSeqProperties
  <2>4. \A i \in 1..Len(p) : SubSeq(l, first, n + 1)[i] = p[i]
    BY <1>6, <1>8, <1>9, <2>3
  <2> QED  BY <1>6, <2>3, <2>4, SeqEqual
<1>13. m = Append(p, doc)
  <2>1. /\ Append(p, doc) \in Seq(D) /\ Len(Append(p, doc)) = Len(p) + 1
        /\ \A i \in 1..Len(p) : Append(p, doc)[i] = p[i]
        /\ Append(p, doc)[Len(p) + 1] = doc
    BY <1>1, AppendProperties
  <2>2. \A i \in 1..Len(m) : m[i] = Append(p, doc)[i]
    BY <1>8, <2>1
  <2> QED  BY <1>8, <2>1, <2>2, SeqEqual
<1>14. Timeline!Author
  <2>1. Line = past \o <<present>> \o future /\ Line' = past' \o <<present'>> \o future'
    BY DEF Line
  <2>2. Len(past') + 1 = Len(past) + 1 - first + 2
    BY <1>2, <1>6
  <2>3. (past' \o <<present'>> \o future')[Len(past') + 1] = doc
    BY <1>6, <1>8, <2>1
  <2>4. past' \o <<present'>> \o future' =
          Append(SubSeq(past \o <<present>> \o future, first, Len(past) + 1),
                 (past' \o <<present'>> \o future')[Len(past') + 1])
    BY <1>2, <1>4, <1>8, <1>12, <1>13, <2>1, <2>3
  <2>5. first = IF Len(past) + 1 > HistoryLimit THEN Len(past) + 1 - HistoryLimit + 1 ELSE 1
    BY <1>2, <1>6
  <2>6. CASE Len(past) + 1 > HistoryLimit
    <3>1. first = Len(past) + 1 - HistoryLimit + 1
      BY <2>5, <2>6
    <3>2. Len(past') + 1 = Len(past) + 1 - (Len(past) + 1 - HistoryLimit + 1) + 2
      BY <2>2, <3>1
    <3>3. past' \o <<present'>> \o future' =
          Append(SubSeq(past \o <<present>> \o future, Len(past) + 1 - HistoryLimit + 1,
                        Len(past) + 1),
                 (past' \o <<present'>> \o future')[Len(past') + 1])
      BY <2>4, <3>1
    <3> QED  BY <1>2, <1>6, <2>5, <2>6, <3>1, <3>2, <3>3, SMTT(60) DEF Timeline!Author
  <2>7. CASE ~(Len(past) + 1 > HistoryLimit)
    <3>1. first = 1
      BY <2>5, <2>7
    <3>2. Len(past') + 1 = Len(past) + 1 - 1 + 2
      BY <2>2, <3>1
    <3>3. past' \o <<present'>> \o future' =
          Append(SubSeq(past \o <<present>> \o future, 1, Len(past) + 1),
                 (past' \o <<present'>> \o future')[Len(past') + 1])
      BY <2>4, <3>1
    <3> QED  BY <2>7, <3>2, <3>3 DEF Timeline!Author
  <2> QED  BY <2>6, <2>7
<1>15. HistoryOK'
  <2>1. past' \in Seq(D) /\ future' \in Seq(D) /\ present' \in D
    BY <1>1, <1>6, <1>7
  <2>2. Len(past') + Len(future') <= HistoryLimit
    BY <1>2, <1>6, <1>7
  <2> QED  BY <2>1, <2>2 DEF HistoryOK
<1>16. first \in 1..Len(l) /\ \A i \in 1..(Len(m) - 1) :
          first + i - 1 \in 1..Len(l) /\ m[i] = l[first + i - 1]
  BY <1>4, <1>8, <1>9
<1>17. Len(m) > 1 /\ Len(past') + 1 = Len(m) /\ m[Len(m)] = doc /\ m[Len(m) - 1] = present
  BY <1>6, <1>8, <1>10, <1>11
<1> QED  BY <1>4, <1>8, <1>14, <1>15, <1>16, <1>17

\* Undo and redo walk along the line and leave it as it is.
LEMMA UndoMoves ==
  ASSUME HistoryOK, Undo
  PROVE  /\ Timeline!Back /\ HistoryOK' /\ Line' = Line
         /\ Len(past') + 1 = Len(past) /\ Len(past) \in 1..Len(Line)
         /\ present' = Line[Len(past)] /\ present = Line[Len(past) + 1]
<1>1. PICK D : past \in Seq(D) /\ future \in Seq(D) /\ present \in D
  BY DEF HistoryOK
<1> DEFINE n == Len(past)
<1>2. n \in Nat /\ n >= 1 /\ Len(future) \in Nat
  BY <1>1 DEF Undo
<1>3. /\ present' = past[n] /\ past[n] \in D
      /\ past' \in Seq(D) /\ Len(past') = n - 1 /\ \A i \in 1..(n - 1) : past'[i] = past[i]
  BY <1>1, <1>2 DEF Undo
<1>4. /\ future' \in Seq(D) /\ Len(future') = Len(future) + 1 /\ future'[1] = present
      /\ \A i \in 1..Len(future) : future'[i + 1] = future[i]
  BY <1>1, <1>2 DEF Undo
<1>5. /\ Line \in Seq(D) /\ Len(Line) = n + 1 + Len(future) /\ Line[n + 1] = present
      /\ \A i \in 1..n : Line[i] = past[i]
      /\ \A i \in 1..Len(future) : Line[n + 1 + i] = future[i]
  BY <1>1, LineOf DEF Line
<1>6. /\ Line' \in Seq(D) /\ Len(Line') = n - 1 + 1 + (Len(future) + 1) /\ Line'[n - 1 + 1] = past[n]
      /\ \A i \in 1..(n - 1) : Line'[i] = past'[i]
      /\ \A i \in 1..(Len(future) + 1) : Line'[n - 1 + 1 + i] = future'[i]
  <2>1. Line' = past' \o <<present'>> \o future'
    BY DEF Line
  <2>2. PICK p \in Seq(D), x \in D, f \in Seq(D) : p = past' /\ x = present' /\ f = future'
    BY <1>3, <1>4
  <2>3. PICK l : l = p \o <<x>> \o f
    OBVIOUS
  <2>4. /\ l \in Seq(D) /\ Len(l) = Len(p) + 1 + Len(f) /\ l[Len(p) + 1] = x
        /\ \A i \in 1..Len(p) : l[i] = p[i]
        /\ \A i \in 1..Len(f) : l[Len(p) + 1 + i] = f[i]
    BY <2>3, LineOf
  <2>5. Line' = l
    BY <2>1, <2>2, <2>3
  <2> QED  BY <1>3, <1>4, <2>2, <2>4, <2>5
<1>7. Line' = Line
  <2>1. ASSUME NEW i \in 1..Len(Line)
        PROVE  Line'[i] = Line[i]
    <3>1. CASE i < n
      BY <1>2, <1>3, <1>5, <1>6, <3>1
    <3>2. CASE i = n
      BY <1>2, <1>5, <1>6, <3>2
    <3>3. CASE i = n + 1
      BY <1>2, <1>4, <1>5, <1>6, <3>3
    <3>4. CASE i > n + 1
      <4>1. PICK j \in 1..Len(future) : i = n + 1 + j
        <5>1. i - (n + 1) \in 1..Len(future) /\ i = n + 1 + (i - (n + 1))
          BY <1>2, <1>5, <3>4
        <5> QED  BY <5>1
      <4>2. Line[i] = future[j]
        BY <1>5, <4>1
      <4>3. j + 1 \in 1..(Len(future) + 1) /\ n - 1 + 1 + (j + 1) = i
        BY <1>2, <4>1
      <4>4. Line'[i] = future'[j + 1]
        BY <1>6, <4>3
      <4> QED  BY <1>4, <4>2, <4>4
    <3> QED  BY <1>2, <3>1, <3>2, <3>3, <3>4
  <2>2. Len(Line') = Len(Line)
    BY <1>2, <1>5, <1>6
  <2> QED  BY <1>5, <1>6, <2>1, <2>2, SameSeq
<1>8. Timeline!Back
  BY <1>2, <1>3, <1>7 DEF Timeline!Back, Line
<1>9. HistoryOK'
  BY <1>1, <1>2, <1>3, <1>4 DEF HistoryOK
<1> QED  BY <1>2, <1>3, <1>5, <1>7, <1>8, <1>9

LEMMA RedoMoves ==
  ASSUME HistoryOK, Redo
  PROVE  /\ Timeline!Forth /\ HistoryOK' /\ Line' = Line
         /\ Len(past') = Len(past) + 1 /\ Len(past) + 1 \in 1..(Len(Line) - 1)
         /\ present' = Line[Len(past) + 2] /\ present = Line[Len(past) + 1]
<1>1. PICK D : past \in Seq(D) /\ future \in Seq(D) /\ present \in D
  BY DEF HistoryOK
<1> DEFINE n == Len(past)
<1>2. /\ n \in Nat /\ Len(future) \in Nat /\ Len(future) >= 1
      /\ HistoryLimit \in Nat /\ n + 1 <= HistoryLimit
  BY <1>1, EditHistoryAssumption DEF Redo, HistoryOK
<1>3. /\ past' = Append(past, present)
      /\ past' \in Seq(D) /\ Len(past') = n + 1 /\ past'[n + 1] = present
      /\ \A i \in 1..n : past'[i] = past[i]
  <2>1. Len(Append(past, present)) = n + 1
    BY <1>1
  <2>2. past' = Append(past, present)
    BY <1>2, <2>1 DEF Redo, Kept
  <2> QED  BY <1>1, <2>2
<1>4. /\ present' = future[1] /\ present' \in D
      /\ future' \in Seq(D) /\ Len(future') = Len(future) - 1
      /\ \A i \in 1..(Len(future) - 1) : future'[i] = future[i + 1]
  BY <1>1, <1>2 DEF Redo
<1>5. /\ Line \in Seq(D) /\ Len(Line) = n + 1 + Len(future) /\ Line[n + 1] = present
      /\ \A i \in 1..n : Line[i] = past[i]
      /\ \A i \in 1..Len(future) : Line[n + 1 + i] = future[i]
  BY <1>1, LineOf DEF Line
<1>6. /\ Line' \in Seq(D) /\ Len(Line') = n + 1 + 1 + (Len(future) - 1)
      /\ Line'[n + 1 + 1] = present'
      /\ \A i \in 1..(n + 1) : Line'[i] = past'[i]
      /\ \A i \in 1..(Len(future) - 1) : Line'[n + 1 + 1 + i] = future'[i]
  <2>1. Line' = past' \o <<present'>> \o future'
    BY DEF Line
  <2>2. PICK p \in Seq(D), x \in D, f \in Seq(D) : p = past' /\ x = present' /\ f = future'
    BY <1>3, <1>4
  <2>3. PICK l : l = p \o <<x>> \o f
    OBVIOUS
  <2>4. /\ l \in Seq(D) /\ Len(l) = Len(p) + 1 + Len(f) /\ l[Len(p) + 1] = x
        /\ \A i \in 1..Len(p) : l[i] = p[i]
        /\ \A i \in 1..Len(f) : l[Len(p) + 1 + i] = f[i]
    BY <2>3, LineOf
  <2>5. Line' = l
    BY <2>1, <2>2, <2>3
  <2> QED  BY <1>3, <1>4, <2>2, <2>4, <2>5
<1>7. Line' = Line
  <2>1. ASSUME NEW i \in 1..Len(Line)
        PROVE  Line'[i] = Line[i]
    <3>1. CASE i <= n
      <4>1. i \in 1..n /\ i \in 1..(n + 1)
        BY <1>2, <3>1
      <4>2. Line[i] = past[i] /\ Line'[i] = past'[i] /\ past'[i] = past[i]
        BY <1>3, <1>5, <1>6, <4>1
      <4> QED  BY <4>2
    <3>2. CASE i = n + 1
      <4>1. n + 1 \in 1..(n + 1)
        BY <1>2
      <4> QED  BY <1>3, <1>5, <1>6, <3>2, <4>1
    <3>3. CASE i = n + 2
      <4>1. Line[n + 1 + 1] = future[1]
        BY <1>2, <1>5
      <4> QED  BY <1>2, <1>4, <1>6, <3>3, <4>1
    <3>4. CASE i > n + 2
      <4>1. PICK j \in 1..(Len(future) - 1) : i = n + 1 + 1 + j
        <5>1. i - (n + 2) \in 1..(Len(future) - 1) /\ i = n + 1 + 1 + (i - (n + 2))
          BY <1>2, <1>5, <3>4
        <5> QED  BY <5>1
      <4>2. Line'[i] = future'[j]
        BY <1>6, <4>1
      <4>3. j + 1 \in 1..Len(future) /\ n + 1 + (j + 1) = i
        BY <1>2, <4>1
      <4>4. Line[i] = future[j + 1]
        BY <1>5, <4>3
      <4> QED  BY <1>4, <4>2, <4>4
    <3> QED  BY <1>2, <3>1, <3>2, <3>3, <3>4
  <2>2. Len(Line') = Len(Line)
    BY <1>2, <1>5, <1>6
  <2> QED  BY <1>5, <1>6, <2>1, <2>2, SameSeq
<1>8. present' = Line[n + 2]
  <2>1. Line[n + 1 + 1] = future[1]
    BY <1>2, <1>5
  <2> QED  BY <1>2, <1>4, <2>1
<1>9. Timeline!Forth
  BY <1>2, <1>3, <1>5, <1>7 DEF Timeline!Forth, Line
<1>10. HistoryOK'
  BY <1>1, <1>2, <1>3, <1>4 DEF HistoryOK
<1> QED  BY <1>2, <1>3, <1>5, <1>7, <1>8, <1>9, <1>10

\* A document from elsewhere is a line of its own.
LEMMA AdoptsMoves ==
  ASSUME NEW doc, Adopts(doc)
  PROVE  Timeline!Foreign /\ HistoryOK' /\ Line' = <<doc>>
<1>1. <<>> \in Seq({doc}) /\ doc \in {doc} /\ Len(<<>>) = 0
  OBVIOUS
<1>2. Line' = <<>> \o <<doc>> \o <<>>
  BY DEF Adopts, Line
<1>3. <<>> \o <<doc>> \o <<>> = <<doc>>
  OBVIOUS
<1>4. 0 + 0 <= HistoryLimit
  BY EditHistoryAssumption
<1>5. HistoryOK'
  BY <1>1, <1>4 DEF Adopts, HistoryOK
<1> QED  BY <1>1, <1>2, <1>3, <1>5 DEF Timeline!Foreign, Adopts, Line

LEMMA OpensAt ==
  ASSUME NEW doc, Opens(doc)
  PROVE  Timeline!Begin /\ HistoryOK /\ Line = <<doc>>
<1>1. <<>> \in Seq({doc}) /\ doc \in {doc} /\ Len(<<>>) = 0
  OBVIOUS
<1>2. Line = <<>> \o <<doc>> \o <<>>
  BY DEF Opens, Line
<1>3. <<>> \o <<doc>> \o <<>> = <<doc>>
  OBVIOUS
<1>4. 0 + 0 <= HistoryLimit
  BY EditHistoryAssumption
<1>5. HistoryOK
  BY <1>1, <1>4 DEF Opens, HistoryOK
<1> QED  BY <1>1, <1>2, <1>3, <1>5 DEF Timeline!Begin, Opens, Line

-----------------------------------------------------------------------------
(* Terminals in the order of the document.                                 *)

LEMMA PinsFinite == IsFiniteSet(Pins) /\ \A P : P \subseteq Pins => IsFiniteSet(P)
<1>1. IsFiniteSet(Parts) /\ IsFiniteSet(PinNames)
  BY SchematicAssumption, FS_Interval DEF Parts
<1>2. IsFiniteSet(Pins)
  BY <1>1, FS_Product DEF Pins
<1> QED  BY <1>2, FS_Subset

\* Of two terminals one comes first.
LEMMA InOrder ==
  /\ \A p \in Pins : ~Before(p, p)
  /\ \A p \in Pins, q \in Pins : p = q \/ Before(p, q) \/ Before(q, p)
  /\ \A p \in Pins, q \in Pins, r \in Pins : Before(p, q) /\ Before(q, r) => Before(p, r)
<1>1. \A p \in Pins : p[1] \in Int /\ p[2] \in Int /\ p = <<p[1], p[2]>>
  <2> TAKE p \in Pins
  <2>1. PICK x \in Parts, y \in PinNames : p = <<x, y>>
    BY DEF Pins
  <2>2. x \in Int /\ y \in Int
    BY SchematicAssumption DEF Parts
  <2> QED  BY <2>1, <2>2
<1>2. \A p \in Pins : ~Before(p, p)
  BY <1>1 DEF Before
<1>3. ASSUME NEW p \in Pins, NEW q \in Pins
      PROVE  p = q \/ Before(p, q) \/ Before(q, p)
  <2>1. p[1] = q[1] /\ p[2] = q[2] => p = q
    BY <1>1
  <2> QED  BY <1>1, <2>1 DEF Before
<1>4. \A p \in Pins, q \in Pins, r \in Pins : Before(p, q) /\ Before(q, r) => Before(p, r)
  BY <1>1 DEF Before
<1> QED  BY <1>2, <1>3, <1>4

\* Ranks in a set of terminals count it through.
LEMMA Ranked ==
  ASSUME NEW P \in SUBSET Pins
  PROVE  /\ IsFiniteSet(P) /\ Cardinality(P) \in Nat
         /\ \A k \in 1..Cardinality(P) : \E p \in P : PinRank(p, P) = k
         /\ \A k \in 1..Cardinality(P) : NthPin(k, P) \in P
         /\ \A p \in P : PinRank(p, P) \in 1..Cardinality(P) /\ NthPin(PinRank(p, P), P) = p
<1> DEFINE upto(p) == {q \in P : q = p \/ Before(q, p)}
           rank == [p \in P |-> PinRank(p, P)]
           N == 1..Cardinality(P)
<1>1. IsFiniteSet(P) /\ Cardinality(P) \in Nat
  BY PinsFinite, FS_CardinalityType
<1>2. ASSUME NEW p \in P
      PROVE  /\ IsFiniteSet(upto(p)) /\ Cardinality(upto(p)) \in N
             /\ PinRank(p, P) = Cardinality(upto(p))
  <2>1. upto(p) \in SUBSET P
    OBVIOUS
  <2>2. /\ IsFiniteSet(upto(p)) /\ Cardinality(upto(p)) \in Nat
        /\ Cardinality(upto(p)) <= Cardinality(P)
    BY <1>1, <2>1, FS_Subset, FS_CardinalityType
  <2>3. p \in upto(p)
    OBVIOUS
  <2>4. Cardinality(upto(p)) # 0
    BY <2>2, <2>3, FS_EmptySet
  <2>5. PinRank(p, P) = Cardinality(upto(p))
    BY DEF PinRank
  <2> HIDE DEF upto
  <2> QED  BY <1>1, <2>2, <2>4, <2>5
<1>3. ASSUME NEW p \in P, NEW q \in P, Before(p, q)
      PROVE  PinRank(p, P) # PinRank(q, P)
  <2>1. upto(p) \in SUBSET upto(q)
    BY <1>3, InOrder
  <2>2. q \in upto(q) /\ q \notin upto(p)
    BY <1>3, InOrder
  <2>3. upto(p) # upto(q)
    BY <2>2
  <2>4. Cardinality(upto(p)) # Cardinality(upto(q))
    BY <1>2, <2>1, <2>3, FS_Subset
  <2> QED  BY <1>2, <2>4
<1>4. rank \in [P -> N] /\ \A p \in P : rank[p] = PinRank(p, P)
  BY <1>2
<1>5. \A p \in P, q \in P : rank[p] = rank[q] => p = q
  BY <1>3, <1>4, InOrder
<1>6. rank \in Injection(P, N)
  BY <1>4, <1>5 DEF Injection, IsInjective
<1>7. IsFiniteSet(N) /\ Cardinality(N) = Cardinality(P)
  BY <1>1, FS_Interval
<1>8. rank \in Surjection(P, N)
  BY <1>6, <1>7, FS_Injection
<1>9. \A k \in N : \E p \in P : rank[p] = k
  BY <1>8 DEF Surjection
<1>10. \A k \in N : NthPin(k, P) \in P
  BY <1>4, <1>9 DEF NthPin
<1>11. \A p \in P : NthPin(PinRank(p, P), P) = p
  <2> TAKE p \in P
  <2>1. \A q \in P : PinRank(q, P) = PinRank(p, P) <=> q = p
    BY <1>4, <1>5
  <2> QED  BY <2>1, ZenonT(60) DEF NthPin
<1> QED  BY <1>1, <1>4, <1>9, <1>10, <1>11

LEMMA FirstOf ==
  ASSUME NEW P \in SUBSET Pins, P # {}
  PROVE  FirstPin(P) \in P
<1>1. IsFiniteSet(P) /\ Cardinality(P) \in Nat
  BY Ranked
<1>2. 1 \in 1..Cardinality(P)
  BY <1>1, FS_EmptySet
<1>3. PICK p \in P : PinRank(p, P) = 1
  BY <1>2, Ranked
<1> DEFINE upto == {q \in P : q = p \/ Before(q, p)}
<1>4. upto \in SUBSET P /\ Cardinality(upto) = 1 /\ p \in upto
  BY <1>3 DEF PinRank
<1>5. IsFiniteSet(upto)
  BY <1>1, <1>4, FS_Subset
<1>6. \E x : upto = {x}
  <2> HIDE DEF upto
  <2> QED  BY <1>4, <1>5, FS_Singleton
<1>7. upto = {p}
  BY <1>4, <1>6
<1>8. \A q \in P : p = q \/ Before(p, q)
  <2>1. \A q \in P : Before(q, p) => q = p
    BY <1>7
  <2> QED  BY <2>1, InOrder
<1> QED  BY <1>8 DEF FirstPin

\* A nonempty set of numbers has a least one.
LEMMA Least ==
  ASSUME NEW S \in SUBSET Nat, S # {}
  PROVE  \E i \in S : \A j \in S : i <= j
<1>1. \E x \in S : \A y \in S : ~(<<y, x>> \in OpToRel(<, Nat))
  BY NatLessThanWellFounded, WFMin
<1>2. \A x \in Nat, y \in Nat : y < x => <<y, x>> \in OpToRel(<, Nat)
  <2> TAKE x \in Nat, y \in Nat
  <2>1. HAVE y < x
  <2>2. <<y, x>> \in {ss \in Nat \X Nat : ss[1] < ss[2]}
    BY <2>1
  <2> QED  BY <2>2, ZenonT(60) DEF OpToRel
<1>3. PICK i \in S : \A y \in S : ~(<<y, i>> \in OpToRel(<, Nat))
  BY <1>1
<1>4. \A j \in S : ~(j < i)
  BY <1>2, <1>3
<1> QED  BY <1>4

\* A set with 0 and with the successor of each of its members up to n has all of
\* 0 .. n: induction without an operator for a parameter.
LEMMA Ascent ==
  ASSUME NEW n \in Nat, NEW S, 0 \in S, \A k \in 1..n : k - 1 \in S => k \in S
  PROVE  \A k \in 0..n : k \in S
<1> DEFINE Missed == {k \in 0..n : k \notin S}
<1> SUFFICES ASSUME Missed # {} PROVE FALSE
  OBVIOUS
<1>1. Missed \in SUBSET Nat
  OBVIOUS
<1>2. PICK i \in Missed : \A j \in Missed : i <= j
  BY <1>1, Least
<1>3. i # 0 /\ i \in 1..n
  OBVIOUS
<1>4. i - 1 \notin Missed /\ i - 1 \in 0..n
  BY <1>2, <1>3
<1> QED  BY <1>3, <1>4

\* Ranks in a set of numbers count it through.
LEMMA RankedNumbers ==
  ASSUME NEW S \in SUBSET Nat, IsFiniteSet(S)
  PROVE  /\ Cardinality(S) \in Nat
         /\ \A n \in S : Rank(n, S) \in 1..Cardinality(S)
         /\ \A k \in 1..Cardinality(S) : Nth(k, S) \in S
<1> DEFINE upto(n) == {m \in S : m <= n}
           rank == [n \in S |-> Rank(n, S)]
           N == 1..Cardinality(S)
<1>1. Cardinality(S) \in Nat
  BY FS_CardinalityType
<1>2. ASSUME NEW n \in S
      PROVE  /\ IsFiniteSet(upto(n)) /\ Cardinality(upto(n)) \in N
             /\ Rank(n, S) = Cardinality(upto(n))
  <2>1. upto(n) \in SUBSET S
    OBVIOUS
  <2>2. /\ IsFiniteSet(upto(n)) /\ Cardinality(upto(n)) \in Nat
        /\ Cardinality(upto(n)) <= Cardinality(S)
    BY <1>1, <2>1, FS_Subset, FS_CardinalityType
  <2>3. n \in upto(n)
    OBVIOUS
  <2>4. Cardinality(upto(n)) # 0
    BY <2>2, <2>3, FS_EmptySet
  <2>5. Rank(n, S) = Cardinality(upto(n))
    BY DEF Rank
  <2> HIDE DEF upto
  <2> QED  BY <1>1, <2>2, <2>4, <2>5
<1>3. ASSUME NEW n \in S, NEW m \in S, n < m
      PROVE  Rank(n, S) # Rank(m, S)
  <2>1. upto(n) \in SUBSET upto(m) /\ m \in upto(m) /\ m \notin upto(n)
    <3>1. n \in Nat /\ m \in Nat /\ \A j \in S : j \in Nat
      OBVIOUS
    <3>2. \A j \in S : j <= n => j <= m
      BY <1>3, <3>1
    <3>3. m <= m /\ ~(m <= n)
      BY <1>3, <3>1
    <3> QED  BY <3>2, <3>3
  <2>2. upto(n) # upto(m)
    BY <2>1
  <2>3. Cardinality(upto(n)) # Cardinality(upto(m))
    BY <1>2, <2>1, <2>2, FS_Subset
  <2> QED  BY <1>2, <2>3
<1>4. rank \in [S -> N] /\ \A n \in S : rank[n] = Rank(n, S)
  BY <1>2
<1>5. \A n \in S, m \in S : rank[n] = rank[m] => n = m
  BY <1>3, <1>4
<1>6. rank \in Injection(S, N)
  BY <1>4, <1>5 DEF Injection, IsInjective
<1>7. IsFiniteSet(N) /\ Cardinality(N) = Cardinality(S)
  BY <1>1, FS_Interval
<1>8. rank \in Surjection(S, N)
  BY <1>6, <1>7, FS_Injection
<1>9. \A k \in N : \E n \in S : rank[n] = k
  BY <1>8 DEF Surjection
<1>10. \A k \in N : Nth(k, S) \in S
  BY <1>4, <1>9 DEF Nth
<1> QED  BY <1>1, <1>2, <1>10

-----------------------------------------------------------------------------
(* What overlapping groups join.                                           *)

\* One step further.
Wider(J, groups) == J \union UNION {G \in groups : G \intersect J # {}}

\* The recursion over the steps is well defined.
LEMMA JoinRecursion ==
  ASSUME NEW x, NEW S, IsFiniteSet(S), NEW groups
  PROVE  \E f : /\ f[0] = {x}
                /\ \A n \in 1..Cardinality(S) : f[n] = Wider(f[n - 1], groups)
                /\ Joined(x, S, groups) = f[Cardinality(S)]
<1> DEFINE N == Cardinality(S)
           OneMore(J) == Wider(J, groups)
           Recursive(f, m) == f = [n \in 0..m |-> IF n = 0 THEN {x} ELSE OneMore(f[n - 1])]
           T == {m \in 0..N : \E f : Recursive(f, m)}
<1>1. N \in Nat
  BY FS_CardinalityType
<1>2. 0 \in T
  <2> HIDE DEF OneMore
  <2>1. Recursive([n \in 0..0 |-> {x}], 0)
    OBVIOUS
  <2>2. 0 \in 0..N
    BY <1>1
  <2> HIDE DEF Recursive
  <2> QED  BY <2>1, <2>2
<1>3. ASSUME NEW m \in 1..N, m - 1 \in T
      PROVE  m \in T
  <2> HIDE DEF OneMore
  <2>1. PICK f : Recursive(f, m - 1)
    BY <1>3
  <2> DEFINE g == [n \in 0..m |-> IF n = m THEN OneMore(f[m - 1]) ELSE f[n]]
  <2>2. \A n \in 0..(m - 1) : f[n] = IF n = 0 THEN {x} ELSE OneMore(f[n - 1])
    BY <2>1
  <2>3. \A n \in 0..m : g[n] = IF n = m THEN OneMore(f[m - 1]) ELSE f[n]
    OBVIOUS
  <2> HIDE DEF g
  <2>4. ASSUME NEW n \in 0..m
        PROVE  g[n] = IF n = 0 THEN {x} ELSE OneMore(g[n - 1])
    <3>1. CASE n = 0
      BY <3>1, <2>2, <2>3
    <3>2. CASE n # 0 /\ n # m
      <4>1. n - 1 \in 0..m /\ n - 1 # m /\ n \in 0..(m - 1)
        BY <3>2
      <4> QED  BY <3>2, <4>1, <2>2, <2>3
    <3>3. CASE n = m
      <4>1. n - 1 \in 0..m /\ n - 1 # m /\ n # 0
        BY <3>3
      <4> QED  BY <3>3, <4>1, <2>3
    <3> QED  BY <3>1, <3>2, <3>3
  <2>5. Recursive(g, m)
    <3>1. g = [n \in 0..m |-> g[n]]
      BY DEF g
    <3> QED  BY <2>4, <3>1
  <2> QED  BY <2>5
<1>4. \E f : Recursive(f, N)
  <2>1. N \in 0..N
    BY <1>1
  <2>2. N \in T
    <3> HIDE DEF T, N
    <3>1. \A n \in 0..N : n \in T
      BY <1>1, <1>2, <1>3, Ascent
    <3> QED  BY <2>1, <3>1
  <2> QED  BY <2>2
<1> DEFINE joined == CHOOSE f : Recursive(f, N)
<1>5. Recursive(joined, N)
  BY <1>4
<1>6. Joined(x, S, groups) = joined[N]
  BY DEF Joined, Wider
<1>7. joined[0] = {x} /\ \A n \in 1..N : joined[n] = OneMore(joined[n - 1])
  <2> HIDE DEF OneMore, joined, N
  <2>1. \A n \in 0..N : joined[n] = IF n = 0 THEN {x} ELSE OneMore(joined[n - 1])
    BY <1>5
  <2> QED  BY <1>1, <2>1
<1> QED  BY <1>6, <1>7

\* A set that has all of a group once it has one of it.
Closed(J, groups) == \A G \in groups : G \intersect J # {} => G \subseteq J

\* What is joined with x is the least closed set with x.
LEMMA JoinedIs ==
  ASSUME NEW S, IsFiniteSet(S), NEW groups \in SUBSET SUBSET S, NEW x \in S
  PROVE  LET J == Joined(x, S, groups)
         IN  /\ x \in J /\ J \subseteq S
             /\ Closed(J, groups)
             /\ \A K : x \in K /\ Closed(K, groups) => J \subseteq K
<1> DEFINE N == Cardinality(S)
           OneMore(J) == Wider(J, groups)
<1>1. N \in Nat
  BY FS_CardinalityType
<1>2. PICK f : /\ f[0] = {x} /\ \A n \in 1..N : f[n] = OneMore(f[n - 1])
               /\ Joined(x, S, groups) = f[N]
  BY JoinRecursion
<1>3. f[0] = {x} /\ \A n \in 1..N : f[n] = OneMore(f[n - 1])
  BY <1>2
<1> HIDE DEF N
<1>4. ASSUME NEW K, x \in K, Closed(K, groups)
      PROVE  f[N] \subseteq K
  <2> DEFINE T == {n \in 0..N : f[n] \subseteq K}
  <2>1. 0 \in T
    BY <1>1, <1>3, <1>4
  <2>2. ASSUME NEW n \in 1..N, n - 1 \in T
        PROVE  n \in T
    <3>1. f[n - 1] \subseteq K
      BY <2>2
    <3>2. OneMore(f[n - 1]) \subseteq K
      BY <3>1, <1>4 DEF Closed, Wider
    <3> QED  BY <1>3, <3>2
  <2> HIDE DEF T
  <2>3. \A n \in 0..N : n \in T
    BY <1>1, <2>1, <2>2, Ascent
  <2> QED  BY <1>1, <2>3 DEF T
<1>5. f[N] \subseteq S
  <2>1. Closed(S, groups)
    BY DEF Closed
  <2> QED  BY <1>4, <2>1
\* As long as a step finds something new, there is one more than steps.
<1>6. x \in f[N] /\ Closed(f[N], groups)
  <2> DEFINE T == {n \in 0..N : /\ x \in f[n] /\ f[n] \subseteq S
                                /\ Closed(f[n], groups) \/ Cardinality(f[n]) >= n + 1}
  <2>1. 0 \in T
    <3>1. Cardinality({x}) >= 0 + 1
      BY FS_Singleton
    <3>2. x \in {x} /\ {x} \subseteq S /\ 0 \in 0..N
      BY <1>1
    <3> QED  BY <1>3, <3>1, <3>2
  <2>2. ASSUME NEW n \in 1..N, n - 1 \in T
        PROVE  n \in T
    <3>1. PICK m \in Nat : m = n - 1
      BY <1>1
    <3>2. PICK J : J = f[m]
      OBVIOUS
    <3>3. f[n] = OneMore(J)
      BY <1>3, <3>1, <3>2
    <3>4. x \in J /\ J \subseteq S /\ (Closed(J, groups) \/ Cardinality(J) >= m + 1)
      BY <2>2, <3>1, <3>2
    <3>5. x \in OneMore(J) /\ OneMore(J) \subseteq S
      BY <3>4 DEF Wider
    <3>6. CASE Closed(J, groups)
      <4>1. OneMore(J) = J
        BY <3>6 DEF Closed, Wider
      <4>2. f[n] = J /\ n \in 0..N
        BY <1>1, <3>3, <4>1
      <4> QED  BY <3>4, <3>6, <4>2
    <3>7. CASE ~Closed(J, groups)
      <4>1. PICK G \in groups : G \intersect J # {} /\ ~(G \subseteq J)
        BY <3>7 DEF Closed
      <4>2. PICK y \in G : y \notin J
        BY <4>1
      <4>3. J \subseteq OneMore(J) /\ y \in OneMore(J)
        BY <4>1, <4>2 DEF Wider
      <4> HIDE DEF OneMore
      <4>4. IsFiniteSet(OneMore(J)) /\ IsFiniteSet(J)
        BY <3>4, <3>5, FS_Subset
      <4>5. /\ Cardinality(J) <= Cardinality(OneMore(J)) /\ Cardinality(J) # Cardinality(OneMore(J))
            /\ Cardinality(J) \in Nat /\ Cardinality(OneMore(J)) \in Nat
        <5>1. J \in SUBSET OneMore(J) /\ J # OneMore(J)
          BY <4>2, <4>3
        <5> QED  BY <4>4, <5>1, FS_Subset, FS_CardinalityType
      <4>6. Cardinality(OneMore(J)) >= n + 1
        BY <3>1, <3>4, <3>7, <4>5
      <4> QED  BY <3>3, <3>5, <4>6
    <3> QED  BY <3>6, <3>7
  <2> HIDE DEF T
  <2>3. \A n \in 0..N : n \in T
    BY <1>1, <2>1, <2>2, Ascent
  <2>4. N \in T
    BY <1>1, <2>3
  <2>5. Cardinality(f[N]) <= N /\ Cardinality(f[N]) \in Nat
    <3>1. IsFiniteSet(f[N]) /\ Cardinality(f[N]) <= Cardinality(S)
      BY <1>5, FS_Subset
    <3> QED  BY <3>1, FS_CardinalityType DEF N
  <2> QED  BY <1>1, <2>4, <2>5 DEF T
<1>7. Joined(x, S, groups) = f[N]
  BY <1>2 DEF N
<1> QED  BY <1>4, <1>5, <1>6, <1>7

\* What is joined with a member is what is joined with x: the groups part the set.
LEMMA JoinedParts ==
  ASSUME NEW S, IsFiniteSet(S), NEW groups \in SUBSET SUBSET S, NEW x \in S,
         NEW y \in Joined(x, S, groups)
  PROVE  y \in S /\ Joined(y, S, groups) = Joined(x, S, groups)
<1> DEFINE J(z) == Joined(z, S, groups)
<1>1. \A z \in S : /\ z \in J(z) /\ J(z) \subseteq S /\ Closed(J(z), groups)
                   /\ \A K : z \in K /\ Closed(K, groups) => J(z) \subseteq K
  BY JoinedIs
<1> HIDE DEF J
<1>2. y \in J(x)
  BY DEF J
<1>3. y \in S
  BY <1>1, <1>2
<1>4. J(y) \subseteq J(x)
  BY <1>1, <1>2, <1>3
<1>5. J(x) \subseteq J(y)
  <2> DEFINE K == {z \in S : x \in J(z)}
  <2>1. x \in K
    BY <1>1
  <2>2. ASSUME NEW G \in groups, G \intersect K # {}
        PROVE  G \subseteq K
    <3>1. PICK z \in G : z \in S /\ x \in J(z)
      BY <2>2
    <3>2. ASSUME NEW w \in G
          PROVE  w \in K
      <4>1. w \in S /\ G \subseteq J(w)
        BY <1>1, <3>2 DEF Closed
      <4>2. J(z) \subseteq J(w)
        BY <1>1, <3>1, <4>1
      <4> QED  BY <3>1, <4>1, <4>2
    <3> QED  BY <3>2
  <2>3. Closed(K, groups)
    <3> HIDE DEF K
    <3> QED  BY <2>2 DEF Closed
  <2>4. y \in K
    <3> HIDE DEF K
    <3> QED  BY <1>1, <1>2, <2>1, <2>3
  <2> QED  BY <1>1, <2>4
<1> QED  BY <1>3, <1>4, <1>5 DEF J

-----------------------------------------------------------------------------
(* Edits.                                                                  *)

LEMMA CircuitFacts ==
  ASSUME NEW c, CircuitOK(c)
  PROVE  /\ {"net", "nets"} \subseteq DOMAIN c
         /\ c = [net |-> c.net, nets |-> c.nets]
         /\ c.net \in [PartsOf(c) \X PinNames -> c.nets]
         /\ DOMAIN c.net = PartsOf(c) \X PinNames
         /\ DOMAIN c.net \in SUBSET Pins /\ IsFiniteSet(DOMAIN c.net)
         /\ \A p \in DOMAIN c.net : c.net[p] \in c.nets
         /\ c.nets \subseteq Nets /\ PartsOf(c) \subseteq Parts
<1>1. c \in [net : [PartsOf(c) \X PinNames -> c.nets], nets : SUBSET Nets] /\ PartsOf(c) \subseteq Parts
  BY DEF CircuitOK
<1>2. /\ c = [net |-> c.net, nets |-> c.nets]
      /\ c.net \in [PartsOf(c) \X PinNames -> c.nets] /\ c.nets \subseteq Nets
      /\ {"net", "nets"} \subseteq DOMAIN c
  BY <1>1
<1>3. DOMAIN c.net = PartsOf(c) \X PinNames /\ \A p \in DOMAIN c.net : c.net[p] \in c.nets
  BY <1>2
<1>4. DOMAIN c.net \in SUBSET Pins
  BY <1>1, <1>3 DEF Pins
<1> QED  BY <1>1, <1>2, <1>3, <1>4, PinsFinite

\* A design whose signals are on a pin, or were on none before.
LEMMA CircuitMade ==
  ASSUME NEW c, CircuitOK(c),
         NEW parts \in SUBSET Parts, NEW nets \in SUBSET Nets,
         NEW net \in [parts \X PinNames -> nets],
         \A n \in nets \intersect Signals :
            n \in Unused(c) \/ \E p \in DOMAIN net : net[p] = n
  PROVE  CircuitOK([net |-> net, nets |-> nets])
<1> DEFINE d == [net |-> net, nets |-> nets]
<1>1. d.net = net /\ d.nets = nets
  OBVIOUS
<1>2. DOMAIN net = parts \X PinNames
  OBVIOUS
<1>3. PartsOf(d) \subseteq parts /\ PartsOf(d) \X PinNames = parts \X PinNames
  <2>1. PartsOf(d) = {p[1] : p \in parts \X PinNames}
    BY <1>1, <1>2 DEF PartsOf
  <2> HIDE DEF d
  <2>2. \A x \in parts, y \in PinNames : x \in PartsOf(d)
    <3> TAKE x \in parts, y \in PinNames
    <3>1. <<x, y>> \in parts \X PinNames /\ <<x, y>>[1] = x
      OBVIOUS
    <3> QED  BY <2>1, <3>1
  <2>3. PartsOf(d) \subseteq parts
    BY <2>1
  <2> QED  BY <2>2, <2>3
<1>4. Unused(d) \subseteq Unused(c)
  <2> SUFFICES ASSUME NEW n \in Unused(d) PROVE n \in Unused(c)
    OBVIOUS
  <2>1. n \in nets \intersect Signals /\ ~\E p \in DOMAIN net : net[p] = n
    BY <1>1 DEF Unused, PinsOn
  <2> QED  BY <2>1
<1>5. IsFiniteSet(Unused(c))
  <2>1. IsFiniteSet(Pins)
    BY PinsFinite
  <2>2. Cardinality(Pins) \in Nat
    BY <2>1, FS_CardinalityType
  <2>3. IsFiniteSet(Signals)
    BY <2>2, FS_Interval DEF Signals
  <2>4. Unused(c) \in SUBSET Signals
    BY DEF Unused
  <2> QED  BY <2>3, <2>4, FS_Subset
<1> HIDE DEF d
<1>6. Cardinality(Unused(d)) <= Cardinality(Pins)
  <2>1. Cardinality(Unused(d)) <= Cardinality(Unused(c)) /\ IsFiniteSet(Unused(d))
    BY <1>4, <1>5, FS_Subset
  <2>2. Cardinality(Unused(c)) <= Cardinality(Pins)
    BY DEF CircuitOK
  <2>3. IsFiniteSet(Pins)
    BY PinsFinite
  <2>4. Cardinality(Unused(c)) \in Nat /\ Cardinality(Unused(d)) \in Nat /\ Cardinality(Pins) \in Nat
    BY <1>5, <2>1, <2>3, FS_CardinalityType
  <2> QED  BY <2>1, <2>2, <2>4
<1>7. d \in [net : [PartsOf(d) \X PinNames -> d.nets], nets : SUBSET Nets]
  <2>1. net \in [PartsOf(d) \X PinNames -> nets]
    BY <1>3
  <2> QED  BY <1>1, <2>1 DEF d
<1> QED  BY <1>3, <1>6, <1>7 DEF CircuitOK, d

\* A design with some of its pins on another net.
Remade(c, pins, n, nets) ==
    [net |-> [p \in DOMAIN c.net |-> IF p \in pins THEN n ELSE c.net[p]], nets |-> nets]

LEMMA RemadeIs ==
  ASSUME NEW c, CircuitOK(c), NEW pins, NEW n, NEW nets
  PROVE  /\ Repoint(c, pins, n).nets = c.nets
         /\ [Repoint(c, pins, n) EXCEPT !.nets = nets] = Remade(c, pins, n, nets)
<1> DEFINE net == [p \in DOMAIN c.net |-> IF p \in pins THEN n ELSE c.net[p]]
<1>1. c = [net |-> c.net, nets |-> c.nets]
  BY CircuitFacts
<1>2. Repoint(c, pins, n) = [c EXCEPT !.net = net]
  BY DEF Repoint
<1>3. Remade(c, pins, n, nets) = [net |-> net, nets |-> nets]
  BY DEF Remade
<1> HIDE DEF net
<1>4. Repoint(c, pins, n) = [net |-> net, nets |-> c.nets]
  BY <1>1, <1>2
<1> QED  BY <1>3, <1>4

LEMMA RemadeKeeps ==
  ASSUME NEW c, CircuitOK(c), NEW pins, NEW nets \in SUBSET Nets, NEW n \in nets,
         \A p \in DOMAIN c.net : p \in pins \/ c.net[p] \in nets,
         \E p \in DOMAIN c.net : p \in pins,
         \A m \in nets \intersect Signals :
            \/ m \in Unused(c) \/ m = n
            \/ \E p \in DOMAIN c.net : p \notin pins /\ c.net[p] = m
  PROVE  CircuitOK(Remade(c, pins, n, nets))
<1> DEFINE net == [p \in DOMAIN c.net |-> IF p \in pins THEN n ELSE c.net[p]]
<1>1. DOMAIN c.net = PartsOf(c) \X PinNames /\ PartsOf(c) \in SUBSET Parts
  BY CircuitFacts
<1>2. net \in [PartsOf(c) \X PinNames -> nets]
  BY <1>1
<1>3. DOMAIN net = DOMAIN c.net /\ \A p \in DOMAIN c.net : net[p] = IF p \in pins THEN n ELSE c.net[p]
  OBVIOUS
<1> HIDE DEF net
<1>4. \A m \in nets \intersect Signals : m \in Unused(c) \/ \E p \in DOMAIN net : net[p] = m
  BY <1>3
<1>5. CircuitOK([net |-> net, nets |-> nets])
  BY <1>1, <1>2, <1>4, CircuitMade
<1> QED  BY <1>5 DEF Remade, net

\* There are more numbers for signals than a design with that many pins can use.
LEMMA FreeCount ==
  ASSUME NEW c, CircuitOK(c), NEW D \in SUBSET DOMAIN c.net,
         \A p \in DOMAIN c.net : \E q \in D : c.net[q] = c.net[p]
  PROVE  /\ FreeSignals(c) \in SUBSET Nat /\ IsFiniteSet(FreeSignals(c))
         /\ Cardinality(Pins) \in Nat /\ IsFiniteSet(D) /\ Cardinality(D) \in Nat
         /\ Cardinality(FreeSignals(c)) >= Cardinality(Pins) - Cardinality(D)
<1> DEFINE M == Cardinality(Pins)
           Used == Signals \intersect c.nets
           On == {c.net[q] : q \in D}
<1>1. IsFiniteSet(Pins) /\ IsFiniteSet(D) /\ M \in Nat /\ Cardinality(D) \in Nat
  <2>1. IsFiniteSet(DOMAIN c.net)
    BY CircuitFacts
  <2> QED  BY <2>1, PinsFinite, FS_Subset, FS_CardinalityType
<1>2. IsFiniteSet(Signals) /\ Cardinality(Signals) = 2 * M /\ Signals \in SUBSET Nat
  <2> HIDE DEF M
  <2>1. IsFiniteSet(1..(2 * M)) /\ Cardinality(1..(2 * M)) = 2 * M
    BY <1>1, FS_Interval
  <2> QED  BY <1>1, <2>1 DEF Signals, M
<1>3. IsFiniteSet(On) /\ Cardinality(On) <= Cardinality(D) /\ Cardinality(On) \in Nat
  <2> DEFINE g == [q \in D |-> c.net[q]]
  <2>1. g \in Surjection(D, On)
    BY DEF Surjection
  <2> HIDE DEF g, On
  <2> QED  BY <1>1, <2>1, FS_Surjection, FS_CardinalityType
<1>4. Used \subseteq Unused(c) \union On
  <2> SUFFICES ASSUME NEW n \in Used, n \notin Unused(c) PROVE n \in On
    OBVIOUS
  <2>1. PICK p \in DOMAIN c.net : c.net[p] = n
    BY DEF Unused, PinsOn
  <2> QED  BY <2>1
<1>5. IsFiniteSet(Unused(c)) /\ Cardinality(Unused(c)) \in Nat /\ Cardinality(Unused(c)) <= M
  <2>1. Unused(c) \in SUBSET Signals
    BY DEF Unused
  <2> QED  BY <1>2, <2>1, FS_Subset, FS_CardinalityType DEF CircuitOK
<1> HIDE DEF On, Used, M
<1>6. Cardinality(Used) \in Nat /\ Cardinality(Used) <= M + Cardinality(D)
  <2>1. /\ IsFiniteSet(Unused(c) \union On) /\ IsFiniteSet(Unused(c) \intersect On)
        /\ Cardinality(Unused(c) \union On) =
             Cardinality(Unused(c)) + Cardinality(On) - Cardinality(Unused(c) \intersect On)
    BY <1>3, <1>5, FS_Union, FS_Intersection
  <2>2. IsFiniteSet(Used) /\ Cardinality(Used) <= Cardinality(Unused(c) \union On)
    BY <1>4, <2>1, FS_Subset
  <2>3. Cardinality(Unused(c) \intersect On) \in Nat /\ Cardinality(Used) \in Nat
    BY <2>1, <2>2, FS_CardinalityType
  <2> QED  BY <1>1, <1>3, <1>5, <2>1, <2>2, <2>3
<1>7. /\ IsFiniteSet(FreeSignals(c)) /\ FreeSignals(c) \in SUBSET Nat
      /\ Cardinality(FreeSignals(c)) = 2 * M - Cardinality(Used)
  BY <1>2, FS_Difference DEF FreeSignals, Used
<1>8. Cardinality(FreeSignals(c)) >= M - Cardinality(D)
  BY <1>1, <1>6, <1>7
<1> QED  BY <1>1, <1>7, <1>8 DEF M

\* Where two pins share a net there is a number for a new one.
LEMMA FreshIsFree ==
  ASSUME NEW c, CircuitOK(c), NEW p \in DOMAIN c.net, NEW q \in DOMAIN c.net,
         p # q, c.net[p] = c.net[q]
  PROVE  FreshNet(c) \in Signals \ c.nets
<1> DEFINE D == DOMAIN c.net \ {q}
           F == FreeSignals(c)
<1>1. /\ DOMAIN c.net \in SUBSET Pins /\ IsFiniteSet(DOMAIN c.net) /\ IsFiniteSet(Pins)
  BY CircuitFacts, PinsFinite
<1>2. \A r \in DOMAIN c.net : \E s \in D : c.net[s] = c.net[r]
  <2> TAKE r \in DOMAIN c.net
  <2>1. p \in D /\ c.net[p] = c.net[q]
    OBVIOUS
  <2> QED  BY <2>1
<1>3. Cardinality(D) < Cardinality(Pins)
  <2>1. D \in SUBSET Pins /\ q \in Pins /\ q \notin D
    BY <1>1
  <2>2. Cardinality(D) <= Cardinality(Pins) /\ IsFiniteSet(D) /\ Cardinality(D) # Cardinality(Pins)
    <3> HIDE DEF D
    <3> QED  BY <1>1, <2>1, FS_Subset
  <2>3. Cardinality(D) \in Nat /\ Cardinality(Pins) \in Nat
    BY <1>1, <2>2, FS_CardinalityType
  <2> QED  BY <2>2, <2>3
<1>4. /\ F \in SUBSET Nat /\ IsFiniteSet(F)
      /\ Cardinality(Pins) \in Nat /\ Cardinality(D) \in Nat
      /\ Cardinality(F) >= Cardinality(Pins) - Cardinality(D)
  <2>1. D \in SUBSET DOMAIN c.net
    OBVIOUS
  <2> HIDE DEF D
  <2> QED  BY <1>2, <2>1, FreeCount
<1> HIDE DEF D, F
<1>5. Cardinality(F) \in Nat /\ Cardinality(F) >= 1
  BY <1>3, <1>4, FS_CardinalityType
<1>6. Nth(1, F) \in F
  BY <1>4, <1>5, RankedNumbers
<1> QED  BY <1>6 DEF FreshNet, F, FreeSignals

LEMMA ConnectKeeps ==
  ASSUME NEW c, CircuitOK(c), NEW from, NEW to, ConnectPins(c, from, to).ok
  PROVE  CircuitOK(ConnectPins(c, from, to).circuit)
<1> DEFINE a == c.net[from]
           b == c.net[to]
           keep == IF NetRank(b) >= NetRank(a) THEN b ELSE a
           absorbed == IF keep = b THEN a ELSE b
           pins == PinsOn(c, absorbed)
           done == ConnectPins(c, from, to)
<1>1. Refused.ok = FALSE /\ \A d : Done(d).circuit = d
  BY DEF Refused, Done
<1>2. done = IF ~({from, to} \subseteq DOMAIN c.net) \/ from = to THEN Refused
             ELSE IF a = b THEN Done(c)
             ELSE IF {a, b} = Rails THEN Refused
             ELSE Done([Repoint(c, pins, keep) EXCEPT !.nets = @ \ {absorbed}])
  BY DEF ConnectPins
<1> HIDE DEF done, keep
<1>3. {from, to} \subseteq DOMAIN c.net
  BY <1>1, <1>2 DEF done
<1>4. CASE a = b
  BY <1>1, <1>2, <1>3, <1>4 DEF done
<1>5. CASE a # b
  <2>1. keep \in {a, b} /\ absorbed \in {a, b} /\ keep # absorbed
    BY <1>5 DEF keep
  <2>2. done = Done([Repoint(c, pins, keep) EXCEPT !.nets = @ \ {absorbed}])
    BY <1>1, <1>2, <1>3, <1>5 DEF done
  <2>3. PICK P : P = pins
    OBVIOUS
  <2>4. P = {p \in DOMAIN c.net : c.net[p] = absorbed}
    BY <2>3 DEF PinsOn
  <2> HIDE DEF absorbed, pins
  <2>5. [Repoint(c, P, keep) EXCEPT !.nets = @ \ {absorbed}] = Remade(c, P, keep, c.nets \ {absorbed})
    BY RemadeIs
  <2>6. done.circuit = Remade(c, P, keep, c.nets \ {absorbed})
    BY <1>1, <2>2, <2>3, <2>5
  <2>7. /\ c.nets \in SUBSET Nets /\ a \in c.nets /\ b \in c.nets
        /\ \A p \in DOMAIN c.net : c.net[p] \in c.nets
    BY <1>3, CircuitFacts
  <2>8. PICK N : N = c.nets \ {absorbed}
    OBVIOUS
  <2>9. N \in SUBSET Nets /\ keep \in N
    BY <2>1, <2>7, <2>8
  <2>10. \A p \in DOMAIN c.net : p \in P \/ c.net[p] \in N
    BY <2>4, <2>7, <2>8
  <2>11. \E p \in DOMAIN c.net : p \in P
    BY <1>3, <2>1, <2>4
  <2>12. ASSUME NEW m \in N \intersect Signals, m \notin Unused(c)
         PROVE  \E p \in DOMAIN c.net : p \notin P /\ c.net[p] = m
    <3>1. m \in c.nets \intersect Signals /\ m # absorbed
      BY <2>8
    <3>2. PICK p \in DOMAIN c.net : c.net[p] = m
      BY <2>12, <3>1 DEF Unused, PinsOn
    <3> QED  BY <2>4, <3>1, <3>2
  <2>13. CircuitOK(Remade(c, P, keep, N))
    BY <2>9, <2>10, <2>11, <2>12, RemadeKeeps
  <2> QED  BY <2>6, <2>8, <2>13 DEF done
<1> QED  BY <1>4, <1>5

LEMMA DisconnectKeeps ==
  ASSUME NEW c, CircuitOK(c), NEW pin, DisconnectPin(c, pin).ok
  PROVE  CircuitOK(DisconnectPin(c, pin).circuit)
<1> DEFINE n == FreshNet(c)
           done == DisconnectPin(c, pin)
<1>1. Refused.ok = FALSE /\ \A d : Done(d).circuit = d
  BY DEF Refused, Done
<1>2. done = IF pin \notin DOMAIN c.net THEN Refused
             ELSE IF PinsOn(c, c.net[pin]) = {pin} THEN Done(c)
             ELSE Done([Repoint(c, {pin}, n) EXCEPT !.nets = @ \union {n}])
  BY DEF DisconnectPin
<1> HIDE DEF done, n
<1>3. pin \in DOMAIN c.net
  BY <1>1, <1>2 DEF done
<1>4. CASE PinsOn(c, c.net[pin]) = {pin}
  BY <1>1, <1>2, <1>3, <1>4 DEF done
<1>5. CASE PinsOn(c, c.net[pin]) # {pin}
  <2>1. done = Done([Repoint(c, {pin}, n) EXCEPT !.nets = @ \union {n}])
    BY <1>2, <1>3, <1>5
  <2>2. [Repoint(c, {pin}, n) EXCEPT !.nets = @ \union {n}] = Remade(c, {pin}, n, c.nets \union {n})
    <3>1. PICK R : R = Repoint(c, {pin}, n)
      OBVIOUS
    <3>2. R.nets = c.nets
      BY <3>1, RemadeIs, ZenonT(60)
    <3>3. PICK N : N = c.nets \union {n}
      OBVIOUS
    <3>4. [R EXCEPT !.nets = N] = Remade(c, {pin}, n, N)
      BY <3>1, RemadeIs
    <3> QED  BY <3>1, <3>2, <3>3, <3>4
  <2>3. PICK q \in DOMAIN c.net : q # pin /\ c.net[q] = c.net[pin]
    BY <1>3, <1>5 DEF PinsOn
  <2>4. n \in Signals \ c.nets
    BY <1>3, <2>3, FreshIsFree DEF n
  <2>5. c.nets \in SUBSET Nets /\ \A p \in DOMAIN c.net : c.net[p] \in c.nets
    BY CircuitFacts
  <2>6. PICK N : N = c.nets \union {n}
    OBVIOUS
  <2>7. N \in SUBSET Nets /\ n \in N
    BY <2>4, <2>5, <2>6 DEF Nets
  <2>8. ASSUME NEW m \in N \intersect Signals, m \notin Unused(c), m # n
        PROVE  \E p \in DOMAIN c.net : p \notin {pin} /\ c.net[p] = m
    <3>1. m \in c.nets \intersect Signals
      BY <2>6, <2>8
    <3>2. PICK p \in DOMAIN c.net : c.net[p] = m
      BY <2>8, <3>1 DEF Unused, PinsOn
    <3> QED  BY <2>3, <3>2
  <2>9. \A p \in DOMAIN c.net : p \in {pin} \/ c.net[p] \in N
    BY <2>5, <2>6
  <2>10. CircuitOK(Remade(c, {pin}, n, N))
    BY <1>3, <2>7, <2>8, <2>9, RemadeKeeps
  <2> QED  BY <1>1, <2>1, <2>2, <2>6, <2>10 DEF done
<1> QED  BY <1>4, <1>5

LEMMA MoveKeeps ==
  ASSUME NEW c, CircuitOK(c), NEW pin, NEW n, MovePinToNet(c, pin, n).ok
  PROVE  CircuitOK(MovePinToNet(c, pin, n).circuit)
<1> DEFINE old == c.net[pin]
           lone == PinsOn(c, old) = {pin}
           N == IF lone THEN c.nets \ {old} ELSE c.nets
           done == MovePinToNet(c, pin, n)
<1>1. Refused.ok = FALSE /\ \A d : Done(d).circuit = d
  BY DEF Refused, Done
<1>2. done = IF pin \notin DOMAIN c.net \/ n \notin c.nets THEN Refused
             ELSE IF old = n THEN Done(c)
             ELSE Done([Repoint(c, {pin}, n) EXCEPT !.nets = IF lone THEN @ \ {old} ELSE @])
  BY DEF MovePinToNet
<1> HIDE DEF done
<1>3. pin \in DOMAIN c.net /\ n \in c.nets
  BY <1>1, <1>2 DEF done
<1>4. CASE old = n
  BY <1>1, <1>2, <1>3, <1>4 DEF done
<1>5. CASE old # n
  <2>1. done = Done([Repoint(c, {pin}, n) EXCEPT !.nets = IF lone THEN @ \ {old} ELSE @])
    BY <1>2, <1>3, <1>5
  <2> HIDE DEF lone
  <2>2. [Repoint(c, {pin}, n) EXCEPT !.nets = IF lone THEN @ \ {old} ELSE @] = Remade(c, {pin}, n, N)
    <3>1. PICK R : R = Repoint(c, {pin}, n)
      OBVIOUS
    <3>2. R.nets = c.nets
      BY <3>1, RemadeIs
    <3>3. (IF lone THEN R.nets \ {old} ELSE R.nets) = N
      BY <3>2
    <3> HIDE DEF N
    <3>4. [R EXCEPT !.nets = N] = Remade(c, {pin}, n, N)
      BY <3>1, RemadeIs
    <3> QED  BY <3>1, <3>3, <3>4
  <2>3. c.nets \in SUBSET Nets /\ \A p \in DOMAIN c.net : c.net[p] \in c.nets
    BY CircuitFacts
  <2>4. N \in SUBSET Nets /\ n \in N
    BY <1>3, <1>5, <2>3
  <2>5. lone => \A p \in DOMAIN c.net : c.net[p] = old => p = pin
    BY DEF lone, PinsOn
  <2>6. \A p \in DOMAIN c.net : p \in {pin} \/ c.net[p] \in N
    BY <2>3, <2>5
  <2>7. ASSUME NEW m \in N \intersect Signals, m \notin Unused(c), m # n
        PROVE  \E p \in DOMAIN c.net : p \notin {pin} /\ c.net[p] = m
    <3>1. m \in c.nets \intersect Signals /\ (lone => m # old)
      OBVIOUS
    <3>2. PICK p \in DOMAIN c.net : c.net[p] = m
      BY <2>7, <3>1 DEF Unused, PinsOn
    <3>3. CASE p # pin
      BY <3>2, <3>3
    <3>4. CASE p = pin
      <4>1. ~lone
        BY <3>1, <3>2, <3>4
      <4>2. PICK q \in DOMAIN c.net : q # pin /\ c.net[q] = old
        BY <1>3, <4>1 DEF lone, PinsOn
      <4> QED  BY <3>2, <3>4, <4>2
    <3> QED  BY <3>3, <3>4
  <2> HIDE DEF N
  <2>8. CircuitOK(Remade(c, {pin}, n, N))
    BY <1>3, <2>4, <2>6, <2>7, RemadeKeeps
  <2> QED  BY <1>1, <2>1, <2>2, <2>8 DEF done
<1> QED  BY <1>4, <1>5

\* A split puts the pins taken, which are some and not all of one net, on a net
\* that is new.
LEMMA SplitIs ==
  ASSUME NEW c, CircuitOK(c), NEW take, take # {}, SplitNet(c, take).ok
  PROVE  LET d == SplitNet(c, take).circuit
         IN  /\ CircuitOK(d) /\ take \subseteq DOMAIN c.net
             /\ \A p \in take, q \in take : c.net[p] = c.net[q]
             /\ DOMAIN d.net = DOMAIN c.net /\ c.nets \subseteq d.nets
             /\ \E n : /\ \A p \in DOMAIN c.net : c.net[p] # n
                       /\ \A p \in DOMAIN c.net : d.net[p] = IF p \in take THEN n ELSE c.net[p]
<1> DEFINE n == FreshNet(c)
           on == PinsOn(c, c.net[FirstPin(take)])
           done == SplitNet(c, take)
<1>1. Refused.ok = FALSE /\ \A d : Done(d).circuit = d
  BY DEF Refused, Done
<1>2. done = IF ~(take \subseteq DOMAIN c.net) THEN Refused
             ELSE IF ~(take \subseteq on) \/ take = on THEN Refused
             ELSE Done([Repoint(c, take, n) EXCEPT !.nets = @ \union {n}])
  BY DEF SplitNet
<1> HIDE DEF done, n, on
<1>3. take \subseteq DOMAIN c.net /\ take \subseteq on /\ take # on
  BY <1>1, <1>2 DEF done
<1>4. done.circuit = Remade(c, take, n, c.nets \union {n})
  <2>1. [Repoint(c, take, n) EXCEPT !.nets = @ \union {n}] = Remade(c, take, n, c.nets \union {n})
    BY RemadeIs
  <2> QED  BY <1>1, <1>2, <1>3, <2>1
<1>5. PICK m : \A p \in on : p \in DOMAIN c.net /\ c.net[p] = m
  BY DEF on, PinsOn
<1>6. PICK p \in take, q \in on : q \notin take
  BY <1>3
<1>7. n \in Signals \ c.nets
  <2>1. p \in DOMAIN c.net /\ q \in DOMAIN c.net /\ p # q /\ c.net[p] = c.net[q]
    BY <1>3, <1>5, <1>6
  <2> QED  BY <2>1, FreshIsFree DEF n
<1>8. c.nets \in SUBSET Nets /\ \A r \in DOMAIN c.net : c.net[r] \in c.nets
  BY CircuitFacts
<1>9. PICK N : N = c.nets \union {n}
  OBVIOUS
<1>10. N \in SUBSET Nets /\ n \in N
  BY <1>7, <1>8, <1>9 DEF Nets
<1>11. ASSUME NEW k \in N \intersect Signals, k \notin Unused(c), k # n
       PROVE  \E r \in DOMAIN c.net : r \notin take /\ c.net[r] = k
  <2>1. k \in c.nets \intersect Signals
    BY <1>9, <1>11
  <2>2. PICK r \in DOMAIN c.net : c.net[r] = k
    BY <1>11, <2>1 DEF Unused, PinsOn
  <2>3. CASE r \notin take
    BY <2>2, <2>3
  <2>4. CASE r \in take
    <3>1. c.net[q] = k /\ q \in DOMAIN c.net
      BY <1>3, <1>5, <2>2, <2>4
    <3> QED  BY <1>6, <3>1
  <2> QED  BY <2>3, <2>4
<1>12. /\ \A r \in DOMAIN c.net : r \in take \/ c.net[r] \in N
       /\ \E r \in DOMAIN c.net : r \in take
  BY <1>3, <1>8, <1>9
<1>13. CircuitOK(Remade(c, take, n, N))
  BY <1>10, <1>11, <1>12, RemadeKeeps
<1>14. PICK d : d = done.circuit
  OBVIOUS
<1>15. d.nets = N /\ d.net = [r \in DOMAIN c.net |-> IF r \in take THEN n ELSE c.net[r]]
  BY <1>4, <1>9, <1>14 DEF Remade
<1>16. /\ DOMAIN d.net = DOMAIN c.net /\ c.nets \subseteq d.nets
       /\ \A r \in DOMAIN c.net : d.net[r] = IF r \in take THEN n ELSE c.net[r]
  BY <1>9, <1>15
<1>17. \A r \in DOMAIN c.net : c.net[r] # n
  BY <1>7, <1>8
<1>18. \A r \in take, s \in take : c.net[r] = c.net[s]
  BY <1>3, <1>5
<1>19. CircuitOK(d)
  BY <1>4, <1>9, <1>13, <1>14
<1> QED  BY <1>3, <1>14, <1>16, <1>17, <1>18, <1>19 DEF done

LEMMA DeleteKeeps ==
  ASSUME NEW c, CircuitOK(c), NEW part, DeleteComponent(c, part).ok
  PROVE  CircuitOK(DeleteComponent(c, part).circuit)
<1> DEFINE pins == PinsOf(c, {part})
           rest == DOMAIN c.net \ pins
           left == {c.net[p] : p \in pins} \ {c.net[p] : p \in rest}
           net == [p \in rest |-> c.net[p]]
           done == DeleteComponent(c, part)
           P == PartsOf(c) \ {part}
<1>1. done = IF part \notin PartsOf(c) THEN Refused ELSE Done([net |-> net, nets |-> c.nets \ left])
  BY DEF DeleteComponent
<1>2. Refused.ok = FALSE /\ \A d : Done(d).circuit = d
  BY DEF Refused, Done
<1> HIDE DEF done, net, left
<1>3. done.circuit = [net |-> net, nets |-> c.nets \ left]
  BY <1>1, <1>2 DEF done
<1>4. /\ DOMAIN c.net = PartsOf(c) \X PinNames /\ PartsOf(c) \subseteq Parts
      /\ \A p \in DOMAIN c.net : c.net[p] \in c.nets
      /\ c.nets \in SUBSET Nets
  BY CircuitFacts
<1>5. rest = P \X PinNames
  BY <1>4 DEF PinsOf
<1>6. \A p \in rest : net[p] = c.net[p] /\ c.net[p] \in c.nets \ left
  BY <1>4 DEF net, left
<1>7. DOMAIN net = rest /\ net = [p \in rest |-> net[p]]
  BY DEF net
<1>8. net \in [P \X PinNames -> c.nets \ left]
  <2> HIDE DEF rest, P
  <2> QED  BY <1>5, <1>6, <1>7
<1>9. ASSUME NEW m \in (c.nets \ left) \intersect Signals, m \notin Unused(c)
      PROVE  \E p \in DOMAIN net : net[p] = m
  <2>1. PICK p \in DOMAIN c.net : c.net[p] = m
    BY <1>9 DEF Unused, PinsOn
  <2>2. CASE p \in rest
    BY <1>6, <1>7, <2>1, <2>2
  <2>3. CASE p \notin rest
    <3>1. p \in pins
      BY <2>1, <2>3
    <3>2. m \in {c.net[q] : q \in rest}
      BY <1>9, <2>1, <3>1 DEF left
    <3> QED  BY <1>6, <1>7, <3>2
  <2> QED  BY <2>2, <2>3
<1>10. P \in SUBSET Parts /\ c.nets \ left \in SUBSET Nets
  BY <1>4
<1> HIDE DEF P
<1>11. CircuitOK([net |-> net, nets |-> c.nets \ left])
  BY <1>8, <1>9, <1>10, CircuitMade
<1> QED  BY <1>3, <1>11 DEF done

\* Parts are added with every pin on a net of its own that is new.
LEMMA PartsAdded ==
  ASSUME NEW c, CircuitOK(c), NEW parts \in SUBSET FreeParts(c)
  PROVE  LET d == WithParts(c, parts)
             added == parts \X PinNames
         IN  /\ CircuitOK(d)
             /\ DOMAIN d.net = DOMAIN c.net \union added
             /\ added \intersect DOMAIN c.net = {}
             /\ \A p \in added : d.net[p] \in Signals
             /\ \A p \in DOMAIN c.net : d.net[p] = c.net[p]
<1> DEFINE added == parts \X PinNames
           F == FreeSignals(c)
           own(p) == Nth(PinRank(p, added), F)
           net == [p \in DOMAIN c.net \union added |-> IF p \in added THEN own(p) ELSE c.net[p]]
           nets == c.nets \union {own(p) : p \in added}
           P == PartsOf(c) \union parts
<1>1. WithParts(c, parts) = [net |-> net, nets |-> nets]
  BY DEF WithParts
<1>2. /\ DOMAIN c.net = PartsOf(c) \X PinNames /\ PartsOf(c) \subseteq Parts
      /\ DOMAIN c.net \in SUBSET Pins /\ IsFiniteSet(DOMAIN c.net)
      /\ \A p \in DOMAIN c.net : c.net[p] \in c.nets
      /\ c.nets \in SUBSET Nets
  BY CircuitFacts
<1>3. parts \subseteq Parts /\ parts \intersect PartsOf(c) = {}
  BY DEF FreeParts
<1>4. added \in SUBSET Pins /\ added \intersect DOMAIN c.net = {} /\ DOMAIN c.net \union added = P \X PinNames
  <2>1. added \in SUBSET Pins
    BY <1>3 DEF Pins
  <2> QED  BY <1>2, <1>3, <2>1
<1> HIDE DEF added, P
<1>5. /\ F \in SUBSET Nat /\ IsFiniteSet(F) /\ Cardinality(F) \in Nat
      /\ Cardinality(Pins) \in Nat /\ Cardinality(DOMAIN c.net) \in Nat
      /\ Cardinality(F) >= Cardinality(Pins) - Cardinality(DOMAIN c.net)
  <2>1. DOMAIN c.net \in SUBSET DOMAIN c.net /\ \A p \in DOMAIN c.net : \E q \in DOMAIN c.net : c.net[q] = c.net[p]
    OBVIOUS
  <2>2. /\ F \in SUBSET Nat /\ IsFiniteSet(F)
        /\ Cardinality(Pins) \in Nat /\ Cardinality(DOMAIN c.net) \in Nat
        /\ Cardinality(F) >= Cardinality(Pins) - Cardinality(DOMAIN c.net)
    BY <2>1, FreeCount
  <2> HIDE DEF F
  <2> QED  BY <2>2, FS_CardinalityType
<1> HIDE DEF F
<1>6. Cardinality(added) <= Cardinality(F) /\ Cardinality(added) \in Nat
  <2>1. IsFiniteSet(Pins) /\ IsFiniteSet(added)
    BY <1>4, PinsFinite
  <2>2. /\ IsFiniteSet(DOMAIN c.net \union added)
        /\ Cardinality(DOMAIN c.net \union added) = Cardinality(DOMAIN c.net) + Cardinality(added)
    <3>1. DOMAIN c.net \intersect added = {}
      BY <1>4
    <3>2. /\ IsFiniteSet(DOMAIN c.net \union added)
          /\ Cardinality(DOMAIN c.net \union added) =
               Cardinality(DOMAIN c.net) + Cardinality(added) - Cardinality(DOMAIN c.net \intersect added)
      BY <1>2, <2>1, FS_Union
    <3>3. Cardinality(DOMAIN c.net \intersect added) = 0
      BY <3>1, FS_EmptySet
    <3>4. Cardinality(added) \in Nat
      BY <2>1, FS_CardinalityType
    <3> QED  BY <1>5, <3>2, <3>3, <3>4
  <2>3. DOMAIN c.net \union added \in SUBSET Pins
    BY <1>2, <1>4
  <2>4. Cardinality(DOMAIN c.net \union added) <= Cardinality(Pins) /\ Cardinality(added) \in Nat
    BY <2>1, <2>3, FS_Subset, FS_CardinalityType
  <2> QED  BY <1>5, <2>2, <2>4
<1>7. \A p \in added : own(p) \in F
  <2> TAKE p \in added
  <2>1. PinRank(p, added) \in 1..Cardinality(added)
    BY <1>4, Ranked
  <2>2. PinRank(p, added) \in 1..Cardinality(F)
    BY <1>5, <1>6, <2>1
  <2> QED  BY <1>5, <2>2, RankedNumbers
<1>8. \A p \in added : own(p) \in Signals
  BY <1>7 DEF F, FreeSignals
<1> HIDE DEF own
<1>9. /\ DOMAIN net = DOMAIN c.net \union added
      /\ \A p \in added : net[p] = own(p)
      /\ \A p \in DOMAIN c.net : net[p] = c.net[p]
  BY <1>4
<1>10. nets \in SUBSET Nets
  BY <1>2, <1>8 DEF Nets
<1>11. net \in [P \X PinNames -> nets]
  <2>1. \A p \in P \X PinNames : net[p] \in nets
    BY <1>2, <1>4, <1>9
  <2>2. net = [p \in P \X PinNames |-> net[p]]
    BY <1>4
  <2> HIDE DEF net, nets
  <2> QED  BY <2>1, <2>2
<1> HIDE DEF net
<1>12. ASSUME NEW m \in nets \intersect Signals, m \notin Unused(c)
       PROVE  \E p \in DOMAIN net : net[p] = m
  <2>1. CASE m \in c.nets
    <3>1. PICK p \in DOMAIN c.net : c.net[p] = m
      BY <1>12, <2>1 DEF Unused, PinsOn
    <3> QED  BY <1>9, <3>1
  <2>2. CASE m \notin c.nets
    BY <1>9, <1>12, <2>2
  <2> QED  BY <2>1, <2>2
<1> HIDE DEF nets
<1>13. P \in SUBSET Parts
  BY <1>2, <1>3 DEF P
<1>14. CircuitOK([net |-> net, nets |-> nets])
  BY <1>10, <1>11, <1>12, <1>13, CircuitMade
<1>15. PICK d : d = WithParts(c, parts)
  OBVIOUS
<1>16. d = [net |-> net, nets |-> nets] /\ d.net = net
  BY <1>1, <1>15
<1>17. CircuitOK(d)
  BY <1>14, <1>16
<1> QED  BY <1>4, <1>8, <1>9, <1>15, <1>16, <1>17 DEF added

LEMMA PartsAreNumbers ==
  ASSUME NEW S \in SUBSET Parts
  PROVE  S \in SUBSET Nat /\ IsFiniteSet(S) /\ Cardinality(S) \in Nat
<1>1. Parts \in SUBSET Nat /\ IsFiniteSet(Parts)
  BY SchematicAssumption, FS_Interval DEF Parts
<1> QED  BY <1>1, FS_Subset, FS_CardinalityType

LEMMA AddKeeps ==
  ASSUME NEW c, CircuitOK(c), FreeParts(c) # {}
  PROVE  CircuitOK(AddComponent(c).circuit)
<1> DEFINE F == FreeParts(c)
<1>1. F \in SUBSET Parts
  BY DEF FreeParts
<1>2. F \in SUBSET Nat /\ IsFiniteSet(F) /\ Cardinality(F) \in Nat
  BY <1>1, PartsAreNumbers
<1>3. F # {}
  OBVIOUS
<1> HIDE DEF F
<1>4. 1 \in 1..Cardinality(F)
  BY <1>2, <1>3, FS_EmptySet
<1>5. Nth(1, F) \in F
  BY <1>2, <1>4, RankedNumbers
<1>6. {Nth(1, F)} \in SUBSET FreeParts(c)
  BY <1>5 DEF F
<1>7. CircuitOK(WithParts(c, {Nth(1, F)}))
  BY <1>6, PartsAdded
<1> QED  BY <1>7 DEF AddComponent, Done, F

LEMMA DuplicateKeeps ==
  ASSUME NEW c, CircuitOK(c), NEW parts, DuplicateComponents(c, parts).ok,
         Cardinality(parts) <= Cardinality(FreeParts(c))
  PROVE  CircuitOK(DuplicateComponents(c, parts).circuit)
<1> DEFINE source == PinsOf(c, parts)
           copy(p) == <<CopyOf(c, parts, p[1]), p[2]>>
           added == {copy(p) : p \in source}
           copies == {p[1] : p \in added}
           blank == WithParts(c, copies)
           inside(p) == PinsOn(c, c.net[p]) \intersect source
           netOf(p) == IF c.net[p] \in Rails THEN c.net[p] ELSE blank.net[copy(FirstPin(inside(p)))]
           from(q) == CHOOSE p \in source : copy(p) = q
           net == [q \in DOMAIN blank.net |-> IF q \in added THEN netOf(from(q)) ELSE c.net[q]]
           nets == c.nets \union {net[q] : q \in added}
           done == DuplicateComponents(c, parts)
           P == PartsOf(c) \union copies
<1>1. done = IF ~(parts \subseteq PartsOf(c)) THEN Refused ELSE Done([net |-> net, nets |-> nets])
  BY ZenonT(60) DEF DuplicateComponents
<1>2. Refused.ok = FALSE /\ \A d : Done(d).circuit = d
  BY DEF Refused, Done
<1> HIDE DEF done, net
<1>3. done.circuit = [net |-> net, nets |-> nets] /\ parts \subseteq PartsOf(c)
  BY <1>1, <1>2 DEF done
<1> HIDE DEF nets
<1>4. /\ DOMAIN c.net = PartsOf(c) \X PinNames /\ PartsOf(c) \subseteq Parts
      /\ DOMAIN c.net \in SUBSET Pins
      /\ \A p \in DOMAIN c.net : c.net[p] \in c.nets
      /\ c.nets \in SUBSET Nets
  BY CircuitFacts
<1>5. source = parts \X PinNames
  BY <1>3, <1>4 DEF PinsOf
<1>6. \A part \in parts : CopyOf(c, parts, part) \in FreeParts(c)
  <2>1. parts \in SUBSET Parts /\ FreeParts(c) \in SUBSET Parts
    BY <1>3, <1>4 DEF FreeParts
  <2>2. /\ parts \in SUBSET Nat /\ IsFiniteSet(parts) /\ Cardinality(parts) \in Nat
        /\ FreeParts(c) \in SUBSET Nat /\ IsFiniteSet(FreeParts(c)) /\ Cardinality(FreeParts(c)) \in Nat
    BY <2>1, PartsAreNumbers
  <2> TAKE part \in parts
  <2>3. Rank(part, parts) \in 1..Cardinality(parts)
    BY <2>2, RankedNumbers
  <2>4. Rank(part, parts) \in 1..Cardinality(FreeParts(c))
    BY <2>2, <2>3
  <2> QED  BY <2>2, <2>4, RankedNumbers DEF CopyOf
<1>7. copies \in SUBSET FreeParts(c) /\ added = copies \X PinNames
  <2>1. \A p \in source : p[1] \in parts /\ p[2] \in PinNames /\ copy(p)[1] = CopyOf(c, parts, p[1])
    BY <1>5
  <2>2. copies \in SUBSET FreeParts(c)
    BY <1>6, <2>1
  <2>3. added \subseteq copies \X PinNames
    <3> SUFFICES ASSUME NEW q \in added PROVE q \in copies \X PinNames
      OBVIOUS
    <3>1. q[1] \in copies
      OBVIOUS
    <3>2. PICK p \in source : q = <<CopyOf(c, parts, p[1]), p[2]>>
      OBVIOUS
    <3> QED  BY <2>1, <3>1, <3>2
  <2>4. ASSUME NEW x \in copies, NEW y \in PinNames
        PROVE  <<x, y>> \in added
    <3>1. PICK p \in source : x = CopyOf(c, parts, p[1])
      BY <2>1
    <3>2. <<p[1], y>> \in source
      BY <1>5, <2>1
    <3>3. copy(<<p[1], y>>) = <<x, y>>
      BY <3>1
    <3> QED  BY <3>2, <3>3
  <2> QED  BY <2>2, <2>3, <2>4
<1>8. /\ DOMAIN blank.net = DOMAIN c.net \union added
      /\ added \intersect DOMAIN c.net = {}
      /\ \A p \in added : blank.net[p] \in Signals
  <2> HIDE DEF copies, added
  <2>1. PICK C \in SUBSET FreeParts(c) : C = copies
    BY <1>7
  <2>2. /\ DOMAIN WithParts(c, C).net = DOMAIN c.net \union (C \X PinNames)
        /\ (C \X PinNames) \intersect DOMAIN c.net = {}
        /\ \A p \in C \X PinNames : WithParts(c, C).net[p] \in Signals
    BY PartsAdded
  <2> QED  BY <1>7, <2>1, <2>2
<1> HIDE DEF blank
<1>9. \A p \in source : copy(p) \in added
  OBVIOUS
<1>10. \A q \in added : from(q) \in source
  OBVIOUS
<1>11. ASSUME NEW p \in source
       PROVE  netOf(p) \in c.nets \union Signals
  <2>1. p \in DOMAIN c.net /\ c.net[p] \in c.nets
    BY <1>4 DEF PinsOf
  <2>2. inside(p) \in SUBSET Pins /\ inside(p) # {} /\ inside(p) \subseteq source
    BY <1>4, <2>1 DEF PinsOn
  <2>3. FirstPin(inside(p)) \in source
    <3> HIDE DEF inside, source
    <3> QED  BY <2>2, FirstOf
  <2>4. blank.net[copy(FirstPin(inside(p)))] \in Signals
    <3> HIDE DEF inside, source, copy, added
    <3> QED  BY <1>8, <1>9, <2>3
  <2> QED  BY <2>1, <2>4
<1> HIDE DEF netOf, from
<1>12. /\ DOMAIN net = DOMAIN c.net \union added
       /\ \A q \in added : net[q] \in c.nets \union Signals
       /\ \A q \in DOMAIN c.net : net[q] = c.net[q]
  <2>1. /\ DOMAIN net = DOMAIN blank.net
        /\ \A q \in DOMAIN blank.net : net[q] = IF q \in added THEN netOf(from(q)) ELSE c.net[q]
    BY DEF net
  <2> HIDE DEF added, source
  <2> QED  BY <1>8, <1>10, <1>11, <2>1
<1> HIDE DEF added, copies, source
<1>13. nets \in SUBSET Nets
  BY <1>4, <1>12 DEF Nets, nets
<1>14. P \in SUBSET Parts /\ DOMAIN net = P \X PinNames
  <2>1. copies \subseteq Parts
    BY <1>7 DEF FreeParts
  <2> QED  BY <1>4, <1>7, <1>12, <2>1
<1>15. net \in [P \X PinNames -> nets]
  <2>1. \A q \in P \X PinNames : net[q] \in nets
    BY <1>4, <1>12, <1>14 DEF nets
  <2>2. net = [q \in DOMAIN net |-> net[q]]
    BY DEF net
  <2> HIDE DEF P
  <2> QED  BY <1>14, <2>1, <2>2
<1>16. ASSUME NEW m \in nets \intersect Signals, m \notin Unused(c)
       PROVE  \E q \in DOMAIN net : net[q] = m
  <2>1. CASE m \in c.nets
    <3>1. PICK p \in DOMAIN c.net : c.net[p] = m
      BY <1>16, <2>1 DEF Unused, PinsOn
    <3> QED  BY <1>12, <3>1
  <2>2. CASE m \notin c.nets
    BY <1>12, <1>16, <2>2 DEF nets
  <2> QED  BY <2>1, <2>2
<1> HIDE DEF P
<1>17. CircuitOK([net |-> net, nets |-> nets])
  BY <1>13, <1>14, <1>15, <1>16, CircuitMade
<1> QED  BY <1>3, <1>17 DEF done

\* One edit, if those before it were made.
Advance(done, e) == IF done.ok THEN Apply(done.circuit, e) ELSE done

LEMMA ApplyRecursion ==
  ASSUME NEW c, NEW list, Len(list) \in Nat
  PROVE  \E f : /\ f[0] = Done(c)
                /\ \A k \in 1..Len(list) : f[k] = Advance(f[k - 1], list[k])
                /\ ApplyAll(c, list) = f[Len(list)]
<1> DEFINE N == Len(list)
           OneMore(done, k) == Advance(done, list[k])
           Recursive(f, m) == f = [k \in 0..m |-> IF k = 0 THEN Done(c) ELSE OneMore(f[k - 1], k)]
           T == {m \in 0..N : \E f : Recursive(f, m)}
<1>1. 0 \in T
  <2> HIDE DEF OneMore
  <2>1. Recursive([k \in 0..0 |-> Done(c)], 0)
    OBVIOUS
  <2>2. 0 \in 0..N
    OBVIOUS
  <2> HIDE DEF Recursive
  <2> QED  BY <2>1, <2>2
<1>2. ASSUME NEW m \in 1..N, m - 1 \in T
      PROVE  m \in T
  <2> HIDE DEF OneMore
  <2>1. PICK f : Recursive(f, m - 1)
    BY <1>2
  <2> DEFINE g == [k \in 0..m |-> IF k = m THEN OneMore(f[m - 1], m) ELSE f[k]]
  <2>2. \A k \in 0..(m - 1) : f[k] = IF k = 0 THEN Done(c) ELSE OneMore(f[k - 1], k)
    BY <2>1
  <2>3. \A k \in 0..m : g[k] = IF k = m THEN OneMore(f[m - 1], m) ELSE f[k]
    OBVIOUS
  <2> HIDE DEF g
  <2>4. ASSUME NEW k \in 0..m
        PROVE  g[k] = IF k = 0 THEN Done(c) ELSE OneMore(g[k - 1], k)
    <3>1. CASE k = 0
      BY <3>1, <2>2, <2>3
    <3>2. CASE k # 0 /\ k # m
      <4>1. k - 1 \in 0..m /\ k - 1 # m /\ k \in 0..(m - 1)
        BY <3>2
      <4> QED  BY <3>2, <4>1, <2>2, <2>3
    <3>3. CASE k = m
      <4>1. k - 1 \in 0..m /\ k - 1 # m /\ k # 0
        BY <3>3
      <4> QED  BY <3>3, <4>1, <2>3
    <3> QED  BY <3>1, <3>2, <3>3
  <2>5. Recursive(g, m)
    <3>1. g = [k \in 0..m |-> g[k]]
      BY DEF g
    <3> QED  BY <2>4, <3>1
  <2> QED  BY <2>5
<1>3. \E f : Recursive(f, N)
  <2>1. N \in 0..N
    OBVIOUS
  <2>2. N \in T
    <3> HIDE DEF T, N
    <3>1. \A k \in 0..N : k \in T
      BY <1>1, <1>2, Ascent DEF N
    <3> QED  BY <2>1, <3>1
  <2> QED  BY <2>2
<1> DEFINE after == CHOOSE f : Recursive(f, N)
<1>4. Recursive(after, N)
  BY <1>3
<1>5. ApplyAll(c, list) = after[N]
  BY DEF ApplyAll, Advance
<1>6. after[0] = Done(c) /\ \A k \in 1..N : after[k] = OneMore(after[k - 1], k)
  <2> HIDE DEF OneMore, after
  <2>1. \A k \in 0..N : after[k] = IF k = 0 THEN Done(c) ELSE OneMore(after[k - 1], k)
    BY <1>4
  <2> QED  BY <2>1
<1> QED  BY <1>5, <1>6

LEMMA FewEdits ==
  ASSUME NEW c
  PROVE  /\ ApplyAll(c, <<>>) = Done(c)
         /\ \A e : ApplyAll(c, <<e>>) = Apply(c, e)
<1>1. ApplyAll(c, <<>>) = Done(c)
  <2>1. Len(<<>>) = 0
    OBVIOUS
  <2> QED  BY <2>1, ApplyRecursion
<1>2. ASSUME NEW e PROVE ApplyAll(c, <<e>>) = Apply(c, e)
  <2> DEFINE list == <<e>>
  <2>1. Len(list) = 1 /\ list[1] = e
    OBVIOUS
  <2> HIDE DEF list
  <2>2. PICK f : /\ f[0] = Done(c)
                 /\ \A k \in 1..Len(list) : f[k] = Advance(f[k - 1], list[k])
                 /\ ApplyAll(c, list) = f[Len(list)]
    BY <2>1, ApplyRecursion
  <2>3. f[1] = Advance(f[0], e)
    BY <2>1, <2>2
  <2> QED  BY <2>1, <2>2, <2>3 DEF Advance, Done, list
<1> QED  BY <1>1, <1>2

\* Edits that keep a design one keep it one together.
LEMMA EditsKeep ==
  ASSUME NEW c, CircuitOK(c), NEW list, Len(list) \in Nat,
         \A k \in 1..Len(list) : \A d :
            CircuitOK(d) /\ Apply(d, list[k]).ok => CircuitOK(Apply(d, list[k]).circuit),
         ApplyAll(c, list).ok
  PROVE  CircuitOK(ApplyAll(c, list).circuit)
<1> DEFINE N == Len(list)
<1>1. PICK f : /\ f[0] = Done(c)
               /\ \A k \in 1..N : f[k] = Advance(f[k - 1], list[k])
               /\ ApplyAll(c, list) = f[N]
  BY ApplyRecursion
<1> DEFINE T == {k \in 0..N : f[k].ok => CircuitOK(f[k].circuit)}
<1>2. 0 \in T
  BY <1>1 DEF Done
<1>3. ASSUME NEW k \in 1..N, k - 1 \in T
      PROVE  k \in T
  <2>1. PICK d : d = f[k - 1]
    OBVIOUS
  <2>2. f[k] = Advance(d, list[k]) /\ (d.ok => CircuitOK(d.circuit))
    BY <1>1, <1>3, <2>1
  <2>3. f[k].ok => CircuitOK(f[k].circuit)
    BY <2>2 DEF Advance
  <2> QED  BY <2>3
<1> HIDE DEF T
<1>4. \A k \in 0..N : k \in T
  BY <1>2, <1>3, Ascent
<1> QED  BY <1>1, <1>4 DEF T

LEMMA DeletesKeep ==
  ASSUME NEW c, CircuitOK(c), NEW parts \in SUBSET Parts, NEW list,
         list = [k \in 1..Cardinality(parts) |-> [op |-> "delete", part |-> Nth(k, parts)]],
         ApplyAll(c, list).ok
  PROVE  CircuitOK(ApplyAll(c, list).circuit)
<1>1. Cardinality(parts) \in Nat
  BY PartsAreNumbers
<1>2. /\ Len(list) \in Nat
      /\ \A k \in 1..Len(list) : list[k] = [op |-> "delete", part |-> Nth(k, parts)]
  <2>1. Len(list) = Cardinality(parts)
    BY <1>1
  <2> QED  BY <1>1, <2>1
<1>3. ASSUME NEW k \in 1..Len(list), NEW d, CircuitOK(d), Apply(d, list[k]).ok
      PROVE  CircuitOK(Apply(d, list[k]).circuit)
  <2>1. PICK e : e = list[k]
    OBVIOUS
  <2>2. PICK x : x = Nth(k, parts)
    OBVIOUS
  <2>3. e = [op |-> "delete", part |-> x]
    BY <1>2, <2>1, <2>2
  <2>4. Apply(d, e) = DeleteComponent(d, x)
    BY <2>3 DEF Apply
  <2> QED  BY <1>3, <2>1, <2>4, DeleteKeeps
<1> QED  BY <1>2, <1>3, EditsKeep

LEMMA SplitsKeep ==
  ASSUME NEW c, CircuitOK(c), NEW list, Len(list) \in Nat,
         \A k \in 1..Len(list) : list[k].op = "split" /\ list[k].take # {},
         ApplyAll(c, list).ok
  PROVE  CircuitOK(ApplyAll(c, list).circuit)
<1>1. ASSUME NEW k \in 1..Len(list), NEW d, CircuitOK(d), Apply(d, list[k]).ok
      PROVE  CircuitOK(Apply(d, list[k]).circuit)
  <2>1. Apply(d, list[k]) = SplitNet(d, list[k].take)
    BY DEF Apply
  <2>2. PICK take : take = list[k].take /\ take # {}
    OBVIOUS
  <2> QED  BY <1>1, <2>1, <2>2, SplitIs
<1> QED  BY <1>1, EditsKeep

\* The gestures that are a list of edits make a design of a design.
LEMMA ListsKeep ==
  ASSUME CircuitOK(circuit), Join \/ Part \/ Split \/ Delete \/ AddPart \/ ChooseNet
  PROVE  \E list : ApplyMany(list) /\ CircuitOK(ApplyAll(circuit, list).circuit)
<1>1. \A list : ApplyMany(list) => ApplyAll(circuit, list).ok
  BY DEF ApplyMany
<1>2. CASE Join
  <2>1. PICK from, to \in DOMAIN circuit.net :
           ApplyMany(<<[op |-> "connect", from |-> from, to |-> to]>>)
    BY <1>2 DEF Join
  <2>2. PICK e : e = [op |-> "connect", from |-> from, to |-> to]
    OBVIOUS
  <2>3. ApplyAll(circuit, <<e>>) = ConnectPins(circuit, from, to)
    <3>1. Apply(circuit, e) = ConnectPins(circuit, from, to)
      BY <2>2 DEF Apply
    <3> QED  BY <3>1, FewEdits
  <2> QED  BY <1>1, <2>1, <2>2, <2>3, ConnectKeeps
<1>3. CASE Part
  <2>1. PICK pin \in DOMAIN circuit.net : ApplyMany(<<[op |-> "disconnect", pin |-> pin]>>)
    BY <1>3 DEF Part
  <2>2. PICK e : e = [op |-> "disconnect", pin |-> pin]
    OBVIOUS
  <2>3. ApplyAll(circuit, <<e>>) = DisconnectPin(circuit, pin)
    <3>1. Apply(circuit, e) = DisconnectPin(circuit, pin)
      BY <2>2 DEF Apply
    <3> QED  BY <3>1, FewEdits
  <2> QED  BY <1>1, <2>1, <2>2, <2>3, DisconnectKeeps
<1>4. CASE Split
  <2>1. PICK take \in Groups(DOMAIN circuit.net) : ApplyMany(<<[op |-> "split", take |-> take]>>)
    BY <1>4 DEF Split
  <2>2. take # {}
    BY DEF Groups
  <2>3. PICK these : these = <<[op |-> "split", take |-> take]>>
    OBVIOUS
  <2>4. Len(these) \in Nat /\ \A k \in 1..Len(these) : these[k].op = "split" /\ these[k].take # {}
    BY <2>2, <2>3
  <2> QED  BY <1>1, <2>1, <2>3, <2>4, SplitsKeep
<1>5. CASE Delete
  <2>1. PICK parts \in Groups(PartsOf(circuit)) :
           ApplyMany([k \in 1..Cardinality(parts) |-> [op |-> "delete", part |-> Nth(k, parts)]])
    BY <1>5 DEF Delete
  <2>2. parts \in SUBSET Parts
    BY CircuitFacts DEF Groups
  <2>3. PICK these : these = [k \in 1..Cardinality(parts) |-> [op |-> "delete", part |-> Nth(k, parts)]]
    OBVIOUS
  <2> QED  BY <1>1, <2>1, <2>2, <2>3, DeletesKeep
<1>6. CASE AddPart
  <2>1. FreeParts(circuit) # {} /\ ApplyMany(<<[op |-> "add"]>>)
    BY <1>6 DEF AddPart
  <2>2. PICK e : e = [op |-> "add"]
    OBVIOUS
  <2>3. ApplyAll(circuit, <<e>>) = AddComponent(circuit)
    <3>1. Apply(circuit, e) = AddComponent(circuit)
      BY <2>2 DEF Apply
    <3> QED  BY <3>1, FewEdits
  <2> QED  BY <1>1, <2>1, <2>2, <2>3, AddKeeps
<1>7. CASE ChooseNet
  <2>1. PICK pin \in DOMAIN circuit.net, n \in circuit.nets :
           ApplyMany(<<[op |-> "move", pin |-> pin, net |-> n]>>)
    BY <1>7 DEF ChooseNet
  <2>2. PICK e : e = [op |-> "move", pin |-> pin, net |-> n]
    OBVIOUS
  <2>3. ApplyAll(circuit, <<e>>) = MovePinToNet(circuit, pin, n)
    <3>1. Apply(circuit, e) = MovePinToNet(circuit, pin, n)
      BY <2>2 DEF Apply
    <3> QED  BY <3>1, FewEdits
  <2> QED  BY <1>1, <2>1, <2>2, <2>3, MoveKeeps
<1> QED  BY <1>2, <1>3, <1>4, <1>5, <1>6, <1>7

-----------------------------------------------------------------------------
(* Drawings.                                                               *)

WireFields == {"net", "from", "to", "head", "tail"}

\* A drawing the editor owns.
Shaped(drawn) ==
    /\ {"owned", "pos", "wires"} \subseteq DOMAIN drawn
    /\ drawn.owned = TRUE
    /\ IsFiniteSet(DOMAIN drawn.wires)
    /\ \A k \in DOMAIN drawn.wires : WireFields \subseteq DOMAIN drawn.wires[k]

\* The drawing still has the parts of that document where it shows them, and the
\* wires it has of those shown where they run.
Preserves(doc, drawn) ==
    /\ \A id \in PartsOf(doc.circuit) :
           id \in DOMAIN drawn.pos /\ drawn.pos[id] = ShownOf(doc).pos[id]
    /\ \A k \in DOMAIN ShownOf(doc).wires \intersect DOMAIN drawn.wires :
           /\ drawn.wires[k].head = ShownOf(doc).wires[k].head
           /\ drawn.wires[k].tail = ShownOf(doc).wires[k].tail

\* Two documents in a row: an edit of the netlist moved nothing that stayed.
Still(d, e) ==
    d.circuit # e.circuit =>
        /\ \A id \in PartsOf(d.circuit) \intersect PartsOf(e.circuit) :
               ShownOf(e).pos[id] = ShownOf(d).pos[id]
        /\ \A k \in DOMAIN ShownOf(d).wires \intersect DOMAIN ShownOf(e).wires :
               /\ ShownOf(e).wires[k].head = ShownOf(d).wires[k].head
               /\ ShownOf(e).wires[k].tail = ShownOf(d).wires[k].tail

\* The pieces a drawing is made of when a circuit nobody has drawn is opened.
LEMMA DrawnOnce ==
  ASSUME NEW c, DOMAIN c.net \subseteq Pins, \A p \in DOMAIN c.net : c.net[p] \in c.nets,
         NEW u, u.owned = FALSE
  PROVE  LET drawn == FreezeDrawing(c, u)
         IN  /\ Shaped(drawn)
             /\ PartsOf(c) \subseteq DOMAIN drawn.pos
             /\ Agrees(c, drawn.wires)
<1> DEFINE next(p) == {q \in PinsOn(c, c.net[p]) : Before(p, q)}
           starts == {p \in DOMAIN c.net : c.net[p] \notin Rails /\ next(p) # {}}
           pos == PlaceParts(c, u.pos)
           from(k) == NthPin(k, starts)
           wire(p) == [net |-> c.net[p], from |-> p, to |-> FirstPin(next(p)),
                       head |-> PointOf(pos, p), tail |-> PointOf(pos, FirstPin(next(p)))]
           wires == [k \in 1..Cardinality(starts) |-> wire(from(k))]
<1>1. starts \in SUBSET Pins
  OBVIOUS
<1>2. /\ Cardinality(starts) \in Nat
      /\ \A k \in 1..Cardinality(starts) : from(k) \in starts
  <2> HIDE DEF starts
  <2> QED  BY <1>1, Ranked
<1>3. \A k \in 1..Cardinality(starts) : from(k) \in starts
  BY <1>2
<1>4. ASSUME NEW p \in starts
      PROVE  /\ c.net[p] \in c.nets
             /\ \A q \in EndsOf(wire(p)) : q \in DOMAIN c.net /\ c.net[q] = c.net[p]
             /\ WireFields \subseteq DOMAIN wire(p) /\ wire(p).net = c.net[p]
  <2>1. p \in DOMAIN c.net /\ next(p) # {} /\ next(p) \in SUBSET Pins
    BY DEF PinsOn
  <2>2. PICK q : q = FirstPin(next(p))
    OBVIOUS
  <2>3. q \in next(p)
    <3> HIDE DEF next
    <3> QED  BY <2>1, <2>2, FirstOf
  <2>4. q \in DOMAIN c.net /\ c.net[q] = c.net[p]
    BY <2>3 DEF PinsOn
  <2>5. /\ wire(p).from = p /\ wire(p).to = q /\ wire(p).net = c.net[p]
        /\ WireFields \subseteq DOMAIN wire(p)
    BY <2>2 DEF WireFields
  <2> HIDE DEF wire
  <2> QED  BY <2>1, <2>4, <2>5 DEF EndsOf
<1>5. FreezeDrawing(c, u) = Drawing(TRUE, pos, wires)
  BY DEF FreezeDrawing
<1>6. /\ DOMAIN wires = 1..Cardinality(starts)
      /\ \A k \in DOMAIN wires : wires[k] = wire(from(k))
  OBVIOUS
<1>7. IsFiniteSet(DOMAIN wires)
  BY <1>2, <1>6, FS_Interval
<1>8. PartsOf(c) \subseteq DOMAIN pos
  BY DEF PlaceParts
<1> HIDE DEF wire, from, starts, wires, pos
<1>9. PICK drawn : drawn = FreezeDrawing(c, u)
  OBVIOUS
<1>10. /\ {"owned", "pos", "wires"} \subseteq DOMAIN drawn
       /\ drawn.owned = TRUE /\ drawn.pos = pos /\ drawn.wires = wires
  BY <1>5, <1>9 DEF Drawing
<1>11. Shaped(drawn)
  BY <1>3, <1>4, <1>6, <1>7, <1>10 DEF Shaped
<1>12. Agrees(c, drawn.wires)
  BY <1>3, <1>4, <1>6, <1>10 DEF Agrees
<1> QED  BY <1>8, <1>9, <1>10, <1>11, <1>12


\* What is shown of a stored document is a drawing of it.
LEMMA ShownDrawing ==
  ASSUME NEW doc, Stored(doc)
  PROVE  /\ Shaped(ShownOf(doc)) /\ Preserves(doc, ShownOf(doc))
         /\ PartsOf(doc.circuit) \subseteq DOMAIN ShownOf(doc).pos
         /\ Agrees(doc.circuit, ShownOf(doc).wires)
<1>1. CASE doc.ui.owned
  <2>1. ShownOf(doc) = doc.ui
    BY <1>1 DEF ShownOf, FreezeDrawing
  <2>2. doc.ui.owned = TRUE
    BY <1>1 DEF Stored
  <2> QED  BY <1>1, <2>1, <2>2 DEF Stored, Shaped, Preserves, WireFields
<1>2. CASE ~doc.ui.owned
  <2>1. /\ DOMAIN doc.circuit.net \subseteq Pins
        /\ \A p \in DOMAIN doc.circuit.net : doc.circuit.net[p] \in doc.circuit.nets
        /\ doc.ui.owned = FALSE
    <3>1. CircuitOK(doc.circuit) /\ doc.ui.owned \in BOOLEAN
      BY DEF Stored
    <3> QED  BY <1>2, <3>1, CircuitFacts
  <2>2. /\ Shaped(ShownOf(doc))
        /\ PartsOf(doc.circuit) \subseteq DOMAIN ShownOf(doc).pos
        /\ Agrees(doc.circuit, ShownOf(doc).wires)
    BY <2>1, DrawnOnce DEF ShownOf
  <2> QED  BY <2>2 DEF Preserves
<1> QED  BY <1>1, <1>2

\* An owned drawing is shown as it is.
LEMMA OwnedIsShown ==
  ASSUME NEW doc, Shaped(doc.ui)
  PROVE  ShownOf(doc) = doc.ui
BY DEF Shaped, ShownOf, FreezeDrawing

\* The wires that stay when the netlist has changed name a net of it and end on
\* its terminals, whatever the edit made of it.
LEMMA WiresSynced ==
  ASSUME NEW c, NEW wires, IsFiniteSet(DOMAIN wires),
         \A k \in DOMAIN wires : WireFields \subseteq DOMAIN wires[k]
  PROVE  LET after == SyncWires(c, wires)
         IN  /\ DOMAIN after \subseteq DOMAIN wires /\ IsFiniteSet(DOMAIN after)
             /\ \A k \in DOMAIN after :
                    /\ WireFields \subseteq DOMAIN after[k]
                    /\ after[k].head = wires[k].head /\ after[k].tail = wires[k].tail
             /\ Agrees(c, after)
<1> DEFINE alive == {k \in DOMAIN wires : EndsOf(wires[k]) \subseteq DOMAIN c.net}
           live == [k \in alive |-> wires[k]]
           net == [k \in alive |->
                      NetOfConductor(c, live, Conductor(live, k), live[k].net)]
           kept == {k \in alive : /\ net[k] \in c.nets
                                  /\ \A p \in EndsOf(live[k]) : c.net[p] = net[k]}
           after == [k \in kept |-> [live[k] EXCEPT !.net = net[k]]]
<1>1. SyncWires(c, wires) = after
  BY DEF SyncWires
<1>2. DOMAIN after = kept /\ kept \subseteq alive /\ alive \subseteq DOMAIN wires
  OBVIOUS
<1>3. ASSUME NEW k \in kept
      PROVE  /\ k \in DOMAIN wires /\ k \in alive /\ live[k] = wires[k]
             /\ after[k] = [wires[k] EXCEPT !.net = net[k]]
             /\ net[k] \in c.nets
             /\ \A p \in EndsOf(wires[k]) : p \in DOMAIN c.net /\ c.net[p] = net[k]
  <2>1. k \in alive /\ net[k] \in c.nets /\ \A p \in EndsOf(live[k]) : c.net[p] = net[k]
    OBVIOUS
  <2>2. k \in DOMAIN wires /\ EndsOf(wires[k]) \subseteq DOMAIN c.net /\ live[k] = wires[k]
    BY <2>1
  <2>3. after[k] = [live[k] EXCEPT !.net = net[k]]
    OBVIOUS
  <2> HIDE DEF after, live, net, alive
  <2> QED  BY <2>1, <2>2, <2>3
<1>4. IsFiniteSet(DOMAIN after)
  <2> HIDE DEF after, kept, alive
  <2> QED  BY <1>2, FS_Subset
<1> HIDE DEF after, live, net, alive, kept
<1>5. ASSUME NEW k \in kept
      PROVE  /\ WireFields \subseteq DOMAIN after[k]
             /\ after[k].head = wires[k].head /\ after[k].tail = wires[k].tail
             /\ after[k].net = net[k] /\ EndsOf(after[k]) = EndsOf(wires[k])
  <2>1. WireFields \subseteq DOMAIN wires[k]
    BY <1>3
  <2>2. PICK w, v, n : w = after[k] /\ v = wires[k] /\ n = net[k]
    OBVIOUS
  <2>3. w = [v EXCEPT !.net = n] /\ WireFields \subseteq DOMAIN v
    BY <1>3, <2>1, <2>2
  <2>4. /\ DOMAIN w = DOMAIN v /\ w.net = n /\ w.head = v.head /\ w.tail = v.tail
        /\ w.from = v.from /\ w.to = v.to
    BY <2>3 DEF WireFields
  <2> QED  BY <2>2, <2>3, <2>4 DEF EndsOf
<1>6. Agrees(c, after)
  BY <1>2, <1>3, <1>5 DEF Agrees
<1> QED  BY <1>1, <1>2, <1>3, <1>4, <1>5, <1>6

\* What a commit makes of an edited netlist and a drawing: a document that may be
\* stored, its drawing owned, with the parts and wires of that drawing that stay.
LEMMA RedrawnIsStored ==
  ASSUME NEW c, CircuitOK(c), NEW d, Shaped(d)
  PROVE  LET doc == Redrawn(c, d)
         IN  /\ Stored(doc) /\ Shaped(doc.ui) /\ doc.circuit = c
             /\ doc.ui.wires = SyncWires(c, d.wires)
             /\ \A id \in PartsOf(c) \intersect DOMAIN d.pos : doc.ui.pos[id] = d.pos[id]
             /\ DOMAIN doc.ui.wires \subseteq DOMAIN d.wires
             /\ \A k \in DOMAIN doc.ui.wires :
                    /\ doc.ui.wires[k].head = d.wires[k].head
                    /\ doc.ui.wires[k].tail = d.wires[k].tail
<1> DEFINE kept == [id \in DOMAIN d.pos \intersect PartsOf(c) |-> d.pos[id]]
           one == [d EXCEPT !.pos = kept]
           two == [one EXCEPT !.wires = SyncWires(c, one.wires)]
           missing == PartsOf(c) \ DOMAIN two.pos
           free == Places \ {two.pos[id].place : id \in DOMAIN two.pos}
           all == [id \in DOMAIN two.pos \union missing |->
                      IF id \in DOMAIN two.pos THEN two.pos[id]
                      ELSE [place |-> Nth(Rank(id, missing), free), turned |-> FALSE]]
           three == [two EXCEPT !.pos = all]
<1>1. one = WithoutOrphans(c, d)
  BY DEF WithoutOrphans
<1>2. /\ {"owned", "pos", "wires"} \subseteq DOMAIN one
      /\ one.owned = TRUE /\ one.pos = kept /\ one.wires = d.wires
  <2> HIDE DEF kept
  <2> QED  BY DEF Shaped
<1>3. three = PlaceNewParts(c, two)
  BY DEF PlaceNewParts
<1> HIDE DEF one
<1>4. three = SyncDrawing(c, one)
  <2> HIDE DEF three
  <2> QED  BY <1>2, <1>3 DEF SyncDrawing
<1>5. /\ {"owned", "pos", "wires"} \subseteq DOMAIN two
      /\ two.owned = TRUE /\ two.pos = kept /\ two.wires = SyncWires(c, d.wires)
  <2> HIDE DEF kept
  <2> QED  BY <1>2
<1> HIDE DEF two
<1>6. /\ {"owned", "pos", "wires"} \subseteq DOMAIN three
      /\ three.owned = TRUE /\ three.pos = all /\ three.wires = SyncWires(c, d.wires)
  <2> HIDE DEF all
  <2> QED  BY <1>5
<1>7. /\ PartsOf(c) \subseteq DOMAIN all
      /\ \A id \in PartsOf(c) \intersect DOMAIN d.pos : all[id] = d.pos[id]
  <2>1. DOMAIN kept = DOMAIN d.pos \intersect PartsOf(c) /\ \A id \in DOMAIN kept : kept[id] = d.pos[id]
    OBVIOUS
  <2> HIDE DEF kept
  <2>2. DOMAIN all = DOMAIN kept \union (PartsOf(c) \ DOMAIN kept)
    BY <1>5
  <2>3. \A id \in DOMAIN kept : all[id] = kept[id]
    BY <1>5
  <2> HIDE DEF all
  <2> QED  BY <2>1, <2>2, <2>3
<1> HIDE DEF three, all, kept
<1>8. PICK after : after = SyncWires(c, d.wires)
  OBVIOUS
<1>9. /\ DOMAIN after \subseteq DOMAIN d.wires /\ IsFiniteSet(DOMAIN after)
      /\ \A k \in DOMAIN after :
             /\ WireFields \subseteq DOMAIN after[k]
             /\ after[k].head = d.wires[k].head /\ after[k].tail = d.wires[k].tail
      /\ Agrees(c, after)
  BY <1>8, WiresSynced DEF Shaped
<1>10. PICK doc : doc = Redrawn(c, d)
  OBVIOUS
<1>11. doc.circuit = c /\ doc.ui = three
  BY <1>1, <1>4, <1>10 DEF Redrawn
<1>12. Shaped(doc.ui)
  BY <1>6, <1>8, <1>9, <1>11 DEF Shaped
<1>13. Stored(doc)
  BY <1>6, <1>7, <1>8, <1>9, <1>11 DEF Stored, WireFields
<1> QED  BY <1>6, <1>7, <1>8, <1>9, <1>10, <1>11, <1>12, <1>13

\* A revision over a drawing that keeps what is shown moves nothing.
LEMMA RedrawnIsStill ==
  ASSUME NEW doc, Stored(doc), NEW c, CircuitOK(c), NEW d, Shaped(d), Preserves(doc, d)
  PROVE  Stored(Redrawn(c, d)) /\ Still(doc, Redrawn(c, d))
<1>1. PICK e : e = Redrawn(c, d)
  OBVIOUS
<1>2. /\ Stored(e) /\ Shaped(e.ui) /\ e.circuit = c
      /\ \A id \in PartsOf(c) \intersect DOMAIN d.pos : e.ui.pos[id] = d.pos[id]
      /\ DOMAIN e.ui.wires \subseteq DOMAIN d.wires
      /\ \A k \in DOMAIN e.ui.wires :
             e.ui.wires[k].head = d.wires[k].head /\ e.ui.wires[k].tail = d.wires[k].tail
  BY <1>1, RedrawnIsStored
<1>3. ShownOf(e) = e.ui
  BY <1>2, OwnedIsShown
<1>4. Still(doc, e)
  BY <1>2, <1>3 DEF Still, Preserves
<1> QED  BY <1>1, <1>2, <1>4

-----------------------------------------------------------------------------
(* Deleting wires.                                                         *)

\* A conductor is the least set of wires of its net with one of them and with
\* every wire that meets one it has.
LEMMA ConductorIs ==
  ASSUME NEW wires, IsFiniteSet(DOMAIN wires), NEW k \in DOMAIN wires
  PROVE  LET K == WiresOf(wires, wires[k].net)
             C == Conductor(wires, k)
         IN  /\ k \in C /\ C \subseteq K
             /\ Closed(C, Meetings(wires, K))
             /\ \A J : k \in J /\ Closed(J, Meetings(wires, K)) => C \subseteq J
<1> DEFINE K == WiresOf(wires, wires[k].net)
<1>1. K \in SUBSET DOMAIN wires /\ k \in K
  BY DEF WiresOf
<1>2. Meetings(wires, K) \in SUBSET SUBSET K
  BY DEF Meetings
<1>3. Conductor(wires, k) = Joined(k, K, Meetings(wires, K))
  BY DEF Conductor
<1> HIDE DEF K
<1>4. IsFiniteSet(K)
  BY <1>1, FS_Subset
<1>5. PICK M \in SUBSET SUBSET K : M = Meetings(wires, K)
  BY <1>2
<1>6. PICK C : C = Joined(k, K, M)
  OBVIOUS
<1>7. /\ k \in C /\ C \subseteq K /\ Closed(C, M)
      /\ \A J : k \in J /\ Closed(J, M) => C \subseteq J
  BY <1>1, <1>4, <1>6, JoinedIs
<1> QED  BY <1>3, <1>5, <1>6, <1>7 DEF K

\* What p is held together with: the groups are of terminals of its net.
LEMMA IslandIs ==
  ASSUME NEW c, CircuitOK(c), NEW pos, PartsOf(c) \subseteq DOMAIN pos,
         NEW wires, NEW p \in DOMAIN c.net
  PROVE  LET S == PinsOn(c, c.net[p])
             B == Bundles(pos, wires, S, c.net[p])
             I == Island(c, pos, wires, p)
         IN  /\ p \in I /\ I \subseteq S /\ Closed(I, B)
             /\ \A J : p \in J /\ Closed(J, B) => I \subseteq J
             /\ \A q \in I : Island(c, pos, wires, q) = I
<1> DEFINE S(q) == PinsOn(c, c.net[q])
           B(q) == Bundles(pos, wires, S(q), c.net[q])
<1>1. ASSUME NEW q \in DOMAIN c.net
      PROVE  Island(c, pos, wires, q) = Joined(q, S(q), B(q))
  <2>1. PlacedOn(c, pos, c.net[q]) = S(q)
    BY DEF PlacedOn, PinsOn, PartsOf
  <2> QED  BY <2>1 DEF Island
<1>2. IsFiniteSet(DOMAIN c.net)
  BY CircuitFacts
<1>3. S(p) \in SUBSET DOMAIN c.net /\ p \in S(p) /\ \A q \in S(p) : c.net[q] = c.net[p]
  BY DEF PinsOn
<1>4. B(p) \in SUBSET SUBSET S(p)
  BY DEF Bundles, Held
<1>5. \A q \in S(p) : S(q) = S(p) /\ B(q) = B(p)
  BY <1>3
<1> HIDE DEF S, B
<1>6. IsFiniteSet(S(p))
  BY <1>2, <1>3, FS_Subset
<1>7. PICK T, G : T = S(p) /\ G = B(p)
  OBVIOUS
<1>8. IsFiniteSet(T) /\ G \in SUBSET SUBSET T /\ p \in T
  BY <1>3, <1>4, <1>6, <1>7
<1>9. PICK I : I = Joined(p, T, G)
  OBVIOUS
<1>10. /\ p \in I /\ I \subseteq T /\ Closed(I, G)
       /\ \A J : p \in J /\ Closed(J, G) => I \subseteq J
  BY <1>8, <1>9, JoinedIs
<1>11. \A q \in I : q \in T /\ Joined(q, T, G) = I
  BY <1>8, <1>9, JoinedParts
<1>12. Island(c, pos, wires, p) = I
  BY <1>1, <1>7, <1>9
<1>13. \A q \in I : Island(c, pos, wires, q) = I
  BY <1>1, <1>3, <1>5, <1>7, <1>11
<1> QED  BY <1>7, <1>10, <1>12, <1>13 DEF S, B

\* More wires of its net hold a terminal together with more.
LEMMA MoreWires ==
  ASSUME NEW c, CircuitOK(c), NEW pos, PartsOf(c) \subseteq DOMAIN pos,
         NEW wires, IsFiniteSet(DOMAIN wires), NEW more, IsFiniteSet(DOMAIN more),
         NEW p \in DOMAIN c.net,
         \A i \in WiresOf(wires, c.net[p]) :
            i \in WiresOf(more, c.net[p]) /\ more[i] = wires[i]
  PROVE  Island(c, pos, wires, p) \subseteq Island(c, pos, more, p)
<1> DEFINE n == c.net[p]
           S == PinsOn(c, n)
           I == Island(c, pos, more, p)
<1>1. ASSUME NEW k \in WiresOf(wires, n)
      PROVE  Conductor(wires, k) \subseteq Conductor(more, k)
  <2> DEFINE K == WiresOf(wires, n)
             M == WiresOf(more, n)
  <2>1. /\ k \in DOMAIN wires /\ wires[k].net = n
        /\ k \in DOMAIN more /\ more[k].net = n
    BY DEF WiresOf
  <2>2. PICK C : C = Conductor(more, k)
    OBVIOUS
  <2>3. k \in C /\ C \subseteq M /\ Closed(C, Meetings(more, M))
    BY <2>1, <2>2, ConductorIs
  <2>4. \A J : k \in J /\ Closed(J, Meetings(wires, K)) => Conductor(wires, k) \subseteq J
    BY <2>1, ConductorIs
  <2>5. ASSUME NEW G \in Meetings(wires, K), G \intersect C # {}
        PROVE  G \subseteq C
    <3>1. PICK point : G = {i \in K : point \in PointsOf(wires[i])}
      BY DEF Meetings
    <3> DEFINE H == {i \in M : point \in PointsOf(more[i])}
    <3>2. G \subseteq H
      BY <3>1
    <3>3. PICK i \in G : i \in C
      BY <2>5
    <3>4. point \in UNION {PointsOf(more[j]) : j \in M}
      <4>1. i \in M /\ point \in PointsOf(more[i])
        BY <3>2, <3>3
      <4> QED  BY <4>1
    <3>5. H \in Meetings(more, M)
      BY <3>4 DEF Meetings
    <3>6. H \subseteq C
      <4> HIDE DEF H, M
      <4> QED  BY <2>3, <3>2, <3>3, <3>5 DEF Closed
    <3> QED  BY <3>2, <3>6
  <2>6. Closed(C, Meetings(wires, K))
    <3> HIDE DEF K
    <3> QED  BY <2>5 DEF Closed
  <2> QED  BY <2>2, <2>3, <2>4, <2>6
<1>2. p \in I /\ I \subseteq S /\ Closed(I, Bundles(pos, more, S, n))
  BY IslandIs
<1>3. \A J : p \in J /\ Closed(J, Bundles(pos, wires, S, n)) => Island(c, pos, wires, p) \subseteq J
  BY IslandIs
<1> HIDE DEF I, S, n
<1>4. ASSUME NEW G \in Bundles(pos, wires, S, n), G \intersect I # {}
      PROVE  G \subseteq I
  <2>1. CASE G \in {{q \in S : PointOf(pos, q) = PointOf(pos, r)} : r \in S}
    <3>1. G \in Bundles(pos, more, S, n)
      BY <2>1 DEF Bundles
    <3> QED  BY <1>2, <1>4, <3>1 DEF Closed
  <2>2. CASE G \notin {{q \in S : PointOf(pos, q) = PointOf(pos, r)} : r \in S}
    <3>1. PICK k \in WiresOf(wires, n) : G = Held(pos, wires, S, Conductor(wires, k))
      BY <2>2 DEF Bundles
    <3>2. PICK C, D : C = Conductor(wires, k) /\ D = Conductor(more, k)
      OBVIOUS
    <3>3. C \subseteq WiresOf(wires, n) /\ C \subseteq D
      <4>1. k \in DOMAIN wires /\ wires[k].net = n
        BY DEF WiresOf
      <4>2. Conductor(wires, k) \subseteq WiresOf(wires, wires[k].net)
        BY <4>1, ConductorIs
      <4> QED  BY <1>1, <3>2, <4>1, <4>2
    <3>4. \A i \in C : i \in D /\ more[i] = wires[i]
      BY <3>3 DEF n
    <3>5. G \subseteq Held(pos, more, S, D)
      BY <3>1, <3>2, <3>4 DEF Held
    <3>6. Held(pos, more, S, D) \in Bundles(pos, more, S, n)
      <4>1. k \in WiresOf(more, n)
        BY DEF n
      <4> QED  BY <3>2, <4>1 DEF Bundles
    <3>7. Held(pos, more, S, D) \subseteq I
      BY <1>2, <1>4, <3>5, <3>6 DEF Closed
    <3> QED  BY <3>5, <3>7
  <2> QED  BY <2>1, <2>2
<1>5. Closed(I, Bundles(pos, wires, S, n))
  BY <1>4 DEF Closed
<1>6. Island(c, pos, wires, p) \subseteq I
  BY <1>2, <1>3, <1>5
<1> QED  BY <1>6 DEF I

\* The ends recorded on the wires of one conductor are held together.
LEMMA EndsTogether ==
  ASSUME NEW c, CircuitOK(c), NEW pos, PartsOf(c) \subseteq DOMAIN pos,
         NEW wires, IsFiniteSet(DOMAIN wires), Agrees(c, wires),
         NEW k \in DOMAIN wires, NEW i \in Conductor(wires, k), NEW j \in Conductor(wires, k),
         NEW p \in EndsOf(wires[i]), NEW q \in EndsOf(wires[j])
  PROVE  /\ p \in DOMAIN c.net /\ q \in DOMAIN c.net
         /\ c.net[p] = wires[k].net /\ wires[i].net = wires[k].net
         /\ Island(c, pos, wires, p) = Island(c, pos, wires, q)
<1> DEFINE n == wires[k].net
           S == PinsOn(c, n)
           H == Held(pos, wires, S, Conductor(wires, k))
<1>1. Conductor(wires, k) \subseteq WiresOf(wires, n)
  BY ConductorIs
<1>2. i \in DOMAIN wires /\ wires[i].net = n /\ j \in DOMAIN wires /\ wires[j].net = n
  BY <1>1 DEF WiresOf
<1>3. p \in DOMAIN c.net /\ c.net[p] = n /\ q \in DOMAIN c.net /\ c.net[q] = n
  BY <1>2 DEF Agrees
<1>4. p \in H /\ q \in H
  BY <1>3 DEF Held, PinsOn
<1>5. H \in Bundles(pos, wires, S, n)
  BY DEF Bundles, WiresOf
<1>6. PICK I : I = Island(c, pos, wires, p)
  OBVIOUS
<1>7. p \in I /\ Closed(I, Bundles(pos, wires, S, n)) /\ \A r \in I : Island(c, pos, wires, r) = I
  BY <1>3, <1>6, IslandIs
<1>8. q \in I
  <2> HIDE DEF H, S, n
  <2> QED  BY <1>4, <1>5, <1>7 DEF Closed
<1> QED  BY <1>2, <1>3, <1>6, <1>7, <1>8

\* A design of which pins have been taken off their nets, one group after another.
Parted(c, d, list, k) ==
    /\ CircuitOK(d) /\ DOMAIN d.net = DOMAIN c.net /\ c.nets \subseteq d.nets
    /\ \A p \in DOMAIN c.net, q \in DOMAIN c.net :
          d.net[p] = d.net[q] <=>
             /\ c.net[p] = c.net[q]
             /\ \A j \in 1..k : p \in list[j].take <=> q \in list[j].take

\* After splits two pins share a net if they did and no split took one of them alone.
LEMMA SplitsPart ==
  ASSUME NEW c, CircuitOK(c), NEW list, Len(list) \in Nat,
         \A k \in 1..Len(list) : list[k].op = "split" /\ list[k].take # {},
         ApplyAll(c, list).ok
  PROVE  Parted(c, ApplyAll(c, list).circuit, list, Len(list))
<1> DEFINE N == Len(list)
<1>1. PICK f : /\ f[0] = Done(c)
               /\ \A k \in 1..N : f[k] = Advance(f[k - 1], list[k])
               /\ ApplyAll(c, list) = f[N]
  BY ApplyRecursion
<1> DEFINE T == {k \in 0..N : f[k].ok => Parted(c, f[k].circuit, list, k)}
<1>2. 0 \in T
  BY <1>1 DEF Done, Parted
<1>3. ASSUME NEW k \in 1..N, k - 1 \in T
      PROVE  k \in T
  <2>1. PICK done : done = f[k - 1]
    OBVIOUS
  <2>2. PICK m \in 0..N : m = k - 1
    OBVIOUS
  <2>3. f[k] = Advance(done, list[k]) /\ (done.ok => Parted(c, done.circuit, list, m))
    BY <1>1, <1>3, <2>1, <2>2
  <2>4. ASSUME f[k].ok
        PROVE  Parted(c, f[k].circuit, list, k)
    <3>1. done.ok
      BY <2>3, <2>4 DEF Advance
    <3>2. PICK was : was = done.circuit
      OBVIOUS
    <3>3. Parted(c, was, list, m)
      BY <2>3, <3>1, <3>2
    <3>4. PICK take : take = list[k].take
      OBVIOUS
    <3>5. f[k] = SplitNet(was, take) /\ take # {}
      BY <2>3, <3>1, <3>2, <3>4 DEF Advance, Apply
    <3>6. PICK d : d = f[k].circuit
      OBVIOUS
    <3>7. /\ CircuitOK(d) /\ take \subseteq DOMAIN was.net
          /\ \A p \in take, q \in take : was.net[p] = was.net[q]
          /\ DOMAIN d.net = DOMAIN was.net /\ was.nets \subseteq d.nets
          /\ \E n : /\ \A p \in DOMAIN was.net : was.net[p] # n
                    /\ \A p \in DOMAIN was.net : d.net[p] = IF p \in take THEN n ELSE was.net[p]
      <4>1. CircuitOK(was) /\ take # {}
        BY <3>3, <3>5 DEF Parted
      <4>2. SplitNet(was, take).ok /\ d = SplitNet(was, take).circuit
        BY <2>4, <3>5, <3>6
      <4>3. LET e == SplitNet(was, take).circuit
            IN  /\ CircuitOK(e) /\ take \subseteq DOMAIN was.net
                /\ \A p \in take, q \in take : was.net[p] = was.net[q]
                /\ DOMAIN e.net = DOMAIN was.net /\ was.nets \subseteq e.nets
                /\ \E n : /\ \A p \in DOMAIN was.net : was.net[p] # n
                          /\ \A p \in DOMAIN was.net : e.net[p] = IF p \in take THEN n ELSE was.net[p]
        BY <4>1, <4>2, SplitIs, ZenonT(60)
      <4> QED  BY <4>2, <4>3
    <3>8. ASSUME NEW p \in DOMAIN c.net, NEW q \in DOMAIN c.net
          PROVE  d.net[p] = d.net[q] <=> was.net[p] = was.net[q] /\ (p \in take <=> q \in take)
      <4>1. p \in DOMAIN was.net /\ q \in DOMAIN was.net
        BY <3>3 DEF Parted
      <4> QED  BY <3>7, <4>1
    <3>9. ASSUME NEW p \in DOMAIN c.net, NEW q \in DOMAIN c.net
          PROVE  (\A j \in 1..k : p \in list[j].take <=> q \in list[j].take)
                 <=> (\A j \in 1..m : p \in list[j].take <=> q \in list[j].take)
                     /\ (p \in take <=> q \in take)
      <4>1. \A j \in 1..k : j = k \/ j \in 1..m
        BY <2>2
      <4>2. k \in 1..k /\ \A j \in 1..m : j \in 1..k
        BY <2>2
      <4> QED  BY <3>4, <4>1, <4>2
    <3> QED  BY <3>3, <3>6, <3>7, <3>8, <3>9 DEF Parted
  <2> QED  BY <2>4
<1> HIDE DEF T
<1>4. \A k \in 0..N : k \in T
  BY <1>2, <1>3, Ascent
<1> QED  BY <1>1, <1>4 DEF T

\* The pieces in the order of their first terminals: each has a place.
LEMMA PiecesInOrder ==
  ASSUME NEW pieces, \A P \in pieces : P \in SUBSET Pins /\ P # {},
         \A P \in pieces, Q \in pieces : P # Q => P \intersect Q = {}
  PROVE  LET N == Cardinality(Heads(pieces))
         IN  /\ N \in Nat
             /\ \A k \in 1..N : PieceAt(k, pieces) \in pieces
             /\ \A P \in pieces : \E k \in 1..N : PieceAt(k, pieces) = P
<1> DEFINE H == Heads(pieces)
<1>1. \A P \in pieces : FirstPin(P) \in P
  BY FirstOf
<1>2. H \in SUBSET Pins
  BY <1>1 DEF Heads
<1>3. \A P \in pieces : FirstPin(P) \in H
  BY DEF Heads
<1>4. \A x \in H : \E P \in pieces : FirstPin(P) = x
  BY DEF Heads
<1> HIDE DEF H
<1>5. /\ Cardinality(H) \in Nat
      /\ \A k \in 1..Cardinality(H) : NthPin(k, H) \in H
      /\ \A x \in H : PinRank(x, H) \in 1..Cardinality(H) /\ NthPin(PinRank(x, H), H) = x
  BY <1>2, Ranked
<1>6. \A k \in 1..Cardinality(H) : PieceAt(k, pieces) \in pieces
  <2> TAKE k \in 1..Cardinality(H)
  <2>1. \E P \in pieces : FirstPin(P) = NthPin(k, H)
    BY <1>4, <1>5
  <2> QED  BY <2>1 DEF PieceAt, H
<1>7. \A P \in pieces : \E k \in 1..Cardinality(H) : PieceAt(k, pieces) = P
  <2> TAKE P \in pieces
  <2>1. PICK k \in 1..Cardinality(H) : NthPin(k, H) = FirstPin(P)
    BY <1>3, <1>5
  <2>2. \A Q \in pieces : FirstPin(Q) = NthPin(k, H) <=> Q = P
    BY <1>1, <2>1
  <2>3. PieceAt(k, pieces) = P
    <3>1. PieceAt(k, pieces) = CHOOSE Q \in pieces : FirstPin(Q) = NthPin(k, H)
      BY DEF PieceAt, H
    <3> QED  BY <2>2, <3>1, ZenonT(60)
  <2> QED  BY <2>3
<1> QED  BY <1>5, <1>6, <1>7 DEF H

LEMMA SplitsOf ==
  ASSUME NEW pieces, \A P \in pieces : P \in SUBSET Pins /\ P # {},
         \A P \in pieces, Q \in pieces : P # Q => P \intersect Q = {}
  PROVE  /\ Len(Splits(pieces)) \in Nat
         /\ \A k \in 1..Len(Splits(pieces)) :
               Splits(pieces)[k].op = "split" /\ Splits(pieces)[k].take \in pieces
         /\ \A P \in pieces : \E k \in 1..Len(Splits(pieces)) : Splits(pieces)[k].take = P
<1> DEFINE N == Cardinality(Heads(pieces))
           at(k) == [op |-> "split", take |-> PieceAt(k, pieces)]
           list == [k \in 1..N |-> at(k)]
<1>1. /\ N \in Nat
      /\ \A k \in 1..N : PieceAt(k, pieces) \in pieces
      /\ \A P \in pieces : \E k \in 1..N : PieceAt(k, pieces) = P
  BY PiecesInOrder
<1>2. Splits(pieces) = list
  BY DEF Splits
<1>3. \A k \in 1..N : at(k).op = "split" /\ at(k).take = PieceAt(k, pieces)
  OBVIOUS
<1> HIDE DEF N, at
<1>4. Len(list) = N /\ \A k \in 1..N : list[k] = at(k)
  BY <1>1
<1> HIDE DEF list
<1> QED  BY <1>1, <1>2, <1>3, <1>4

\* A terminal whose net loses no wire is held together with what it was.
LEMMA UntouchedIsland ==
  ASSUME NEW c, CircuitOK(c), NEW pos, PartsOf(c) \subseteq DOMAIN pos,
         NEW wires, IsFiniteSet(DOMAIN wires), NEW left, DOMAIN left \subseteq DOMAIN wires,
         \A k \in DOMAIN left : left[k] = wires[k],
         NEW p \in DOMAIN c.net, \A k \in DOMAIN wires : wires[k].net = c.net[p] => k \in DOMAIN left
  PROVE  Island(c, pos, wires, p) \subseteq Island(c, pos, left, p)
<1>1. IsFiniteSet(DOMAIN left)
  BY FS_Subset
<1>2. \A i \in WiresOf(wires, c.net[p]) : i \in WiresOf(left, c.net[p]) /\ left[i] = wires[i]
  BY DEF WiresOf
<1> QED  BY <1>1, <1>2, MoreWires

\* The wires that are not picked.
Without(wires, keys) == [k \in DOMAIN wires \ keys |-> wires[k]]

\* What the plan of a deletion takes off its net.
LEMMA PlannedPieces ==
  ASSUME Stored(present), ui.owned, NEW keys, NEW left, left = Without(ui.wires, keys)
  PROVE  /\ \A P \in DeletionPlan(keys) : \E p \in DOMAIN circuit.net :
               P = Island(circuit, ui.pos, left, p)
         /\ \A p \in DOMAIN circuit.net : circuit.net[p] \notin Rails =>
               \A q \in Island(circuit, ui.pos, ui.wires, p) :
                  LET P == Island(circuit, ui.pos, left, p)
                      Q == Island(circuit, ui.pos, left, q)
                  IN  P # Q => P \in DeletionPlan(keys) \/ Q \in DeletionPlan(keys)
<1> DEFINE gone == {k \in keys : k \in DOMAIN ui.wires}
           nets == {ui.wires[k].net : k \in gone} \ Rails
           pins == {p \in DOMAIN circuit.net : circuit.net[p] \in nets /\ p[1] \in DOMAIN ui.pos}
           was == [p \in pins |-> Island(circuit, ui.pos, ui.wires, p)]
           rest == [k \in DOMAIN ui.wires \ gone |-> ui.wires[k]]
           now == [p \in pins |-> Island(circuit, ui.pos, rest, p)]
           first(P, Q) == \/ Cardinality(P) > Cardinality(Q)
                          \/ Cardinality(P) = Cardinality(Q) /\ Before(FirstPin(P), FirstPin(Q))
           most(I) == CHOOSE P \in {now[q] : q \in I} :
                          \A q \in I : now[q] = P \/ first(P, now[q])
<1>1. /\ CircuitOK(circuit) /\ PartsOf(circuit) \subseteq DOMAIN ui.pos
      /\ IsFiniteSet(DOMAIN ui.wires) /\ Agrees(circuit, ui.wires)
  BY DEF Stored, circuit, ui
<1>2. rest = left
  BY DEF Without
<1>3. DeletionPlan(keys) = {now[p] : p \in {p \in pins : now[p] # most(was[p])}}
  BY DEF DeletionPlan
<1>4. DOMAIN left = DOMAIN ui.wires \ keys /\ \A k \in DOMAIN left : left[k] = ui.wires[k]
  BY DEF Without
<1>5. \A p \in pins : /\ p \in DOMAIN circuit.net
                      /\ was[p] = Island(circuit, ui.pos, ui.wires, p)
                      /\ now[p] = Island(circuit, ui.pos, left, p)
  BY <1>2
<1>6. \A p \in DOMAIN circuit.net : circuit.net[p] \in nets => p \in pins
  BY <1>1 DEF PartsOf
<1>7. \A P \in DeletionPlan(keys) : \E p \in DOMAIN circuit.net : P = Island(circuit, ui.pos, left, p)
  <2> HIDE DEF pins, was, now, most
  <2> QED  BY <1>3, <1>5
<1>8. ASSUME NEW p \in DOMAIN circuit.net, circuit.net[p] \notin Rails,
             NEW q \in Island(circuit, ui.pos, ui.wires, p),
             Island(circuit, ui.pos, left, p) # Island(circuit, ui.pos, left, q)
      PROVE  \/ Island(circuit, ui.pos, left, p) \in DeletionPlan(keys)
             \/ Island(circuit, ui.pos, left, q) \in DeletionPlan(keys)
  <2>1. /\ q \in DOMAIN circuit.net /\ circuit.net[q] = circuit.net[p]
        /\ Island(circuit, ui.pos, ui.wires, q) = Island(circuit, ui.pos, ui.wires, p)
    <3>1. PICK c, pos, wires, n : c = circuit /\ pos = ui.pos /\ wires = ui.wires /\ n = c.net[p]
      OBVIOUS
    <3>2. CircuitOK(c) /\ PartsOf(c) \subseteq DOMAIN pos /\ p \in DOMAIN c.net
      BY <1>1, <3>1
    <3>3. /\ Island(c, pos, wires, p) \subseteq PinsOn(c, n)
          /\ \A r \in Island(c, pos, wires, p) : Island(c, pos, wires, r) = Island(c, pos, wires, p)
      BY <3>1, <3>2, IslandIs
    <3> HIDE DEF gone, nets, pins, was, now, most, rest
    <3> QED  BY <3>1, <3>3 DEF PinsOn
  <2>2. CASE circuit.net[p] \notin nets
    <3>1. \A k \in DOMAIN ui.wires : ui.wires[k].net = circuit.net[p] => k \notin gone
      BY <1>8, <2>2
    <3>2. \A k \in DOMAIN ui.wires : ui.wires[k].net = circuit.net[p] => k \in DOMAIN left
      BY <1>4, <3>1
    <3> HIDE DEF gone, nets, pins, was, now, most, rest
    <3>3. Island(circuit, ui.pos, ui.wires, p) \subseteq Island(circuit, ui.pos, left, p)
      <4>1. PICK c, pos, wires : c = circuit /\ pos = ui.pos /\ wires = ui.wires
        OBVIOUS
      <4>2. /\ CircuitOK(c) /\ PartsOf(c) \subseteq DOMAIN pos /\ p \in DOMAIN c.net
            /\ IsFiniteSet(DOMAIN wires) /\ DOMAIN left \subseteq DOMAIN wires
            /\ \A k \in DOMAIN left : left[k] = wires[k]
            /\ \A k \in DOMAIN wires : wires[k].net = c.net[p] => k \in DOMAIN left
        BY <1>1, <1>4, <3>2, <4>1
      <4>3. Island(c, pos, wires, p) \subseteq Island(c, pos, left, p)
        BY <4>2, UntouchedIsland
      <4> QED  BY <4>1, <4>3
    <3>4. \A r \in Island(circuit, ui.pos, left, p) :
             Island(circuit, ui.pos, left, r) = Island(circuit, ui.pos, left, p)
      BY <1>1, IslandIs
    <3> QED  BY <1>8, <3>3, <3>4
  <2>3. CASE circuit.net[p] \in nets
    <3>1. p \in pins /\ q \in pins
      BY <1>6, <2>1, <2>3
    <3> HIDE DEF pins, was, now, most
    <3>2. was[p] = was[q] /\ now[p] # now[q]
      BY <1>5, <1>8, <2>1, <3>1
    <3>3. now[p] # most(was[p]) \/ now[q] # most(was[q])
      BY <3>2
    <3> QED  BY <1>3, <1>5, <3>1, <3>3
  <2> QED  BY <2>2, <2>3
<1> QED  BY <1>7, <1>8

\* Where its recorded ends are all on one net, that is the net of a conductor.
LEMMA NetOfOne ==
  ASSUME NEW c, CircuitOK(c), NEW wires, NEW group, IsFiniteSet(group),
         NEW was \in c.nets, NEW m \in c.nets,
         \A i \in group : \A p \in EndsOf(wires[i]) : c.net[p] = m
  PROVE  LET n == NetOfConductor(c, wires, group, was)
         IN  n \in c.nets /\ \A i \in group : EndsOf(wires[i]) # {} => n = m
<1> DEFINE ends == {e \in group \X {"from", "to"} : wires[e[1]][e[2]] # NoPin}
           on(n) == {e \in ends : c.net[wires[e[1]][e[2]]] = n}
           count(n) == Cardinality(on(n))
           hit == {n \in c.nets : count(n) > 0}
           most == {n \in hit : \A x \in hit : count(x) <= count(n)}
           net == NetOfConductor(c, wires, group, was)
<1>1. net = IF hit = {} \/ was \in most THEN was
            ELSE CHOOSE n \in most : \A x \in most : n <= x
  BY DEF NetOfConductor
<1>2. \A e \in ends : c.net[wires[e[1]][e[2]]] = m
  <2> TAKE e \in ends
  <2>1. PICK i \in group, x \in {"from", "to"} : e = <<i, x>>
    OBVIOUS
  <2>2. PICK w : w = wires[i]
    OBVIOUS
  <2>3. w[x] \in EndsOf(w)
    BY <2>1, <2>2 DEF EndsOf
  <2> QED  BY <2>1, <2>2, <2>3
<1>3. IsFiniteSet(ends)
  <2>1. IsFiniteSet({"from", "to"})
    <3>1. IsFiniteSet({"from"}) /\ {"from", "to"} = {"from"} \union {"to"}
      BY FS_Singleton
    <3> QED  BY <3>1, FS_AddElement
  <2>2. IsFiniteSet(group \X {"from", "to"})
    BY <2>1, FS_Product
  <2>3. ends \in SUBSET (group \X {"from", "to"})
    OBVIOUS
  <2> HIDE DEF ends
  <2> QED  BY <2>2, <2>3, FS_Subset
<1>4. ASSUME NEW i \in group, EndsOf(wires[i]) # {}
      PROVE  ends # {}
  <2>1. PICK w : w = wires[i]
    OBVIOUS
  <2>2. PICK x \in {"from", "to"} : w[x] # NoPin
    BY <1>4, <2>1 DEF EndsOf
  <2>3. PICK e : e = <<i, x>>
    OBVIOUS
  <2>4. e \in group \X {"from", "to"} /\ e[1] = i /\ e[2] = x
    BY <2>3
  <2>5. e \in ends
    BY <2>1, <2>2, <2>4
  <2> HIDE DEF ends
  <2> QED  BY <2>5
<1> HIDE DEF ends, net
<1>5. \A n \in c.nets : n # m => on(n) = {}
  BY <1>2
<1>6. on(m) = ends
  BY <1>2
<1> HIDE DEF on
<1>7. Cardinality({}) = 0
  BY FS_EmptySet
<1>8. \A n \in hit : n = m
  BY <1>5, <1>7
<1>9. CASE ends = {}
  <2>1. hit = {}
    BY <1>6, <1>7, <1>8, <1>9
  <2> HIDE DEF hit, most
  <2> QED  BY <1>1, <1>4, <1>9, <2>1 DEF net
<1>10. CASE ends # {}
  <2>1. count(m) > 0 /\ count(m) \in Nat
    <3>1. Cardinality(ends) \in Nat /\ Cardinality(ends) # 0
      BY <1>3, <1>10, FS_CardinalityType, FS_EmptySet
    <3> QED  BY <1>6, <3>1
  <2> HIDE DEF count
  <2>2. m \in hit
    BY <2>1
  <2>3. most = {m}
    BY <1>8, <2>1, <2>2
  <2>4. m \in Int
    <3>1. c.nets \subseteq Nets
      BY CircuitFacts
    <3> QED  BY <3>1 DEF Nets, Rails, Ground, Supply, Signals
  <2> HIDE DEF hit, most
  <2>5. (CHOOSE n \in {m} : \A x \in {m} : n <= x) = m
    <3>1. \E n \in {m} : \A x \in {m} : n <= x
      BY <2>4
    <3> QED  BY <3>1
  <2>6. net = m
    BY <1>1, <2>2, <2>3, <2>5
  <2> QED  BY <2>6 DEF net
<1> QED  BY <1>9, <1>10

IsFunction(f) == f = [x \in DOMAIN f |-> f[x]]

\* No wire is dropped of a drawing that agrees with a design, if the ends recorded
\* on each conductor of it are still on one net.
LEMMA WiresStay ==
  ASSUME NEW c, CircuitOK(c), NEW wires, IsFiniteSet(DOMAIN wires), Agrees(c, wires),
         IsFunction(wires),
         NEW d, CircuitOK(d), DOMAIN d.net = DOMAIN c.net, c.nets \subseteq d.nets,
         \A k \in DOMAIN wires : \A i \in Conductor(wires, k), j \in Conductor(wires, k) :
            \A p \in EndsOf(wires[i]), q \in EndsOf(wires[j]) : d.net[p] = d.net[q]
  PROVE  DOMAIN SyncWires(d, wires) = DOMAIN wires
<1> DEFINE alive == {k \in DOMAIN wires : EndsOf(wires[k]) \subseteq DOMAIN d.net}
           live == [k \in alive |-> wires[k]]
           net == [k \in alive |-> NetOfConductor(d, live, Conductor(live, k), live[k].net)]
           kept == {k \in alive : /\ net[k] \in d.nets
                                  /\ \A p \in EndsOf(live[k]) : d.net[p] = net[k]}
<1>1. DOMAIN SyncWires(d, wires) = kept
  BY DEF SyncWires
<1>2. alive = DOMAIN wires /\ \A k \in DOMAIN wires : wires[k].net \in d.nets
  BY DEF Agrees
<1>3. live = wires
  <2> HIDE DEF alive
  <2> QED  BY <1>2 DEF IsFunction
<1>4. DOMAIN net = DOMAIN wires /\ \A k \in DOMAIN wires :
         net[k] = NetOfConductor(d, wires, Conductor(wires, k), wires[k].net)
  <2> HIDE DEF alive, live
  <2> QED  BY <1>2, <1>3
<1> HIDE DEF net, alive, live, kept
<1>5. ASSUME NEW k \in DOMAIN wires
      PROVE  net[k] \in d.nets /\ \A p \in EndsOf(wires[k]) : d.net[p] = net[k]
  <2>1. PICK C : C = Conductor(wires, k)
    OBVIOUS
  <2>2. k \in C /\ C \subseteq DOMAIN wires
    BY <2>1, ConductorIs DEF WiresOf
  <2>3. IsFiniteSet(C)
    BY <2>2, FS_Subset
  <2>4. PICK was \in d.nets : was = wires[k].net
    BY <1>2
  <2>5. net[k] = NetOfConductor(d, wires, C, was)
    BY <1>4, <2>1, <2>4
  <2>6. \E m \in d.nets : \A i \in C : \A p \in EndsOf(wires[i]) : d.net[p] = m
    <3>1. CASE \A i \in C : EndsOf(wires[i]) = {}
      BY <2>4, <3>1
    <3>2. CASE \E i \in C : EndsOf(wires[i]) # {}
      <4>1. PICK i \in C : EndsOf(wires[i]) # {}
        BY <3>2
      <4>2. PICK p \in EndsOf(wires[i]) : TRUE
        BY <4>1
      <4>3. d.net[p] \in d.nets
        <5>1. p \in DOMAIN d.net
          BY <2>2 DEF Agrees
        <5> QED  BY <5>1, CircuitFacts
      <4>4. \A j \in C : \A q \in EndsOf(wires[j]) : d.net[p] = d.net[q]
        BY <2>1
      <4> QED  BY <4>3, <4>4
    <3> QED  BY <3>1, <3>2
  <2>7. PICK m \in d.nets : \A i \in C : \A p \in EndsOf(wires[i]) : d.net[p] = m
    BY <2>6
  <2>8. net[k] \in d.nets /\ \A i \in C : EndsOf(wires[i]) # {} => net[k] = m
    <3>1. LET n == NetOfConductor(d, wires, C, was)
          IN  n \in d.nets /\ \A i \in C : EndsOf(wires[i]) # {} => n = m
      <4>1. /\ CircuitOK(d) /\ IsFiniteSet(C) /\ was \in d.nets /\ m \in d.nets
            /\ \A i \in C : \A p \in EndsOf(wires[i]) : d.net[p] = m
        BY <2>3, <2>7
      <4>2. \A x, y \in d.nets : 
               (\A i \in C : \A p \in EndsOf(wires[i]) : d.net[p] = y) =>
               LET n == NetOfConductor(d, wires, C, x)
               IN  n \in d.nets /\ \A i \in C : EndsOf(wires[i]) # {} => n = y
        BY <4>1, NetOfOne
      <4> QED  BY <4>1, <4>2
    <3> QED  BY <2>5, <3>1
  <2> QED  BY <2>2, <2>7, <2>8
<1>6. kept = DOMAIN wires
  <2>1. \A k \in alive : live[k] = wires[k]
    BY <1>3
  <2> QED  BY <1>2, <1>5, <2>1 DEF kept
<1> QED  BY <1>1, <1>6

\* After the splits of the pieces, a wire that was left stays, and what two terminals
\* share is what those wires hold together.
LEMMA PartsOnly ==
  ASSUME NEW c, CircuitOK(c), NEW pos, PartsOf(c) \subseteq DOMAIN pos,
         NEW wires, IsFiniteSet(DOMAIN wires), Agrees(c, wires),
         NEW keys, NEW left, left = Without(wires, keys),
         NEW pieces,
         \A P \in pieces : \E p \in DOMAIN c.net : P = Island(c, pos, left, p),
         \A p \in DOMAIN c.net : c.net[p] \notin Rails =>
            \A q \in Island(c, pos, wires, p) :
               LET P == Island(c, pos, left, p)
                   Q == Island(c, pos, left, q)
               IN  P # Q => P \in pieces \/ Q \in pieces,
         NEW d, ApplyAll(c, Splits(pieces)).ok, d = ApplyAll(c, Splits(pieces)).circuit
  PROVE  /\ CircuitOK(d) /\ DOMAIN SyncWires(d, left) = DOMAIN left
         /\ \A p \in DOMAIN c.net : c.net[p] \notin Rails =>
               Island(c, pos, left, p) =
                  {q \in Island(c, pos, wires, p) : d.net[q] = d.net[p]}
<1> DEFINE was(p) == Island(c, pos, wires, p)
           now(p) == Island(c, pos, left, p)
           N == Len(Splits(pieces))
<1>1. /\ DOMAIN left \subseteq DOMAIN wires /\ \A k \in DOMAIN left : left[k] = wires[k]
      /\ IsFunction(left)
  BY DEF Without, IsFunction
<1>2. IsFiniteSet(DOMAIN left) /\ Agrees(c, left)
  BY <1>1, FS_Subset DEF Agrees
<1>3. ASSUME NEW p \in DOMAIN c.net
      PROVE  /\ p \in now(p) /\ now(p) \subseteq was(p)
             /\ was(p) \subseteq DOMAIN c.net /\ \A q \in was(p) : c.net[q] = c.net[p]
             /\ \A q \in now(p) : now(q) = now(p)
  <2>1. p \in now(p) /\ \A q \in now(p) : now(q) = now(p)
    BY IslandIs
  <2>2. was(p) \subseteq PinsOn(c, c.net[p])
    BY IslandIs
  <2>3. \A i \in WiresOf(left, c.net[p]) : i \in WiresOf(wires, c.net[p]) /\ wires[i] = left[i]
    BY <1>1 DEF WiresOf
  <2>4. now(p) \subseteq was(p)
    BY <1>2, <2>3, MoreWires
  <2> QED  BY <2>1, <2>2, <2>4 DEF PinsOn
<1> HIDE DEF was, now
<1>4. \A P \in pieces : \E p \in DOMAIN c.net : P = now(p)
  BY DEF now
<1>5. \A p \in DOMAIN c.net : c.net[p] \notin Rails =>
         \A q \in was(p) : now(p) # now(q) => now(p) \in pieces \/ now(q) \in pieces
  BY DEF now, was
<1>6. /\ \A P \in pieces : P \in SUBSET Pins /\ P # {}
      /\ \A P \in pieces, Q \in pieces : P # Q => P \intersect Q = {}
  <2>1. DOMAIN c.net \subseteq Pins
    BY CircuitFacts
  <2>2. \A P \in pieces : P \in SUBSET Pins /\ P # {}
    BY <1>3, <1>4, <2>1
  <2>3. ASSUME NEW P \in pieces, NEW Q \in pieces, NEW x \in P \intersect Q
        PROVE  P = Q
    BY <1>3, <1>4
  <2> QED  BY <2>2, <2>3
<1>7. /\ N \in Nat
      /\ \A k \in 1..N : Splits(pieces)[k].op = "split" /\ Splits(pieces)[k].take \in pieces
      /\ \A P \in pieces : \E k \in 1..N : Splits(pieces)[k].take = P
  BY <1>6, SplitsOf
<1>8. \A k \in 1..N : Splits(pieces)[k].op = "split" /\ Splits(pieces)[k].take # {}
  BY <1>6, <1>7
<1>9. Parted(c, d, Splits(pieces), N)
  BY <1>7, <1>8, SplitsPart
<1>10. CircuitOK(d) /\ DOMAIN d.net = DOMAIN c.net /\ c.nets \subseteq d.nets
  BY <1>9 DEF Parted
<1>11. \A p \in DOMAIN c.net, q \in DOMAIN c.net :
          d.net[p] = d.net[q] <=> c.net[p] = c.net[q] /\ \A P \in pieces : p \in P <=> q \in P
  <2> TAKE p \in DOMAIN c.net, q \in DOMAIN c.net
  <2>1. d.net[p] = d.net[q] <=> /\ c.net[p] = c.net[q]
                                /\ \A j \in 1..N : p \in Splits(pieces)[j].take
                                                   <=> q \in Splits(pieces)[j].take
    BY <1>9 DEF Parted
  <2> HIDE DEF N
  <2> QED  BY <1>7, <2>1
<1>12. ASSUME NEW p \in DOMAIN c.net, NEW q \in now(p)
       PROVE  d.net[q] = d.net[p]
  <2>1. q \in DOMAIN c.net /\ c.net[q] = c.net[p] /\ now(q) = now(p)
    BY <1>3
  <2>2. \A P \in pieces : p \in P <=> q \in P
    BY <1>3, <1>4, <2>1
  <2> QED  BY <1>11, <2>1, <2>2
<1>13. ASSUME NEW p \in DOMAIN c.net, c.net[p] \notin Rails, NEW q \in was(p), d.net[q] = d.net[p]
       PROVE  q \in now(p)
  <2>1. q \in DOMAIN c.net /\ \A P \in pieces : p \in P <=> q \in P
    BY <1>3, <1>11, <1>13
  <2>2. p \in now(p) /\ q \in now(q)
    BY <1>3, <2>1
  <2>3. CASE now(p) \in pieces
    BY <2>1, <2>2, <2>3
  <2>4. CASE now(q) \in pieces
    <3>1. p \in now(q)
      BY <2>1, <2>2, <2>4
    <3> QED  BY <1>3, <2>1, <2>2, <3>1
  <2> QED  BY <1>5, <1>13, <2>2, <2>3, <2>4
<1>14. \A p \in DOMAIN c.net : c.net[p] \notin Rails =>
          now(p) = {q \in was(p) : d.net[q] = d.net[p]}
  BY <1>3, <1>12, <1>13
<1>15. \A k \in DOMAIN left : \A i \in Conductor(left, k), j \in Conductor(left, k) :
          \A p \in EndsOf(left[i]), q \in EndsOf(left[j]) : d.net[p] = d.net[q]
  <2> TAKE k \in DOMAIN left
  <2> TAKE i \in Conductor(left, k), j \in Conductor(left, k)
  <2> TAKE p \in EndsOf(left[i]), q \in EndsOf(left[j])
  <2>1. p \in DOMAIN c.net /\ q \in DOMAIN c.net /\ now(p) = now(q)
    BY <1>2, EndsTogether DEF now
  <2> QED  BY <1>3, <1>12, <2>1
<1>16. DOMAIN SyncWires(d, left) = DOMAIN left
  BY <1>1, <1>2, <1>10, <1>15, WiresStay
<1> QED  BY <1>10, <1>14, <1>16 DEF now, was

\* A deletion of wires makes a design of a design.
LEMMA DeletionKeeps ==
  ASSUME Stored(present), NEW keys, ApplyAll(circuit, Splits(DeletionPlan(keys))).ok
  PROVE  CircuitOK(ApplyAll(circuit, Splits(DeletionPlan(keys))).circuit)
<1>1. PICK c, pos, wires : c = circuit /\ pos = ui.pos /\ wires = ui.wires
  OBVIOUS
<1>2. PICK pieces : pieces = DeletionPlan(keys)
  OBVIOUS
<1>3. CircuitOK(c)
  BY <1>1 DEF Stored, circuit
<1>4. CASE ui.owned
  <2>1. PICK left : left = Without(wires, keys)
    OBVIOUS
  <2>2. /\ PartsOf(c) \subseteq DOMAIN pos
        /\ IsFiniteSet(DOMAIN wires) /\ Agrees(c, wires)
    BY <1>1, <1>4 DEF Stored, circuit, ui
  <2>3. /\ \A P \in pieces : \E p \in DOMAIN c.net : P = Island(c, pos, left, p)
        /\ \A p \in DOMAIN c.net : c.net[p] \notin Rails =>
              \A q \in Island(c, pos, wires, p) :
                 LET P == Island(c, pos, left, p)
                     Q == Island(c, pos, left, q)
                 IN  P # Q => P \in pieces \/ Q \in pieces
    BY <1>1, <1>2, <1>4, <2>1, PlannedPieces
  <2>4. PICK d : d = ApplyAll(c, Splits(pieces)).circuit
    OBVIOUS
  <2>5. ApplyAll(c, Splits(pieces)).ok
    BY <1>1, <1>2
  <2>6. CircuitOK(d)
    BY <1>3, <2>1, <2>2, <2>3, <2>4, <2>5, PartsOnly
  <2> QED  BY <1>1, <1>2, <2>4, <2>6
<1>5. CASE ~ui.owned
  <2>1. DOMAIN ui.wires = {}
    BY <1>5 DEF Stored, ui
  <2>2. pieces = {}
    BY <1>2, <2>1 DEF DeletionPlan
  <2>3. /\ Len(Splits(pieces)) \in Nat
        /\ \A k \in 1..Len(Splits(pieces)) :
              Splits(pieces)[k].op = "split" /\ Splits(pieces)[k].take \in pieces
    BY <2>2, SplitsOf
  <2>4. PICK list : list = Splits(pieces)
    OBVIOUS
  <2>5. \A k \in 1..Len(list) : list[k].op = "split" /\ list[k].take # {}
    BY <2>2, <2>3, <2>4
  <2>6. ApplyAll(c, list).ok
    BY <1>1, <1>2, <2>4
  <2>7. CircuitOK(ApplyAll(c, list).circuit)
    BY <1>3, <2>3, <2>4, <2>5, <2>6, SplitsKeep
  <2> QED  BY <1>1, <1>2, <2>4, <2>7
<1> QED  BY <1>4, <1>5

-----------------------------------------------------------------------------
(* The gestures.                                                           *)

\* There is always an id for one more wire.
LEMMA NextId ==
  ASSUME NEW D, IsFiniteSet(D)
  PROVE  \E k \in 1..(Cardinality(D) + 1) :
            k \notin D /\ \A j \in 1..(k - 1) : j \in D
<1> DEFINE N == 1..(Cardinality(D) + 1)
<1>1. Cardinality(D) \in Nat
  BY FS_CardinalityType
<1>2. IsFiniteSet(N) /\ Cardinality(N) = Cardinality(D) + 1
  BY <1>1, FS_Interval
<1>3. ~(N \subseteq D)
  BY <1>1, <1>2, FS_Subset
<1>4. N \ D \in SUBSET Nat /\ N \ D # {}
  BY <1>1, <1>3
<1>5. PICK k \in N \ D : \A j \in N \ D : k <= j
  BY <1>4, Least
<1>6. \A j \in 1..(k - 1) : j \in N /\ ~(k <= j)
  BY <1>1, <1>5
<1> QED  BY <1>5, <1>6

\* What a revision may be: a document that may be stored, after which nothing
\* shown has moved without being asked to.
Sound(doc) == Stored(doc) /\ Still(present, doc)

LEMMA ManyIsSound ==
  ASSUME Stored(present), NEW list, ApplyMany(list), CircuitOK(ApplyAll(circuit, list).circuit)
  PROVE  \E doc : Commit(doc) /\ Sound(doc)
<1>1. PICK c : CircuitOK(c) /\ Commit(Redrawn(c, shown))
  BY DEF ApplyMany, Revise
<1>2. Shaped(shown) /\ Preserves(present, shown)
  BY ShownDrawing DEF shown
<1> QED  BY <1>1, <1>2, RedrawnIsStill DEF Sound

LEMMA DrawnIsSound ==
  ASSUME Stored(present), NEW done, NEW drawn, ApplyAndDraw(done, drawn),
         CircuitOK(done.circuit), Shaped(drawn), Preserves(present, drawn)
  PROVE  \E doc : Commit(doc) /\ Sound(doc)
<1>1. PICK c : CircuitOK(c) /\ Commit(Redrawn(c, drawn))
  BY DEF ApplyAndDraw, Revise
<1> QED  BY <1>1, RedrawnIsStill DEF Sound

\* A drawing handed over with the netlist as it is.
LEMMA UiIsSound ==
  ASSUME NEW next, CommitUi(next), Stored([circuit |-> circuit, ui |-> next])
  PROVE  \E doc : Commit(doc) /\ Sound(doc)
<1>1. PICK doc : doc = [circuit |-> circuit, ui |-> next]
  OBVIOUS
<1>2. Commit(doc) /\ Stored(doc) /\ doc.circuit = present.circuit
  BY <1>1 DEF CommitUi, Revise, circuit
<1> QED  BY <1>2 DEF Sound, Still

\* The copy of a part takes a number that no part of the circuit has.
LEMMA CopiesAreFree ==
  ASSUME NEW c, CircuitOK(c), NEW parts \in SUBSET PartsOf(c),
         Cardinality(parts) <= Cardinality(FreeParts(c)), NEW part \in parts
  PROVE  CopyOf(c, parts, part) \in Parts \ PartsOf(c)
<1>1. PartsOf(c) \subseteq Parts
  BY CircuitFacts
<1>2. parts \in SUBSET Parts /\ FreeParts(c) \in SUBSET Parts
  BY <1>1 DEF FreeParts
<1>3. /\ parts \in SUBSET Nat /\ IsFiniteSet(parts) /\ Cardinality(parts) \in Nat
      /\ FreeParts(c) \in SUBSET Nat /\ IsFiniteSet(FreeParts(c))
      /\ Cardinality(FreeParts(c)) \in Nat
  BY <1>2, PartsAreNumbers
<1>4. Rank(part, parts) \in 1..Cardinality(parts)
  BY <1>3, RankedNumbers
<1>5. Rank(part, parts) \in 1..Cardinality(FreeParts(c))
  BY <1>3, <1>4
<1>6. Nth(Rank(part, parts), FreeParts(c)) \in FreeParts(c)
  BY <1>3, <1>5, RankedNumbers
<1> QED  BY <1>6 DEF CopyOf, FreeParts

LEMMA DuplicateIsSound ==
  ASSUME Stored(present), Duplicate
  PROVE  \E doc : Commit(doc) /\ Sound(doc)
<1>1. PICK parts \in Groups(PartsOf(circuit)) :
          LET beside(was) == [was EXCEPT !.place = @ + 1]
              copy(part) == CopyOf(circuit, parts, part)
              place(drawn) ==
                  [drawn EXCEPT !.pos =
                      [id \in DOMAIN drawn.pos \union {copy(part) : part \in parts} |->
                          IF \E part \in parts : copy(part) = id
                          THEN beside(drawn.pos[CHOOSE part \in parts : copy(part) = id])
                          ELSE drawn.pos[id]]]
          IN  /\ Cardinality(parts) <= Cardinality(FreeParts(circuit))
              /\ LET done == ApplyAll(circuit, <<[op |-> "duplicate", parts |-> parts]>>)
                 IN  ApplyAndDraw(done, place(shown))
  BY DEF Duplicate
<1> DEFINE beside(was) == [was EXCEPT !.place = @ + 1]
           copy(part) == CopyOf(circuit, parts, part)
           places == [id \in DOMAIN shown.pos \union {copy(part) : part \in parts} |->
                         IF \E part \in parts : copy(part) = id
                         THEN beside(shown.pos[CHOOSE part \in parts : copy(part) = id])
                         ELSE shown.pos[id]]
           drawn == [shown EXCEPT !.pos = places]
           done == ApplyAll(circuit, <<[op |-> "duplicate", parts |-> parts]>>)
<1>2. ApplyAndDraw(done, drawn)
  BY <1>1
<1>3. CircuitOK(done.circuit)
  <2>1. PICK e : e = [op |-> "duplicate", parts |-> parts]
    OBVIOUS
  <2>2. done = DuplicateComponents(circuit, parts)
    <3>1. Apply(circuit, e) = DuplicateComponents(circuit, parts)
      BY <2>1 DEF Apply
    <3>2. ApplyAll(circuit, <<e>>) = Apply(circuit, e)
      BY FewEdits
    <3> QED  BY <2>1, <3>1, <3>2
  <2>3. done.ok /\ Cardinality(parts) <= Cardinality(FreeParts(circuit)) /\ CircuitOK(circuit)
    BY <1>1, <1>2 DEF ApplyAndDraw, Stored, circuit
  <2> QED  BY <2>2, <2>3, DuplicateKeeps
<1>4. Shaped(shown) /\ Preserves(present, shown)
  BY ShownDrawing DEF shown
<1>5. ASSUME NEW id \in PartsOf(circuit)
      PROVE  id \in DOMAIN places /\ places[id] = shown.pos[id]
  <2>1. id \in DOMAIN shown.pos
    BY <1>4 DEF Preserves, circuit
  <2>2. CircuitOK(circuit) /\ parts \in SUBSET PartsOf(circuit)
    BY DEF Stored, circuit, Groups
  <2>3. \A part \in parts : copy(part) \notin PartsOf(circuit)
    BY <1>1, <2>2, CopiesAreFree
  <2>4. ~ \E part \in parts : copy(part) = id
    BY <2>3
  <2> HIDE DEF copy, beside
  <2> QED  BY <2>1, <2>4
<1> HIDE DEF places, done
<1>6. /\ DOMAIN drawn = DOMAIN shown /\ drawn.owned = shown.owned
      /\ drawn.pos = places /\ drawn.wires = shown.wires
  BY <1>4 DEF Shaped
<1> HIDE DEF drawn
<1>7. Shaped(drawn)
  BY <1>4, <1>6 DEF Shaped
<1>8. Preserves(present, drawn)
  BY <1>4, <1>5, <1>6 DEF Preserves, circuit
<1> QED  BY <1>2, <1>7, <1>8, <1>3, DrawnIsSound

LEMMA DeleteWiresIsSound ==
  ASSUME Stored(present), DeleteWires
  PROVE  \E doc : Commit(doc) /\ Sound(doc)
<1>1. PICK keys, done :
          LET erase(drawn) ==
                  IF ui.owned
                  THEN [drawn EXCEPT !.wires =
                            [k \in DOMAIN drawn.wires \ keys |-> drawn.wires[k]]]
                  ELSE drawn
          IN  /\ done = ApplyAll(circuit, Splits(DeletionPlan(keys)))
              /\ ApplyAndDraw(done, erase(shown))
  BY DEF DeleteWires
<1>2. CircuitOK(done.circuit)
  <2>1. done.ok
    BY <1>1 DEF ApplyAndDraw
  <2> QED  BY <1>1, <2>1, DeletionKeeps
<1>3. Shaped(shown) /\ Preserves(present, shown)
  BY ShownDrawing DEF shown
<1> DEFINE left == [k \in DOMAIN shown.wires \ keys |-> shown.wires[k]]
           erased == [shown EXCEPT !.wires = left]
<1>4. CASE ~ui.owned
  BY <1>1, <1>3, <1>4, <1>2, DrawnIsSound
<1>5. CASE ui.owned
  <2>1. ApplyAndDraw(done, erased)
    BY <1>1, <1>5
  <2>2. DOMAIN left = DOMAIN shown.wires \ keys
        /\ \A k \in DOMAIN left : k \in DOMAIN shown.wires /\ left[k] = shown.wires[k]
    OBVIOUS
  <2> HIDE DEF left
  <2>3. /\ DOMAIN erased = DOMAIN shown /\ erased.owned = shown.owned
        /\ erased.pos = shown.pos /\ erased.wires = left
    BY <1>3 DEF Shaped
  <2> HIDE DEF erased
  <2>4. IsFiniteSet(DOMAIN left)
    BY <1>3, <2>2, FS_Difference, ZenonT(60) DEF Shaped
  <2>5. Shaped(erased)
    BY <1>3, <2>2, <2>3, <2>4 DEF Shaped
  <2>6. Preserves(present, erased)
    BY <1>3, <2>2, <2>3 DEF Preserves
  <2> QED  BY <1>2, <2>1, <2>5, <2>6, DrawnIsSound
<1> QED  BY <1>4, <1>5

LEMMA DrawWireIsSound ==
  ASSUME Stored(present), DrawWire
  PROVE  \E doc : Commit(doc) /\ Sound(doc)
<1>1. PICK a \in Ends, b \in Ends :
          LET hit == NetsUnder(a) \union NetsUnder(b)
              pair == {pq \in Terminal(a) \X Terminal(b) : circuit.net[pq[1]] # circuit.net[pq[2]]}
              list == IF pair = {} THEN <<>>
                      ELSE LET pq == CHOOSE pq \in pair : TRUE
                           IN  <<[op |-> "connect", from |-> pq[1], to |-> pq[2]]>>
              known == Terminal(a) \union Terminal(b)
              draw(drawn, c) ==
                  LET final == IF known = {} THEN CHOOSE n \in hit : TRUE
                               ELSE c.net[CHOOSE p \in known : TRUE]
                      next == CHOOSE k \in 1..(Cardinality(DOMAIN drawn.wires) + 1) :
                                  /\ k \notin DOMAIN drawn.wires
                                  /\ \A j \in 1..(k - 1) : j \in DOMAIN drawn.wires
                      new == [net |-> final, from |-> a.pin, to |-> b.pin,
                              head |-> a.point, tail |-> b.point]
                      relabel(w) == IF w.net \in hit THEN [w EXCEPT !.net = final] ELSE w
                  IN  [drawn EXCEPT !.wires = [k \in DOMAIN drawn.wires \union {next} |->
                          IF k = next THEN new ELSE relabel(drawn.wires[k])]]
          IN  LET done == ApplyAll(circuit, list)
              IN  ApplyAndDraw(done, draw(shown, done.circuit))
  BY ZenonT(60) DEF DrawWire
<1> DEFINE hit == NetsUnder(a) \union NetsUnder(b)
           pair == {pq \in Terminal(a) \X Terminal(b) : circuit.net[pq[1]] # circuit.net[pq[2]]}
           list == IF pair = {} THEN <<>>
                   ELSE LET pq == CHOOSE pq \in pair : TRUE
                        IN  <<[op |-> "connect", from |-> pq[1], to |-> pq[2]]>>
           known == Terminal(a) \union Terminal(b)
           done == ApplyAll(circuit, list)
           final == IF known = {} THEN CHOOSE n \in hit : TRUE
                    ELSE done.circuit.net[CHOOSE p \in known : TRUE]
           next == CHOOSE k \in 1..(Cardinality(DOMAIN shown.wires) + 1) :
                       /\ k \notin DOMAIN shown.wires
                       /\ \A j \in 1..(k - 1) : j \in DOMAIN shown.wires
           new == [net |-> final, from |-> a.pin, to |-> b.pin,
                   head |-> a.point, tail |-> b.point]
           relabel(w) == IF w.net \in hit THEN [w EXCEPT !.net = final] ELSE w
           wires == [k \in DOMAIN shown.wires \union {next} |->
                        IF k = next THEN new ELSE relabel(shown.wires[k])]
           drawn == [shown EXCEPT !.wires = wires]
<1>2. ApplyAndDraw(done, drawn)
  BY <1>1, ZenonT(60)
<1>3. Shaped(shown) /\ Preserves(present, shown)
  BY ShownDrawing DEF shown
<1>4. CircuitOK(done.circuit)
  <2>1. CircuitOK(circuit) /\ done.ok
    BY <1>2, ZenonT(60) DEF Stored, circuit, ApplyAndDraw
  <2>2. CASE pair = {}
    <3>1. list = <<>>
      BY <2>2
    <3>2. done = Done(circuit)
      BY <3>1, FewEdits
    <3> HIDE DEF done
    <3>3. done.circuit = circuit
      BY <3>2 DEF Done
    <3> QED  BY <2>1, <3>3
  <2>3. CASE pair # {}
    <3>1. PICK pq : list = <<[op |-> "connect", from |-> pq[1], to |-> pq[2]]>>
      BY <2>3
    <3>2. PICK e, from, to : e = [op |-> "connect", from |-> from, to |-> to] /\ list = <<e>>
      BY <3>1
    <3>3. Apply(circuit, e) = ConnectPins(circuit, from, to)
      BY <3>2 DEF Apply
    <3>4. done = ConnectPins(circuit, from, to)
      BY <3>2, <3>3, FewEdits
    <3> QED  BY <2>1, <3>4, ConnectKeeps
  <2> QED  BY <2>2, <2>3
<1>5. next \notin DOMAIN shown.wires
  <2>1. IsFiniteSet(DOMAIN shown.wires)
    BY <1>3 DEF Shaped
  <2> QED  BY <2>1, NextId
<1> HIDE DEF next, final, hit, known, done
<1>6. WireFields \subseteq DOMAIN new
  BY DEF WireFields
<1>7. ASSUME NEW k \in DOMAIN shown.wires
      PROVE  /\ WireFields \subseteq DOMAIN relabel(shown.wires[k])
             /\ relabel(shown.wires[k]).head = shown.wires[k].head
             /\ relabel(shown.wires[k]).tail = shown.wires[k].tail
  <2>1. PICK w : w = shown.wires[k] /\ WireFields \subseteq DOMAIN w
    BY <1>3 DEF Shaped
  <2>2. LET v == [w EXCEPT !.net = final]
        IN  WireFields \subseteq DOMAIN v /\ v.head = w.head /\ v.tail = w.tail
    BY <2>1 DEF WireFields
  <2> QED  BY <2>1, <2>2
<1> HIDE DEF new, relabel
<1>8. /\ DOMAIN wires = DOMAIN shown.wires \union {next}
      /\ wires[next] = new
      /\ \A k \in DOMAIN shown.wires : wires[k] = relabel(shown.wires[k])
  BY <1>5
<1>9. IsFiniteSet(DOMAIN wires)
  <2> HIDE DEF wires
  <2>1. IsFiniteSet(DOMAIN shown.wires)
    BY <1>3 DEF Shaped
  <2> QED  BY <1>8, <2>1, FS_AddElement
<1> HIDE DEF wires
<1>10. /\ DOMAIN drawn = DOMAIN shown /\ drawn.owned = shown.owned
      /\ drawn.pos = shown.pos /\ drawn.wires = wires
  BY <1>3 DEF Shaped
<1> HIDE DEF drawn
<1>11. Shaped(drawn)
  BY <1>3, <1>6, <1>7, <1>8, <1>9, <1>10 DEF Shaped
<1>12. Preserves(present, drawn)
  BY <1>3, <1>7, <1>8, <1>10 DEF Preserves, shown
<1> QED  BY <1>2, <1>11, <1>12, <1>4, DrawnIsSound

\* A drawing handed over for the netlist it was made for.
LEMMA HandedOver ==
  ASSUME NEW c, CircuitOK(c), NEW d, NEW e, Shaped(d), Shaped(e),
         PartsOf(c) \subseteq DOMAIN e.pos, Agrees(c, d.wires),
         DOMAIN e.wires = DOMAIN d.wires,
         \A k \in DOMAIN d.wires : /\ e.wires[k].net = d.wires[k].net
                                   /\ e.wires[k].from = d.wires[k].from
                                   /\ e.wires[k].to = d.wires[k].to
  PROVE  Stored([circuit |-> c, ui |-> e])
<1>1. Agrees(c, e.wires)
  BY DEF Agrees, EndsOf
<1>2. PICK doc : doc = [circuit |-> c, ui |-> e]
  OBVIOUS
<1>3. doc.circuit = c /\ doc.ui = e
  BY <1>2
<1>4. Stored(doc)
  BY <1>1, <1>3 DEF Stored, Shaped, WireFields
<1> QED  BY <1>2, <1>4

LEMMA TurnIsSound ==
  ASSUME Stored(present), Turn
  PROVE  \E doc : Commit(doc) /\ Sound(doc)
<1>1. PICK parts :
          CommitUi([shown EXCEPT !.pos =
              [id \in DOMAIN shown.pos |->
                  IF id \in parts THEN [shown.pos[id] EXCEPT !.turned = ~@]
                  ELSE shown.pos[id]]])
  BY DEF Turn
<1> DEFINE places == [id \in DOMAIN shown.pos |->
                         IF id \in parts THEN [shown.pos[id] EXCEPT !.turned = ~@]
                         ELSE shown.pos[id]]
           next == [shown EXCEPT !.pos = places]
<1>2. CommitUi(next)
  BY <1>1
<1>3. /\ Shaped(shown) /\ PartsOf(circuit) \subseteq DOMAIN shown.pos
      /\ Agrees(circuit, shown.wires)
  BY ShownDrawing DEF shown, circuit
<1>4. DOMAIN places = DOMAIN shown.pos
  OBVIOUS
<1> HIDE DEF places
<1>5. /\ DOMAIN next = DOMAIN shown /\ next.owned = shown.owned
      /\ next.pos = places /\ next.wires = shown.wires
  BY <1>3 DEF Shaped
<1> HIDE DEF next
<1>6. Shaped(next)
  BY <1>3, <1>5 DEF Shaped
<1>7. CircuitOK(circuit)
  BY DEF Stored, circuit
<1>8. Stored([circuit |-> circuit, ui |-> next])
  BY <1>3, <1>4, <1>5, <1>6, <1>7, HandedOver
<1> QED  BY <1>2, <1>8, UiIsSound

LEMMA ArrangeIsSound ==
  ASSUME Stored(present), Arrange
  PROVE  \E doc : Commit(doc) /\ Sound(doc)
<1>1. PICK part \in PartsOf(circuit), place \in Places :
          LET moved == [shown.pos[part] EXCEPT !.place = place]
          IN  CommitUi([ui EXCEPT !.pos = [id \in DOMAIN ui.pos \union {part} |->
                                              IF id = part THEN moved ELSE ui.pos[id]]])
  BY DEF Arrange
<1> DEFINE moved == [shown.pos[part] EXCEPT !.place = place]
           places == [id \in DOMAIN ui.pos \union {part} |->
                         IF id = part THEN moved ELSE ui.pos[id]]
           next == [ui EXCEPT !.pos = places]
<1>2. CommitUi(next)
  BY <1>1
<1>3. DOMAIN ui.pos \subseteq DOMAIN places
  OBVIOUS
<1> HIDE DEF places
<1>4. {"owned", "pos", "wires"} \subseteq DOMAIN ui
  BY DEF Stored, ui
<1>5. /\ DOMAIN next = DOMAIN ui /\ next.owned = ui.owned
      /\ next.pos = places /\ next.wires = ui.wires
  BY <1>4
<1> HIDE DEF next
<1>6. PICK doc : doc = [circuit |-> circuit, ui |-> next]
  OBVIOUS
<1>7. doc.circuit = present.circuit /\ doc.ui = next
  BY <1>6 DEF circuit
<1>8. Stored(doc)
  BY <1>3, <1>5, <1>7 DEF Stored, ui
<1> QED  BY <1>2, <1>6, <1>8, UiIsSound

\* A drop, whatever became of the parts that were picked up.
LEMMA DropIsSound ==
  ASSUME Stored(present), NEW delta, CommitUi(Dropped(delta))
  PROVE  \E doc : Commit(doc) /\ Sound(doc)
<1> DEFINE at(id) == [place |-> drag[id] + delta,
                      turned |-> id \in DOMAIN shown.pos /\ shown.pos[id].turned]
           pos == [id \in DOMAIN shown.pos \union DOMAIN drag |->
                      IF id \in DOMAIN drag THEN at(id) ELSE shown.pos[id]]
           both == PartsOf(circuit) \intersect DOMAIN shown.pos \intersect DOMAIN pos
           follow(p, point) == IF p \in Pins /\ p[1] \in both /\ shown.pos[p[1]] # pos[p[1]]
                               THEN PointOf(pos, p) ELSE point
           moved(w) == [w EXCEPT !.head = follow(w.from, w.head),
                                 !.tail = follow(w.to, w.tail)]
           wires == [k \in DOMAIN shown.wires |-> moved(shown.wires[k])]
           next == [shown EXCEPT !.pos = pos, !.wires = wires]
<1>1. Dropped(delta) = next
  BY ZenonT(60) DEF Dropped, WithPositions
<1>2. /\ Shaped(shown) /\ PartsOf(circuit) \subseteq DOMAIN shown.pos
      /\ Agrees(circuit, shown.wires)
  BY ShownDrawing DEF shown, circuit
<1>3. DOMAIN shown.pos \subseteq DOMAIN pos
  OBVIOUS
<1> HIDE DEF pos, follow
<1>4. ASSUME NEW k \in DOMAIN shown.wires
      PROVE  /\ WireFields \subseteq DOMAIN wires[k]
             /\ wires[k].net = shown.wires[k].net
             /\ wires[k].from = shown.wires[k].from /\ wires[k].to = shown.wires[k].to
  <2>1. PICK w : w = shown.wires[k] /\ WireFields \subseteq DOMAIN w
    BY <1>2 DEF Shaped
  <2>2. /\ WireFields \subseteq DOMAIN moved(w) /\ moved(w).net = w.net
        /\ moved(w).from = w.from /\ moved(w).to = w.to
    BY <2>1 DEF WireFields
  <2> HIDE DEF moved
  <2>3. wires[k] = moved(w)
    BY <2>1
  <2> QED  BY <2>1, <2>2, <2>3
<1>5. DOMAIN wires = DOMAIN shown.wires
  OBVIOUS
<1> HIDE DEF wires
<1>6. /\ DOMAIN next = DOMAIN shown /\ next.owned = shown.owned
      /\ next.pos = pos /\ next.wires = wires
  BY <1>2 DEF Shaped
<1> HIDE DEF next
<1>7. Shaped(next)
  BY <1>2, <1>4, <1>5, <1>6 DEF Shaped
<1>8. CircuitOK(circuit)
  BY DEF Stored, circuit
<1>9. Stored([circuit |-> circuit, ui |-> next])
  BY <1>2, <1>3, <1>4, <1>5, <1>6, <1>7, <1>8, HandedOver
<1> QED  BY <1>1, <1>9, UiIsSound

-----------------------------------------------------------------------------
(* The invariant of a session and what follows from it.                    *)

\* Every document on the line may be stored, and next to each other they show what
\* they share in one place: undo and redo go from neighbour to neighbour.
Consistent(docs) ==
    /\ \A k \in 1..Len(docs) : Stored(docs[k])
    /\ \A k \in 1..(Len(docs) - 1) : Still(docs[k], docs[k + 1])

EditorInv == HistoryOK /\ Consistent(Line)

\* Whatever a step does in the editor, the kernel sees one of four things.
LEMMA KernelSteps ==
  ASSUME Stored(present), [EditorNext]_editorVars
  PROVE  \/ \E doc : Commit(doc) /\ Sound(doc)
         \/ Undo \/ Redo
         \/ \E doc \in Opened : Adopts(doc)
         \/ UNCHANGED history
<1>1. CASE Keys
  <2>1. CASE Join \/ Part \/ Split \/ Delete
    <3>1. CircuitOK(circuit)
      BY DEF Stored, circuit
    <3> QED  BY <2>1, <3>1, ListsKeep, ManyIsSound
  <2> QED  BY <1>1, <2>1, DuplicateIsSound, TurnIsSound, DeleteWiresIsSound DEF Keys
<1>2. CASE Pointer
  <2>1. CASE AddPart \/ ChooseNet
    <3>1. CircuitOK(circuit)
      BY DEF Stored, circuit
    <3> QED  BY <2>1, <3>1, ListsKeep, ManyIsSound
  <2> QED  BY <1>2, <2>1, ArrangeIsSound, DrawWireIsSound DEF Pointer
<1>3. CASE EndDrag
  BY <1>3, DropIsSound DEF EndDrag
<1>4. CASE UndoKey \/ RedoKey \/ BeginDrag \/ CancelDrag
  BY <1>4 DEF UndoKey, RedoKey, BeginDrag, CancelDrag
<1>5. CASE LoadDocument
  BY <1>5 DEF LoadDocument
<1>6. CASE UNCHANGED editorVars
  BY <1>6 DEF editorVars
<1> QED  BY <1>1, <1>2, <1>3, <1>4, <1>5, <1>6 DEF EditorNext

\* The document on screen is on the line.
LEMMA PresentOnLine ==
  ASSUME HistoryOK
  PROVE  Len(past) + 1 \in 1..Len(Line) /\ Line[Len(past) + 1] = present
<1>1. PICK D : past \in Seq(D) /\ future \in Seq(D) /\ present \in D
  BY DEF HistoryOK
<1>2. Line = past \o <<present>> \o future
  BY DEF Line
<1>3. /\ Len(Line) = Len(past) + 1 + Len(future)
      /\ Line[Len(past) + 1] = present
  BY <1>1, <1>2, LineOf
<1>4. Len(past) \in Nat /\ Len(future) \in Nat
  BY <1>1
<1> QED  BY <1>3, <1>4

LEMMA PresentIsStored ==
  ASSUME EditorInv
  PROVE  Stored(present)
BY PresentOnLine DEF EditorInv, Consistent

LEMMA OneIsConsistent ==
  ASSUME NEW doc \in Opened
  PROVE  Consistent(<<doc>>)
<1>1. Len(<<doc>>) = 1 /\ <<doc>>[1] = doc
  OBVIOUS
<1>2. Stored(doc)
  BY EditorSessionAssumption
<1> QED  BY <1>1, <1>2 DEF Consistent

\* A revision puts a document after those that stay.
LEMMA CommitKeepsInv ==
  ASSUME EditorInv, NEW doc, Commit(doc), Sound(doc)
  PROVE  EditorInv'
<1>1. /\ HistoryOK'
      /\ Line'[Len(Line')] = doc /\ Line'[Len(Line') - 1] = present
      /\ \E first \in 1..Len(Line) :
             \A i \in 1..(Len(Line') - 1) :
                first + i - 1 \in 1..Len(Line) /\ Line'[i] = Line[first + i - 1]
  BY CommitMoves DEF EditorInv
<1>2. Len(Line) \in Nat /\ Len(Line') \in Nat
  <2>1. \E D : past \in Seq(D) /\ future \in Seq(D) /\ present \in D
    BY DEF EditorInv, HistoryOK
  <2>2. Line = past \o <<present>> \o future /\ Line' = past' \o <<present'>> \o future'
    BY DEF Line
  <2>3. \E D : past' \in Seq(D) /\ future' \in Seq(D) /\ present' \in D
    BY <1>1 DEF HistoryOK
  <2> QED  BY <2>1, <2>2, <2>3
<1>3. PICK l : l = Line
  OBVIOUS
<1>4. PICK m : m = Line'
  OBVIOUS
<1>5. PICK n \in Nat : n = Len(m)
  BY <1>2, <1>4
<1>6. PICK one \in 1..Len(Line) :
          \A i \in 1..(Len(Line') - 1) :
             one + i - 1 \in 1..Len(Line) /\ Line'[i] = Line[one + i - 1]
  BY <1>1
<1>7. /\ l = Line /\ m = Line' /\ n = Len(m)
      /\ \A i \in 1..(n - 1) : one + i - 1 \in 1..Len(l) /\ m[i] = l[one + i - 1]
  BY <1>3, <1>4, <1>5, <1>6
<1>8. m[n] = doc /\ m[n - 1] = present /\ one \in Nat /\ Len(l) \in Nat
  BY <1>1, <1>2, <1>7
<1>9. /\ \A k \in 1..Len(l) : Stored(l[k])
      /\ \A k \in 1..(Len(l) - 1) : Still(l[k], l[k + 1])
  BY <1>7 DEF EditorInv, Consistent
<1>10. ASSUME NEW k \in 1..n
      PROVE  Stored(m[k])
  <2>1. CASE k = n
    BY <1>8, <2>1 DEF Sound
  <2>2. CASE k # n
    BY <1>7, <1>9, <2>2
  <2> QED  BY <2>1, <2>2
<1>11. ASSUME NEW k \in 1..(n - 1)
      PROVE  Still(m[k], m[k + 1])
  <2>1. CASE k = n - 1
    BY <1>8, <2>1 DEF Sound
  <2>2. CASE k # n - 1
    <3>1. k + 1 \in 1..(n - 1)
      BY <2>2
    <3>2. PICK j \in Int : j = one + k - 1
      BY <1>8
    <3>3. j \in 1..Len(l) /\ m[k] = l[j]
      BY <1>7, <3>2
    <3>4. one + (k + 1) - 1 \in 1..Len(l) /\ m[k + 1] = l[one + (k + 1) - 1]
      BY <1>7, <3>1
    <3>5. one + (k + 1) - 1 = j + 1
      BY <1>8, <3>2
    <3>6. j + 1 \in 1..Len(l) /\ m[k + 1] = l[j + 1]
      BY <3>4, <3>5
    <3>7. j \in 1..(Len(l) - 1)
      BY <1>8, <3>3, <3>6
    <3> QED  BY <1>9, <3>3, <3>6, <3>7
  <2> QED  BY <2>1, <2>2
<1>12. Consistent(m)
  BY <1>7, <1>10, <1>11 DEF Consistent
<1> QED  BY <1>1, <1>7, <1>12 DEF EditorInv

\* The line in every reachable state: documents that may be stored, each of which
\* shows what it shares with its neighbours in the same place.  The code: commit,
\* undo, redo and adopt of history.ts, over what syncDrawing makes of an edit.
THEOREM EditorInvariant == EditorSpec => []EditorInv
<1>1. EditorInit => EditorInv
  <2> SUFFICES ASSUME EditorInit PROVE EditorInv
    OBVIOUS
  <2>1. PICK doc \in Opened : Opens(doc)
    BY DEF EditorInit
  <2> QED  BY <2>1, OpensAt, OneIsConsistent DEF EditorInv
<1>2. EditorInv /\ [EditorNext]_editorVars => EditorInv'
  <2> SUFFICES ASSUME EditorInv, [EditorNext]_editorVars PROVE EditorInv'
    OBVIOUS
  <2>1. CASE \E doc : Commit(doc) /\ Sound(doc)
    BY <2>1, CommitKeepsInv
  <2>2. CASE Undo
    <3>1. HistoryOK' /\ Line' = Line
      BY <2>2, UndoMoves DEF EditorInv
    <3> QED  BY <3>1 DEF EditorInv
  <2>3. CASE Redo
    <3>1. HistoryOK' /\ Line' = Line
      BY <2>3, RedoMoves DEF EditorInv
    <3> QED  BY <3>1 DEF EditorInv
  <2>4. CASE \E doc \in Opened : Adopts(doc)
    <3>1. PICK doc \in Opened : Adopts(doc)
      BY <2>4
    <3>2. HistoryOK' /\ Line' = <<doc>>
      BY <3>1, AdoptsMoves
    <3>3. Consistent(<<doc>>)
      BY OneIsConsistent
    <3> QED  BY <3>2, <3>3 DEF EditorInv
  <2>5. CASE UNCHANGED history
    BY <2>5 DEF history, EditorInv, HistoryOK, Line
  <2> QED  BY <2>1, <2>2, <2>3, <2>4, <2>5, PresentIsStored, KernelSteps
<1> QED  BY <1>1, <1>2, PTL DEF EditorSpec

\* The drawing states no connection the netlist does not have, whatever was merged,
\* split, moved, deleted, copied, undone or dropped.  The code: syncDrawing, after
\* every commit, and the drawings handed to commitUi.
THEOREM DrawingAgrees == EditorSpec => []WiresAgree
<1>1. EditorInv => WiresAgree
  <2> SUFFICES ASSUME EditorInv PROVE WiresAgree
    OBVIOUS
  <2>1. Stored(present)
    BY PresentIsStored
  <2>2. CASE present.ui.owned
    BY <2>1, <2>2 DEF Stored, WiresAgree, circuit, ui
  <2>3. CASE ~present.ui.owned
    BY <2>1, <2>3 DEF Stored, WiresAgree, Agrees, circuit, ui
  <2> QED  BY <2>2, <2>3
<1> QED  BY <1>1, EditorInvariant, PTL

\* The stacks are a line of authored documents and a place on it: the kernel, driven
\* by every gesture of the editor, implements UndoTimeline.  The code: commit,
\* commitUi, undo, redo and adopt of history.ts.
THEOREM HistoryKeepsTimeline == EditorSpec => KeepsTimeline
<1>1. EditorInit => Timeline!Begin
  BY OpensAt DEF EditorInit
<1>2. EditorInv /\ [EditorNext]_editorVars => [Timeline!Walk]_Timeline!timeline
  <2> SUFFICES ASSUME EditorInv, [EditorNext]_editorVars
               PROVE  [Timeline!Walk]_Timeline!timeline
    OBVIOUS
  <2>1. HistoryOK
    BY DEF EditorInv
  <2>2. CASE \E doc : Commit(doc) /\ Sound(doc)
    BY <2>1, <2>2, CommitMoves DEF Timeline!Walk
  <2>3. CASE Undo
    BY <2>1, <2>3, UndoMoves DEF Timeline!Walk
  <2>4. CASE Redo
    BY <2>1, <2>4, RedoMoves DEF Timeline!Walk
  <2>5. CASE \E doc \in Opened : Adopts(doc)
    BY <2>5, AdoptsMoves DEF Timeline!Walk
  <2>6. CASE UNCHANGED history
    BY <2>6 DEF history, Timeline!timeline
  <2> QED  BY <2>2, <2>3, <2>4, <2>5, <2>6, PresentIsStored, KernelSteps
<1> QED  BY <1>1, <1>2, EditorInvariant, PTL DEF EditorSpec, KeepsTimeline, Timeline!Spec

\* What the property says of a step.
MovesNothing ==
    circuit' # circuit /\ past' \o future' # <<>> =>
        LET was == shown.pos  is == ShownOf(present').pos
            wires == shown.wires  after == ShownOf(present').wires
        IN  /\ \A id \in PartsOf(circuit) \intersect PartsOf(circuit') : is[id] = was[id]
            /\ \A k \in DOMAIN wires \intersect DOMAIN after :
                   /\ after[k].head = wires[k].head
                   /\ after[k].tail = wires[k].tail

\* An edit of the netlist, done, undone or redone, moves no part and reroutes no wire
\* that stays.  The code: commit freezes the drawing of the circuit as it was.
THEOREM NothingMoves == EditorSpec => EditsMoveNothing
<1>1. ASSUME Still(present, present') \/ Still(present', present)
      PROVE  MovesNothing
  BY <1>1 DEF MovesNothing, Still, shown, circuit
<1>2. EditorInv /\ [EditorNext]_editorVars => MovesNothing
  <2> SUFFICES ASSUME EditorInv, [EditorNext]_editorVars PROVE MovesNothing
    OBVIOUS
  <2>1. HistoryOK /\ \A k \in 1..(Len(Line) - 1) : Still(Line[k], Line[k + 1])
    BY DEF EditorInv, Consistent
  <2>2. CASE \E doc : Commit(doc) /\ Sound(doc)
    <3>1. Still(present, present')
      BY <2>2 DEF Commit, Sound
    <3> QED  BY <1>1, <3>1
  <2>3. CASE Undo
    <3>1. /\ Len(past) \in Nat /\ Len(past) >= 1 /\ Len(past) + 1 \in 1..Len(Line)
          /\ present' = Line[Len(past)] /\ present = Line[Len(past) + 1]
      BY <2>1, <2>3, UndoMoves, PresentOnLine
    <3>2. Len(Line) \in Nat
      BY <3>1
    <3>3. Len(past) \in 1..(Len(Line) - 1)
      BY <3>1, <3>2
    <3>4. Still(present', present)
      BY <2>1, <3>1, <3>3
    <3> QED  BY <1>1, <3>4
  <2>4. CASE Redo
    <3>1. /\ Len(past) + 1 \in 1..(Len(Line) - 1)
          /\ present' = Line[Len(past) + 2] /\ present = Line[Len(past) + 1]
      BY <2>1, <2>4, RedoMoves
    <3>2. Len(past) + 1 + 1 = Len(past) + 2
      <4>1. Len(past) \in Nat
        BY <2>1 DEF HistoryOK
      <4> QED  BY <4>1
    <3>3. Still(Line[Len(past) + 1], Line[Len(past) + 1 + 1])
      BY <2>1, <3>1
    <3>4. Still(present, present')
      BY <3>1, <3>2, <3>3
    <3> QED  BY <1>1, <3>4
  <2>5. CASE \E doc \in Opened : Adopts(doc)
    <3>1. past' = <<>> /\ future' = <<>>
      BY <2>5 DEF Adopts
    <3>2. <<>> \o <<>> = <<>>
      OBVIOUS
    <3> QED  BY <3>1, <3>2 DEF MovesNothing
  <2>6. CASE UNCHANGED history
    BY <2>6 DEF history, circuit, MovesNothing
  <2> QED  BY <2>2, <2>3, <2>4, <2>5, <2>6, PresentIsStored, KernelSteps
<1>3. EditorInv /\ [EditorNext]_editorVars => [MovesNothing]_editorVars
  BY <1>2
<1> QED  BY <1>3, EditorInvariant, PTL DEF EditorSpec, EditsMoveNothing, MovesNothing

\* What the property says of a step.
PartsOnlyThat ==
    ui.owned /\ revisions' # revisions /\ DOMAIN ui'.wires # DOMAIN ui.wires /\ DeleteWires =>
        LET left == [k \in DOMAIN ui'.wires |-> ui.wires[k]]
        IN  \A p \in {p \in DOMAIN circuit.net : circuit.net[p] \notin Rails} :
                Island(circuit, ui.pos, left, p) =
                    {q \in Island(circuit, ui.pos, ui.wires, p) :
                        circuit'.net[q] = circuit'.net[p]}

LEMMA DeletionIs ==
  ASSUME Stored(present), ui.owned, DeleteWires
  PROVE  PartsOnlyThat
<1>1. PICK keys : ApplyAndDraw(ApplyAll(circuit, Splits(DeletionPlan(keys))),
                     [shown EXCEPT !.wires = [k \in DOMAIN shown.wires \ keys |-> shown.wires[k]]])
  BY DEF DeleteWires
<1>2. PICK c, pos, wires, pieces :
         c = circuit /\ pos = ui.pos /\ wires = ui.wires /\ pieces = DeletionPlan(keys)
  OBVIOUS
<1>3. PICK left : left = Without(wires, keys)
  OBVIOUS
<1>4. PICK d : d = ApplyAll(c, Splits(pieces)).circuit
  OBVIOUS
<1>5. /\ CircuitOK(c) /\ PartsOf(c) \subseteq DOMAIN pos
      /\ IsFiniteSet(DOMAIN wires) /\ Agrees(c, wires)
  BY <1>2 DEF Stored, circuit, ui
<1>6. shown = ui
  BY DEF shown, ShownOf, FreezeDrawing, ui
<1>7. /\ \A P \in pieces : \E p \in DOMAIN c.net : P = Island(c, pos, left, p)
      /\ \A p \in DOMAIN c.net : c.net[p] \notin Rails =>
            \A q \in Island(c, pos, wires, p) :
               LET P == Island(c, pos, left, p)
                   Q == Island(c, pos, left, q)
               IN  P # Q => P \in pieces \/ Q \in pieces
  BY <1>2, <1>3, PlannedPieces
<1>8. ApplyAll(c, Splits(pieces)).ok
  BY <1>1, <1>2 DEF ApplyAndDraw
<1>9. /\ CircuitOK(d) /\ DOMAIN SyncWires(d, left) = DOMAIN left
      /\ \A p \in DOMAIN c.net : c.net[p] \notin Rails =>
            Island(c, pos, left, p) =
               {q \in Island(c, pos, wires, p) : d.net[q] = d.net[p]}
  BY <1>3, <1>4, <1>5, <1>7, <1>8, PartsOnly
\* The revision.
<1>10. PICK erased : erased = [ui EXCEPT !.wires = left]
  OBVIOUS
<1>11. present' = Redrawn(d, erased)
  <2>1. erased = [shown EXCEPT !.wires = [k \in DOMAIN shown.wires \ keys |-> shown.wires[k]]]
    BY <1>2, <1>3, <1>6, <1>10 DEF Without
  <2>2. ApplyAndDraw(ApplyAll(c, Splits(pieces)), erased)
    BY <1>1, <1>2, <2>1
  <2> QED  BY <1>4, <2>2 DEF ApplyAndDraw, Revise, Commit
<1>12. Shaped(erased) /\ erased.wires = left
  <2>1. {"owned", "pos", "wires"} \subseteq DOMAIN ui /\ ui.owned = TRUE
    BY DEF Stored, ui
  <2>2. /\ DOMAIN erased = DOMAIN ui /\ erased.owned = ui.owned /\ erased.wires = left
    BY <1>10, <2>1
  <2>3. DOMAIN left \subseteq DOMAIN wires /\ \A k \in DOMAIN left : left[k] = wires[k]
    BY <1>3 DEF Without
  <2>4. IsFiniteSet(DOMAIN left)
    BY <1>5, <2>3, FS_Subset
  <2>5. \A k \in DOMAIN wires : WireFields \subseteq DOMAIN wires[k]
    BY <1>2 DEF Stored, ui, WireFields
  <2> QED  BY <2>1, <2>2, <2>3, <2>4, <2>5 DEF Shaped
<1>13. circuit' = d /\ ui'.wires = SyncWires(d, left)
  <2>1. Redrawn(d, erased).circuit = d /\ Redrawn(d, erased).ui.wires = SyncWires(d, erased.wires)
    BY <1>9, <1>12, RedrawnIsStored
  <2> QED  BY <1>11, <1>12, <2>1 DEF circuit, ui
<1>14. [k \in DOMAIN ui'.wires |-> ui.wires[k]] = left
  <2>1. DOMAIN ui'.wires = DOMAIN wires \ keys
    BY <1>3, <1>9, <1>13 DEF Without
  <2> QED  BY <1>2, <1>3, <2>1 DEF Without
<1> QED  BY <1>2, <1>9, <1>13, <1>14 DEF PartsOnlyThat

\* Deleting wires parts what they held together and nothing else: the netlist and
\* the drawing come apart along the same lines.  The code: planWireDeletion, the
\* splits of applyAll and syncDrawing after them.
THEOREM DeletionPartsNets == EditorSpec => DeletionParts
<1>1. EditorInv /\ [EditorNext]_editorVars => PartsOnlyThat
  <2> SUFFICES ASSUME EditorInv PROVE PartsOnlyThat
    OBVIOUS
  <2> QED  BY PresentIsStored, DeletionIs DEF PartsOnlyThat
<1>2. EditorInv /\ [EditorNext]_editorVars => [PartsOnlyThat]_editorVars
  BY <1>1
<1> QED  BY <1>2, EditorInvariant, PTL DEF EditorSpec, DeletionParts, PartsOnlyThat

-----------------------------------------------------------------------------
(* Types.                                                                  *)

\* The parts of a design are no more than the places of the sheet.
LEMMA PartsFit ==
  ASSUME NEW S \in SUBSET Parts
  PROVE  /\ S \in SUBSET Nat /\ IsFiniteSet(S)
         /\ Cardinality(S) \in Nat /\ Cardinality(S) <= MaxPlaces
<1>1. IsFiniteSet(Parts) /\ Cardinality(Parts) = MaxParts
  BY SchematicAssumption, FS_Interval DEF Parts
<1>2. Cardinality(S) <= Cardinality(Parts)
  BY <1>1, FS_Subset
<1>3. S \in SUBSET Nat /\ IsFiniteSet(S) /\ Cardinality(S) \in Nat
  BY PartsAreNumbers
<1> QED  BY <1>1, <1>2, <1>3, SchematicAssumption

LEMMA PointOnSheet ==
  ASSUME NEW pos, NEW p \in Pins, pos[p[1]] \in Position
  PROVE  PointOf(pos, p) \in Point
BY DEF PointOf, Point, Position, Pins

\* A drawing made of a netlist nobody has drawn.
LEMMA DrawnOnSheet ==
  ASSUME NEW c, CircuitOK(c), NEW u, u.owned = FALSE,
         \A id \in DOMAIN u.pos : u.pos[id] \in Position
  PROVE  OnSheet(FreezeDrawing(c, u))
<1> DEFINE next(p) == {q \in PinsOn(c, c.net[p]) : Before(p, q)}
           starts == {p \in DOMAIN c.net : c.net[p] \notin Rails /\ next(p) # {}}
           pos == PlaceParts(c, u.pos)
           wire(p) == [net |-> c.net[p], from |-> p, to |-> FirstPin(next(p)),
                       head |-> PointOf(pos, p), tail |-> PointOf(pos, FirstPin(next(p)))]
           wires == [k \in 1..Cardinality(starts) |-> wire(NthPin(k, starts))]
<1>1. /\ DOMAIN c.net \in SUBSET Pins /\ c.nets \subseteq Nets /\ PartsOf(c) \in SUBSET Parts
      /\ \A p \in DOMAIN c.net : c.net[p] \in c.nets
  BY CircuitFacts
<1>2. \A k \in 1..Cardinality(starts) : NthPin(k, starts) \in starts
  <2>1. starts \in SUBSET Pins
    BY <1>1
  <2> HIDE DEF starts
  <2> QED  BY <2>1, Ranked
<1>3. DOMAIN pos = PartsOf(c) /\ \A id \in PartsOf(c) : pos[id] \in Position
  <2>1. DOMAIN pos = PartsOf(c)
    BY DEF PlaceParts
  <2>2. ASSUME NEW id \in PartsOf(c)
        PROVE  pos[id] \in Position
    <3>1. CASE id \in DOMAIN u.pos
      BY <3>1 DEF PlaceParts
    <3>2. CASE id \notin DOMAIN u.pos
      <4>1. Rank(id, PartsOf(c)) \in 1..Cardinality(PartsOf(c))
        BY <1>1, PartsFit, RankedNumbers
      <4>2. Rank(id, PartsOf(c)) \in Places
        BY <1>1, <4>1, PartsFit, SchematicAssumption DEF Places
      <4> QED  BY <3>2, <4>2 DEF PlaceParts, Position
    <3> QED  BY <3>1, <3>2
  <2> QED  BY <2>1, <2>2
<1> HIDE DEF pos
<1>4. ASSUME NEW p \in starts
      PROVE  wire(p) \in Wire
  <2>1. p \in DOMAIN c.net /\ next(p) # {} /\ next(p) \in SUBSET Pins
    BY <1>1 DEF PinsOn
  <2>2. FirstPin(next(p)) \in next(p)
    <3> HIDE DEF next
    <3> QED  BY <2>1, FirstOf
  <2>3. PICK q : q = FirstPin(next(p)) /\ q \in DOMAIN c.net
    BY <2>2 DEF PinsOn
  <2>4. p[1] \in PartsOf(c) /\ q[1] \in PartsOf(c)
    BY <2>1, <2>3 DEF PartsOf
  <2>5. PointOf(pos, p) \in Point /\ PointOf(pos, q) \in Point
    BY <1>1, <1>3, <2>1, <2>3, <2>4, PointOnSheet
  <2>6. c.net[p] \in Nets /\ p \in Pins /\ q \in Pins
    BY <1>1, <2>1, <2>3
  <2> HIDE DEF next
  <2>7. wire(p) = [net |-> c.net[p], from |-> p, to |-> q,
                   head |-> PointOf(pos, p), tail |-> PointOf(pos, q)]
    BY <2>3
  <2> QED  BY <2>5, <2>6, <2>7 DEF Wire
<1>5. FreezeDrawing(c, u) = Drawing(TRUE, pos, wires)
  BY DEF FreezeDrawing, pos
<1>6. Drawing(TRUE, pos, wires).pos = pos /\ Drawing(TRUE, pos, wires).wires = wires
  BY DEF Drawing
<1>7. DOMAIN wires = 1..Cardinality(starts) /\ \A k \in DOMAIN wires : wires[k] \in Wire
  <2> HIDE DEF starts, wire
  <2> QED  BY <1>2, <1>4
<1> HIDE DEF wires
<1> QED  BY <1>1, <1>3, <1>5, <1>6, <1>7 DEF OnSheet

LEMMA ShownOnSheet ==
  ASSUME NEW doc, Stored(doc), OnSheet(doc.ui)
  PROVE  OnSheet(ShownOf(doc))
<1>1. CASE doc.ui.owned
  BY <1>1 DEF ShownOf, FreezeDrawing
<1>2. CASE ~doc.ui.owned
  BY <1>2, DrawnOnSheet DEF ShownOf, Stored, OnSheet
<1> QED  BY <1>1, <1>2

LEMMA SyncedOnSheet ==
  ASSUME NEW c, CircuitOK(c), NEW wires, \A k \in DOMAIN wires : wires[k] \in Wire,
         NEW k \in DOMAIN SyncWires(c, wires)
  PROVE  SyncWires(c, wires)[k] \in Wire
<1> DEFINE alive == {i \in DOMAIN wires : EndsOf(wires[i]) \subseteq DOMAIN c.net}
           live == [i \in alive |-> wires[i]]
           net == [i \in alive |-> NetOfConductor(c, live, Conductor(live, i), live[i].net)]
           kept == {i \in alive : /\ net[i] \in c.nets
                                  /\ \A p \in EndsOf(live[i]) : c.net[p] = net[i]}
           after == [i \in kept |-> [live[i] EXCEPT !.net = net[i]]]
<1>1. SyncWires(c, wires) = after
  BY DEF SyncWires
<1>2. k \in kept /\ after[k] = [live[k] EXCEPT !.net = net[k]]
  BY <1>1
<1>3. net[k] \in c.nets /\ live[k] = wires[k] /\ k \in DOMAIN wires
  BY <1>2
<1>4. PICK w \in Wire, n \in Nets : w = live[k] /\ n = net[k]
  BY <1>3, CircuitFacts
<1>5. [w EXCEPT !.net = n] \in Wire
  BY DEF Wire
<1> QED  BY <1>1, <1>2, <1>4, <1>5, ZenonT(60)

\* A part that has no position yet finds a place: no more are taken than parts
\* are placed.
LEMMA PlaceForAll ==
  ASSUME NEW c, CircuitOK(c), NEW pos, DOMAIN pos \subseteq PartsOf(c)
  PROVE  LET missing == PartsOf(c) \ DOMAIN pos
             free == Places \ {pos[id].place : id \in DOMAIN pos}
         IN  \A id \in missing : Nth(Rank(id, missing), free) \in Places
<1> DEFINE missing == PartsOf(c) \ DOMAIN pos
           taken == {pos[id].place : id \in DOMAIN pos}
           free == Places \ taken
<1>1. DOMAIN pos \in SUBSET Parts /\ missing \in SUBSET Parts /\ PartsOf(c) \in SUBSET Parts
  BY CircuitFacts
<1>2. /\ IsFiniteSet(DOMAIN pos) /\ Cardinality(DOMAIN pos) \in Nat
      /\ missing \in SUBSET Nat /\ IsFiniteSet(missing) /\ Cardinality(missing) \in Nat
      /\ IsFiniteSet(PartsOf(c)) /\ Cardinality(PartsOf(c)) \in Nat
      /\ Cardinality(PartsOf(c)) <= MaxPlaces
  BY <1>1, PartsFit
<1>3. Cardinality(missing) = Cardinality(PartsOf(c)) - Cardinality(DOMAIN pos)
  <2>1. PartsOf(c) \intersect DOMAIN pos = DOMAIN pos
    OBVIOUS
  <2> QED  BY <1>2, <2>1, FS_Difference
<1>4. IsFiniteSet(taken) /\ Cardinality(taken) \in Nat /\ Cardinality(taken) <= Cardinality(DOMAIN pos)
  <2> DEFINE f == [id \in DOMAIN pos |-> pos[id].place]
  <2>1. f \in Surjection(DOMAIN pos, taken)
    BY DEF Surjection
  <2> QED  BY <1>2, <2>1, FS_Surjection, FS_CardinalityType
<1>5. IsFiniteSet(Places) /\ Cardinality(Places) = MaxPlaces /\ Places \in SUBSET Nat
  BY SchematicAssumption, FS_Interval DEF Places
<1>6. /\ free \in SUBSET Nat /\ IsFiniteSet(free) /\ Cardinality(free) \in Nat
      /\ Cardinality(free) >= MaxPlaces - Cardinality(taken)
  <2> HIDE DEF taken
  <2>1. IsFiniteSet(free) /\ Cardinality(free) = Cardinality(Places) - Cardinality(Places \intersect taken)
    BY <1>4, <1>5, FS_Difference
  <2>2. /\ Cardinality(Places \intersect taken) <= Cardinality(taken)
        /\ Cardinality(Places \intersect taken) \in Nat
    BY <1>4, FS_Subset, FS_CardinalityType
  <2>3. Cardinality(free) \in Nat
    BY <2>1, FS_CardinalityType
  <2>4. free \in SUBSET Nat
    BY <1>5
  <2> HIDE DEF free
  <2>5. Cardinality(free) >= MaxPlaces - Cardinality(taken)
    BY <1>4, <1>5, <2>1, <2>2, SchematicAssumption
  <2> QED  BY <2>1, <2>3, <2>4, <2>5
<1> HIDE DEF missing, free, taken
<1>7. ASSUME NEW id \in missing
      PROVE  Nth(Rank(id, missing), free) \in free
  <2>1. Rank(id, missing) \in 1..Cardinality(missing)
    BY <1>2, RankedNumbers
  <2>2. Rank(id, missing) \in 1..Cardinality(free)
    BY <1>2, <1>3, <1>4, <1>6, <2>1, SchematicAssumption
  <2> QED  BY <1>6, <2>2, RankedNumbers
<1>8. free \subseteq Places
  BY DEF free
<1> QED  BY <1>7, <1>8 DEF missing, free, taken

\* What a commit makes of an edited netlist and a drawing on the sheet.
LEMMA RedrawnOnSheet ==
  ASSUME NEW c, CircuitOK(c), NEW d, Shaped(d), OnSheet(d)
  PROVE  OnSheet(Redrawn(c, d).ui)
<1> DEFINE kept == [id \in DOMAIN d.pos \intersect PartsOf(c) |-> d.pos[id]]
           one == [d EXCEPT !.pos = kept]
           two == [one EXCEPT !.wires = SyncWires(c, one.wires)]
           missing == PartsOf(c) \ DOMAIN kept
           free == Places \ {kept[id].place : id \in DOMAIN kept}
           all == [id \in DOMAIN kept \union missing |->
                      IF id \in DOMAIN kept THEN kept[id]
                      ELSE [place |-> Nth(Rank(id, missing), free), turned |-> FALSE]]
<1>1. /\ one = WithoutOrphans(c, d) /\ {"owned", "pos", "wires"} \subseteq DOMAIN one
      /\ one.owned = TRUE /\ one.pos = kept /\ one.wires = d.wires
  <2>1. one = WithoutOrphans(c, d)
    BY DEF WithoutOrphans
  <2> HIDE DEF kept
  <2> QED  BY <2>1 DEF Shaped
<1> HIDE DEF one
<1>2. /\ {"owned", "pos", "wires"} \subseteq DOMAIN two
      /\ two.pos = kept /\ two.wires = SyncWires(c, d.wires)
  <2> HIDE DEF kept
  <2> QED  BY <1>1
<1>3. Redrawn(c, d).ui = PlaceNewParts(c, two)
  <2> HIDE DEF two
  <2>1. SyncDrawing(c, one) = PlaceNewParts(c, two)
    BY <1>1 DEF SyncDrawing, two
  <2>2. Redrawn(c, d).ui = SyncDrawing(c, one)
    BY <1>1 DEF Redrawn
  <2> QED  BY <2>1, <2>2
<1>4. PlaceNewParts(c, two).pos = all /\ PlaceNewParts(c, two).wires = two.wires
  <2>1. PlaceNewParts(c, two) = [two EXCEPT !.pos = all]
    <3> HIDE DEF kept, two
    <3> QED  BY <1>2 DEF PlaceNewParts
  <2> HIDE DEF all, two
  <2> QED  BY <1>2, <2>1
<1>5. PartsOf(c) \subseteq Parts /\ DOMAIN kept = DOMAIN d.pos \intersect PartsOf(c)
      /\ \A id \in DOMAIN kept : kept[id] \in Position
  BY CircuitFacts DEF OnSheet
<1> HIDE DEF kept
<1>6. \A id \in missing : Nth(Rank(id, missing), free) \in Places
  BY <1>5, PlaceForAll
<1>7. ASSUME NEW id \in DOMAIN all
      PROVE  id \in Parts /\ all[id] \in Position
  <2>1. id \in DOMAIN kept \union missing /\ id \in Parts
    BY <1>5
  <2>2. CASE id \in DOMAIN kept
    BY <1>5, <2>1, <2>2
  <2>3. CASE id \notin DOMAIN kept
    <3>1. all[id] = [place |-> Nth(Rank(id, missing), free), turned |-> FALSE] /\ id \in missing
      BY <2>1, <2>3
    <3> HIDE DEF all, missing, free
    <3> QED  BY <1>6, <2>1, <3>1 DEF Position
  <2> QED  BY <2>2, <2>3
<1>8. \A k \in DOMAIN SyncWires(c, d.wires) : SyncWires(c, d.wires)[k] \in Wire
  BY SyncedOnSheet DEF OnSheet
<1> HIDE DEF all, two
<1> QED  BY <1>2, <1>3, <1>4, <1>7, <1>8 DEF OnSheet

\* The gestures, from a document on the sheet.
LEMMA ManyOnSheet ==
  ASSUME Stored(present), OnSheet(ui), NEW list, ApplyMany(list),
         CircuitOK(ApplyAll(circuit, list).circuit)
  PROVE  OnSheet(ui')
<1>1. PICK c : CircuitOK(c) /\ Commit(Redrawn(c, shown))
  BY DEF ApplyMany, Revise
<1>2. Shaped(shown) /\ OnSheet(shown)
  BY ShownDrawing, ShownOnSheet DEF shown, ui
<1> QED  BY <1>1, <1>2, RedrawnOnSheet DEF Commit, ui

LEMMA DrawingOnSheet ==
  ASSUME NEW done, NEW drawn, ApplyAndDraw(done, drawn), CircuitOK(done.circuit),
         Shaped(drawn), OnSheet(drawn)
  PROVE  OnSheet(ui')
<1>1. PICK c : CircuitOK(c) /\ Commit(Redrawn(c, drawn))
  BY DEF ApplyAndDraw, Revise
<1> QED  BY <1>1, RedrawnOnSheet DEF Commit, ui

LEMMA UiOnSheet ==
  ASSUME NEW next, CommitUi(next), OnSheet(next)
  PROVE  OnSheet(ui')
BY DEF CommitUi, Revise, Commit, ui

\* Copies go to free numbers, one place on, where there is one.
LEMMA DuplicateOnSheet ==
  ASSUME Stored(present), OnSheet(ui), Duplicate
  PROVE  OnSheet(ui')
<1>1. PICK parts \in Groups(PartsOf(circuit)) :
          LET beside(was) == [was EXCEPT !.place = @ + 1]
              copy(part) == CopyOf(circuit, parts, part)
              place(drawn) ==
                  [drawn EXCEPT !.pos =
                      [id \in DOMAIN drawn.pos \union {copy(part) : part \in parts} |->
                          IF \E part \in parts : copy(part) = id
                          THEN beside(drawn.pos[CHOOSE part \in parts : copy(part) = id])
                          ELSE drawn.pos[id]]]
          IN  /\ Cardinality(parts) <= Cardinality(FreeParts(circuit))
              /\ \A part \in parts : shown.pos[part].place < MaxPlaces
              /\ LET done == ApplyAll(circuit, <<[op |-> "duplicate", parts |-> parts]>>)
                 IN  ApplyAndDraw(done, place(shown))
  BY DEF Duplicate
<1> DEFINE beside(was) == [was EXCEPT !.place = @ + 1]
           copy(part) == CopyOf(circuit, parts, part)
           from(id) == CHOOSE part \in parts : copy(part) = id
           places == [id \in DOMAIN shown.pos \union {copy(part) : part \in parts} |->
                         IF \E part \in parts : copy(part) = id
                         THEN beside(shown.pos[from(id)])
                         ELSE shown.pos[id]]
           drawn == [shown EXCEPT !.pos = places]
           done == ApplyAll(circuit, <<[op |-> "duplicate", parts |-> parts]>>)
<1>2. /\ ApplyAndDraw(done, drawn)
      /\ Cardinality(parts) <= Cardinality(FreeParts(circuit))
      /\ \A part \in parts : shown.pos[part].place < MaxPlaces
  BY <1>1
<1>3. CircuitOK(circuit) /\ parts \subseteq PartsOf(circuit) /\ PartsOf(circuit) \subseteq Parts
  BY CircuitFacts DEF Stored, circuit, Groups
<1>4. CircuitOK(done.circuit)
  <2>1. PICK e : e = [op |-> "duplicate", parts |-> parts]
    OBVIOUS
  <2>2. done = DuplicateComponents(circuit, parts)
    <3>1. Apply(circuit, e) = DuplicateComponents(circuit, parts)
      BY <2>1 DEF Apply
    <3>2. ApplyAll(circuit, <<e>>) = Apply(circuit, e)
      BY FewEdits
    <3> QED  BY <2>1, <3>1, <3>2
  <2>3. done.ok
    BY <1>2 DEF ApplyAndDraw
  <2> QED  BY <1>2, <1>3, <2>2, <2>3, DuplicateKeeps
<1>5. Shaped(shown) /\ OnSheet(shown) /\ PartsOf(circuit) \subseteq DOMAIN shown.pos
  BY ShownDrawing, ShownOnSheet DEF shown, ui, circuit
<1>6. ASSUME NEW part \in parts
      PROVE  copy(part) \in Parts
  BY <1>2, <1>3, CopiesAreFree
<1>7. ASSUME NEW part \in parts
      PROVE  beside(shown.pos[part]) \in Position
  <2>1. PICK was \in Position : was = shown.pos[part] /\ was.place < MaxPlaces
    BY <1>2, <1>3, <1>5 DEF OnSheet
  <2>2. was.place + 1 \in Places
    BY <2>1, SchematicAssumption DEF Position, Places
  <2> QED  BY <2>1, <2>2 DEF Position
<1> HIDE DEF copy, beside
<1>8. ASSUME NEW id \in DOMAIN places
      PROVE  id \in Parts /\ places[id] \in Position
  <2>1. CASE ~ \E part \in parts : copy(part) = id
    BY <1>5, <2>1 DEF OnSheet
  <2>2. CASE \E part \in parts : copy(part) = id
    <3>1. from(id) \in parts /\ copy(from(id)) = id
      BY <2>2
    <3>2. places[id] = beside(shown.pos[from(id)])
      BY <2>2
    <3> HIDE DEF places, from
    <3> QED  BY <1>6, <1>7, <3>1, <3>2
  <2> QED  BY <2>1, <2>2
<1> HIDE DEF places, done
<1>9. /\ DOMAIN drawn = DOMAIN shown /\ drawn.owned = shown.owned
      /\ drawn.pos = places /\ drawn.wires = shown.wires
  BY <1>5 DEF Shaped
<1> HIDE DEF drawn
<1>10. Shaped(drawn) /\ OnSheet(drawn)
  BY <1>5, <1>8, <1>9 DEF Shaped, OnSheet
<1> QED  BY <1>2, <1>4, <1>10, DrawingOnSheet

LEMMA DeleteWiresOnSheet ==
  ASSUME Stored(present), OnSheet(ui), DeleteWires
  PROVE  OnSheet(ui')
<1>1. PICK keys, done :
          LET erase(drawn) ==
                  IF ui.owned
                  THEN [drawn EXCEPT !.wires =
                            [k \in DOMAIN drawn.wires \ keys |-> drawn.wires[k]]]
                  ELSE drawn
          IN  /\ done = ApplyAll(circuit, Splits(DeletionPlan(keys)))
              /\ ApplyAndDraw(done, erase(shown))
  BY DEF DeleteWires
<1>2. CircuitOK(done.circuit)
  <2>1. done.ok
    BY <1>1 DEF ApplyAndDraw
  <2> QED  BY <1>1, <2>1, DeletionKeeps
<1>3. Shaped(shown) /\ OnSheet(shown)
  BY ShownDrawing, ShownOnSheet DEF shown, ui
<1> DEFINE left == Without(shown.wires, keys)
           erased == [shown EXCEPT !.wires = left]
<1>4. CASE ~ui.owned
  BY <1>1, <1>2, <1>3, <1>4, DrawingOnSheet
<1>5. CASE ui.owned
  <2>1. ApplyAndDraw(done, erased)
    BY <1>1, <1>5 DEF Without
  <2>2. DOMAIN left = DOMAIN shown.wires \ keys
        /\ \A k \in DOMAIN left : k \in DOMAIN shown.wires /\ left[k] = shown.wires[k]
    BY DEF Without
  <2> HIDE DEF left
  <2>3. /\ DOMAIN erased = DOMAIN shown /\ erased.owned = shown.owned
        /\ erased.pos = shown.pos /\ erased.wires = left
    BY <1>3 DEF Shaped
  <2> HIDE DEF erased
  <2>4. IsFiniteSet(DOMAIN left)
    BY <1>3, <2>2, FS_Difference, ZenonT(60) DEF Shaped
  <2>5. Shaped(erased)
    BY <1>3, <2>2, <2>3, <2>4 DEF Shaped
  <2>6. OnSheet(erased)
    BY <1>3, <2>2, <2>3 DEF OnSheet
  <2> QED  BY <1>2, <2>1, <2>5, <2>6, DrawingOnSheet
<1> QED  BY <1>4, <1>5

LEMMA TurnOnSheet ==
  ASSUME Stored(present), OnSheet(ui), Turn
  PROVE  OnSheet(ui')
<1>1. PICK parts :
          CommitUi([shown EXCEPT !.pos =
              [id \in DOMAIN shown.pos |->
                  IF id \in parts THEN [shown.pos[id] EXCEPT !.turned = ~@]
                  ELSE shown.pos[id]]])
  BY DEF Turn
<1> DEFINE places == [id \in DOMAIN shown.pos |->
                         IF id \in parts THEN [shown.pos[id] EXCEPT !.turned = ~@]
                         ELSE shown.pos[id]]
           next == [shown EXCEPT !.pos = places]
<1>2. Shaped(shown) /\ OnSheet(shown)
  BY ShownDrawing, ShownOnSheet DEF shown, ui
<1>3. ASSUME NEW id \in DOMAIN places
      PROVE  id \in Parts /\ places[id] \in Position
  <2>1. id \in Parts /\ shown.pos[id] \in Position
    BY <1>2 DEF OnSheet
  <2>2. PICK was \in Position : was = shown.pos[id]
    BY <2>1
  <2>3. [was EXCEPT !.turned = ~was.turned] \in Position
    BY DEF Position
  <2> QED  BY <2>1, <2>2, <2>3
<1> HIDE DEF places
<1>4. next.pos = places /\ next.wires = shown.wires
  BY <1>2 DEF Shaped
<1>5. OnSheet(next)
  <2> HIDE DEF next
  <2> QED  BY <1>2, <1>3, <1>4 DEF OnSheet
<1>6. CommitUi(next)
  BY <1>1 DEF places
<1> QED  BY <1>5, <1>6, UiOnSheet

LEMMA ArrangeOnSheet ==
  ASSUME Stored(present), OnSheet(ui), Arrange
  PROVE  OnSheet(ui')
<1>1. PICK part \in PartsOf(circuit), place \in Places :
          LET moved == [shown.pos[part] EXCEPT !.place = place]
          IN  CommitUi([ui EXCEPT !.pos = [id \in DOMAIN ui.pos \union {part} |->
                                              IF id = part THEN moved ELSE ui.pos[id]]])
  BY DEF Arrange
<1> DEFINE moved == [shown.pos[part] EXCEPT !.place = place]
           places == [id \in DOMAIN ui.pos \union {part} |->
                         IF id = part THEN moved ELSE ui.pos[id]]
           next == [ui EXCEPT !.pos = places]
<1>2. CommitUi(next)
  BY <1>1
<1>3. part \in Parts /\ part \in DOMAIN shown.pos /\ OnSheet(shown)
  BY CircuitFacts, ShownDrawing, ShownOnSheet DEF Stored, shown, ui, circuit
<1>4. moved \in Position
  <2>1. PICK was \in Position : was = shown.pos[part]
    BY <1>3 DEF OnSheet
  <2> QED  BY <2>1 DEF Position
<1> HIDE DEF moved
<1>5. ASSUME NEW id \in DOMAIN places
      PROVE  id \in Parts /\ places[id] \in Position
  BY <1>3, <1>4 DEF OnSheet
<1> HIDE DEF places
<1>6. next.pos = places /\ next.wires = ui.wires
  BY DEF Stored, ui
<1> HIDE DEF next
<1>7. OnSheet(next)
  BY <1>5, <1>6 DEF OnSheet
<1> QED  BY <1>2, <1>7, UiOnSheet

\* A drop: the wires follow what was dragged, to places that were looked up.
LEMMA DropOnSheet ==
  ASSUME Stored(present), OnSheet(ui), NEW delta, CommitUi(Dropped(delta)),
         \A id \in DOMAIN drag : id \in Parts /\ drag[id] + delta \in Places
  PROVE  OnSheet(ui')
<1> DEFINE at(id) == [place |-> drag[id] + delta,
                      turned |-> id \in DOMAIN shown.pos /\ shown.pos[id].turned]
           pos == [id \in DOMAIN shown.pos \union DOMAIN drag |->
                      IF id \in DOMAIN drag THEN at(id) ELSE shown.pos[id]]
           both == PartsOf(circuit) \intersect DOMAIN shown.pos \intersect DOMAIN pos
           follow(p, point) == IF p \in Pins /\ p[1] \in both /\ shown.pos[p[1]] # pos[p[1]]
                               THEN PointOf(pos, p) ELSE point
           moved(w) == [w EXCEPT !.head = follow(w.from, w.head),
                                 !.tail = follow(w.to, w.tail)]
           wires == [k \in DOMAIN shown.wires |-> moved(shown.wires[k])]
           next == [shown EXCEPT !.pos = pos, !.wires = wires]
<1>1. Dropped(delta) = next
  BY ZenonT(60) DEF Dropped, WithPositions
<1>2. Shaped(shown) /\ OnSheet(shown)
  BY ShownDrawing, ShownOnSheet DEF shown, ui
<1>3. ASSUME NEW id \in DOMAIN pos
      PROVE  id \in Parts /\ pos[id] \in Position
  <2>1. CASE id \in DOMAIN drag
    <3>1. (id \in DOMAIN shown.pos /\ shown.pos[id].turned) \in BOOLEAN
      OBVIOUS
    <3>2. at(id) \in Position
      BY <2>1, <3>1 DEF Position
    <3> QED  BY <2>1, <3>2
  <2>2. CASE id \notin DOMAIN drag
    BY <1>2, <2>2 DEF OnSheet
  <2> QED  BY <2>1, <2>2
<1> HIDE DEF pos
<1>4. \A p : \A point \in Point : follow(p, point) \in Point
  BY <1>3, PointOnSheet
<1> HIDE DEF follow
<1>5. ASSUME NEW k \in DOMAIN wires
      PROVE  wires[k] \in Wire
  <2>1. PICK w \in Wire : w = shown.wires[k]
    BY <1>2 DEF OnSheet
  <2>2. follow(w.from, w.head) \in Point /\ follow(w.to, w.tail) \in Point
    BY <1>4 DEF Wire
  <2>3. moved(w) \in Wire
    BY <2>2 DEF Wire
  <2> QED  BY <2>1, <2>3
<1> HIDE DEF wires
<1>6. next.pos = pos /\ next.wires = wires
  BY <1>2 DEF Shaped
<1> HIDE DEF next
<1>7. OnSheet(next)
  BY <1>3, <1>5, <1>6 DEF OnSheet
<1> QED  BY <1>1, <1>7, UiOnSheet

LEMMA ConnectSamePins ==
  ASSUME NEW c, CircuitOK(c), NEW from, NEW to, ConnectPins(c, from, to).ok
  PROVE  DOMAIN ConnectPins(c, from, to).circuit.net = DOMAIN c.net
<1> DEFINE a == c.net[from]
           b == c.net[to]
           keep == IF NetRank(b) >= NetRank(a) THEN b ELSE a
           absorbed == IF keep = b THEN a ELSE b
           merged == [Repoint(c, PinsOn(c, absorbed), keep) EXCEPT !.nets = @ \ {absorbed}]
           done == ConnectPins(c, from, to)
<1>1. done = IF ~({from, to} \subseteq DOMAIN c.net) \/ from = to THEN Refused
             ELSE IF a = b THEN Done(c)
             ELSE IF {a, b} = Rails THEN Refused
             ELSE Done(merged)
  BY DEF ConnectPins
<1>2. Refused.ok = FALSE /\ \A d : Done(d).circuit = d
  BY DEF Refused, Done
<1>3. DOMAIN merged.net = DOMAIN c.net
  BY CircuitFacts DEF Repoint
<1> HIDE DEF merged, done, keep
<1>4. done.circuit = c \/ done.circuit = merged
  BY <1>1, <1>2 DEF done
<1> QED  BY <1>3, <1>4 DEF done

\* A wire is drawn from end to end of what is on the sheet; its net is one of the
\* design as it is after the connection.
LEMMA DrawWireOnSheet ==
  ASSUME Stored(present), OnSheet(ui), DrawWire
  PROVE  OnSheet(ui')
<1>1. PICK a \in Ends, b \in Ends :
          LET hit == NetsUnder(a) \union NetsUnder(b)
              pair == {pq \in Terminal(a) \X Terminal(b) : circuit.net[pq[1]] # circuit.net[pq[2]]}
              list == IF pair = {} THEN <<>>
                      ELSE LET pq == CHOOSE pq \in pair : TRUE
                           IN  <<[op |-> "connect", from |-> pq[1], to |-> pq[2]]>>
              known == Terminal(a) \union Terminal(b)
              draw(drawn, c) ==
                  LET final == IF known = {} THEN CHOOSE n \in hit : TRUE
                               ELSE c.net[CHOOSE p \in known : TRUE]
                      next == CHOOSE k \in 1..(Cardinality(DOMAIN drawn.wires) + 1) :
                                  /\ k \notin DOMAIN drawn.wires
                                  /\ \A j \in 1..(k - 1) : j \in DOMAIN drawn.wires
                      new == [net |-> final, from |-> a.pin, to |-> b.pin,
                              head |-> a.point, tail |-> b.point]
                      relabel(w) == IF w.net \in hit THEN [w EXCEPT !.net = final] ELSE w
                  IN  [drawn EXCEPT !.wires = [k \in DOMAIN drawn.wires \union {next} |->
                          IF k = next THEN new ELSE relabel(drawn.wires[k])]]
          IN  /\ hit # {}
              /\ LET done == ApplyAll(circuit, list)
                 IN  ApplyAndDraw(done, draw(shown, done.circuit))
  BY ZenonT(60) DEF DrawWire
<1> DEFINE hit == NetsUnder(a) \union NetsUnder(b)
           pair == {pq \in Terminal(a) \X Terminal(b) : circuit.net[pq[1]] # circuit.net[pq[2]]}
           list == IF pair = {} THEN <<>>
                   ELSE LET pq == CHOOSE pq \in pair : TRUE
                        IN  <<[op |-> "connect", from |-> pq[1], to |-> pq[2]]>>
           known == Terminal(a) \union Terminal(b)
           done == ApplyAll(circuit, list)
           final == IF known = {} THEN CHOOSE n \in hit : TRUE
                    ELSE done.circuit.net[CHOOSE p \in known : TRUE]
           next == CHOOSE k \in 1..(Cardinality(DOMAIN shown.wires) + 1) :
                       /\ k \notin DOMAIN shown.wires
                       /\ \A j \in 1..(k - 1) : j \in DOMAIN shown.wires
           new == [net |-> final, from |-> a.pin, to |-> b.pin,
                   head |-> a.point, tail |-> b.point]
           relabel(w) == IF w.net \in hit THEN [w EXCEPT !.net = final] ELSE w
           wires == [k \in DOMAIN shown.wires \union {next} |->
                        IF k = next THEN new ELSE relabel(shown.wires[k])]
           drawn == [shown EXCEPT !.wires = wires]
<1>2. ApplyAndDraw(done, drawn) /\ hit # {}
  BY <1>1, ZenonT(60)
<1>3. /\ Shaped(shown) /\ OnSheet(shown)
      /\ PartsOf(circuit) \subseteq DOMAIN shown.pos /\ Agrees(circuit, shown.wires)
  BY ShownDrawing, ShownOnSheet DEF shown, ui, circuit
<1>4. /\ CircuitOK(circuit) /\ DOMAIN circuit.net \in SUBSET Pins
      /\ \A p \in DOMAIN circuit.net : circuit.net[p] \in circuit.nets
      /\ circuit.nets \subseteq Nets
  BY CircuitFacts DEF Stored, circuit
<1>5. ASSUME NEW end \in Ends
      PROVE  /\ end.pin \in DOMAIN circuit.net \union {NoPin} /\ end.point \in Point
             /\ NetsUnder(end) \subseteq Nets /\ Terminal(end) \subseteq DOMAIN circuit.net
  <2>1. CASE \E p \in DOMAIN circuit.net : end = [pin |-> p, point |-> PointOf(shown.pos, p)]
    <3>1. PICK p \in DOMAIN circuit.net : end = [pin |-> p, point |-> PointOf(shown.pos, p)]
      BY <2>1
    <3>2. p \in Pins /\ p[1] \in PartsOf(circuit)
      BY <1>4 DEF PartsOf
    <3>3. PointOf(shown.pos, p) \in Point
      BY <1>3, <3>2, PointOnSheet DEF OnSheet
    <3>4. end.pin = p /\ end.point \in Point
      BY <3>1, <3>3
    <3>5. p # NoPin
      BY <3>2 DEF Pins, Parts, NoPin
    <3> QED  BY <1>4, <3>4, <3>5 DEF NetsUnder, Terminal
  <2>2. CASE \E point \in {Nowhere} \union UNION {PointsOf(shown.wires[k]) :
                                                    k \in DOMAIN shown.wires} :
                end = [pin |-> NoPin, point |-> point]
    <3>1. end.pin = NoPin /\ end.point \in {Nowhere} \union UNION {PointsOf(shown.wires[k]) :
                                                    k \in DOMAIN shown.wires}
      BY <2>2
    <3>2. end.point \in Point
      BY <1>3, <3>1 DEF OnSheet, PointsOf, Wire, Point
    <3>3. NetsUnder(end) \subseteq Nets
      BY <1>3, <3>1 DEF NetsUnder, OnSheet, Wire
    <3>4. ASSUME NEW n, PinsOn(circuit, n) # {}
          PROVE  FirstPin(PinsOn(circuit, n)) \in DOMAIN circuit.net
      <4>1. PinsOn(circuit, n) \in SUBSET Pins /\ PinsOn(circuit, n) \subseteq DOMAIN circuit.net
        BY <1>4 DEF PinsOn
      <4> QED  BY <3>4, <4>1, FirstOf
    <3>5. Terminal(end) \subseteq DOMAIN circuit.net
      BY <3>1, <3>4 DEF Terminal
    <3> QED  BY <3>1, <3>2, <3>3, <3>5
  <2> QED  BY <2>1, <2>2 DEF Ends
<1>6. /\ CircuitOK(done.circuit) /\ DOMAIN circuit.net \subseteq DOMAIN done.circuit.net
  <2>1. done.ok
    BY <1>2, ZenonT(60) DEF ApplyAndDraw
  <2>2. CASE pair = {}
    <3>1. list = <<>>
      BY <2>2
    <3>2. done = Done(circuit)
      BY <3>1, FewEdits
    <3>3. Done(circuit).circuit = circuit
      BY DEF Done
    <3> HIDE DEF done
    <3> QED  BY <1>4, <3>2, <3>3
  <2>3. CASE pair # {}
    <3>1. PICK pq : list = <<[op |-> "connect", from |-> pq[1], to |-> pq[2]]>>
      BY <2>3
    <3>2. PICK e, from, to : e = [op |-> "connect", from |-> from, to |-> to] /\ list = <<e>>
      BY <3>1
    <3>3. Apply(circuit, e) = ConnectPins(circuit, from, to)
      BY <3>2 DEF Apply
    <3>4. done = ConnectPins(circuit, from, to)
      BY <3>2, <3>3, FewEdits
    <3> HIDE DEF done
    <3>5. DOMAIN ConnectPins(circuit, from, to).circuit.net = DOMAIN circuit.net
      BY <1>4, <2>1, <3>4, ConnectSamePins
    <3> QED  BY <1>4, <2>1, <3>4, <3>5, ConnectKeeps
  <2> QED  BY <2>2, <2>3, ZenonT(60)
<1> HIDE DEF done
<1>7. final \in Nets
  <2>1. CASE known = {}
    <3>1. hit \subseteq Nets
      BY <1>5
    <3>2. final = CHOOSE n \in hit : TRUE
      BY <2>1
    <3> HIDE DEF hit, final
    <3> QED  BY <1>2, <3>1, <3>2
  <2>2. CASE known # {}
    <3>1. PICK p \in known : final = done.circuit.net[p]
      BY <2>2
    <3>2. p \in DOMAIN done.circuit.net
      BY <1>5, <1>6
    <3> QED  BY <1>6, <3>1, <3>2, CircuitFacts
  <2> QED  BY <2>1, <2>2
<1> HIDE DEF final, next, hit
<1>8. new \in Wire
  <2>1. /\ a.pin \in Pins \union {NoPin} /\ b.pin \in Pins \union {NoPin}
        /\ a.point \in Point /\ b.point \in Point
    BY <1>4, <1>5
  <2> QED  BY <1>7, <2>1 DEF Wire
<1>9. ASSUME NEW w \in Wire
      PROVE  relabel(w) \in Wire
  BY <1>7 DEF Wire
<1> HIDE DEF new, relabel
<1>10. ASSUME NEW k \in DOMAIN wires
       PROVE  wires[k] \in Wire
  BY <1>3, <1>8, <1>9 DEF OnSheet
<1>11. DOMAIN wires = DOMAIN shown.wires \union {next} /\ IsFiniteSet(DOMAIN wires)
  <2>1. DOMAIN wires = DOMAIN shown.wires \union {next}
    OBVIOUS
  <2> HIDE DEF wires
  <2>2. IsFiniteSet(DOMAIN shown.wires)
    BY <1>3 DEF Shaped
  <2> QED  BY <2>1, <2>2, FS_AddElement
<1> HIDE DEF wires
<1>12. /\ DOMAIN drawn = DOMAIN shown /\ drawn.owned = shown.owned
       /\ drawn.pos = shown.pos /\ drawn.wires = wires
  BY <1>3 DEF Shaped
<1> HIDE DEF drawn
<1>13. Shaped(drawn)
  <2>1. \A w \in Wire : WireFields \subseteq DOMAIN w
    BY DEF Wire, WireFields
  <2> QED  BY <1>3, <1>10, <1>11, <1>12, <2>1 DEF Shaped
<1>14. OnSheet(drawn)
  BY <1>3, <1>10, <1>12 DEF OnSheet
<1> QED  BY <1>2, <1>6, <1>13, <1>14, DrawingOnSheet

-----------------------------------------------------------------------------

DragOK == \A id \in DOMAIN drag : id \in Parts /\ drag[id] \in Places

\* The documents of the line are on the sheet, and what is dragged was.
SheetInv == (\A k \in 1..Len(Line) : OnSheet(Line[k].ui)) /\ DragOK

LEMMA PresentOnSheet ==
  ASSUME EditorInv, SheetInv
  PROVE  Stored(present) /\ OnSheet(ui)
BY PresentIsStored, PresentOnLine DEF EditorInv, SheetInv, ui

\* A step commits a document that is on the sheet, if the one shown is.
LEMMA StepsOnSheet ==
  ASSUME Stored(present), OnSheet(ui), DragOK, [EditorNext]_editorVars
  PROVE  \/ \E doc : Commit(doc) /\ OnSheet(doc.ui)
         \/ Undo \/ Redo
         \/ \E doc \in Opened : Adopts(doc)
         \/ UNCHANGED history
<1>1. ASSUME NEW doc, Commit(doc), OnSheet(ui')
      PROVE  OnSheet(doc.ui)
  BY <1>1 DEF Commit, ui
<1>2. CASE Join \/ Part \/ Split \/ Delete \/ AddPart \/ ChooseNet
  <2>1. PICK list : ApplyMany(list) /\ CircuitOK(ApplyAll(circuit, list).circuit)
    BY <1>2, ListsKeep DEF Stored, circuit
  <2>2. OnSheet(ui')
    BY <2>1, ManyOnSheet
  <2> QED  BY <1>1, <2>1, <2>2 DEF ApplyMany, Revise
<1>3. CASE Duplicate
  BY <1>1, <1>3, DuplicateOnSheet, DuplicateIsSound
<1>4. CASE Turn
  BY <1>1, <1>4, TurnOnSheet, TurnIsSound
<1>5. CASE DeleteWires
  BY <1>1, <1>5, DeleteWiresOnSheet, DeleteWiresIsSound
<1>6. CASE Arrange
  BY <1>1, <1>6, ArrangeOnSheet, ArrangeIsSound
<1>7. CASE DrawWire
  BY <1>1, <1>7, DrawWireOnSheet, DrawWireIsSound
<1>8. CASE EndDrag
  <2>1. CASE UNCHANGED history
    BY <2>1
  <2>2. CASE \E delta : CommitUi(Dropped(delta)) /\ \A id \in DOMAIN drag : drag[id] + delta \in Places
    <3>1. PICK delta : CommitUi(Dropped(delta)) /\ \A id \in DOMAIN drag : drag[id] + delta \in Places
      BY <2>2
    <3>2. OnSheet(ui')
      BY <3>1, DropOnSheet DEF DragOK
    <3> QED  BY <1>1, <3>1, <3>2 DEF CommitUi, Revise
  <2> QED  BY <1>8, <2>1, <2>2 DEF EndDrag
<1>9. CASE UndoKey \/ RedoKey \/ BeginDrag \/ CancelDrag \/ LoadDocument \/ UNCHANGED editorVars
  BY <1>9 DEF UndoKey, RedoKey, BeginDrag, CancelDrag, LoadDocument, editorVars
<1> QED  BY <1>2, <1>3, <1>4, <1>5, <1>6, <1>7, <1>8, <1>9 DEF EditorNext, Keys, Pointer

\* Every snapshot is a document: the parts carry all their pins, every pin is on a
\* net of the design, parts and wires lie on the sheet, and only an owned drawing
\* has wires.  The code: CircuitJsonSchema and UiJsonSchema, of what each gesture of
\* the editor stores.
THEOREM EditorTypeCorrect == EditorSpec => []EditorTypeOK
<1>1. EditorInit => SheetInv
  <2> SUFFICES ASSUME EditorInit PROVE SheetInv
    OBVIOUS
  <2>1. PICK doc \in Opened : Opens(doc)
    BY DEF EditorInit
  <2>2. Line = <<doc>> /\ OnSheet(doc.ui)
    BY <2>1, OpensAt, EditorSessionAssumption
  <2>3. DragOK
    BY DEF EditorInit, NoDrag, DragOK
  <2> QED  BY <2>2, <2>3 DEF SheetInv
<1>2. EditorInv /\ SheetInv /\ [EditorNext]_editorVars => SheetInv'
  <2> SUFFICES ASSUME EditorInv, SheetInv, [EditorNext]_editorVars PROVE SheetInv'
    OBVIOUS
  <2>1. HistoryOK /\ Stored(present) /\ OnSheet(ui) /\ DragOK
    BY PresentOnSheet DEF EditorInv, SheetInv
  <2>2. DragOK'
    <3>1. CASE BeginDrag
      <4>1. PICK parts \in Groups(PartsOf(circuit)) : drag' = [id \in parts |-> shown.pos[id].place]
        BY <3>1 DEF BeginDrag
      <4>2. /\ parts \subseteq PartsOf(circuit) /\ PartsOf(circuit) \subseteq Parts
            /\ PartsOf(circuit) \subseteq DOMAIN shown.pos /\ OnSheet(shown)
        BY <2>1, CircuitFacts, ShownDrawing, ShownOnSheet DEF Stored, shown, ui, circuit, Groups
      <4> QED  BY <4>1, <4>2 DEF DragOK, OnSheet, Position
    <3>2. CASE EndDrag \/ CancelDrag
      BY <3>2 DEF EndDrag, CancelDrag, NoDrag, DragOK
    <3>3. CASE UNCHANGED drag
      BY <2>1, <3>3 DEF DragOK
    <3> QED  BY <3>1, <3>2, <3>3 DEF EditorNext, UndoKey, RedoKey, LoadDocument, editorVars
  <2>3. CASE \E doc : Commit(doc) /\ OnSheet(doc.ui)
    <3>1. PICK doc : Commit(doc) /\ OnSheet(doc.ui)
      BY <2>3
    <3>2. PICK l, m : l = Line /\ m = Line'
      OBVIOUS
    <3>3. /\ m[Len(m)] = doc
          /\ \E first \in 1..Len(l) :
                 \A i \in 1..(Len(m) - 1) :
                    first + i - 1 \in 1..Len(l) /\ m[i] = l[first + i - 1]
      BY <2>1, <3>1, <3>2, CommitMoves
    <3>4. Len(m) \in Nat
      <4>1. HistoryOK'
        BY <2>1, <3>1, CommitMoves
      <4>2. Len(Line') \in Nat
        <5>1. \E D : past' \in Seq(D) /\ future' \in Seq(D) /\ present' \in D
          BY <4>1 DEF HistoryOK
        <5> QED  BY <5>1 DEF Line
      <4> QED  BY <3>2, <4>2
    <3>5. \A k \in 1..Len(l) : OnSheet(l[k].ui)
      BY <3>2 DEF SheetInv
    <3>6. PICK n \in Nat : n = Len(m)
      BY <3>4
    <3>7. \A i \in 1..(n - 1) : \E j \in 1..Len(l) : m[i] = l[j]
      BY <3>3, <3>6
    <3>8. ASSUME NEW k \in 1..n
          PROVE  OnSheet(m[k].ui)
      <4>1. CASE k = n
        BY <3>1, <3>3, <3>6, <4>1
      <4>2. CASE k # n
        <5>1. k \in 1..(n - 1)
          BY <4>2
        <5> QED  BY <3>5, <3>7, <5>1
      <4> QED  BY <4>1, <4>2
    <3>9. \A k \in 1..Len(m) : OnSheet(m[k].ui)
      BY <3>6, <3>8
    <3> QED  BY <2>2, <3>2, <3>9 DEF SheetInv
  <2>4. CASE Undo \/ Redo
    <3>1. Line' = Line
      BY <2>1, <2>4, UndoMoves, RedoMoves
    <3> QED  BY <2>2, <3>1 DEF SheetInv
  <2>5. CASE \E doc \in Opened : Adopts(doc)
    <3>1. PICK doc \in Opened : Line' = <<doc>> /\ OnSheet(doc.ui)
      BY <2>5, AdoptsMoves, EditorSessionAssumption
    <3> QED  BY <2>2, <3>1 DEF SheetInv
  <2>6. CASE UNCHANGED history
    BY <2>2, <2>6 DEF history, Line, SheetInv
  <2> QED  BY <2>1, <2>3, <2>4, <2>5, <2>6, StepsOnSheet
<1>3. EditorInv /\ SheetInv => EditorTypeOK
  <2> SUFFICES ASSUME EditorInv, SheetInv PROVE EditorTypeOK
    OBVIOUS
  <2>1. PICK D : past \in Seq(D) /\ future \in Seq(D) /\ present \in D
    BY DEF EditorInv, HistoryOK
  <2>2. Len(past) \in Nat /\ Len(future) \in Nat
    BY <2>1
  <2>3. PICK l : l = past \o <<present>> \o future /\ l = Line
    BY DEF Line
  <2>4. /\ Len(l) = Len(past) + 1 + Len(future)
        /\ \A i \in 1..Len(past) : l[i] = past[i]
        /\ l[Len(past) + 1] = present
        /\ \A i \in 1..Len(future) : l[Len(past) + 1 + i] = future[i]
    BY <2>1, <2>3, LineOf
  <2>5. \A k \in 1..Len(l) : DocumentOK(l[k])
    BY <2>3 DEF EditorInv, SheetInv, Consistent, Stored, DocumentOK
  <2>6. DocumentOK(present)
    BY <2>2, <2>4, <2>5
  <2>7. \A k \in DOMAIN past : DocumentOK(past[k])
    <3> TAKE k \in DOMAIN past
    <3>1. k \in 1..Len(past) /\ k \in 1..Len(l)
      BY <2>1, <2>2, <2>4
    <3>2. DocumentOK(l[k])
      BY <2>5, <3>1
    <3> QED  BY <2>4, <3>1, <3>2
  <2>8. \A k \in DOMAIN future : DocumentOK(future[k])
    <3> TAKE k \in DOMAIN future
    <3>1. k \in 1..Len(future) /\ Len(past) + 1 + k \in 1..Len(l)
      BY <2>1, <2>2, <2>4
    <3>2. DocumentOK(l[Len(past) + 1 + k])
      BY <2>5, <3>1
    <3> QED  BY <2>4, <3>1, <3>2
  <2>9. Len(past) <= HistoryLimit
    BY <2>2, EditHistoryAssumption DEF EditorInv, HistoryOK
  <2> QED  BY <2>6, <2>7, <2>8, <2>9 DEF EditorTypeOK, SheetInv, DragOK
<1> QED  BY <1>1, <1>2, <1>3, EditorInvariant, PTL DEF EditorSpec

=============================================================================
