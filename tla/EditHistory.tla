----------------------------- MODULE EditHistory -----------------------------
(***************************************************************************)
(* The stacks of the editor's commit kernel (history.ts): the document on  *)
(* screen, the snapshots undo goes back to and those redo goes forward to. *)
(* Nothing here looks inside a document.  A revision's label and the set   *)
(* of objects it touched only inform the screen and are left out.          *)
(***************************************************************************)
EXTENDS Integers, Sequences

CONSTANT HistoryLimit    \* how many revisions are kept

ASSUME EditHistoryAssumption == HistoryLimit \in Nat \ {0}

VARIABLES
    present,    \* the document on screen
    past,       \* what undo goes back to, most recent last
    future      \* what redo goes forward to, next first

history == <<present, past, future>>

-----------------------------------------------------------------------------

\* The last HistoryLimit elements.
Kept(seq) == IF Len(seq) <= HistoryLimit THEN seq
             ELSE SubSeq(seq, Len(seq) - HistoryLimit + 1, Len(seq))

\* The history of a document that was opened, not authored.
Opens(doc) == present = doc /\ past = <<>> /\ future = <<>>

\* Mutant of Commit: the branch that was undone stays.
CommitKeepingBranch(doc) == /\ present' = doc
                            /\ past' = Kept(Append(past, present))
                            /\ UNCHANGED future

\* One revision.  A result that equals the present document is not one.
Commit(doc) == /\ doc # present
               /\ present' = doc
               /\ past' = Kept(Append(past, present))
               /\ future' = <<>>

Undo == /\ past # <<>>
        /\ present' = past[Len(past)]
        /\ past' = SubSeq(past, 1, Len(past) - 1)
        /\ future' = <<present>> \o future

Redo == /\ future # <<>>
        /\ present' = Head(future)
        /\ past' = Kept(Append(past, present))
        /\ future' = Tail(future)

\* A document this history did not author: the server's, or recovered work.
Adopts(doc) == present' = doc /\ past' = <<>> /\ future' = <<>>

-----------------------------------------------------------------------------

\* The stacks are a line of authored documents and a place on it.
Timeline == INSTANCE UndoTimeline WITH
                Depth <- HistoryLimit,
                line <- past \o <<present>> \o future,
                at <- Len(past) + 1

\* Undo and redo walk one line of the user's own documents: what undo leaves
\* redo finds again, a revision made after an undo ends the branch that was
\* left, no more than HistoryLimit steps are kept, and neither crosses a
\* document taken from elsewhere.  The code: commit, commitUi, undo, redo and
\* adopt of history.ts.
KeepsTimeline == Timeline!Spec

=============================================================================
