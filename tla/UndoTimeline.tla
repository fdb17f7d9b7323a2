---------------------------- MODULE UndoTimeline ----------------------------
(***************************************************************************)
(* What undo promises, whatever a document is: the documents the user has  *)
(* authored form one line, the user stands at one of them and may walk     *)
(* back and forth along it.  Authoring forgets what lies ahead and what    *)
(* lies more than Depth behind; a document from elsewhere starts a new     *)
(* line, so no walk crosses it.                                            *)
(***************************************************************************)
EXTENDS Integers, Sequences

CONSTANT Depth     \* how many steps back are kept

VARIABLES
    line,    \* the documents, oldest first
    at       \* where the user stands

timeline == <<line, at>>

Begin == at = 1 /\ Len(line) = 1

\* A new document after the ones that are kept.
Author == LET first == IF at > Depth THEN at - Depth + 1 ELSE 1
          IN  /\ at' = at - first + 2
              /\ line' = Append(SubSeq(line, first, at), line'[at'])

Back == at > 1 /\ at' = at - 1 /\ UNCHANGED line

Forth == at < Len(line) /\ at' = at + 1 /\ UNCHANGED line

Foreign == at' = 1 /\ Len(line') = 1

Walk == Author \/ Back \/ Forth \/ Foreign

Spec == Begin /\ [][Walk]_timeline

=============================================================================
