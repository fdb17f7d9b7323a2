-------------------------- MODULE MCEditorSession --------------------------
(* EditorSession on a design of three parts that share one signal net, two *)
(* of them on ground and one on the supply, and on one of a single part    *)
(* that somebody else saved.                                               *)
EXTENDS EditorSession

Single == [net |-> [p \in {1} \X {1, 2} |-> p[2]], nets |-> {1, 2}]

\* Three parts on one signal net: two wires, one conductor.
Star == [net |-> [p \in {1, 2, 3} \X {1, 2} |->
                      IF p[2] = 1 THEN 1 ELSE IF p[1] = 3 THEN 2 ELSE 1 - p[1]],
         nets |-> {1, 2, Ground, Supply}]

Blank == Drawing(FALSE, NoPositions, NoWires)

\* As an AI or a template wrote it, and as it is once it has been edited.
MCOpened == {[circuit |-> Star, ui |-> Blank],
             [circuit |-> Single, ui |-> FreezeDrawing(Single, Blank)]}

=============================================================================
