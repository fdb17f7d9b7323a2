---------------------------- MODULE MCLayoutJob ----------------------------
(***************************************************************************)
(* Instances of LayoutJob for TLC.                                         *)
(***************************************************************************)
EXTENDS LayoutJob

=============================================================================
