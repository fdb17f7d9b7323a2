---------------------------- MODULE MCDesignJob ----------------------------
(***************************************************************************)
(* Instances of DesignJob for TLC.                                         *)
(***************************************************************************)
EXTENDS DesignJob

=============================================================================
