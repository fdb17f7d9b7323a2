---------------------------- MODULE MCVerifyDesign ----------------------------
(***************************************************************************)
(* An instance of VerifyDesign for TLC: bars low enough that every tier is   *)
(* reached within eight samples.                                             *)
(***************************************************************************)
EXTENDS VerifyDesign

\* Monte-Carlo after and before another check, and the others together.
MCAsked == {{}, {"corner", "montecarlo", "temperature"}, {"montecarlo", "supply"},
            {"corner", "temperature", "supply"}}

=============================================================================
