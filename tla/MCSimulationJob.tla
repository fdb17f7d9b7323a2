--------------------------- MODULE MCSimulationJob ---------------------------
(***************************************************************************)
(* Instances of SimulationJob for TLC.                                     *)
(***************************************************************************)
EXTENDS SimulationJob, TLC

\* Worker slots are interchangeable, and no property is a liveness property.
Symmetry == Permutations(Workers)

=============================================================================
