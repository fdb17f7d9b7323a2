------------------------- MODULE MCSimulationRunner -------------------------
(* SimulationRunner with two deliveries of a job.                          *)
EXTENDS SimulationRunner, TLC

Symmetry == Permutations(Runs)

=============================================================================
