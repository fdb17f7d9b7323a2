----------------------------- MODULE MCSessions -----------------------------
(* Sessions with a few tabs and requests.                                  *)
EXTENDS Sessions, TLC

Symmetry == Permutations(Tabs) \cup Permutations(Slots)

=============================================================================
