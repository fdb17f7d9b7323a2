---------------------------- MODULE MCAssetStore ----------------------------
(* AssetStore with a few interchangeable keys and commits.                 *)
EXTENDS AssetStore, TLC

Symmetry == Permutations(Keys) \cup Permutations(Assets)

=============================================================================
