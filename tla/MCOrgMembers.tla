---------------------------- MODULE MCOrgMembers ----------------------------
(* OrgMembers with a few users and interchangeable calls.                  *)
EXTENDS OrgMembers, TLC

Symmetry == Permutations(Calls)

=============================================================================
