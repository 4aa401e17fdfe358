--------------------------- MODULE MCGroupMembers ----------------------------
(***************************************************************************)
(* Instances of GroupMembers for TLC.  Join calls are interchangeable.     *)
(***************************************************************************)
EXTENDS GroupMembers, TLC

Symmetry == Permutations(Calls)
=============================================================================
