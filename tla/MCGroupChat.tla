----------------------------- MODULE MCGroupChat -----------------------------
(***************************************************************************)
(* Instances of GroupChat for TLC.  Connections are interchangeable, and   *)
(* so are the users when all or none of them may leave.                    *)
(***************************************************************************)
EXTENDS GroupChat, TLC

ConnSymmetry == Permutations(Conns)

Symmetry == ConnSymmetry \cup Permutations(Users)
=============================================================================
