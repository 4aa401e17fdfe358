---------------------------- MODULE MCAdmission -----------------------------
(***************************************************************************)
(* Instances of Admission for TLC.  Addresses and requests are             *)
(* interchangeable.                                                        *)
(***************************************************************************)
EXTENDS Admission, TLC

Symmetry == Permutations(Ips) \cup Permutations(Tasks)
=============================================================================
