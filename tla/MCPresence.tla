----------------------------- MODULE MCPresence ------------------------------
(***************************************************************************)
(* Instances of Presence for TLC.  Requests and addresses are              *)
(* interchangeable; users are not, for the lowest id answers.              *)
(***************************************************************************)
EXTENDS Presence, TLC

Symmetry == Permutations(Tasks) \cup Permutations(Ips)
=============================================================================
