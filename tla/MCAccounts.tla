----------------------------- MODULE MCAccounts ------------------------------
(***************************************************************************)
(* Instances of Accounts for TLC.  Requests and names are interchangeable. *)
(***************************************************************************)
EXTENDS Accounts, TLC

Symmetry == Permutations(Tasks) \cup Permutations(Names)
=============================================================================
