--------------------------- MODULE MCRelaySessions ---------------------------
(***************************************************************************)
(* Instances of RelaySessions for TLC.  Connections and joiners are        *)
(* interchangeable in the safety runs.                                     *)
(***************************************************************************)
EXTENDS RelaySessions, TLC

Symmetry == Permutations(Conns) \cup Permutations(Joiners)
=============================================================================
