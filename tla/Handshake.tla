------------------------------ MODULE Handshake ------------------------------
(***************************************************************************)
(* How the two handlers of one PendingRelay object meet, whatever else     *)
(* goes on around them: an object is found by at most one joiner, only     *)
(* that joiner can wake the creator, and its notification is used once and *)
(* never lost.  RelaySessions, with its maps, clocks and many sockets, and *)
(* RelayPipe, with its frames, both implement it: they are two views of    *)
(* the same pair of handlers.                                              *)
(***************************************************************************)

VARIABLES
  entry,             \* whether relay_pending holds the object
  creator,           \* where its creator's handler is
  joiner,            \* where the handler of its joiner is
  permit             \* the permit of its Notify

vars == <<entry, creator, joiner, permit>>

\* The object does not exist yet, or was just inserted.
Init ==
  /\ creator \in {"absent", "upgrading"}
  /\ entry = (creator = "upgrading")
  /\ joiner = "absent"
  /\ permit = FALSE

Insert ==
  /\ creator = "absent"
  /\ creator' = "upgrading"
  /\ entry' = TRUE
  /\ UNCHANGED <<joiner, permit>>

\* The upgrade fails; the entry stays behind.
Drop ==
  /\ creator \in {"absent", "upgrading"}
  /\ creator' = "gone"
  /\ UNCHANGED <<entry, joiner, permit>>

Start ==
  /\ creator = "upgrading"
  /\ creator' = "waiting"
  /\ UNCHANGED <<entry, joiner, permit>>

Link ==
  /\ creator = "waiting" /\ permit
  /\ creator' = "linked"
  /\ permit' = FALSE
  /\ UNCHANGED <<entry, joiner>>

\* An early return takes the entry along.
Leave ==
  /\ creator = "waiting"
  /\ creator' = "gone"
  /\ entry' = FALSE
  /\ UNCHANGED <<joiner, permit>>

CreatorEnds ==
  /\ creator = "linked"
  /\ creator' = "gone"
  /\ UNCHANGED <<entry, joiner, permit>>

\* The entry is found; nobody else finds it again.
Take ==
  /\ entry /\ joiner = "absent"
  /\ entry' = FALSE
  /\ joiner' = "taken"
  /\ UNCHANGED <<creator, permit>>

Join ==
  /\ joiner = "taken"
  /\ joiner' = "joined"
  /\ permit' = TRUE
  /\ UNCHANGED <<entry, creator>>

JoinerEnds ==
  /\ joiner \in {"taken", "joined"}
  /\ joiner' = "gone"
  /\ UNCHANGED <<entry, creator, permit>>

\* The cleanup removes the entry, or another socket of the creator does.
Remove ==
  /\ entry
  /\ entry' = FALSE
  /\ UNCHANGED <<creator, joiner, permit>>

Next == Insert \/ Drop \/ Start \/ Link \/ Leave \/ CreatorEnds
        \/ Take \/ Join \/ JoinerEnds \/ Remove

Spec == Init /\ [][Next]_vars
=============================================================================
