------------------------------ MODULE FifoPipe -------------------------------
(***************************************************************************)
(* What the relay promises in each direction, seen from the two clients:   *)
(* the frames a client hands to the relay reach the other one in the order *)
(* they were sent, each at most once, none made up and none skipped.  A    *)
(* relay that ends early delivers a prefix.                                *)
(***************************************************************************)
EXTENDS Naturals, Sequences

CONSTANT Data        \* payloads of Text and Binary frames

VARIABLES
  accepted,          \* what the relay has taken from one client
  delivered          \* what it has handed to the other

Init ==
  /\ accepted = <<>>
  /\ delivered = <<>>

Accept ==
  /\ \E f \in Data : accepted' = Append(accepted, f)
  /\ UNCHANGED delivered

Deliver ==
  /\ Len(delivered) < Len(accepted)
  /\ delivered' = Append(delivered, accepted[Len(delivered) + 1])
  /\ UNCHANGED accepted

Next == Accept \/ Deliver

Spec == Init /\ [][Next]_<<accepted, delivered>>
=============================================================================
