------------------------------ MODULE RelayPipe ------------------------------
(***************************************************************************)
(* One PendingRelay object from the moment the creator's request has put   *)
(* it into relay_pending: creator_ws, joiner_ws and the two unbounded      *)
(* channels between them, a_to_b and b_to_a.  How entries come and go is   *)
(* the subject of module RelaySessions.                                    *)
(*                                                                         *)
(* An iteration of a select! loop is one action: the branch that wins and  *)
(* its body, which nothing cancels.  The branch recv() = None of either    *)
(* loop has no action: it needs every sender of the channel dropped, and   *)
(* the PendingRelay each handler holds until it returns contains one.      *)
(***************************************************************************)
EXTENDS Naturals, Sequences

CONSTANTS
  Data,             \* payloads of Text and Binary frames
  Ping, Pong,       \* the other frames a client may send
  End,              \* a Close frame, an error or the end of the stream
  MaxFrames         \* bound: frames each client sends

ASSUME PipeAssumption ==
  /\ Ping \notin Data \cup {Pong, End}
  /\ Pong \notin Data \cup {End}
  /\ End \notin Data
  /\ MaxFrames \in Nat

VARIABLES
  creator,          \* where creator_ws is
  joiner,           \* where joiner_ws is
  entry,            \* whether the object is still in relay_pending
  joiner_ready,     \* the permit of the Notify
  pre_buffer,       \* what creator_ws has read while waiting
  a_to_b, b_to_a,   \* the channels
  wireA, wireB,     \* sent by a client, not yet read by its handler
  sentA, sentB,     \* how many frames a client has sent
  openA, openB,     \* whether a client is still there
  takenA, takenB,   \* data frames read from a client
  gotA, gotB        \* data frames written to a client that was there

stateVars == <<creator, joiner, entry, joiner_ready>>
clientA == <<wireA, sentA, openA>>
clientB == <<wireB, sentB, openB>>
flowAB == <<pre_buffer, a_to_b, takenA, gotB>>
flowBA == <<b_to_a, takenB, gotA>>
vars == <<stateVars, clientA, clientB, flowAB, flowBA>>

Frames == Data \cup {Ping, Pong}

\* The types of the variables.
TypeOK ==
  /\ creator \in {"upgrading", "waiting", "relaying", "dropped", "left", "closed"}
  /\ joiner \in {"absent", "taken", "relaying", "done"}
  /\ entry \in BOOLEAN
  /\ joiner_ready \in BOOLEAN
  /\ pre_buffer \in Seq(Data)
  /\ a_to_b \in Seq(Data)
  /\ b_to_a \in Seq(Data)
  /\ wireA \in Seq(Frames \cup {End})
  /\ wireB \in Seq(Frames \cup {End})
  /\ sentA \in 0 .. MaxFrames
  /\ sentB \in 0 .. MaxFrames
  /\ openA \in BOOLEAN
  /\ openB \in BOOLEAN
  /\ takenA \in Seq(Data)
  /\ takenB \in Seq(Data)
  /\ gotA \in Seq(Data)
  /\ gotB \in Seq(Data)

Init ==
  /\ creator = "upgrading"
  /\ joiner = "absent"
  /\ entry = TRUE
  /\ joiner_ready = FALSE
  /\ pre_buffer = <<>> /\ a_to_b = <<>> /\ b_to_a = <<>>
  /\ wireA = <<>> /\ wireB = <<>>
  /\ sentA = 0 /\ sentB = 0
  /\ openA = TRUE /\ openB = FALSE
  /\ takenA = <<>> /\ takenB = <<>>
  /\ gotA = <<>> /\ gotB = <<>>

-----------------------------------------------------------------------------
(***************************************************************************)
(* The clients.                                                            *)
(***************************************************************************)
SendA ==
  /\ openA /\ creator \in {"waiting", "relaying"}
  /\ sentA < MaxFrames
  /\ \E f \in Frames : wireA' = Append(wireA, f)
  /\ sentA' = sentA + 1
  /\ UNCHANGED <<stateVars, openA, clientB, flowAB, flowBA>>

SendB ==
  /\ openB /\ joiner = "relaying"
  /\ sentB < MaxFrames
  /\ \E f \in Frames : wireB' = Append(wireB, f)
  /\ sentB' = sentB + 1
  /\ UNCHANGED <<stateVars, clientA, openB, flowAB, flowBA>>

\* A client closes, or its connection breaks and what it last sent is lost.
CutWire(wire) == {SubSeq(wire, 1, n) \o <<End>> : n \in 0 .. Len(wire)}

GoA ==
  /\ openA
  /\ openA' = FALSE
  /\ wireA' \in CutWire(wireA)
  /\ UNCHANGED <<stateVars, sentA, clientB, flowAB, flowBA>>

GoB ==
  /\ openB
  /\ openB' = FALSE
  /\ wireB' \in CutWire(wireB)
  /\ UNCHANGED <<stateVars, clientA, sentB, flowAB, flowBA>>

-----------------------------------------------------------------------------
(***************************************************************************)
(* creator_ws.  It is "dropped" when the upgrade fails, "left" when it     *)
(* returns in phase 1 and "closed" when it does in phase 2.                *)
(***************************************************************************)

\* on_upgrade never calls creator_ws; the entry stays for the cleanup.
CreatorDropped ==
  /\ creator = "upgrading"
  /\ ~openA
  /\ creator' = "dropped"
  /\ UNCHANGED <<joiner, entry, joiner_ready, clientA, clientB, flowAB, flowBA>>

CreatorStart ==
  /\ creator = "upgrading"
  /\ creator' = "waiting"
  /\ UNCHANGED <<joiner, entry, joiner_ready, clientA, clientB, flowAB, flowBA>>

\* Fault: phase 1 buffers whatever comes.
BufferAll ==
  /\ creator = "waiting"
  /\ wireA # <<>> /\ Head(wireA) # End
  /\ wireA' = Tail(wireA)
  /\ pre_buffer' = Append(pre_buffer, Head(wireA))
  /\ takenA' = Append(takenA, Head(wireA))
  /\ UNCHANGED <<stateVars, sentA, openA, clientB, a_to_b, gotB, flowBA>>

\* Phase 1: data frames are buffered, other frames skipped (a Ping is
\* answered); Close and errors are CreatorLeaves.
CreatorBuffers ==
  /\ creator = "waiting"
  /\ wireA # <<>> /\ Head(wireA) # End
  /\ wireA' = Tail(wireA)
  /\ IF Head(wireA) \in Data
       THEN /\ pre_buffer' = Append(pre_buffer, Head(wireA))
            /\ takenA' = Append(takenA, Head(wireA))
       ELSE UNCHANGED <<pre_buffer, takenA>>
  /\ UNCHANGED <<stateVars, sentA, openA, clientB, a_to_b, gotB, flowBA>>

\* The socket ends or the deadline passes.  The entry is removed, and what
\* was buffered goes with the handler, even if a joiner is on its way.
CreatorLeaves ==
  /\ creator = "waiting"
  /\ creator' = "left"
  /\ entry' = FALSE
  /\ openA' = FALSE
  /\ wireA' = <<>>
  /\ pre_buffer' = <<>>
  /\ b_to_a' = <<>>
  /\ UNCHANGED <<joiner, joiner_ready, sentA, clientB, a_to_b, takenA, gotB,
                 takenB, gotA>>

CreatorEnded == wireA # <<>> /\ Head(wireA) = End /\ CreatorLeaves

CreatorTimedOut == CreatorLeaves

\* A channel whose receiver was dropped swallows what is sent.
Sent(channel, frames, receiving) == IF receiving THEN channel \o frames ELSE channel

\* Fault: what was buffered is sent newest first.
FlushReversed ==
  Sent(a_to_b, [i \in 1 .. Len(pre_buffer) |-> pre_buffer[Len(pre_buffer) + 1 - i]],
       joiner # "done")

\* The flush has no await between two frames: it is one step.
Flush == Sent(a_to_b, pre_buffer, joiner # "done")

\* Fault: the creator goes on without flushing.
CreatorForgets ==
  /\ creator = "waiting"
  /\ joiner_ready
  /\ creator' = "relaying"
  /\ joiner_ready' = FALSE
  /\ UNCHANGED <<joiner, entry, clientA, clientB, flowAB, flowBA>>

CreatorNotified ==
  /\ creator = "waiting"
  /\ joiner_ready
  /\ creator' = "relaying"
  /\ joiner_ready' = FALSE
  /\ a_to_b' = Flush
  /\ pre_buffer' = <<>>
  /\ UNCHANGED <<joiner, entry, clientA, clientB, takenA, gotB, flowBA>>

\* Phase 2, from the socket.
CreatorReads ==
  /\ creator = "relaying"
  /\ wireA # <<>> /\ Head(wireA) \in Data \cup {Ping}
  /\ wireA' = Tail(wireA)
  /\ IF Head(wireA) \in Data
       THEN /\ a_to_b' = Sent(a_to_b, <<Head(wireA)>>, joiner # "done")
            /\ takenA' = Append(takenA, Head(wireA))
       ELSE UNCHANGED <<a_to_b, takenA>>
  /\ UNCHANGED <<stateVars, sentA, openA, clientB, pre_buffer, gotB, flowBA>>

\* The end of the socket, or any frame that is neither data nor a Ping.
CreatorCloses ==
  /\ creator = "relaying"
  /\ wireA # <<>> /\ Head(wireA) \notin Data \cup {Ping}
  /\ creator' = "closed"
  /\ openA' = FALSE
  /\ wireA' = <<>>
  /\ b_to_a' = <<>>
  /\ UNCHANGED <<joiner, entry, joiner_ready, sentA, clientB, flowAB, takenB,
                 gotA>>

\* Phase 2, from the channel, to a client that is there.
CreatorForwards ==
  /\ creator = "relaying"
  /\ b_to_a # <<>>
  /\ openA
  /\ b_to_a' = Tail(b_to_a)
  /\ gotA' = Append(gotA, Head(b_to_a))
  /\ UNCHANGED <<stateVars, clientA, clientB, flowAB, takenB>>

\* The frame is lost; the socket may or may not report the error yet.
CreatorLoses ==
  /\ creator = "relaying"
  /\ b_to_a # <<>>
  /\ ~openA
  /\ \/ b_to_a' = Tail(b_to_a) /\ UNCHANGED <<creator, wireA>>
     \/ b_to_a' = <<>> /\ creator' = "closed" /\ wireA' = <<>>
  /\ UNCHANGED <<joiner, entry, joiner_ready, sentA, openA, clientB, flowAB,
                 takenB, gotA>>

-----------------------------------------------------------------------------
(***************************************************************************)
(* The cleanup, and joiner_ws.                                             *)
(***************************************************************************)

\* The cleanup removes the entry, or another socket of the creator does; the
\* creator's handler does not notice.
PurgeEntry ==
  /\ entry
  /\ entry' = FALSE
  /\ UNCHANGED <<creator, joiner, joiner_ready, clientA, clientB, flowAB, flowBA>>

\* Fault: the entry is read and left in the map.
JoinerPeeks ==
  /\ entry
  /\ joiner' = "taken"
  /\ openB' = TRUE
  /\ UNCHANGED <<creator, entry, joiner_ready, clientA, wireB, sentB, flowAB, flowBA>>

JoinerTakes ==
  /\ entry
  /\ entry' = FALSE
  /\ joiner' = "taken"
  /\ openB' = TRUE
  /\ UNCHANGED <<creator, joiner_ready, clientA, wireB, sentB, flowAB, flowBA>>

\* The joiner's upgrade fails: the entry is used up all the same.
JoinerDropped ==
  /\ joiner = "taken"
  /\ ~openB
  /\ joiner' = "done"
  /\ UNCHANGED <<creator, entry, joiner_ready, clientA, clientB, flowAB, flowBA>>

JoinerStart ==
  /\ joiner = "taken"
  /\ joiner' = "relaying"
  /\ joiner_ready' = TRUE
  /\ UNCHANGED <<creator, entry, clientA, clientB, flowAB, flowBA>>

\* The receiver of b_to_a is dropped when creator_ws returns; before it
\* starts, and when it never does, it sits in the PendingRelay.
Receiving == creator \notin {"left", "closed"}

JoinerReads ==
  /\ joiner = "relaying"
  /\ wireB # <<>> /\ Head(wireB) \in Data \cup {Ping}
  /\ wireB' = Tail(wireB)
  /\ IF Head(wireB) \in Data
       THEN /\ b_to_a' = Sent(b_to_a, <<Head(wireB)>>, Receiving)
            /\ takenB' = Append(takenB, Head(wireB))
       ELSE UNCHANGED <<b_to_a, takenB>>
  /\ UNCHANGED <<stateVars, clientA, sentB, openB, flowAB, gotA>>

JoinerCloses ==
  /\ joiner = "relaying"
  /\ wireB # <<>> /\ Head(wireB) \notin Data \cup {Ping}
  /\ joiner' = "done"
  /\ openB' = FALSE
  /\ wireB' = <<>>
  /\ a_to_b' = <<>>
  /\ UNCHANGED <<creator, entry, joiner_ready, clientA, sentB, pre_buffer,
                 takenA, gotB, flowBA>>

\* Fault: the joiner's handler forwards nothing.
JoinerIdles == FALSE /\ UNCHANGED vars

JoinerForwards ==
  /\ joiner = "relaying"
  /\ a_to_b # <<>>
  /\ openB
  /\ a_to_b' = Tail(a_to_b)
  /\ gotB' = Append(gotB, Head(a_to_b))
  /\ UNCHANGED <<stateVars, clientA, clientB, pre_buffer, takenA, flowBA>>

JoinerLoses ==
  /\ joiner = "relaying"
  /\ a_to_b # <<>>
  /\ ~openB
  /\ \/ a_to_b' = Tail(a_to_b) /\ UNCHANGED <<joiner, wireB>>
     \/ a_to_b' = <<>> /\ joiner' = "done" /\ wireB' = <<>>
  /\ UNCHANGED <<creator, entry, joiner_ready, clientA, sentB, openB,
                 pre_buffer, takenA, gotB, flowBA>>

-----------------------------------------------------------------------------
Creator == CreatorDropped \/ CreatorStart \/ CreatorBuffers \/ CreatorEnded
           \/ CreatorTimedOut \/ CreatorNotified \/ CreatorReads
           \/ CreatorCloses \/ CreatorForwards \/ CreatorLoses

Joiner == JoinerTakes \/ JoinerDropped \/ JoinerStart \/ JoinerReads
          \/ JoinerCloses \/ JoinerForwards \/ JoinerLoses

Next == SendA \/ SendB \/ GoA \/ GoB \/ Creator \/ Joiner \/ PurgeEntry

Spec == Init /\ [][Next]_vars

(***************************************************************************)
(* select! picks among the branches that are ready at random, so no branch *)
(* that stays ready is passed over for ever; a client that is there reads. *)
(* Clients need not send, close, or join.                                  *)
(***************************************************************************)
Fairness ==
  /\ WF_vars(CreatorStart) /\ WF_vars(CreatorNotified)
  /\ WF_vars(CreatorBuffers) /\ WF_vars(CreatorEnded)
  /\ WF_vars(CreatorReads) /\ WF_vars(CreatorCloses)
  /\ WF_vars(CreatorForwards) /\ WF_vars(CreatorLoses)
  /\ WF_vars(JoinerStart)
  /\ WF_vars(JoinerReads) /\ WF_vars(JoinerCloses)
  /\ WF_vars(JoinerForwards) /\ WF_vars(JoinerLoses)

FairSpec == Spec /\ Fairness

-----------------------------------------------------------------------------
(***************************************************************************)
(* Properties.                                                             *)
(***************************************************************************)

AtoB == INSTANCE FifoPipe WITH accepted <- takenA, delivered <- gotB
BtoA == INSTANCE FifoPipe WITH accepted <- takenB, delivered <- gotA

\* Each direction is a FIFO pipe, from the frames sent before the joiner
\* came, across the flush, to those in flight when a handler ends.
FramesInOrder == AtoB!Spec /\ BtoA!Spec

\* The two handlers meet as module Handshake says, as any pair of handlers
\* does in RelaySessions: this module looks at one such pair.
Meeting == INSTANCE Handshake WITH
  creator <- CASE creator \in {"upgrading", "waiting"} -> creator
               [] creator = "relaying" -> "linked"
               [] creator \in {"dropped", "left", "closed"} -> "gone",
  joiner <- CASE joiner \in {"absent", "taken"} -> joiner
              [] joiner = "relaying" -> "joined"
              [] joiner = "done" -> "gone",
  permit <- joiner_ready

HandlersMeet == Meeting!Spec

\* Nothing a client sent is missing while the other client is connected and
\* creator_ws has not returned early: it was delivered or is still on its way,
\* in the order it was sent.
NothingLost ==
  /\ creator \in {"waiting", "relaying", "closed"} /\ joiner # "done"
       /\ (joiner = "relaying" => openB)
       => takenA = gotB \o a_to_b \o pre_buffer
  /\ creator \notin {"left", "closed"} /\ openA => takenB = gotA \o b_to_a

\* Once both handlers relay, what either client has sent reaches the other
\* unless that one goes away, even when the sender goes first.
LinkedFramesArrive ==
  \A k \in 1 .. MaxFrames :
    /\ (creator = "relaying" /\ joiner = "relaying" /\ Len(takenA) >= k)
         ~> (Len(gotB) >= k \/ ~openB)
    /\ (creator = "relaying" /\ joiner = "relaying" /\ Len(takenB) >= k)
         ~> (Len(gotA) >= k \/ ~openA)

\* DESIGN.md, Relay: the session closes when one of the clients disconnects.
SessionClosesWithEither ==
  /\ (joiner = "relaying" /\ creator = "closed") ~> (joiner = "done")
  /\ (creator = "relaying" /\ joiner = "done") ~> (creator = "closed")
=============================================================================
