--------------------------- MODULE RelayPipe_proof ---------------------------
(***************************************************************************)
(* Proofs about RelayPipe, for any payloads and any number of frames.      *)
(***************************************************************************)
EXTENDS RelayPipe, SequenceTheorems, TLAPS

-----------------------------------------------------------------------------
(***************************************************************************)
(* Sequences: moving the head of one to the end of the one before it.      *)
(***************************************************************************)

LEMMA Moved ==
  ASSUME NEW S, NEW r \in Seq(S), NEW s \in Seq(S), s # <<>>
  PROVE  /\ r \o s = Append(r, Head(s)) \o Tail(s)
         /\ Len(r) < Len(r \o s)
         /\ (r \o s)[Len(r) + 1] = Head(s)
<1>1. Head(s) \in S /\ Tail(s) \in Seq(S) /\ <<Head(s)>> \in Seq(S)
  BY HeadTailProperties
<1>2. Len(s) \in Nat \ {0} /\ Len(r) \in Nat
  BY EmptySeq, LenProperties
<1>3. s = <<Head(s)>> \o Tail(s)
  <2>1. /\ <<Head(s)>> \o Tail(s) \in Seq(S)
        /\ Len(<<Head(s)>> \o Tail(s)) = Len(s)
        /\ \A i \in 1 .. Len(s) :
             (<<Head(s)>> \o Tail(s))[i] = IF i <= 1 THEN Head(s) ELSE Tail(s)[i - 1]
    BY <1>1, <1>2, ConcatProperties, HeadTailProperties
  <2>2. \A i \in 1 .. Len(s) : (<<Head(s)>> \o Tail(s))[i] = s[i]
    <3> SUFFICES ASSUME NEW i \in 1 .. Len(s)
                 PROVE  (<<Head(s)>> \o Tail(s))[i] = s[i]
      OBVIOUS
    <3>1. CASE i = 1
      BY <2>1, <3>1
    <3>2. CASE i > 1
      <4>1. i - 1 \in 1 .. Len(Tail(s)) /\ (i - 1) + 1 = i
        BY <1>2, <3>2, HeadTailProperties
      <4>2. Tail(s)[i - 1] = s[i]
        BY <4>1, HeadTailProperties
      <4> QED
        BY <2>1, <3>2, <4>2
    <3> QED
      BY <3>1, <3>2, <1>2
  <2> QED
    BY <2>1, <2>2, SeqEqual
<1>4. r \o s = (r \o <<Head(s)>>) \o Tail(s)
  BY <1>1, <1>3, ConcatAssociative
<1>5. /\ Len(r \o s) = Len(r) + Len(s)
      /\ (r \o s)[Len(r) + 1] = s[1]
  BY <1>2, ConcatProperties
<1> QED
  BY <1>1, <1>2, <1>4, <1>5, AppendIsConcat

-----------------------------------------------------------------------------
(***************************************************************************)
(* The type invariant.                                                     *)
(***************************************************************************)

LEMMA CutType ==
  ASSUME NEW S, NEW s \in Seq(S), NEW w \in CutWire(s)
  PROVE  w \in Seq(S \cup {End})
<1>1. PICK n \in 0 .. Len(s) : w = SubSeq(s, 1, n) \o <<End>>
  BY DEF CutWire
<1>2. Len(s) \in Nat /\ \A i \in 1 .. n : s[i] \in S \cup {End}
  BY LenProperties, ElementOfSeq
<1>3. SubSeq(s, 1, n) \in Seq(S \cup {End})
  BY <1>2, SubSeqProperties
<1>4. <<End>> \in Seq(S \cup {End})
  OBVIOUS
<1> QED
  BY <1>1, <1>3, <1>4, ConcatProperties

\* What the steps do to a sequence, and to a channel, keeps its type.
LEMMA SeqTypes ==
  ASSUME NEW S
  PROVE  /\ <<>> \in Seq(S)
         /\ \A s \in Seq(S) : s # <<>> => Head(s) \in S /\ Tail(s) \in Seq(S)
         /\ \A s \in Seq(S), e \in S : Append(s, e) \in Seq(S)
  BY EmptySeq, HeadTailProperties, AppendProperties

LEMMA ChannelTypes ==
  /\ <<>> \in Seq(Data) /\ <<>> \in Seq(Frames \cup {End})
  /\ \A s \in Seq(Frames \cup {End}) : s # <<>> => Tail(s) \in Seq(Frames \cup {End})
  /\ \A s \in Seq(Data) : s # <<>> => Head(s) \in Data /\ Tail(s) \in Seq(Data)
  /\ \A s \in Seq(Data), e \in Data : Append(s, e) \in Seq(Data)
  BY SeqTypes

LEMMA TypeInit == Init => TypeOK
<1>1. 0 \in 0 .. MaxFrames
  BY PipeAssumption
<1> QED
  BY <1>1, ChannelTypes DEF Init, TypeOK

LEMMA TypeClients ==
  ASSUME TypeOK, SendA \/ SendB \/ GoA \/ GoB
  PROVE  TypeOK'
<1> USE PipeAssumption DEF TypeOK, stateVars, clientA, clientB, flowAB, flowBA, Frames
<1>1. CASE SendA
  BY <1>1, AppendProperties DEF SendA
<1>2. CASE SendB
  BY <1>2, AppendProperties DEF SendB
<1>3. CASE GoA
  BY <1>3, CutType DEF GoA
<1>4. CASE GoB
  BY <1>4, CutType DEF GoB
<1> QED
  BY <1>1, <1>2, <1>3, <1>4

LEMMA SentType ==
  ASSUME NEW c \in Seq(Data), NEW f \in Seq(Data), NEW receiving
  PROVE  Sent(c, f, receiving) \in Seq(Data)
BY ConcatProperties DEF Sent

LEMMA TypeCreator ==
  ASSUME TypeOK, Creator
  PROVE  TypeOK'
<1> USE DEF TypeOK, stateVars, clientA, clientB, flowAB, flowBA
<1>1. CASE CreatorDropped \/ CreatorStart
  BY <1>1 DEF CreatorDropped, CreatorStart
<1>2. CASE CreatorBuffers
  BY <1>2, ChannelTypes DEF CreatorBuffers
<1>3. CASE CreatorLeaves
  BY <1>3, ChannelTypes DEF CreatorLeaves
<1>4. CASE CreatorNotified
  BY <1>4, ChannelTypes, SentType DEF CreatorNotified, Flush
<1>5. CASE CreatorReads
  <2>1. CASE Head(wireA) \in Data
    <3>1. <<Head(wireA)>> \in Seq(Data)
      BY <2>1
    <3>2. a_to_b' \in Seq(Data) /\ takenA' \in Seq(Data)
      <4>1. a_to_b \o <<Head(wireA)>> \in Seq(Data)
        BY <3>1, ConcatProperties
      <4> QED
        BY <1>5, <2>1, <4>1, ChannelTypes DEF CreatorReads, Sent
    <3> QED
      BY <1>5, <3>2, ChannelTypes DEF CreatorReads
  <2>2. CASE Head(wireA) \notin Data
    BY <1>5, <2>2, ChannelTypes DEF CreatorReads
  <2> QED
    BY <2>1, <2>2
<1>6. CASE CreatorCloses
  BY <1>6, ChannelTypes DEF CreatorCloses
<1>7. CASE CreatorForwards \/ CreatorLoses
  BY <1>7, ChannelTypes DEF CreatorForwards, CreatorLoses
<1> QED
  BY <1>1, <1>2, <1>3, <1>4, <1>5, <1>6, <1>7 DEF Creator, CreatorEnded, CreatorTimedOut

LEMMA TypeJoiner ==
  ASSUME TypeOK, Joiner \/ PurgeEntry
  PROVE  TypeOK'
<1> USE DEF TypeOK, stateVars, clientA, clientB, flowAB, flowBA
<1>1. CASE JoinerTakes \/ JoinerDropped \/ JoinerStart \/ PurgeEntry
  BY <1>1 DEF JoinerTakes, JoinerDropped, JoinerStart, PurgeEntry
<1>2. CASE JoinerReads
  <2>1. CASE Head(wireB) \in Data
    <3>1. <<Head(wireB)>> \in Seq(Data)
      BY <2>1
    <3>2. b_to_a' \in Seq(Data) /\ takenB' \in Seq(Data)
      BY <1>2, <2>1, <3>1, ChannelTypes, SentType DEF JoinerReads
    <3> QED
      BY <1>2, <3>2, ChannelTypes DEF JoinerReads
  <2>2. CASE Head(wireB) \notin Data
    BY <1>2, <2>2, ChannelTypes DEF JoinerReads
  <2> QED
    BY <2>1, <2>2
<1>3. CASE JoinerCloses
  BY <1>3, ChannelTypes DEF JoinerCloses
<1>4. CASE JoinerForwards \/ JoinerLoses
  BY <1>4, ChannelTypes DEF JoinerForwards, JoinerLoses
<1> QED
  BY <1>1, <1>2, <1>3, <1>4 DEF Joiner

LEMMA TypeNext == TypeOK /\ [Next]_vars => TypeOK'
<1>1. TypeOK /\ UNCHANGED vars => TypeOK'
  BY DEF vars, TypeOK, stateVars, clientA, clientB, flowAB, flowBA
<1> QED
  BY <1>1, TypeClients, TypeCreator, TypeJoiner DEF Next

\* The types of the variables, for any number of frames.
THEOREM TypeCorrect == Spec => []TypeOK
  BY TypeInit, TypeNext, PTL DEF Spec

-----------------------------------------------------------------------------
(***************************************************************************)
(* What is on its way.  After creator_ws has returned early, what it had   *)
(* buffered is missing at the end.                                         *)
(***************************************************************************)

Forward == joiner # "done" /\ (joiner = "relaying" => openB)
Backward == creator \notin {"left", "closed"} /\ openA

OnTheWay ==
  /\ entry => joiner = "absent"
  /\ Forward =>
       \E rest \in Seq(Data) : /\ takenA = (gotB \o a_to_b) \o rest
                               /\ creator # "left" => rest = pre_buffer
  /\ creator = "relaying" => pre_buffer = <<>>
  /\ Backward => takenB = gotA \o b_to_a

IInv == TypeOK /\ OnTheWay

LEMMA Regroup ==
  ASSUME NEW q \in Seq(Data), NEW p \in Seq(Data), NEW v \in Seq(Data)
  PROVE  (q \o p) \o v = q \o (p \o v) /\ q \o (p \o v) \in Seq(Data)
BY ConcatAssociative, ConcatProperties

LEMMA OnTheWayInit == Init => OnTheWay
<1> SUFFICES ASSUME Init PROVE OnTheWay
  OBVIOUS
<1>1. <<>> \in Seq(Data) /\ <<>> \o <<>> = <<>>
  BY EmptySeq, ConcatEmptySeq
<1>2. takenA = (gotB \o a_to_b) \o pre_buffer /\ takenB = gotA \o b_to_a
      /\ pre_buffer \in Seq(Data)
  BY <1>1 DEF Init
<1> QED
  BY <1>2 DEF Init, OnTheWay

\* Steps that neither add to a pipe nor move anything in it.
LEMMA OnTheWayKept ==
  ASSUME OnTheWay, UNCHANGED <<takenA, gotB, takenB, gotA>>,
         entry' => joiner' = "absent",
         Forward' => /\ Forward /\ UNCHANGED a_to_b
                     /\ creator' # "left" => creator # "left" /\ UNCHANGED pre_buffer,
         creator' = "relaying" => creator = "relaying" /\ UNCHANGED pre_buffer,
         Backward' => Backward /\ UNCHANGED b_to_a
  PROVE  OnTheWay'
BY DEF OnTheWay

LEMMA OnTheWayClients ==
  ASSUME OnTheWay, SendA \/ SendB \/ GoA \/ GoB \/ PurgeEntry
  PROVE  OnTheWay'
<1>1. /\ UNCHANGED <<creator, joiner, takenA, gotB, takenB, gotA, a_to_b, b_to_a, pre_buffer>>
      /\ entry' => entry
      /\ openA' => openA
      /\ openB' => openB
  BY DEF SendA, SendB, GoA, GoB, PurgeEntry, stateVars, clientA, clientB, flowAB, flowBA
<1>2. Forward' => Forward
  BY <1>1 DEF Forward
<1>3. Backward' => Backward
  BY <1>1 DEF Backward
<1>4. entry' => joiner' = "absent"
  BY <1>1 DEF OnTheWay
<1> QED
  BY <1>1, <1>2, <1>3, <1>4, OnTheWayKept

LEMMA OnTheWayCreator ==
  ASSUME IInv, Creator
  PROVE  OnTheWay'
<1> USE DEF IInv, stateVars, clientA, clientB, flowAB, flowBA
<1>0. /\ gotB \in Seq(Data) /\ a_to_b \in Seq(Data) /\ pre_buffer \in Seq(Data)
      /\ takenA \in Seq(Data) /\ gotA \in Seq(Data) /\ b_to_a \in Seq(Data)
  BY DEF TypeOK
<1>1. CASE CreatorDropped \/ CreatorStart
  <2>1. /\ UNCHANGED <<joiner, entry, openA, openB, pre_buffer, a_to_b, b_to_a, takenA, gotB,
                       takenB, gotA>>
        /\ creator = "upgrading" /\ creator' \in {"dropped", "waiting"}
    BY <1>1 DEF CreatorDropped, CreatorStart
  <2> QED
    BY <2>1, OnTheWayKept DEF Forward, Backward, OnTheWay
<1>2. CASE CreatorLeaves
  BY <1>2, OnTheWayKept DEF CreatorLeaves, Forward, Backward, OnTheWay
<1>3. CASE CreatorCloses
  BY <1>3, OnTheWayKept DEF CreatorCloses, Forward, Backward, OnTheWay
<1>4. CASE CreatorLoses
  BY <1>4, OnTheWayKept DEF CreatorLoses, Forward, Backward, OnTheWay
<1>5. CASE CreatorBuffers
  <2>1. /\ UNCHANGED <<creator, joiner, entry, openA, openB, a_to_b, b_to_a, gotA, gotB, takenB>>
        /\ creator = "waiting"
    BY <1>5 DEF CreatorBuffers
  <2>2. CASE Head(wireA) \notin Data
    <3>1. UNCHANGED <<takenA, pre_buffer>>
      BY <1>5, <2>2 DEF CreatorBuffers
    <3> QED
      BY <2>1, <3>1, OnTheWayKept DEF Forward, Backward, OnTheWay
  <2>3. CASE Head(wireA) \in Data
    <3> PICK x \in Data : x = Head(wireA)
      BY <2>3
    <3>1. takenA' = takenA \o <<x>> /\ pre_buffer' = pre_buffer \o <<x>>
      BY <1>0, <1>5, <2>3, AppendIsConcat DEF CreatorBuffers
    <3>2. /\ gotB \o a_to_b \in Seq(Data) /\ <<x>> \in Seq(Data)
          /\ pre_buffer' \in Seq(Data)
      BY <1>0, <3>1, ConcatProperties
    <3>3. ((gotB \o a_to_b) \o pre_buffer) \o <<x>> = (gotB \o a_to_b) \o (pre_buffer \o <<x>>)
      <4> DEFINE w == gotB \o a_to_b
                 v == <<x>>
      <4>1. w \in Seq(Data) /\ v \in Seq(Data) /\ pre_buffer \in Seq(Data)
        BY <1>0, <3>2
      <4> HIDE DEF w, v
      <4>2. (w \o pre_buffer) \o v = w \o (pre_buffer \o v)
        BY <4>1, Regroup
      <4> QED
        BY <4>2 DEF w, v
    <3>4. Forward => takenA = (gotB \o a_to_b) \o pre_buffer
      BY <2>1 DEF OnTheWay
    <3>5. Forward' => takenA' = (gotB' \o a_to_b') \o pre_buffer'
      BY <2>1, <3>1, <3>3, <3>4 DEF Forward
    <3> QED
      BY <2>1, <3>2, <3>5 DEF OnTheWay, Backward
  <2> QED
    BY <2>2, <2>3
<1>6. CASE CreatorNotified
  <2>1. /\ UNCHANGED <<joiner, entry, openA, openB, takenA, b_to_a, gotA, gotB, takenB>>
        /\ creator = "waiting" /\ creator' = "relaying" /\ pre_buffer' = <<>>
        /\ a_to_b' = Sent(a_to_b, pre_buffer, joiner # "done")
    BY <1>6 DEF CreatorNotified, Flush
  <2>2. a_to_b \o pre_buffer \in Seq(Data) /\ gotB \o (a_to_b \o pre_buffer) \in Seq(Data)
    BY <1>0, ConcatProperties
  <2>3. (gotB \o a_to_b) \o pre_buffer = (gotB \o (a_to_b \o pre_buffer)) \o <<>>
    <3>1. (gotB \o a_to_b) \o pre_buffer = gotB \o (a_to_b \o pre_buffer)
      <4>1. gotB \in Seq(Data) /\ a_to_b \in Seq(Data) /\ pre_buffer \in Seq(Data)
        BY <1>0
      <4> QED
        BY <4>1, Regroup
    <3>2. (gotB \o (a_to_b \o pre_buffer)) \o <<>> = gotB \o (a_to_b \o pre_buffer)
      BY <2>2, ConcatEmptySeq
    <3> QED
      BY <3>1, <3>2
  <2>4. Forward => takenA = (gotB \o a_to_b) \o pre_buffer
    BY <2>1 DEF OnTheWay
  <2>5. Forward' => takenA' = (gotB' \o a_to_b') \o pre_buffer'
    BY <2>1, <2>3, <2>4 DEF Forward, Sent
  <2> QED
    BY <2>1, <2>5, ChannelTypes DEF OnTheWay, Backward
<1>7. CASE CreatorReads
  <2>1. /\ UNCHANGED <<creator, joiner, entry, openA, openB, pre_buffer, b_to_a, gotA, gotB,
                       takenB>>
        /\ creator = "relaying" /\ pre_buffer = <<>>
    BY <1>7 DEF CreatorReads, OnTheWay
  <2>2. CASE Head(wireA) \notin Data
    <3>1. UNCHANGED <<takenA, a_to_b>>
      BY <1>7, <2>2 DEF CreatorReads
    <3> QED
      BY <2>1, <3>1, OnTheWayKept DEF Forward, Backward, OnTheWay
  <2>3. CASE Head(wireA) \in Data
    <3> PICK x \in Data : x = Head(wireA)
      BY <2>3
    <3>1. takenA' = takenA \o <<x>> /\ (joiner # "done" => a_to_b' = a_to_b \o <<x>>)
      BY <1>0, <1>7, <2>3, AppendIsConcat DEF CreatorReads, Sent
    <3>2. <<x>> \in Seq(Data) /\ a_to_b \o <<x>> \in Seq(Data) /\ gotB \o a_to_b \in Seq(Data)
      BY <1>0, ConcatProperties
    <3>3. /\ (gotB \o a_to_b) \o <<x>> = gotB \o (a_to_b \o <<x>>)
          /\ gotB \o (a_to_b \o <<x>>) \in Seq(Data)
      BY <1>0, <3>2, Regroup
    <3>4. (gotB \o a_to_b) \o <<>> = gotB \o a_to_b
          /\ (gotB \o (a_to_b \o <<x>>)) \o <<>> = gotB \o (a_to_b \o <<x>>)
      BY <3>2, <3>3, ConcatEmptySeq
    <3>5. Forward => takenA = (gotB \o a_to_b) \o <<>>
      BY <2>1 DEF OnTheWay
    <3>6. Forward' => takenA' = (gotB' \o a_to_b') \o <<>>
      BY <2>1, <3>1, <3>2, <3>3, <3>4, <3>5 DEF Forward
    <3> QED
      BY <2>1, <3>6, ChannelTypes DEF OnTheWay, Backward
  <2> QED
    BY <2>2, <2>3
<1>8. CASE CreatorForwards
  <2>1. /\ UNCHANGED <<creator, joiner, entry, openA, openB, pre_buffer, a_to_b, takenA, gotB,
                       takenB>>
        /\ b_to_a # <<>> /\ b_to_a' = Tail(b_to_a) /\ gotA' = Append(gotA, Head(b_to_a))
    BY <1>8 DEF CreatorForwards
  <2>2. gotA \o b_to_a = gotA' \o b_to_a'
    BY <1>0, <2>1, Moved
  <2> QED
    BY <2>1, <2>2 DEF OnTheWay, Forward, Backward
<1> QED
  BY <1>1, <1>2, <1>3, <1>4, <1>5, <1>6, <1>7, <1>8 DEF Creator, CreatorEnded, CreatorTimedOut

LEMMA OnTheWayJoiner ==
  ASSUME IInv, Joiner
  PROVE  OnTheWay'
<1> USE DEF IInv, stateVars, clientA, clientB, flowAB, flowBA
<1>0. /\ gotB \in Seq(Data) /\ a_to_b \in Seq(Data)
      /\ takenB \in Seq(Data) /\ gotA \in Seq(Data) /\ b_to_a \in Seq(Data)
  BY DEF TypeOK
<1>1. CASE JoinerTakes
  BY <1>1 DEF JoinerTakes, Forward, Backward, OnTheWay
<1>2. CASE JoinerDropped \/ JoinerStart
  <2>1. /\ UNCHANGED <<creator, entry, openA, openB, pre_buffer, a_to_b, b_to_a, takenA, gotB,
                       takenB, gotA>>
        /\ joiner = "taken" /\ joiner' \in {"done", "relaying"}
    BY <1>2 DEF JoinerDropped, JoinerStart
  <2>2. Forward' => Forward
    BY <2>1 DEF Forward
  <2>3. Backward' => Backward
    BY <2>1 DEF Backward
  <2>4. entry' => joiner' = "absent"
    BY <2>1 DEF OnTheWay
  <2> QED
    BY <2>1, <2>2, <2>3, <2>4, OnTheWayKept
<1>3. CASE JoinerCloses
  BY <1>3 DEF JoinerCloses, Forward, Backward, OnTheWay
<1>4. CASE JoinerLoses
  BY <1>4 DEF JoinerLoses, Forward, Backward, OnTheWay
<1>5. CASE JoinerReads
  <2>1. /\ UNCHANGED <<creator, joiner, entry, openA, openB, pre_buffer, a_to_b, takenA, gotA,
                       gotB>>
    BY <1>5 DEF JoinerReads
  <2>2. CASE Head(wireB) \notin Data
    <3>1. UNCHANGED <<takenB, b_to_a>>
      BY <1>5, <2>2 DEF JoinerReads
    <3> QED
      BY <2>1, <3>1, OnTheWayKept DEF Forward, Backward, OnTheWay
  <2>3. CASE Head(wireB) \in Data
    <3> PICK x \in Data : x = Head(wireB)
      BY <2>3
    <3>1. takenB' = takenB \o <<x>> /\ (Receiving => b_to_a' = b_to_a \o <<x>>)
      BY <1>0, <1>5, <2>3, AppendIsConcat DEF JoinerReads, Sent
    <3>2. (gotA \o b_to_a) \o <<x>> = gotA \o (b_to_a \o <<x>>)
      <4>1. <<x>> \in Seq(Data)
        OBVIOUS
      <4>2. gotA \in Seq(Data) /\ b_to_a \in Seq(Data)
        BY <1>0
      <4> QED
        BY <4>1, <4>2, Regroup
    <3>3. Backward' => takenB' = gotA' \o b_to_a'
      BY <2>1, <3>1, <3>2 DEF Backward, Receiving, OnTheWay
    <3> QED
      BY <2>1, <3>3 DEF OnTheWay, Forward
  <2> QED
    BY <2>2, <2>3
<1>6. CASE JoinerForwards
  <2>1. /\ UNCHANGED <<creator, joiner, entry, openA, openB, pre_buffer, b_to_a, takenA, gotA,
                       takenB>>
        /\ a_to_b # <<>> /\ a_to_b' = Tail(a_to_b) /\ gotB' = Append(gotB, Head(a_to_b))
    BY <1>6 DEF JoinerForwards
  <2>2. gotB \o a_to_b = gotB' \o a_to_b'
    BY <1>0, <2>1, Moved
  <2> QED
    BY <2>1, <2>2 DEF OnTheWay, Forward, Backward
<1> QED
  BY <1>1, <1>2, <1>3, <1>4, <1>5, <1>6 DEF Joiner

LEMMA Invariance == Spec => []IInv
<1>1. Init => IInv
  BY TypeInit, OnTheWayInit DEF IInv
<1>2. IInv /\ [Next]_vars => IInv'
  <2>1. ASSUME IInv, UNCHANGED vars PROVE OnTheWay'
    <3>1. UNCHANGED <<creator, joiner, entry, openA, openB, pre_buffer, a_to_b, b_to_a, takenA,
                      gotB, takenB, gotA>>
      BY <2>1 DEF vars, stateVars, clientA, clientB, flowAB, flowBA
    <3> QED
      BY <2>1, <3>1, OnTheWayKept DEF IInv, Forward, Backward, OnTheWay
  <2> QED
    BY <2>1, TypeNext, OnTheWayClients, OnTheWayCreator, OnTheWayJoiner DEF Next, IInv
<1> QED
  BY <1>1, <1>2, PTL DEF Spec

\* Nothing is lost, reordered or made up as long as both ends are there,
\* whatever the clients sent before they were linked.
THEOREM NothingIsLost == Spec => []NothingLost
<1>1. IInv => NothingLost
  <2> SUFFICES ASSUME IInv PROVE NothingLost
    OBVIOUS
  <2>1. ASSUME creator \in {"waiting", "relaying", "closed"}, joiner # "done",
               joiner = "relaying" => openB
        PROVE  takenA = gotB \o a_to_b \o pre_buffer
    BY <2>1 DEF IInv, OnTheWay, Forward
  <2>2. ASSUME creator \notin {"left", "closed"}, openA
        PROVE  takenB = gotA \o b_to_a
    BY <2>2 DEF IInv, OnTheWay, Backward
  <2> QED
    BY <2>1, <2>2 DEF NothingLost
<1> QED
  BY <1>1, Invariance, PTL

-----------------------------------------------------------------------------
(***************************************************************************)
(* The refinements.                                                        *)
(***************************************************************************)

\* The next frame of a channel is the next one its reader has not got.
LEMMA NextInLine ==
  ASSUME NEW got \in Seq(Data), NEW chan \in Seq(Data), NEW rest \in Seq(Data),
         NEW taken, taken = (got \o chan) \o rest, chan # <<>>
  PROVE  Len(got) < Len(taken) /\ taken[Len(got) + 1] = Head(chan)
<1>1. /\ got \o chan \in Seq(Data) /\ Len(got) \in Nat /\ Len(rest) \in Nat
      /\ Len(got) < Len(got \o chan) /\ (got \o chan)[Len(got) + 1] = Head(chan)
  BY Moved, ConcatProperties, LenProperties
<1>2. Len(got \o chan) \in Nat
  BY <1>1, LenProperties
<1>3. /\ Len((got \o chan) \o rest) = Len(got \o chan) + Len(rest)
      /\ ((got \o chan) \o rest)[Len(got) + 1] = (got \o chan)[Len(got) + 1]
  <2> PICK q \in Seq(Data) : q = got \o chan
    BY <1>1
  <2>1. Len(q \o rest) = Len(q) + Len(rest)
        /\ \A i \in 1 .. Len(q) + Len(rest) :
             (q \o rest)[i] = IF i <= Len(q) THEN q[i] ELSE rest[i - Len(q)]
    BY ConcatProperties
  <2>2. Len(got) + 1 \in 1 .. Len(q) + Len(rest) /\ Len(got) + 1 <= Len(q)
    BY <1>1, <1>2
  <2> QED
    BY <2>1, <2>2
<1> QED
  BY <1>1, <1>2, <1>3

\* What a client sent before and after it was linked reaches the joiner in
\* order, and nothing else does.
LEMMA CreatorToJoiner == Spec => AtoB!Spec
<1>1. Init => AtoB!Init
  BY DEF Init, AtoB!Init
<1>2. IInv /\ [Next]_vars => [AtoB!Next]_<<takenA, gotB>>
  <2> SUFFICES ASSUME IInv, [Next]_vars, ~UNCHANGED <<takenA, gotB>>
               PROVE  AtoB!Accept \/ AtoB!Deliver
    BY DEF AtoB!Next
  <2>1. CreatorBuffers \/ CreatorReads \/ JoinerForwards
    BY DEF Next, Creator, Joiner, SendA, SendB, GoA, GoB, CreatorDropped, CreatorStart,
           CreatorEnded, CreatorTimedOut, CreatorLeaves, CreatorNotified, CreatorCloses,
           CreatorForwards, CreatorLoses, JoinerTakes, JoinerDropped, JoinerStart,
           JoinerReads, JoinerCloses, JoinerLoses, PurgeEntry, vars, stateVars, clientA,
           clientB, flowAB, flowBA
  <2>2. CASE CreatorBuffers \/ CreatorReads
    <3>1. gotB' = gotB /\ Head(wireA) \in Data /\ takenA' = Append(takenA, Head(wireA))
      BY <2>2 DEF CreatorBuffers, CreatorReads
    <3> QED
      BY <3>1 DEF AtoB!Accept
  <2>3. CASE JoinerForwards
    <3>1. /\ Forward /\ a_to_b # <<>> /\ takenA' = takenA
          /\ gotB' = Append(gotB, Head(a_to_b))
      BY <2>3 DEF JoinerForwards, Forward
    <3>2. PICK rest \in Seq(Data) : takenA = (gotB \o a_to_b) \o rest
      BY <3>1 DEF IInv, OnTheWay
    <3>3. gotB \in Seq(Data) /\ a_to_b \in Seq(Data)
      BY DEF IInv, TypeOK
    <3>4. Len(gotB) < Len(takenA) /\ takenA[Len(gotB) + 1] = Head(a_to_b)
      BY <3>1, <3>2, <3>3, NextInLine
    <3> QED
      BY <3>1, <3>4 DEF AtoB!Deliver
  <2> QED
    BY <2>1, <2>2, <2>3
<1> QED
  BY <1>1, <1>2, Invariance, PTL DEF Spec, AtoB!Spec

\* The same in the other direction.
LEMMA JoinerToCreator == Spec => BtoA!Spec
<1>1. Init => BtoA!Init
  BY DEF Init, BtoA!Init
<1>2. IInv /\ [Next]_vars => [BtoA!Next]_<<takenB, gotA>>
  <2> SUFFICES ASSUME IInv, [Next]_vars, ~UNCHANGED <<takenB, gotA>>
               PROVE  BtoA!Accept \/ BtoA!Deliver
    BY DEF BtoA!Next
  <2>1. JoinerReads \/ CreatorForwards
    BY DEF Next, Creator, Joiner, SendA, SendB, GoA, GoB, CreatorDropped, CreatorStart,
           CreatorEnded, CreatorTimedOut, CreatorLeaves, CreatorNotified, CreatorCloses,
           CreatorBuffers, CreatorReads, CreatorLoses, JoinerTakes, JoinerDropped,
           JoinerStart, JoinerForwards, JoinerCloses, JoinerLoses, PurgeEntry, vars,
           stateVars, clientA, clientB, flowAB, flowBA
  <2>2. CASE JoinerReads
    <3>1. gotA' = gotA /\ Head(wireB) \in Data /\ takenB' = Append(takenB, Head(wireB))
      BY <2>2 DEF JoinerReads
    <3> QED
      BY <3>1 DEF BtoA!Accept
  <2>3. CASE CreatorForwards
    <3>1. /\ Backward /\ b_to_a # <<>> /\ takenB' = takenB
          /\ gotA' = Append(gotA, Head(b_to_a))
      BY <2>3 DEF CreatorForwards, Backward, flowAB
    <3>2. takenB = gotA \o b_to_a /\ gotA \in Seq(Data) /\ b_to_a \in Seq(Data)
      BY <3>1 DEF IInv, OnTheWay, TypeOK
    <3>3. Len(gotA) < Len(takenB) /\ takenB[Len(gotA) + 1] = Head(b_to_a)
      BY <3>1, <3>2, Moved
    <3> QED
      BY <3>1, <3>3 DEF BtoA!Deliver
  <2> QED
    BY <2>1, <2>2, <2>3
<1> QED
  BY <1>1, <1>2, Invariance, PTL DEF Spec, BtoA!Spec

\* Both directions of the relay implement FifoPipe, for any payloads and any
\* number of frames.
THEOREM PipesImplemented == Spec => FramesInOrder
  BY CreatorToJoiner, JoinerToCreator DEF FramesInOrder

-----------------------------------------------------------------------------
(***************************************************************************)
(* The meeting of the two handlers.                                        *)
(***************************************************************************)

\* What Handshake sees of a handler, whatever else the step does.
LEMMA MeetingStep ==
  ASSUME IInv, [Next]_vars
  PROVE  [Meeting!Next]_(Meeting!vars)
<1> USE DEF stateVars, clientA, clientB, flowAB, flowBA
<1>1. CASE CreatorDropped \/ CreatorStart \/ CreatorNotified
  <2>1. CASE CreatorDropped
    BY <1>1, <2>1 DEF CreatorDropped, Meeting!Next, Meeting!Drop
  <2>2. CASE CreatorStart
    BY <2>2 DEF CreatorStart, Meeting!Next, Meeting!Start
  <2>3. CASE CreatorNotified
    BY <2>3 DEF CreatorNotified, Meeting!Next, Meeting!Link
  <2> QED
    BY <1>1, <2>1, <2>2, <2>3
<1>2. CASE CreatorLeaves
  BY <1>2 DEF CreatorLeaves, Meeting!Next, Meeting!Leave
<1>3. CASE CreatorCloses \/ CreatorLoses
  <2>1. /\ UNCHANGED <<joiner, entry, joiner_ready>>
        /\ creator = "relaying" /\ creator' \in {"relaying", "closed"}
    BY <1>3 DEF CreatorCloses, CreatorLoses
  <2>2. CASE creator' = "closed"
    BY <2>1, <2>2 DEF Meeting!Next, Meeting!CreatorEnds
  <2>3. CASE creator' = "relaying"
    BY <2>1, <2>3 DEF Meeting!vars
  <2> QED
    BY <2>1, <2>2, <2>3
<1>4. CASE JoinerTakes
  <2>1. joiner = "absent"
    BY <1>4 DEF JoinerTakes, IInv, OnTheWay
  <2> QED
    BY <1>4, <2>1 DEF JoinerTakes, IInv, TypeOK, Meeting!Next, Meeting!Take
<1>5. CASE JoinerDropped
  BY <1>5 DEF JoinerDropped, Meeting!Next, Meeting!JoinerEnds
<1>6. CASE JoinerStart
  BY <1>6 DEF JoinerStart, Meeting!Next, Meeting!Join
<1>7. CASE JoinerCloses \/ JoinerLoses
  <2>1. /\ UNCHANGED <<creator, entry, joiner_ready>>
        /\ joiner = "relaying" /\ joiner' \in {"relaying", "done"}
    BY <1>7 DEF JoinerCloses, JoinerLoses
  <2>2. CASE joiner' = "done"
    BY <2>1, <2>2 DEF Meeting!Next, Meeting!JoinerEnds
  <2>3. CASE joiner' = "relaying"
    BY <2>1, <2>3 DEF Meeting!vars
  <2> QED
    BY <2>1, <2>2, <2>3
<1>8. CASE PurgeEntry
  BY <1>8 DEF PurgeEntry, Meeting!Next, Meeting!Remove
<1>9. CASE \/ SendA \/ SendB \/ GoA \/ GoB \/ CreatorBuffers \/ CreatorReads
           \/ CreatorForwards \/ JoinerReads \/ JoinerForwards \/ UNCHANGED vars
  <2>1. UNCHANGED stateVars
    BY <1>9 DEF SendA, SendB, GoA, GoB, CreatorBuffers, CreatorReads, CreatorForwards,
                JoinerReads, JoinerForwards, vars
  <2> QED
    BY <2>1 DEF Meeting!vars
<1> QED
  BY <1>1, <1>2, <1>3, <1>4, <1>5, <1>6, <1>7, <1>8, <1>9
     DEF Next, Creator, Joiner, CreatorEnded, CreatorTimedOut

\* The two handlers of the pipe meet as those of any pair in RelaySessions do.
THEOREM Rendezvous == Spec => HandlersMeet
<1>1. Init => Meeting!Init
  BY DEF Init, Meeting!Init
<1> QED
  BY <1>1, MeetingStep, Invariance, PTL DEF Spec, HandlersMeet, Meeting!Spec
=============================================================================
