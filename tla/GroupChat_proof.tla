--------------------------- MODULE GroupChat_proof ---------------------------
(***************************************************************************)
(* Proofs about GroupChat, for any users, connections, number of messages  *)
(* and length of the history.                                              *)
(***************************************************************************)
EXTENDS GroupChat, SequenceTheorems, FiniteSetTheorems, TLAPS

-----------------------------------------------------------------------------
(***************************************************************************)
(* What the steps do to sequences.                                         *)
(***************************************************************************)

\* SELECT ... LIMIT and the DELETE keep the end of the table.
LEMMA NewestProperties ==
  ASSUME NEW S, NEW s \in Seq(S)
  PROVE  /\ Newest(s) \in Seq(S)
         /\ Len(Newest(s)) = IF Len(s) > HistoryLimit THEN HistoryLimit ELSE Len(s)
         /\ \A i \in 1 .. Len(Newest(s)) : Newest(s)[i] = s[Len(s) - Len(Newest(s)) + i]
<1>1. Len(s) \in Nat /\ HistoryLimit \in Nat /\ \A i \in 1 .. Len(s) : s[i] \in S
  BY GroupAssumption, LenProperties, ElementOfSeq
<1> DEFINE m == IF Len(s) > HistoryLimit THEN Len(s) - HistoryLimit + 1 ELSE 1
<1>2. m \in Int /\ m >= 1 /\ m <= Len(s) + 1
  BY <1>1
<1>3. \A i \in m .. Len(s) : s[i] \in S
  BY <1>1, <1>2
<1>4. Newest(s) = SubSeq(s, m, Len(s))
  BY DEF Newest
<1> HIDE DEF m
<1>5. /\ SubSeq(s, m, Len(s)) \in Seq(S)
      /\ Len(SubSeq(s, m, Len(s))) = IF m <= Len(s) THEN Len(s) - m + 1 ELSE 0
      /\ \A i \in 1 .. Len(s) - m + 1 : SubSeq(s, m, Len(s))[i] = s[m + i - 1]
  BY <1>1, <1>2, <1>3, SubSeqProperties
<1>6. Len(Newest(s)) = Len(s) - m + 1
  BY <1>1, <1>2, <1>4, <1>5
<1>7. Len(Newest(s)) = IF Len(s) > HistoryLimit THEN HistoryLimit ELSE Len(s)
  BY <1>1, <1>6 DEF m
<1>8. \A i \in 1 .. Len(Newest(s)) : Newest(s)[i] = s[Len(s) - Len(Newest(s)) + i]
  <2> SUFFICES ASSUME NEW i \in 1 .. Len(Newest(s))
               PROVE  Newest(s)[i] = s[Len(s) - Len(Newest(s)) + i]
    OBVIOUS
  <2>1. m + i - 1 = Len(s) - Len(Newest(s)) + i
    BY <1>1, <1>2, <1>6
  <2>2. Newest(s)[i] = s[m + i - 1]
    BY <1>4, <1>5, <1>6
  <2> QED
    BY <2>1, <2>2
<1> QED
  BY <1>4, <1>5, <1>7, <1>8

LEMMA Appended ==
  ASSUME NEW S, NEW s \in Seq(S), NEW e \in S
  PROVE  /\ Append(s, e) \in Seq(S)
         /\ Len(s) \in Nat
         /\ Len(Append(s, e)) = Len(s) + 1
         /\ \A i \in 1 .. Len(s) : Append(s, e)[i] = s[i]
         /\ Append(s, e)[Len(s) + 1] = e
BY AppendProperties, LenProperties

-----------------------------------------------------------------------------
(***************************************************************************)
(* Types, and where a handler is when it works on a message, broadcasts or *)
(* is in the map.                                                          *)
(***************************************************************************)

Progress ==
  /\ \A c \in Conns : pc[c] # "idle" => user[c] \in Users
  /\ \A c \in Conns : todo[c] # {} => pc[c] \in {"telling", "parting"}
  /\ \A c \in Conns : posting[c] # 0 <=> pc[c] \in {"inserted", "trimmed", "telling"}
  /\ \A u \in Users : group_conns[u] # None
                        => pc[group_conns[u]] \notin {"idle", "accepted"}

LEMMA TypeInit == Init => TypeOK /\ Progress
<1> SUFFICES ASSUME Init PROVE TypeOK /\ Progress
  OBVIOUS
<1>1. Len(author) = 0 /\ author \in Seq(Conns) /\ db \in Seq(Messages) /\ saved \in Seq(Messages)
      /\ 0 <= MaxMsgs /\ 0 <= HistoryLimit /\ 0 \in Nat
  BY EmptySeq, GroupAssumption DEF Init
<1>2. \A c \in Conns : hist[c] \in Seq(Messages) /\ Len(hist[c]) = 0
                       /\ rx[c] \in Seq(Messages \cup Users)
  BY EmptySeq DEF Init
<1>3. TypeOK
  BY <1>1, <1>2 DEF Init, TypeOK
<1>4. Progress
  BY DEF Init, Progress, Callers
<1> QED
  BY <1>3, <1>4

\* group_ws and group_ws_handler up to its loop.
LEMMA TypeConnect ==
  ASSUME TypeOK, Progress, NEW c \in Conns,
         (\E u \in Users : Accept(c, u)) \/ Connect(c)
  PROVE  TypeOK' /\ Progress'
<1> USE DEF Goto, tableVars, mapVars
<1>1. CASE \E u \in Users : Accept(c, u)
  <2>1. PICK u \in Users : Accept(c, u)
    BY <1>1
  <2>2. /\ UNCHANGED <<call, db, author, saved, missed, unread, group_conns, latest, since, hist, rx, out, posting, todo>>
        /\ user' = [user EXCEPT ![c] = u] /\ open' = open \cup {c}
        /\ pc[c] = "idle" /\ pc' = [pc EXCEPT ![c] = "accepted"]
    BY <2>1 DEF Accept
  <2>3. TypeOK'
    BY <2>2 DEF TypeOK, Messages
  <2>4. Progress'
    BY <2>2, GroupAssumption DEF TypeOK, Progress
  <2> QED
    BY <2>3, <2>4
<1>2. CASE Abandon(c)
  <2>1. /\ UNCHANGED <<call, db, author, saved, missed, unread, group_conns, latest, since, user, open, hist, rx, out, posting,
                       todo>>
        /\ pc[c] = "accepted" /\ pc' = [pc EXCEPT ![c] = "gone"]
    BY <1>2 DEF Abandon
  <2>2. TypeOK'
    BY <2>1 DEF TypeOK, Messages
  <2>3. Progress'
    BY <2>1 DEF TypeOK, Progress
  <2> QED
    BY <2>2, <2>3
<1>3. CASE Register(c)
  <2>1. user[c] \in Users
    BY <1>3 DEF Register, Progress
  <2>2. TypeOK'
    <3>1. /\ group_conns' \in [Users -> Conns \cup {None}]
          /\ latest' \in [Users -> Conns \cup {None}]
      BY <1>3, <2>1 DEF Register, TypeOK
    <3>2. since' \in [Conns -> 0 .. Len(author)]
      <4>1. Len(author) \in 0 .. Len(author)
        BY LenProperties DEF TypeOK
      <4> QED
        BY <1>3, <4>1 DEF Register, TypeOK
    <3>3. pc' = [pc EXCEPT ![c] = "registered"]
      BY <1>3 DEF Register
    <3>4. UNCHANGED <<call, db, author, saved, missed, unread, user, open, hist, rx, out,
                      posting, todo>>
      BY <1>3 DEF Register
    <3> QED
      BY <3>1, <3>2, <3>3, <3>4 DEF TypeOK, Messages
  <2>3. \A u \in Users : group_conns'[u] # None
                          => pc'[group_conns'[u]] \notin {"idle", "accepted"}
    <3> SUFFICES ASSUME NEW u \in Users, group_conns'[u] # None
                 PROVE  pc'[group_conns'[u]] \notin {"idle", "accepted"}
      OBVIOUS
    <3>1. \A d \in Conns : pc'[d] = IF d = c THEN "registered" ELSE pc[d]
      BY <1>3 DEF Register, TypeOK
    <3>2. CASE u = user[c]
      <4>1. group_conns'[u] = c
        BY <1>3, <3>2 DEF Register, TypeOK
      <4> QED
        BY <3>1, <4>1
    <3>3. CASE u # user[c]
      <4>1. group_conns'[u] = group_conns[u] /\ group_conns[u] \in Conns
        BY <1>3, <3>3 DEF Register, TypeOK
      <4>2. pc[group_conns[u]] \notin {"idle", "accepted"}
        BY <4>1 DEF Progress
      <4> QED
        BY <3>1, <4>1, <4>2
    <3> QED
      BY <3>2, <3>3
  <2>4. Progress'
    BY <1>3, <2>3 DEF Register, TypeOK, Progress
  <2> QED
    BY <2>2, <2>4
<1>4. CASE ReadHistory(c)
  <2>1. Newest(db) \in Seq(Messages) /\ Len(Newest(db)) <= HistoryLimit
    BY NewestProperties, GroupAssumption, LenProperties DEF TypeOK
  <2>2. UNCHANGED author
    BY <1>4 DEF ReadHistory
  <2>3. hist' \in [Conns -> Seq(Messages)] /\ \A d \in Conns : Len(hist'[d]) <= HistoryLimit
    BY <1>4, <2>1 DEF ReadHistory, TypeOK
  <2>4. TypeOK'
    BY <1>4, <2>2, <2>3 DEF ReadHistory, TypeOK, Messages
  <2>5. Progress'
    BY <1>4 DEF ReadHistory, TypeOK, Progress
  <2> QED
    BY <2>4, <2>5
<1> QED
  BY <1>1, <1>2, <1>3, <1>4 DEF Connect

\* A longer table: what was a message still is one.
LEMMA TypeInsert ==
  ASSUME TypeOK, Progress, NEW c \in Conns, Insert(c)
  PROVE  TypeOK' /\ Progress'
<1> USE DEF Goto
<1>1. /\ author' \in Seq(Conns) /\ Len(author) \in Nat /\ Len(author') = Len(author) + 1
      /\ Len(author') <= MaxMsgs
  BY Appended, GroupAssumption DEF Insert, TypeOK
<1>2. /\ Messages \subseteq Messages' /\ Len(author') \in Messages' /\ Len(author') # 0
  BY <1>1 DEF Messages
<1>3. \A s \in Seq(Messages) : s \in Seq(Messages')
  BY <1>2, SeqMonotonic
<1>4. \A s \in Seq(Messages \cup Users) : s \in Seq(Messages' \cup Users)
  <2>1. Messages \cup Users \subseteq Messages' \cup Users
    BY <1>2
  <2> QED
    BY <2>1, SeqMonotonic
<1>5. db' \in Seq(Messages') /\ saved' \in Seq(Messages')
  <2>1. Append(db, Len(author')) \in Seq(Messages') /\ Append(saved, Len(author')) \in Seq(Messages')
    BY <1>2, <1>3, Appended DEF TypeOK
  <2> QED
    BY <1>3, <2>1 DEF Insert, TypeOK
<1>6. hist' \in [Conns -> Seq(Messages')] /\ rx' \in [Conns -> Seq(Messages' \cup Users)]
  BY <1>3, <1>4 DEF Insert, TypeOK
<1>7. posting' \in [Conns -> Messages' \cup {0}]
  BY <1>2 DEF Insert, TypeOK
<1>8. since' \in [Conns -> 0 .. Len(author')]
  BY <1>1 DEF Insert, TypeOK, mapVars
<1>9. TypeOK'
  BY <1>1, <1>5, <1>6, <1>7, <1>8 DEF Insert, TypeOK, mapVars
<1>10. /\ UNCHANGED <<user, todo, group_conns>> /\ Len(author') # 0
       /\ pc[c] = "serving" /\ pc'[c] = "inserted" /\ posting'[c] = Len(author')
       /\ \A d \in Conns \ {c} : pc'[d] = pc[d] /\ posting'[d] = posting[d]
  BY <1>2 DEF Insert, TypeOK, mapVars
<1>11. \A u \in Users : group_conns[u] # None => group_conns[u] \in Conns
  BY DEF TypeOK
<1>12. Progress'
  BY <1>10, <1>11 DEF Progress
<1> QED
  BY <1>9, <1>12

\* The rest of the loop, and the end of the handler.
LEMMA TypeServe ==
  ASSUME TypeOK, Progress, NEW c \in Conns,
         Serve(c) \/ End(c) \/ ClientCloses(c)
  PROVE  TypeOK' /\ Progress'
<1> USE DEF Goto, tableVars, mapVars
<1>0. Receivers(c) \in SUBSET Conns /\ c \in Callers
  BY DEF Receivers, TypeOK, Callers
<1>1. CASE Trim(c)
  <2>1. UNCHANGED author /\ db' \in Seq(Messages) /\ missed' \in Nat
    BY <1>1, NewestProperties DEF Trim, TypeOK
  <2>2. TypeOK'
    BY <1>1, <2>1 DEF Trim, TypeOK, Messages
  <2>3. Progress'
    BY <1>1 DEF Trim, TypeOK, Progress
  <2> QED
    BY <2>2, <2>3
<1>2. CASE Tell(c) \/ Part(c)
  <2>1. /\ UNCHANGED <<call, db, author, saved, missed, unread, group_conns, latest, since, user, open, hist, rx, out, posting>>
        /\ todo' = [todo EXCEPT ![c] = Receivers(c)]
        /\ \/ pc[c] = "trimmed" /\ pc' = [pc EXCEPT ![c] = "telling"]
           \/ pc[c] = "removed" /\ pc' = [pc EXCEPT ![c] = "parting"]
    BY <1>2 DEF Tell, Part, Take
  <2>2. TypeOK'
    <3>1. todo' \in [Callers -> SUBSET Conns]
      BY <1>0, <2>1 DEF TypeOK
    <3>2. pc' \in [Conns -> {"idle", "accepted", "registered", "serving", "inserted",
                            "trimmed", "telling", "leaving", "removed", "parting",
                            "gone"}]
      BY <2>1 DEF TypeOK
    <3> QED
      BY <2>1, <3>1, <3>2 DEF TypeOK, Messages
  <2>3. /\ pc'[c] \in {"telling", "parting"} /\ (pc'[c] = "telling" <=> pc[c] = "trimmed")
        /\ \A d \in Conns \ {c} : pc'[d] = pc[d] /\ todo'[d] = todo[d]
    BY <1>0, <2>1 DEF TypeOK
  <2>4. \A u \in Users : group_conns'[u] # None => group_conns[u] \in Conns
    BY <2>1 DEF TypeOK
  <2>5. Progress'
    BY <2>1, <2>3, <2>4 DEF Progress
  <2> QED
    BY <2>2, <2>5
<1>3. CASE Told(c)
  BY <1>3 DEF Told, TypeOK, Progress, Messages
<1>4. CASE Forward(c)
  <2>1. /\ UNCHANGED <<call, db, author, saved, missed, unread, group_conns, latest, since, pc, user, open, hist, rx, posting,
                       todo>>
        /\ out' = [out EXCEPT ![c] = @ + 1]
    BY <1>4 DEF Forward
  <2>2. out' \in [Conns -> Nat]
    BY <2>1 DEF TypeOK
  <2>3. TypeOK'
    BY <2>1, <2>2 DEF TypeOK, Messages
  <2>4. Progress'
    BY <2>1 DEF Progress
  <2> QED
    BY <2>3, <2>4
<1>5. CASE SocketEnds(c) \/ SenderDropped(c)
  <2>1. /\ UNCHANGED <<call, db, author, saved, missed, unread, group_conns, latest, since, user, open, hist, rx, out, posting,
                       todo>>
        /\ pc[c] = "serving" /\ pc' = [pc EXCEPT ![c] = "leaving"]
    BY <1>5 DEF SocketEnds, SenderDropped
  <2>2. TypeOK'
    BY <2>1 DEF TypeOK, Messages
  <2>3. Progress'
    BY <2>1 DEF TypeOK, Progress
  <2> QED
    BY <2>2, <2>3
<1>6. CASE Remove(c)
  <2>1. group_conns' \in [Users -> Conns \cup {None}]
    BY <1>6 DEF Remove, TypeOK
  <2> QED
    BY <1>6, <2>1 DEF Remove, TypeOK, Progress, Messages
<1>7. CASE Parted(c)
  BY <1>7 DEF Parted, TypeOK, Progress, Messages
<1>8. CASE ClientCloses(c)
  BY <1>8 DEF ClientCloses, TypeOK, Progress, Messages
<1> QED
  BY <1>1, <1>2, <1>3, <1>4, <1>5, <1>6, <1>7, <1>8 DEF Serve, End

LEMMA TypeSend ==
  ASSUME TypeOK, Progress, NEW k \in Callers, NEW d \in Conns,
         NEW frame \in Messages \cup Users, Send(k, d, frame)
  PROVE  TypeOK' /\ Progress'
<1>1. Append(rx[d], frame) \in Seq(Messages \cup Users)
  BY Appended DEF TypeOK
<1>2. UNCHANGED author
  BY DEF Send, tableVars
<1> QED
  BY <1>1, <1>2 DEF Send, TypeOK, Progress, Messages, Callers, tableVars, mapVars

\* What a broadcast of a handler sends.
LEMMA Frame ==
  ASSUME TypeOK, Progress, NEW c \in Conns, todo[c] # {}
  PROVE  /\ pc[c] = "telling" => posting[c] \in Messages
         /\ pc[c] # "telling" => user[c] \in Users
BY DEF TypeOK, Progress

LEMMA TypeBroadcast ==
  ASSUME TypeOK, Progress, Broadcast
  PROVE  TypeOK' /\ Progress'
<1>1. ASSUME NEW c \in Conns, NEW d \in Conns,
             Send(c, d, IF pc[c] = "telling" THEN posting[c] ELSE user[c])
      PROVE  TypeOK' /\ Progress'
  <2>1. todo[c] # {}
    BY <1>1 DEF Send
  <2> QED
    BY <1>1, <2>1, Frame, TypeSend DEF Callers
<1>2. ASSUME NEW u \in Users, NEW d \in Conns, Send(u, d, u)
      PROVE  TypeOK' /\ Progress'
  BY <1>2, TypeSend DEF Callers
<1> QED
  BY <1>1, <1>2 DEF Broadcast

LEMMA TypeCall ==
  ASSUME TypeOK, Progress, NEW u \in Users, Announce(u) \/ Answer(u)
  PROVE  TypeOK' /\ Progress'
<1>1. u \in Callers /\ u \notin Conns /\ Receivers(u) \in SUBSET Conns
  BY GroupAssumption DEF Receivers, TypeOK, Callers
<1>2. /\ UNCHANGED <<db, author, saved, missed, unread, group_conns, latest, since, pc, user, open, hist, rx, out, posting>>
      /\ call' \in [Users -> {"before", "telling", "answered"}]
      /\ todo' = todo \/ todo' = [todo EXCEPT ![u] = Receivers(u)]
  BY DEF Announce, Answer, CallStep, Take, TypeOK, mapVars
<1>3. TypeOK'
  BY <1>1, <1>2 DEF TypeOK, Messages
<1>4. Progress'
  BY <1>1, <1>2 DEF TypeOK, Progress, Callers
<1> QED
  BY <1>3, <1>4

LEMMA TypeNext == TypeOK /\ Progress /\ [Next]_vars => TypeOK' /\ Progress'
<1> SUFFICES ASSUME TypeOK, Progress, [Next]_vars PROVE TypeOK' /\ Progress'
  OBVIOUS
<1>1. CASE UNCHANGED vars
  BY <1>1 DEF vars, tableVars, mapVars, connVars, TypeOK, Progress, Messages
<1>2. CASE \E u \in Announced : Announce(u) \/ Answer(u)
  BY <1>2, TypeCall, GroupAssumption
<1> QED
  BY <1>1, <1>2, TypeConnect, TypeInsert, TypeServe, TypeBroadcast DEF Next

\* Types, for any users, connections and bounds: no history frame is longer
\* than history_limit, whatever the table holds.
THEOREM TypeCorrect == Spec => []TypeOK
  BY TypeInit, TypeNext, PTL DEF Spec

-----------------------------------------------------------------------------
(***************************************************************************)
(* The table.  Whichever queries fail, it holds the end of what was ever   *)
(* stored: all of it, or at least HistoryLimit messages.                   *)
(***************************************************************************)

Recent ==
  /\ Len(db) <= Len(saved)
  /\ \A i \in 1 .. Len(db) : db[i] = saved[Len(saved) - Len(db) + i]
  /\ Len(db) = Len(saved) \/ Len(db) >= HistoryLimit

\* Messages are stored in the order of their names.
Ascending ==
  \A i, j \in 1 .. Len(saved) : i < j => saved[i] < saved[j]

Few ==
  /\ IsFiniteSet(Untrimmed)
  /\ Len(db) <= HistoryLimit + Cardinality(Untrimmed) + missed

Table == Recent /\ Ascending /\ Few

LEMMA TableInit == Init => Table
<1> SUFFICES ASSUME Init PROVE Table
  OBVIOUS
<1>1. Len(db) = 0 /\ Len(saved) = 0 /\ missed = 0 /\ HistoryLimit \in Nat
  BY GroupAssumption, EmptySeq DEF Init
<1>2. Untrimmed = {}
  BY DEF Init, Untrimmed
<1>3. IsFiniteSet(Untrimmed) /\ Cardinality(Untrimmed) = 0
  BY <1>2, FS_EmptySet
<1> QED
  BY <1>1, <1>3 DEF Table, Recent, Ascending, Few

LEMMA Lengths ==
  TypeOK => /\ Len(author) \in Nat /\ Len(db) \in Nat /\ Len(saved) \in Nat
            /\ HistoryLimit \in Nat /\ missed \in Nat
            /\ \A c \in Conns : /\ Len(rx[c]) \in Nat /\ Len(hist[c]) \in Nat
                                /\ Len(hist[c]) <= HistoryLimit
  BY GroupAssumption, LenProperties DEF TypeOK

\* A step of one handler.
LEMMA GotoOne ==
  ASSUME TypeOK, NEW c \in Conns, NEW label, Goto(c, label)
  PROVE  pc'[c] = label /\ \A d \in Conns \ {c} : pc'[d] = pc[d]
BY DEF TypeOK, Goto

\* Only INSERTs and DELETEs concern the table.
LEMMA TableSteps ==
  ASSUME TypeOK, [Next]_vars
  PROVE  \/ \E c \in Conns : Insert(c) \/ Trim(c)
         \/ UNCHANGED <<db, author, saved, missed>> /\ Untrimmed' = Untrimmed
<1> USE DEF tableVars, mapVars, connVars
<1>1. ASSUME NEW c \in Conns, NEW label, Goto(c, label), pc[c] # "inserted", label # "inserted"
      PROVE  Untrimmed' = Untrimmed
  BY <1>1, GotoOne DEF Untrimmed
<1>2. ASSUME NEW c \in Conns, (\E u \in Users : Accept(c, u)) \/ Connect(c) \/ End(c)
      PROVE  UNCHANGED <<db, author, saved, missed>> /\ Untrimmed' = Untrimmed
  <2>1. /\ UNCHANGED <<db, author, saved, missed>>
        /\ pc[c] # "inserted"
        /\ \E label \in {"accepted", "gone", "registered", "serving", "removed", "parting"} :
             Goto(c, label)
    BY <1>2 DEF Accept, Connect, Abandon, Register, ReadHistory, End, Remove, Part, Parted
  <2> QED
    BY <1>1, <2>1
<1>3. ASSUME NEW c \in Conns, Tell(c) \/ Told(c) \/ SocketEnds(c) \/ SenderDropped(c)
      PROVE  UNCHANGED <<db, author, saved, missed>> /\ Untrimmed' = Untrimmed
  <2>1. /\ UNCHANGED <<db, author, saved, missed>>
        /\ pc[c] # "inserted"
        /\ \E label \in {"telling", "serving", "leaving"} : Goto(c, label)
    BY <1>3 DEF Tell, Told, SocketEnds, SenderDropped
  <2> QED
    BY <1>1, <2>1
<1>4. ASSUME \/ \E c \in Conns : Forward(c) \/ ClientCloses(c)
             \/ Broadcast
             \/ \E u \in Announced : Announce(u) \/ Answer(u)
             \/ UNCHANGED vars
      PROVE  UNCHANGED <<db, author, saved, missed>> /\ Untrimmed' = Untrimmed
  <2>1. UNCHANGED <<db, author, saved, missed, pc>>
    BY <1>4 DEF Forward, ClientCloses, Broadcast, Send, Announce, Answer, CallStep, vars
  <2>2. Untrimmed' = Untrimmed
    BY <2>1 DEF Untrimmed
  <2> QED
    BY <2>1, <2>2
<1> QED
  BY <1>2, <1>3, <1>4 DEF Next, Serve

\* A message that is stored comes after all that were.
LEMMA TableInsert ==
  ASSUME TypeOK, Table, NEW c \in Conns, Insert(c)
  PROVE  Table'
<1> USE Lengths
<1>1. Len(author') = Len(author) + 1
  BY Appended DEF Insert, TypeOK
<1>2. Untrimmed' = Untrimmed \cup {c} /\ c \notin Untrimmed
  BY DEF Insert, Goto, TypeOK, Untrimmed
<1>3. /\ IsFiniteSet(Untrimmed') /\ Cardinality(Untrimmed') = Cardinality(Untrimmed) + 1
      /\ Cardinality(Untrimmed) \in Nat
  BY <1>2, FS_AddElement, FS_CardinalityType DEF Table, Few
<1>0. UNCHANGED missed
  BY DEF Insert
<1>4. CASE UNCHANGED <<db, saved>>
  BY <1>0, <1>3, <1>4 DEF Table, Recent, Ascending, Few
<1>5. CASE db' = Append(db, Len(author')) /\ saved' = Append(saved, Len(author'))
  <2>1. /\ db \in Seq(Nat) /\ saved \in Seq(Nat) /\ Len(author') \in Nat
        /\ \A i \in 1 .. Len(saved) : saved[i] < Len(author')
    <3>1. Messages \subseteq Nat
      BY DEF Messages
    <3>2. \A i \in 1 .. Len(saved) : saved[i] \in Messages
      BY ElementOfSeq DEF TypeOK
    <3>3. db \in Seq(Nat) /\ saved \in Seq(Nat)
      BY <3>1, SeqMonotonic DEF TypeOK
    <3> QED
      BY <1>1, <3>2, <3>3 DEF Messages
  <2>2. /\ Len(db') = Len(db) + 1 /\ db'[Len(db) + 1] = Len(author')
        /\ \A i \in 1 .. Len(db) : db'[i] = db[i]
    BY <1>5, <2>1, Appended
  <2>3. /\ Len(saved') = Len(saved) + 1 /\ saved'[Len(saved) + 1] = Len(author')
        /\ \A i \in 1 .. Len(saved) : saved'[i] = saved[i]
    BY <1>5, <2>1, Appended
  <2>4. Recent'
    <3>1. /\ Len(db) <= Len(saved)
          /\ \A i \in 1 .. Len(db) : db[i] = saved[Len(saved) - Len(db) + i]
          /\ Len(db) = Len(saved) \/ Len(db) >= HistoryLimit
      BY DEF Table, Recent
    <3>2. ASSUME NEW i \in 1 .. Len(db')
          PROVE  db'[i] = saved'[Len(saved') - Len(db') + i]
      <4>1. Len(saved') - Len(db') + i = Len(saved) - Len(db) + i
        BY <2>2, <2>3
      <4>2. CASE i = Len(db) + 1
        <5>1. Len(saved) - Len(db) + i = Len(saved) + 1
          BY <4>2
        <5> QED
          BY <2>2, <2>3, <4>1, <4>2, <5>1
      <4>3. CASE i \in 1 .. Len(db)
        <5>1. Len(saved) - Len(db) + i \in 1 .. Len(saved)
          BY <3>1, <4>3
        <5> QED
          BY <2>2, <2>3, <3>1, <4>1, <4>3, <5>1
      <4> QED
        BY <2>2, <4>2, <4>3
    <3>3. Len(db') <= Len(saved') /\ (Len(db') = Len(saved') \/ Len(db') >= HistoryLimit)
      BY <2>2, <2>3, <3>1
    <3> QED
      BY <3>2, <3>3 DEF Recent
  <2>5. Ascending'
    <3> SUFFICES ASSUME NEW i \in 1 .. Len(saved'), NEW j \in 1 .. Len(saved'), i < j
                 PROVE  saved'[i] < saved'[j]
      BY DEF Ascending
    <3>1. i \in 1 .. Len(saved) /\ saved'[i] = saved[i]
      BY <2>3
    <3>2. CASE j = Len(saved) + 1
      BY <2>1, <2>3, <3>1, <3>2
    <3>3. CASE j \in 1 .. Len(saved)
      BY <2>3, <3>1, <3>3 DEF Table, Ascending
    <3> QED
      BY <2>3, <3>2, <3>3
  <2>6. Few'
    BY <1>0, <1>3, <2>2 DEF Table, Few
  <2> QED
    BY <2>4, <2>5, <2>6 DEF Table
<1> QED
  BY <1>4, <1>5 DEF Insert

LEMMA TableTrim ==
  ASSUME TypeOK, Table, NEW c \in Conns, Trim(c)
  PROVE  Table'
<1> USE Lengths
<1>1. UNCHANGED saved
  BY DEF Trim
<1>2. Untrimmed' = Untrimmed \ {c}
  BY DEF Trim, Goto, TypeOK, Untrimmed
<1>3. /\ IsFiniteSet(Untrimmed') /\ Cardinality(Untrimmed') \in Nat
      /\ Cardinality(Untrimmed) \in Nat
      /\ Cardinality(Untrimmed) <= Cardinality(Untrimmed') + 1
  <2>1. IsFiniteSet(Untrimmed) /\ c \in Untrimmed /\ Cardinality(Untrimmed) \in Nat
    BY FS_CardinalityType DEF Table, Few, Trim, Untrimmed
  <2>2. /\ IsFiniteSet(Untrimmed \ {c})
        /\ Cardinality(Untrimmed \ {c}) = Cardinality(Untrimmed) - 1
    BY <2>1, FS_RemoveElement
  <2> QED
    BY <1>2, <2>1, <2>2, FS_CardinalityType
<1>4. CASE UNCHANGED db /\ missed' = missed + 1
  BY <1>1, <1>3, <1>4 DEF Table, Recent, Ascending, Few
<1>5. CASE db' = Newest(db) /\ missed' = 0
  <2>1. /\ Len(db') = IF Len(db) > HistoryLimit THEN HistoryLimit ELSE Len(db)
        /\ \A i \in 1 .. Len(db') : db'[i] = db[Len(db) - Len(db') + i]
    BY <1>5, NewestProperties DEF TypeOK
  <2>2. /\ Len(db) <= Len(saved)
        /\ \A i \in 1 .. Len(db) : db[i] = saved[Len(saved) - Len(db) + i]
        /\ Len(db) = Len(saved) \/ Len(db) >= HistoryLimit
    BY DEF Table, Recent
  <2>3. ASSUME NEW i \in 1 .. Len(db')
        PROVE  db'[i] = saved[Len(saved) - Len(db') + i]
    <3>1. Len(db) - Len(db') + i \in 1 .. Len(db)
      BY <2>1
    <3>2. Len(saved) - Len(db) + (Len(db) - Len(db') + i) = Len(saved) - Len(db') + i
      BY <2>1
    <3> QED
      BY <2>1, <2>2, <3>1, <3>2
  <2>4. /\ Len(db') <= Len(saved) /\ Len(db') <= HistoryLimit
        /\ Len(db') = Len(saved) \/ Len(db') >= HistoryLimit
    BY <2>1, <2>2
  <2>5. Recent'
    BY <1>1, <2>3, <2>4 DEF Recent
  <2>6. Few' /\ Ascending'
    <3>1. Len(db') \in Nat
      BY <2>1
    <3> QED
      BY <1>1, <1>3, <1>5, <2>4, <3>1 DEF Table, Few, Ascending
  <2> QED
    BY <2>5, <2>6 DEF Table
<1> QED
  BY <1>4, <1>5, Zenon DEF Trim

LEMMA TableNext ==
  ASSUME TypeOK, Table, [Next]_vars
  PROVE  Table'
<1>1. ASSUME UNCHANGED <<db, author, saved, missed>>, Untrimmed' = Untrimmed
      PROVE  Table'
  BY <1>1 DEF Table, Recent, Ascending, Few
<1> QED
  BY <1>1, TableInsert, TableTrim, TableSteps

LEMMA TableInvariance == Spec => [](TypeOK /\ Progress /\ Table)
<1>1. Init => TypeOK /\ Progress /\ Table
  BY TypeInit, TableInit
<1>2. TypeOK /\ Progress /\ Table /\ [Next]_vars => (TypeOK /\ Progress /\ Table)'
  BY TypeNext, TableNext
<1> QED
  BY <1>1, <1>2, PTL DEF Spec

\* What a SELECT finds is the end of all that was ever stored.
LEMMA NewestKept ==
  ASSUME TypeOK, Recent
  PROVE  Newest(db) = Newest(saved)
<1> DEFINE h == Newest(db)
           g == Newest(saved)
<1>1. /\ h \in Seq(Messages)
      /\ Len(h) = IF Len(db) > HistoryLimit THEN HistoryLimit ELSE Len(db)
      /\ \A i \in 1 .. Len(h) : h[i] = db[Len(db) - Len(h) + i]
  BY NewestProperties DEF TypeOK
<1>2. /\ g \in Seq(Messages)
      /\ Len(g) = IF Len(saved) > HistoryLimit THEN HistoryLimit ELSE Len(saved)
      /\ \A i \in 1 .. Len(g) : g[i] = saved[Len(saved) - Len(g) + i]
  BY NewestProperties DEF TypeOK
<1>3. /\ Len(db) <= Len(saved)
      /\ \A i \in 1 .. Len(db) : db[i] = saved[Len(saved) - Len(db) + i]
      /\ Len(db) = Len(saved) \/ Len(db) >= HistoryLimit
  BY DEF Recent
<1> HIDE DEF h, g
<1>4. Len(h) = Len(g) /\ Len(h) \in Nat /\ Len(h) <= Len(db)
  BY <1>1, <1>2, <1>3, Lengths
<1>5. ASSUME NEW i \in 1 .. Len(h)
      PROVE  h[i] = g[i]
  <2>1. Len(db) - Len(h) + i \in 1 .. Len(db)
    BY <1>4, Lengths
  <2>2. Len(saved) - Len(db) + (Len(db) - Len(h) + i) = Len(saved) - Len(g) + i
    BY <1>4, Lengths
  <2> QED
    BY <1>1, <1>2, <1>3, <1>4, <2>1, <2>2
<1>6. h = g
  BY <1>1, <1>2, <1>4, <1>5, SeqEqual
<1> QED
  BY <1>6 DEF h, g

\* However many handlers insert and trim at once, and whichever of their
\* queries fail, no message of the newest HistoryLimit stored is deleted, and
\* the table is longer only by a row for each handler between the two
\* statements and for each DELETE that failed since one succeeded.
THEOREM TrimmingIsSafe == Spec => []HistoryKept
<1>1. TypeOK /\ Table => HistoryKept
  BY NewestKept DEF HistoryKept, Table, Few
<1> QED
  BY <1>1, TableInvariance, PTL

-----------------------------------------------------------------------------
(***************************************************************************)
(* The steps that concern neither a message nor a channel.                 *)
(***************************************************************************)

AtWork == {"inserted", "trimmed", "telling", "registered"}

Quiet ==
  /\ UNCHANGED <<author, saved, unread, since, hist, rx, posting>>
  /\ \A p \in Conns : pc[p] \in AtWork => pc'[p] = pc[p] /\ todo'[p] = todo[p]
  /\ \A u \in Users : group_conns'[u] \in {group_conns[u], None}

LEMMA Kinds ==
  ASSUME TypeOK, [Next]_vars
  PROVE  \/ \E c \in Conns : \/ Register(c) \/ ReadHistory(c)
                             \/ Insert(c) \/ Trim(c) \/ Tell(c) \/ Told(c)
         \/ Broadcast
         \/ Quiet
<1> USE DEF tableVars, mapVars, connVars
<1>1. ASSUME NEW c \in Conns, NEW label, Goto(c, label), pc[c] \notin AtWork,
             UNCHANGED <<author, saved, unread, since, hist, rx, posting>>,
             \A d \in Conns \ {c} : todo'[d] = todo[d],
             \A u \in Users : group_conns'[u] \in {group_conns[u], None}
      PROVE  Quiet
  BY <1>1, GotoOne DEF Quiet
<1>2. ASSUME NEW c \in Conns,
             (\E u \in Users : Accept(c, u)) \/ Abandon(c) \/ SocketEnds(c) \/ SenderDropped(c)
             \/ Parted(c)
      PROVE  Quiet
  <2>1. /\ UNCHANGED <<author, saved, unread, since, hist, rx, posting, todo, group_conns>>
        /\ pc[c] \notin AtWork
        /\ \E label \in {"accepted", "gone", "leaving"} : Goto(c, label)
    BY <1>2 DEF Accept, Abandon, SocketEnds, SenderDropped, Parted, AtWork
  <2> QED
    BY <1>1, <2>1
<1>3. ASSUME NEW c \in Conns, Remove(c)
      PROVE  Quiet
  <2>1. /\ UNCHANGED <<author, saved, unread, since, hist, rx, posting, todo>>
        /\ pc[c] \notin AtWork /\ Goto(c, "removed")
    BY <1>3 DEF Remove, AtWork
  <2>2. \A u \in Users : group_conns'[u] \in {group_conns[u], None}
    BY <1>3 DEF Remove, TypeOK
  <2> QED
    BY <1>1, <2>1, <2>2
<1>4. ASSUME NEW c \in Conns, Part(c)
      PROVE  Quiet
  <2>1. /\ UNCHANGED <<author, saved, unread, since, hist, rx, posting, group_conns>>
        /\ pc[c] \notin AtWork /\ Goto(c, "parting")
    BY <1>4 DEF Part, AtWork
  <2>2. \A d \in Conns \ {c} : todo'[d] = todo[d]
    BY <1>4 DEF Part, Take, TypeOK, Callers
  <2> QED
    BY <1>1, <2>1, <2>2
<1>5. ASSUME \E u \in Announced : Announce(u) \/ Answer(u)
      PROVE  Quiet
  <2>1. PICK u \in Users : Announce(u) \/ Answer(u)
    BY <1>5, GroupAssumption
  <2>2. UNCHANGED <<author, saved, unread, since, hist, rx, posting, group_conns, pc>>
    BY <2>1 DEF Announce, Answer, CallStep
  <2>3. \A d \in Conns : todo'[d] = todo[d]
    BY <2>1, GroupAssumption DEF Announce, Answer, Take, TypeOK, Callers
  <2> QED
    BY <2>2, <2>3 DEF Quiet
<1>6. ASSUME (\E c \in Conns : Forward(c) \/ ClientCloses(c)) \/ UNCHANGED vars
      PROVE  Quiet
  <2>1. UNCHANGED <<author, saved, unread, since, hist, rx, posting, group_conns, pc, todo>>
    BY <1>6 DEF Forward, ClientCloses, vars
  <2> QED
    BY <2>1 DEF Quiet
<1> QED
  BY <1>2, <1>3, <1>4, <1>5, <1>6 DEF Next, Connect, Serve, End

LEMMA HasAppend ==
  ASSUME NEW S, NEW s \in Seq(S), NEW e \in S
  PROVE  \A x : Has(Append(s, e), x) <=> Has(s, x) \/ x = e
BY Appended DEF Has

\* What a step of broadcast does.
LEMMA Sending ==
  ASSUME TypeOK, Progress, Broadcast
  PROVE  \E k \in Callers, d \in Conns, frame \in Messages \cup Users :
           /\ Send(k, d, frame)
           /\ k \in Conns /\ pc[k] = "telling" => frame = posting[k]
           /\ k \notin Conns \/ pc[k] # "telling" => frame \in Users
<1>1. ASSUME NEW c \in Conns, NEW d \in Conns,
             Send(c, d, IF pc[c] = "telling" THEN posting[c] ELSE user[c])
      PROVE  \E frame \in Messages \cup Users :
               /\ Send(c, d, frame)
               /\ pc[c] = "telling" => frame = posting[c]
               /\ pc[c] # "telling" => frame \in Users
  <2>1. todo[c] # {}
    BY <1>1 DEF Send
  <2>2. CASE pc[c] = "telling"
    <3>1. Send(c, d, posting[c]) /\ posting[c] \in Messages
      BY <1>1, <2>1, <2>2, Frame
    <3> QED
      BY <2>2, <3>1
  <2>3. CASE pc[c] # "telling"
    <3>1. Send(c, d, user[c]) /\ user[c] \in Users
      BY <1>1, <2>1, <2>3, Frame
    <3> QED
      BY <2>3, <3>1
  <2> QED
    BY <2>2, <2>3
<1>2. ASSUME NEW u \in Users, NEW d \in Conns, Send(u, d, u)
      PROVE  u \in Callers /\ u \notin Conns
  BY GroupAssumption DEF Callers
<1>3. CASE \E c \in Conns, d \in Conns :
             Send(c, d, IF pc[c] = "telling" THEN posting[c] ELSE user[c])
  <2>1. PICK c \in Conns, d \in Conns :
             Send(c, d, IF pc[c] = "telling" THEN posting[c] ELSE user[c])
    BY <1>3
  <2>2. PICK frame \in Messages \cup Users :
               /\ Send(c, d, frame)
               /\ pc[c] = "telling" => frame = posting[c]
               /\ pc[c] # "telling" => frame \in Users
    BY <1>1, <2>1
  <2> QED
    BY <2>2 DEF Callers
<1>4. CASE \E u \in Users, d \in Conns : Send(u, d, u)
  BY <1>2, <1>4
<1> QED
  BY <1>3, <1>4 DEF Broadcast

-----------------------------------------------------------------------------
(***************************************************************************)
(* Order.  A handler works on the last message posted on its connection,   *)
(* which no channel holds that its broadcast has yet to reach.             *)
(***************************************************************************)

Own ==
  \A p \in Conns : posting[p] # 0 =>
    /\ author[posting[p]] = p
    /\ \A n \in Messages : author[n] = p => n <= posting[p]

Unsent ==
  \A p, d \in Conns :
    posting[p] # 0 /\ (pc[p] # "telling" \/ d \in todo[p]) => ~Has(rx[d], posting[p])

Ordered == Own /\ Unsent /\ SenderOrder

LEMMA OrderedInit == Init => Ordered
<1> SUFFICES ASSUME Init PROVE Ordered
  OBVIOUS
<1>1. \A c \in Conns : Len(rx[c]) = 0 /\ posting[c] = 0
  BY EmptySeq DEF Init
<1> QED
  BY <1>1 DEF Ordered, Own, Unsent, SenderOrder

\* Nothing is put into a channel, and no handler turns to another message.
LEMMA OrderedKept ==
  ASSUME Ordered, UNCHANGED <<author, rx>>,
         \A p \in Conns : \/ posting'[p] = 0
                          \/ /\ posting'[p] = posting[p]
                             /\ \/ pc[p] # "telling"
                                \/ pc'[p] = "telling" /\ todo'[p] = todo[p]
  PROVE  Ordered'
<1>1. Own'
  BY DEF Ordered, Own, Messages
<1>2. Unsent'
  BY DEF Ordered, Unsent
<1>3. SenderOrder'
  BY DEF Ordered, SenderOrder, Messages
<1> QED
  BY <1>1, <1>2, <1>3 DEF Ordered

LEMMA OrderedInsert ==
  ASSUME TypeOK, Progress, Ordered, NEW c \in Conns, Insert(c)
  PROVE  Ordered'
<1> USE Lengths DEF Ordered
<1>1. /\ Len(author') = Len(author) + 1 /\ author'[Len(author')] = c
      /\ \A n \in Messages : author'[n] = author[n]
  BY Appended DEF Insert, TypeOK, Messages
<1>2. /\ Messages' = Messages \cup {Len(author')} /\ Len(author') \in Nat
      /\ \A n \in Messages : n < Len(author')
  BY <1>1 DEF Messages
<1>3. /\ posting[c] = 0 /\ posting'[c] = Len(author')
      /\ \A p \in Conns \ {c} : posting'[p] = posting[p] /\ pc'[p] = pc[p]
      /\ UNCHANGED <<rx, todo>>
  BY DEF Insert, TypeOK, Progress, Goto
<1>4. \A p \in Conns : posting[p] # 0 => posting[p] \in Messages
  BY DEF TypeOK
<1>5. \A d \in Conns : \A i \in 1 .. Len(rx[d]) : rx[d][i] \in Messages \cup Users
  BY ElementOfSeq DEF TypeOK
<1>6. Len(author') \notin Messages \cup Users
  BY <1>2, GroupAssumption
<1>7. Own'
  <2> SUFFICES ASSUME NEW p \in Conns, posting'[p] # 0
               PROVE  /\ author'[posting'[p]] = p
                      /\ \A n \in Messages' : author'[n] = p => n <= posting'[p]
    BY DEF Own
  <2>1. CASE p = c
    <3>1. \A n \in Messages' : n <= Len(author')
      BY <1>1 DEF Messages
    <3> QED
      BY <1>1, <1>3, <2>1, <3>1
  <2>2. CASE p # c
    BY <1>1, <1>2, <1>3, <1>4, <2>2 DEF Own
  <2> QED
    BY <2>1, <2>2
<1>8. Unsent'
  <2> SUFFICES ASSUME NEW p \in Conns, NEW d \in Conns, posting'[p] # 0,
                      pc'[p] # "telling" \/ d \in todo'[p]
               PROVE  ~Has(rx[d], posting'[p])
    BY <1>3 DEF Unsent
  <2>1. CASE p = c
    BY <1>3, <1>5, <1>6, <2>1 DEF Has
  <2>2. CASE p # c
    BY <1>3, <2>2 DEF Unsent
  <2> QED
    BY <2>1, <2>2
<1>9. SenderOrder'
  <2>0. rx' = rx
    BY <1>3
  <2> SUFFICES ASSUME NEW d \in Conns, NEW i \in 1 .. Len(rx[d]), NEW j \in 1 .. Len(rx[d]),
                      i < j, rx[d][i] \in Messages', rx[d][j] \in Messages',
                      author'[rx[d][i]] = author'[rx[d][j]]
               PROVE  rx[d][i] < rx[d][j]
    BY <2>0 DEF SenderOrder
  <2>1. rx[d][i] \in Messages /\ rx[d][j] \in Messages
    BY <1>2, <1>5, <1>6
  <2>2. author[rx[d][i]] = author[rx[d][j]]
    BY <1>1, <2>1
  <2> QED
    BY <2>1, <2>2 DEF SenderOrder
<1> QED
  BY <1>7, <1>8, <1>9

LEMMA OrderedSend ==
  ASSUME TypeOK, Progress, Ordered, Broadcast
  PROVE  Ordered'
<1> USE Lengths DEF Ordered
<1>0. PICK k \in Callers, d \in Conns, frame \in Messages \cup Users :
           /\ Send(k, d, frame)
           /\ k \in Conns /\ pc[k] = "telling" => frame = posting[k]
           /\ k \notin Conns \/ pc[k] # "telling" => frame \in Users
  BY Sending
<1>1. /\ UNCHANGED <<author, posting, pc>> /\ d \in todo[k]
      /\ rx'[d] = Append(rx[d], frame)
      /\ \A e \in Conns \ {d} : rx'[e] = rx[e]
      /\ todo'[k] = todo[k] \ {d}
      /\ \A q \in Callers \ {k} : todo'[q] = todo[q]
  BY <1>0 DEF Send, TypeOK, tableVars
<1>2. /\ Len(rx'[d]) = Len(rx[d]) + 1 /\ rx'[d][Len(rx[d]) + 1] = frame
      /\ \A i \in 1 .. Len(rx[d]) : rx'[d][i] = rx[d][i]
      /\ \A x : Has(rx'[d], x) <=> Has(rx[d], x) \/ x = frame
  <2>1. rx[d] \in Seq(Messages \cup Users)
    BY DEF TypeOK
  <2> QED
    BY <1>1, <2>1, Appended, HasAppend
<1>3. Messages \cap Users = {}
  BY GroupAssumption DEF Messages
<1>4. Own'
  BY <1>1 DEF Own, Messages
<1>5. Unsent'
  <2> SUFFICES ASSUME NEW p \in Conns, NEW e \in Conns, posting[p] # 0,
                      pc[p] # "telling" \/ e \in todo'[p]
               PROVE  ~Has(rx'[e], posting[p])
    BY <1>1 DEF Unsent
  <2>1. ~Has(rx[e], posting[p])
    BY <1>1 DEF Unsent, Callers
  <2>2. e = d => posting[p] # frame
    <3> SUFFICES ASSUME e = d, posting[p] = frame PROVE FALSE
      OBVIOUS
    <3>1. frame \in Messages /\ frame \notin Users
      BY <1>3 DEF TypeOK
    <3>2. k \in Conns /\ pc[k] = "telling" /\ frame = posting[k] /\ frame # 0
      BY <1>0, <3>1
    <3>3. p = k
      BY <3>2 DEF Own
    <3> QED
      BY <1>1, <3>2, <3>3
  <2> QED
    BY <1>1, <1>2, <2>1, <2>2
<1>6. SenderOrder'
  <2> SUFFICES ASSUME NEW e \in Conns, NEW i \in 1 .. Len(rx'[e]), NEW j \in 1 .. Len(rx'[e]),
                      i < j, rx'[e][i] \in Messages, rx'[e][j] \in Messages,
                      author[rx'[e][i]] = author[rx'[e][j]]
               PROVE  rx'[e][i] < rx'[e][j]
    BY <1>1 DEF SenderOrder, Messages
  <2>1. CASE e # d
    BY <1>1, <2>1 DEF SenderOrder
  <2>2. CASE e = d /\ j <= Len(rx[d])
    <3>1. /\ i \in 1 .. Len(rx[d]) /\ j \in 1 .. Len(rx[d])
          /\ rx'[e][i] = rx[d][i] /\ rx'[e][j] = rx[d][j]
      BY <1>2, <2>2
    <3> QED
      BY <3>1 DEF SenderOrder
  <2>3. CASE e = d /\ j = Len(rx[d]) + 1
    <3>0. i \in 1 .. Len(rx[d])
      BY <2>3
    <3>1. /\ i \in 1 .. Len(rx[d]) /\ rx'[e][i] = rx[d][i] /\ rx'[e][j] = frame
      BY <1>2, <2>3, <3>0
    <3>2. k \in Conns /\ pc[k] = "telling" /\ frame = posting[k] /\ frame # 0
      <4>1. frame \in Messages /\ frame \notin Users /\ frame # 0
        BY <1>3, <2>3, <3>1 DEF Messages
      <4> QED
        BY <1>0, <4>1
    <3>3. rx[d][i] <= frame
      BY <3>1, <3>2 DEF Own
    <3>4. rx[d][i] # frame
      BY <1>1, <3>1, <3>2 DEF Unsent, Has
    <3> QED
      BY <3>1, <3>3, <3>4 DEF Messages
  <2> QED
    BY <1>2, <2>1, <2>2, <2>3
<1> QED
  BY <1>4, <1>5, <1>6

LEMMA OrderedNext ==
  ASSUME TypeOK, Progress, Ordered, [Next]_vars
  PROVE  Ordered'
<1>1. CASE Quiet
  <2>1. \A p \in Conns : \/ pc[p] # "telling"
                         \/ pc'[p] = "telling" /\ todo'[p] = todo[p]
    BY <1>1 DEF Quiet, AtWork
  <2> QED
    BY <1>1, <2>1, OrderedKept DEF Quiet
<1>2. ASSUME NEW c \in Conns, Register(c) \/ ReadHistory(c) \/ Trim(c)
      PROVE  Ordered'
  <2>1. /\ UNCHANGED <<author, rx, posting, todo>> /\ pc[c] # "telling"
        /\ \E label \in {"registered", "serving", "trimmed"} : Goto(c, label)
    BY <1>2 DEF Register, ReadHistory, Trim, tableVars
  <2>2. \A p \in Conns : p # c => pc'[p] = pc[p]
    BY <2>1, GotoOne
  <2> QED
    BY <2>1, <2>2, OrderedKept
<1>3. ASSUME NEW c \in Conns, Tell(c)
      PROVE  Ordered'
  <2>1. /\ UNCHANGED <<author, rx, posting>> /\ pc[c] # "telling" /\ Goto(c, "telling")
        /\ \A p \in Conns \ {c} : todo'[p] = todo[p]
    BY <1>3 DEF Tell, Take, TypeOK, Callers, tableVars
  <2>2. \A p \in Conns : p # c => pc'[p] = pc[p]
    BY <2>1, GotoOne
  <2> QED
    BY <2>1, <2>2, OrderedKept
<1>4. ASSUME NEW c \in Conns, Told(c)
      PROVE  Ordered'
  <2>1. /\ UNCHANGED <<author, rx, todo>> /\ Goto(c, "serving")
        /\ posting'[c] = 0 /\ \A p \in Conns \ {c} : posting'[p] = posting[p]
    BY <1>4 DEF Told, TypeOK, tableVars
  <2>2. \A p \in Conns : p # c => pc'[p] = pc[p]
    BY <2>1, GotoOne
  <2> QED
    BY <2>1, <2>2, OrderedKept
<1> QED
  BY <1>1, <1>2, <1>3, <1>4, Kinds, OrderedInsert, OrderedSend

-----------------------------------------------------------------------------
(***************************************************************************)
(* No gap.  What a connection in the map that has read the history has not *)
(* received is being worked on, by a handler that will still send it there.*)
(***************************************************************************)

InMap(c) == \E u \in Users : group_conns[u] = c

Pending(c, n) ==
  \E p \in Conns :
    /\ posting[p] = n
    /\ \/ pc[p] \in {"inserted", "trimmed"}
       \/ pc[p] = "telling" /\ c \in todo[p]

Heard ==
  \A c \in Conns, n \in Messages :
    InMap(c) =>
      /\ n > since[c] => Has(rx[c], n) \/ Pending(c, n)
      /\ Has(saved, n) /\ pc[c] # "registered" /\ c \notin unread
           => Received(c, n) \/ Pending(c, n)

LEMMA HeardInit == Init => Heard
  BY GroupAssumption DEF Init, Heard, InMap

\* Nobody enters the map or reads the history, nothing is posted and no
\* pending message is given up.
LEMMA HeardKept ==
  ASSUME Heard, UNCHANGED <<author, saved, unread, since, hist>>,
         \A c \in Conns : InMap(c)' => InMap(c),
         \A c \in Conns : pc[c] = "registered" => pc'[c] = "registered",
         \A c \in Conns, n \in Messages :
           /\ Has(rx[c], n) => Has(rx'[c], n)
           /\ InMap(c) /\ Pending(c, n) => Pending(c, n)' \/ Has(rx'[c], n)
  PROVE  Heard'
<1> SUFFICES ASSUME NEW c \in Conns, NEW n \in Messages, InMap(c)'
             PROVE  /\ n > since[c] => Has(rx'[c], n) \/ Pending(c, n)'
                    /\ Has(saved, n) /\ pc'[c] # "registered" /\ c \notin unread
                         => Received(c, n)' \/ Pending(c, n)'
  BY DEF Heard, Messages
<1>1. /\ InMap(c)
      /\ Has(rx[c], n) => Has(rx'[c], n)
      /\ Pending(c, n) => Pending(c, n)' \/ Has(rx'[c], n)
      /\ pc'[c] # "registered" => pc[c] # "registered"
  OBVIOUS
<1>2. Received(c, n) => Received(c, n)'
  BY <1>1 DEF Received
<1>3. Has(rx'[c], n) => Received(c, n)'
  BY DEF Received
<1>4. /\ n > since[c] => Has(rx[c], n) \/ Pending(c, n)
      /\ Has(saved, n) /\ pc[c] # "registered" /\ c \notin unread
           => Received(c, n) \/ Pending(c, n)
  BY <1>1 DEF Heard
<1> QED
  BY <1>1, <1>2, <1>3, <1>4

LEMMA HeardRead ==
  ASSUME TypeOK, Table, NEW n \in Messages, Has(saved, n)
  PROVE  \/ Has(Newest(db), n)
         \/ /\ Len(Newest(db)) = HistoryLimit
            /\ \A i \in 1 .. HistoryLimit : n < Newest(db)[i]
<1> DEFINE h == Newest(saved)
           first == Len(saved) - Len(h)
<1>1. /\ Len(h) = IF Len(saved) > HistoryLimit THEN HistoryLimit ELSE Len(saved)
      /\ \A i \in 1 .. Len(h) : h[i] = saved[first + i]
  BY NewestProperties DEF TypeOK
<1>2. Newest(db) = h
  BY NewestKept DEF Table
<1>3. PICK j \in 1 .. Len(saved) : saved[j] = n
  BY DEF Has
<1> HIDE DEF h
<1>4. CASE j > first
  <2>1. j - first \in 1 .. Len(h) /\ first + (j - first) = j
    BY <1>1, <1>4, Lengths
  <2>2. h[j - first] = n
    BY <1>1, <1>3, <2>1
  <2> QED
    BY <1>2, <2>1, <2>2 DEF Has
<1>5. CASE j <= first
  <2>1. Len(h) = HistoryLimit
    BY <1>1, <1>5, Lengths
  <2>2. ASSUME NEW i \in 1 .. HistoryLimit
        PROVE  n < h[i]
    <3>1. first + i \in 1 .. Len(saved) /\ j < first + i
      BY <1>5, <2>1, Lengths
    <3>2. saved[j] < saved[first + i]
      BY <3>1 DEF Table, Ascending
    <3> QED
      BY <1>1, <1>3, <2>1, <3>2
  <2> QED
    BY <1>2, <2>1, <2>2
<1> QED
  BY <1>1, <1>4, <1>5, Lengths

\* Nothing has been posted since, or the history is what the SELECT finds.
LEMMA HeardEnter ==
  ASSUME TypeOK, Table, Heard, NEW c \in Conns, Register(c) \/ ReadHistory(c)
  PROVE  Heard'
<1>1. /\ UNCHANGED <<author, saved, rx, posting, todo>>
      /\ pc[c] \in {"accepted", "registered"}
      /\ \E label \in {"registered", "serving"} : Goto(c, label)
  BY DEF Register, ReadHistory, tableVars
<1>2. \A p \in Conns \ {c} : pc'[p] = pc[p]
  BY <1>1, GotoOne
<1> SUFFICES ASSUME NEW d \in Conns, NEW n \in Messages, InMap(d)'
             PROVE  /\ n > since'[d] => Has(rx[d], n) \/ Pending(d, n)'
                    /\ Has(saved, n) /\ pc'[d] # "registered" /\ d \notin unread'
                         => Received(d, n)' \/ Pending(d, n)'
  BY <1>1 DEF Heard, Messages
<1>3. ASSUME Pending(d, n) PROVE Pending(d, n)'
  <2>1. PICK p \in Conns : /\ posting[p] = n
                           /\ \/ pc[p] \in {"inserted", "trimmed"}
                              \/ pc[p] = "telling" /\ d \in todo[p]
    BY <1>3 DEF Pending
  <2>2. p # c
    BY <1>1, <2>1
  <2>3. pc'[p] = pc[p]
    BY <1>2, <2>2
  <2> QED
    BY <1>1, <2>1, <2>3 DEF Pending
<1>4. CASE d = c /\ Register(c)
  <2>1. pc'[c] = "registered"
    BY <1>4, GotoOne DEF Register
  <2>2. since'[c] = Len(author)
    BY <1>4 DEF Register, TypeOK
  <2>3. ~ n > Len(author)
    BY Lengths DEF Messages
  <2> QED
    BY <1>4, <2>1, <2>2, <2>3
<1>5. CASE d = c /\ ReadHistory(c)
  <2>1. since' = since /\ group_conns' = group_conns
    BY <1>5 DEF ReadHistory, mapVars
  <2>2. n > since'[d] => Has(rx[d], n) \/ Pending(d, n)
    BY <2>1 DEF Heard, InMap
  <2>3. c \notin unread' => hist'[c] = Newest(db)
    BY <1>5 DEF ReadHistory, TypeOK
  <2>4. ASSUME Has(saved, n), c \notin unread'
        PROVE  Received(c, n)'
    BY <2>3, <2>4, HeardRead DEF Received
  <2> QED
    BY <1>3, <1>5, <2>2, <2>4
<1>6. CASE d # c
  <2>1. /\ hist'[d] = hist[d] /\ since'[d] = since[d]
        /\ d \notin unread' => d \notin unread
    BY <1>6 DEF Register, ReadHistory, TypeOK, tableVars, mapVars
  <2>2. pc'[d] = pc[d]
    BY <1>2, <1>6
  <2>3. InMap(d)
    BY <1>6 DEF InMap, Register, ReadHistory, TypeOK, mapVars
  <2>4. /\ n > since[d] => Has(rx[d], n) \/ Pending(d, n)
        /\ Has(saved, n) /\ pc[d] # "registered" /\ d \notin unread
             => Received(d, n) \/ Pending(d, n)
    BY <2>3 DEF Heard
  <2>5. Received(d, n) => Received(d, n)'
    BY <1>1, <2>1 DEF Received
  <2> QED
    BY <1>3, <2>1, <2>2, <2>4, <2>5
<1> QED
  BY <1>4, <1>5, <1>6

LEMMA HeardInsert ==
  ASSUME TypeOK, Progress, Heard, NEW c \in Conns, Insert(c)
  PROVE  Heard'
<1>1. /\ Messages' = Messages \cup {Len(author')} /\ Len(author') \in Nat
      /\ UNCHANGED <<rx, hist, todo, group_conns, since, unread>>
      /\ pc[c] = "serving" /\ pc'[c] = "inserted" /\ posting'[c] = Len(author')
      /\ \A p \in Conns \ {c} : pc'[p] = pc[p] /\ posting'[p] = posting[p]
  <2>1. Len(author') = Len(author) + 1 /\ Len(author) \in Nat
    BY Appended DEF Insert, TypeOK
  <2> QED
    BY <2>1 DEF Insert, TypeOK, Goto, mapVars, Messages
<1>2. \A x : Has(saved', x) => Has(saved, x) \/ x = Len(author')
  <2>1. saved \in Seq(Nat)
    <3>1. Messages \subseteq Nat
      BY DEF Messages
    <3> QED
      BY <3>1, SeqMonotonic DEF TypeOK
  <2>2. saved' = saved \/ saved' = Append(saved, Len(author'))
    BY DEF Insert
  <2>3. Len(author') \in Nat
    BY <1>1
  <2>4. \A x : Has(Append(saved, Len(author')), x) <=> Has(saved, x) \/ x = Len(author')
    BY <2>1, <2>3, HasAppend
  <2> QED
    BY <2>2, <2>4
<1> SUFFICES ASSUME NEW d \in Conns, NEW n \in Messages', InMap(d)'
             PROVE  /\ n > since[d] => Has(rx[d], n) \/ Pending(d, n)'
                    /\ Has(saved', n) /\ pc'[d] # "registered" /\ d \notin unread
                         => Received(d, n)' \/ Pending(d, n)'
  BY <1>1 DEF Heard
<1>3. CASE n = Len(author')
  BY <1>1, <1>3 DEF Pending
<1>4. CASE n \in Messages /\ n # Len(author')
  <2>1. InMap(d) /\ (pc'[d] # "registered" => pc[d] # "registered")
    BY <1>1 DEF InMap
  <2>2. /\ n > since[d] => Has(rx[d], n) \/ Pending(d, n)
        /\ Has(saved, n) /\ pc[d] # "registered" /\ d \notin unread
             => Received(d, n) \/ Pending(d, n)
    BY <1>4, <2>1 DEF Heard
  <2>3. Received(d, n) => Received(d, n)'
    BY <1>1 DEF Received
  <2>4. ASSUME Pending(d, n)
        PROVE  Pending(d, n)'
    <3>1. PICK p \in Conns : /\ posting[p] = n
                             /\ \/ pc[p] \in {"inserted", "trimmed"}
                                \/ pc[p] = "telling" /\ d \in todo[p]
      BY <2>4 DEF Pending
    <3>2. p # c
      BY <1>1, <3>1
    <3> QED
      BY <1>1, <3>1, <3>2 DEF Pending
  <2> QED
    BY <1>2, <1>4, <2>1, <2>2, <2>3, <2>4
<1> QED
  BY <1>1, <1>3, <1>4

LEMMA HeardTell ==
  ASSUME TypeOK, Progress, Heard, NEW c \in Conns, Trim(c) \/ Tell(c) \/ Told(c)
  PROVE  Heard'
<1>1. /\ UNCHANGED <<author, saved, unread, since, rx, hist, group_conns>>
      /\ pc[c] \in {"inserted", "trimmed", "telling"}
      /\ \E label \in {"trimmed", "telling", "serving"} : Goto(c, label)
  BY DEF Trim, Tell, Told, tableVars, mapVars
<1>2. \A p \in Conns \ {c} : pc'[p] = pc[p] /\ todo'[p] = todo[p] /\ posting'[p] = posting[p]
  BY <1>1, GotoOne DEF Trim, Tell, Told, Take, TypeOK, Callers
<1>3. ASSUME NEW d \in Conns, NEW n \in Messages, InMap(d), Pending(d, n)
      PROVE  Pending(d, n)'
  <2>1. PICK p \in Conns : /\ posting[p] = n
                           /\ \/ pc[p] \in {"inserted", "trimmed"}
                              \/ pc[p] = "telling" /\ d \in todo[p]
    BY <1>3 DEF Pending
  <2>2. CASE p # c
    BY <1>2, <2>1, <2>2 DEF Pending
  <2>3. CASE p = c /\ Trim(c)
    <3>1. pc'[c] = "trimmed" /\ posting'[c] = n
      BY <2>1, <2>3, GotoOne DEF Trim
    <3> QED
      BY <3>1 DEF Pending
  <2>4. CASE p = c /\ Tell(c)
    <3>1. pc'[c] = "telling" /\ posting'[c] = n /\ todo'[c] = Receivers(c)
      BY <2>1, <2>4, GotoOne DEF Tell, Take, TypeOK, Callers
    <3>2. d \in Receivers(c)
      BY <1>3, GroupAssumption DEF InMap, Receivers
    <3> QED
      BY <3>1, <3>2 DEF Pending
  <2>5. CASE p = c /\ Told(c)
    BY <2>1, <2>5 DEF Told
  <2> QED
    BY <2>2, <2>3, <2>4, <2>5
<1>4. \A d \in Conns, n \in Messages : Has(rx[d], n) => Has(rx'[d], n)
  BY <1>1
<1>5. \A d \in Conns : InMap(d)' => InMap(d)
  BY <1>1 DEF InMap
<1>6. \A d \in Conns : pc[d] = "registered" => pc'[d] = "registered"
  BY <1>1, <1>2
<1> QED
  BY <1>1, <1>3, <1>4, <1>5, <1>6, HeardKept

LEMMA HeardSend ==
  ASSUME TypeOK, Progress, Heard, Broadcast
  PROVE  Heard'
<1>0. PICK k \in Callers, d \in Conns, frame \in Messages \cup Users :
           /\ Send(k, d, frame)
           /\ k \in Conns /\ pc[k] = "telling" => frame = posting[k]
           /\ k \notin Conns \/ pc[k] # "telling" => frame \in Users
  BY Sending
<1>1. /\ UNCHANGED <<author, saved, unread, since, posting, pc, hist, group_conns>>
      /\ rx'[d] = Append(rx[d], frame)
      /\ \A e \in Conns \ {d} : rx'[e] = rx[e]
      /\ todo'[k] = todo[k] \ {d}
      /\ \A q \in Callers \ {k} : todo'[q] = todo[q]
  BY <1>0 DEF Send, TypeOK, tableVars, mapVars
<1>2. \A x : Has(rx'[d], x) <=> Has(rx[d], x) \/ x = frame
  <2>1. rx[d] \in Seq(Messages \cup Users)
    BY DEF TypeOK
  <2> QED
    BY <1>1, <2>1, HasAppend
<1>3. \A e \in Conns, n \in Messages : Has(rx[e], n) => Has(rx'[e], n)
  BY <1>1, <1>2
<1>4. ASSUME NEW e \in Conns, NEW n \in Messages, Pending(e, n)
      PROVE  Pending(e, n)' \/ Has(rx'[e], n)
  <2>1. PICK p \in Conns : /\ posting[p] = n
                           /\ \/ pc[p] \in {"inserted", "trimmed"}
                              \/ pc[p] = "telling" /\ e \in todo[p]
    BY <1>4 DEF Pending
  <2>2. CASE p = k /\ e = d /\ pc[p] = "telling"
    BY <1>0, <1>2, <2>1, <2>2
  <2>3. CASE pc[p] \in {"inserted", "trimmed"}
    BY <1>1, <2>1, <2>3 DEF Pending
  <2>4. CASE pc[p] = "telling" /\ e \in todo[p] /\ ~(p = k /\ e = d)
    <3>1. e \in todo'[p]
      BY <1>1, <2>4 DEF Callers
    <3> QED
      BY <1>1, <2>1, <2>4, <3>1 DEF Pending
  <2> QED
    BY <2>1, <2>2, <2>3, <2>4
<1>5. \A e \in Conns : (InMap(e)' => InMap(e)) /\ (pc[e] = "registered" => pc'[e] = "registered")
  BY <1>1 DEF InMap
<1> QED
  BY <1>1, <1>3, <1>4, <1>5, HeardKept

LEMMA HeardNext ==
  ASSUME TypeOK, Progress, Table, Heard, [Next]_vars
  PROVE  Heard'
<1>1. CASE Quiet
  <2>1. /\ UNCHANGED <<author, saved, unread, since, hist, rx, posting>>
        /\ \A p \in Conns : pc[p] \in AtWork => pc'[p] = pc[p] /\ todo'[p] = todo[p]
    BY <1>1 DEF Quiet
  <2>2. \A c \in Conns : InMap(c)' => InMap(c)
    BY <1>1, GroupAssumption DEF Quiet, InMap
  <2>3. \A c \in Conns, n \in Messages : Has(rx[c], n) => Has(rx'[c], n)
    BY <2>1
  <2>4. \A c \in Conns, n \in Messages : Pending(c, n) => Pending(c, n)'
    BY <2>1 DEF Pending, AtWork
  <2>5. \A c \in Conns : pc[c] = "registered" => pc'[c] = "registered"
    BY <2>1 DEF AtWork
  <2> QED
    BY <2>1, <2>2, <2>3, <2>4, <2>5, HeardKept
<1> QED
  BY <1>1, Kinds, HeardEnter, HeardInsert, HeardTell, HeardSend

-----------------------------------------------------------------------------
(***************************************************************************)
(* The inductive invariant, and what follows from it.                      *)
(***************************************************************************)

IInv == TypeOK /\ Progress /\ Table /\ Ordered /\ Heard

LEMMA Invariance == Spec => []IInv
<1>1. Init => IInv
  BY TypeInit, TableInit, OrderedInit, HeardInit DEF IInv
<1>2. IInv /\ [Next]_vars => IInv'
  BY TypeNext, TableNext, OrderedNext, HeardNext DEF IInv
<1> QED
  BY <1>1, <1>2, PTL DEF Spec

\* Messages posted on one connection reach every channel in the order of
\* posting and at most once, however many broadcasts run at the same time.
THEOREM OrderIsKept == Spec => []SenderOrder
  BY Invariance, PTL DEF IInv, Ordered

\* A client in the map has received live every message posted since it was
\* registered, and nothing that was stored falls between the history it was
\* sent and its live messages, whoever posts, trims, connects and is replaced in
\* the meantime and whichever queries fail.
THEOREM NothingMissed == Spec => []NoGap
<1>1. IInv => NoGap
  <2> SUFFICES ASSUME IInv, NEW c \in Conns, NEW n \in Messages \ InFlight, InMap(c)
               PROVE  /\ n > since[c] => Has(rx[c], n)
                      /\ Has(saved, n) /\ pc[c] # "registered" /\ c \notin unread
                           => Received(c, n)
    BY DEF NoGap, InMap
  <2>1. /\ n > since[c] => Has(rx[c], n) \/ Pending(c, n)
        /\ Has(saved, n) /\ pc[c] # "registered" /\ c \notin unread
             => Received(c, n) \/ Pending(c, n)
    BY DEF IInv, Heard
  <2>2. ~Pending(c, n)
    BY DEF Pending, InFlight
  <2> QED
    BY <2>1, <2>2
<1> QED
  BY <1>1, Invariance, PTL
=============================================================================
