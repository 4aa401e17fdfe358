------------------------ MODULE RelaySessions_proof -------------------------
(***************************************************************************)
(* Proofs about RelaySessions, for every number of sessions, users and     *)
(* connections: its type invariant, and the safety invariants that follow  *)
(* from the inductive invariant IInv.                                      *)
(***************************************************************************)
EXTENDS RelaySessions, FiniteSetTheorems, TLAPS

-----------------------------------------------------------------------------
(***************************************************************************)
(* The inductive invariant.                                                *)
(***************************************************************************)

\* A session the caller of create has not been told about is in use nowhere.
UnknownIsUnused ==
  /\ \A s \in Sessions : create[s] # "created" =>
       /\ s \notin relay_init
       /\ returned[s] = {}
       /\ \A c \in Conns : sid[c] # s
  /\ \A j \in Joiners : want[j] # None => create[want[j]] = "created"

\* Where a connection is in its handler tells what it asked for.
Role ==
  \A c \in Conns :
    /\ pc[c] # "idle" => sid[c] \in Sessions
    /\ pc[c] \in {"cloned", "removed", "upgrading", "waiting", "ponging", "linked"}
         => token[c] = "A"
    /\ pc[c] = "taken" \/ pc[c] = "joined" => peer[c] # None

\* An entry belongs to a creator of its session that is not linked.
EntryOwner ==
  \A s \in Sessions : relay_pending[s] # None =>
    /\ sid[relay_pending[s]] = s
    /\ token[relay_pending[s]] = "A"
    /\ pc[relay_pending[s]] \in {"upgrading", "waiting", "ponging", "gone"}

\* What a joiner has taken is a creator's entry, no longer in the map.
PeerTaken ==
  \A d \in Conns : peer[d] # None =>
    /\ pc[d] \in {"taken", "joined", "gone"}
    /\ token[d] = "B"
    /\ token[peer[d]] = "A"
    /\ pc[peer[d]] \in {"upgrading", "waiting", "ponging", "linked", "gone"}
    /\ sid[d] \in Sessions
    /\ sid[peer[d]] = sid[d]
    /\ relay_pending[sid[d]] # peer[d]

\* A permit comes from a joiner that has started.
PermitHasPeer ==
  \A c \in joiner_ready :
    \E d \in Conns : peer[d] = c /\ pc[d] \in {"joined", "gone"}

\* A creator is linked only once the joiner that took its entry has started.
LinkedHasPeer ==
  \A c \in Conns : pc[c] = "linked" =>
    \E d \in Conns : peer[d] = c /\ pc[d] \in {"joined", "gone"}

\* A notification that comes before the creator waits is kept.
NoLostWakeup ==
  \A d \in Conns :
    pc[d] = "joined" /\ pc[peer[d]] \in {"upgrading", "waiting", "ponging"}
      => peer[d] \in joiner_ready

\* token_b is out only for a session with a recorded joiner.
TokenBAudited ==
  /\ \A s \in Sessions : returned[s] # {} => joiner_id[s] # None
  /\ \A c \in Conns : pc[c] # "idle" /\ token[c] = "B" => returned[sid[c]] # {}

IInv ==
  /\ TypeOK
  /\ UnknownIsUnused
  /\ Role
  /\ LeftInitForGood
  /\ EntryOwner
  /\ PeerTaken
  /\ OneToOne
  /\ PermitHasPeer
  /\ LinkedHasPeer
  /\ NoLostWakeup
  /\ TokenBAudited
  /\ JoinerIsAudited

\* The sessions that count against max_sessions, or are on their way to.
InUse == InProgress \cup relay_init \cup PendingSessions

\* They are finitely many: fewer than the limit and the most sessions that
\* were in progress at one time.
Counted ==
  /\ IsFiniteSet(InUse)
  /\ MaxSessions > 0 => Cardinality(InUse) < MaxSessions + peak

-----------------------------------------------------------------------------
(***************************************************************************)
(* Every step preserves it, one handler at a time.                         *)
(***************************************************************************)

\* The initial states satisfy the inductive invariant.
LEMMA InitInv == Init => IInv
  BY RelayAssumption DEF Init, IInv, TypeOK, UnknownIsUnused, Role,
       LeftInitForGood, EntryOwner, PeerTaken, OneToOne, PermitHasPeer,
       LinkedHasPeer, NoLostWakeup, TokenBAudited, JoinerIsAudited,
       CreateState, JoinState, ConnState, Grace

\* Initially no session is in use.
LEMMA InitCounted == Init => Counted
<1> SUFFICES ASSUME Init
             PROVE  Counted
  OBVIOUS
<1>1. InUse = {}
  BY DEF Init, InUse, InProgress, PendingSessions
<1> QED
  BY <1>1, FS_EmptySet, RelayAssumption DEF Init, Counted

\* Counting the requests in progress ends, and the record grows with it.
LEMMA CheckRecords ==
  ASSUME IInv, Counted, NEW s \in Sessions, CreateCheck(s)
  PROVE  /\ IsFiniteSet(InProgress')
         /\ peak' \in Nat /\ peak' >= peak /\ peak' >= Cardinality(InProgress')
<1>1. InProgress' \subseteq InUse \cup {s}
  BY DEF CreateCheck, mapVars, connVars, IInv, TypeOK, InProgress, InUse, PendingSessions
<1>2. IsFiniteSet(InUse \cup {s})
  BY FS_AddElement DEF Counted
<1>3. IsFiniteSet(InProgress')
  BY <1>1, <1>2, FS_Subset
<1>4. Cardinality(InProgress') \in Nat
  BY <1>3, FS_CardinalityType
<1> QED
  BY <1>3, <1>4 DEF CreateCheck, Recorded, IInv, TypeOK

\* POST /relay/create and POST /relay/join.
LEMMA CallInv ==
  ASSUME IInv, Counted, Call
  PROVE  IInv'
<1>1. ASSUME NEW s \in Sessions, CreateCheck(s)
      PROVE  IInv'
  <2>1. TypeOK'
    BY <1>1, CheckRecords DEF IInv, TypeOK, CreateCheck, mapVars, connVars, CreateState
  <2>2. UnknownIsUnused'
    BY <1>1 DEF IInv, UnknownIsUnused, TypeOK, CreateCheck, mapVars, connVars
  <2>3. (Role /\ LeftInitForGood /\ EntryOwner /\ PeerTaken /\ OneToOne /\
        PermitHasPeer /\ LinkedHasPeer /\ NoLostWakeup /\ TokenBAudited /\
        JoinerIsAudited)'
    BY <1>1 DEF IInv, Role, LeftInitForGood, EntryOwner, PeerTaken, OneToOne,
         PermitHasPeer, LinkedHasPeer, NoLostWakeup, TokenBAudited,
         JoinerIsAudited, CreateCheck, mapVars, connVars
  <2> QED
    BY <2>1, <2>2, <2>3 DEF IInv
<1>2. ASSUME NEW s \in Sessions, CreatePersist(s)
      PROVE  IInv'
  <2>1. TypeOK'
    BY <1>2 DEF IInv, TypeOK, CreatePersist, mapVars, connVars, CreateState
  <2>2. UnknownIsUnused'
    BY <1>2 DEF IInv, UnknownIsUnused, CreatePersist, mapVars, connVars
  <2>3. (Role /\ LeftInitForGood /\ EntryOwner /\ PeerTaken /\ OneToOne /\
        PermitHasPeer /\ LinkedHasPeer /\ NoLostWakeup /\ TokenBAudited /\
        JoinerIsAudited)'
    BY <1>2 DEF IInv, Role, LeftInitForGood, EntryOwner, PeerTaken, OneToOne,
         PermitHasPeer, LinkedHasPeer, NoLostWakeup, TokenBAudited,
         JoinerIsAudited, CreatePersist, mapVars, connVars
  <2> QED
    BY <2>1, <2>2, <2>3 DEF IInv
<1>3. ASSUME NEW s \in Sessions, CreateInsert(s)
      PROVE  IInv'
  <2>1. TypeOK'
    BY <1>3, RelayAssumption DEF IInv, TypeOK, CreateInsert, connVars,
         CreateState, Grace
  <2>2. UnknownIsUnused'
    BY <1>3 DEF IInv, UnknownIsUnused, TypeOK, CreateInsert, connVars
  <2>3. LeftInitForGood'
    BY <1>3 DEF IInv, LeftInitForGood, TypeOK, UnknownIsUnused, EntryOwner,
         CreateInsert, connVars
  <2>4. (Role /\ EntryOwner /\ PeerTaken /\ OneToOne /\ PermitHasPeer /\
        LinkedHasPeer /\ NoLostWakeup /\ TokenBAudited /\ JoinerIsAudited)'
    BY <1>3 DEF IInv, Role, EntryOwner, PeerTaken, OneToOne, PermitHasPeer,
         LinkedHasPeer, NoLostWakeup, TokenBAudited, JoinerIsAudited,
         CreateInsert, connVars
  <2> QED
    BY <2>1, <2>2, <2>3, <2>4 DEF IInv
<1>4. ASSUME NEW s \in Sessions, CreateAbort(s)
      PROVE  IInv'
  <2>1. TypeOK'
    BY <1>4 DEF IInv, TypeOK, CreateAbort, mapVars, connVars, CreateState
  <2>2. UnknownIsUnused'
    BY <1>4 DEF IInv, UnknownIsUnused, CreateAbort, mapVars, connVars
  <2>3. (Role /\ LeftInitForGood /\ EntryOwner /\ PeerTaken /\ OneToOne /\
        PermitHasPeer /\ LinkedHasPeer /\ NoLostWakeup /\ TokenBAudited /\
        JoinerIsAudited)'
    BY <1>4 DEF IInv, Role, LeftInitForGood, EntryOwner, PeerTaken, OneToOne,
         PermitHasPeer, LinkedHasPeer, NoLostWakeup, TokenBAudited,
         JoinerIsAudited, CreateAbort, mapVars, connVars
  <2> QED
    BY <2>1, <2>2, <2>3 DEF IInv
<1>5. ASSUME NEW j \in Joiners, NEW s \in Sessions, JoinRead(j, s)
      PROVE  IInv'
  <2>1. TypeOK'
    BY <1>5 DEF IInv, TypeOK, JoinRead, mapVars, connVars, JoinState
  <2>2. UnknownIsUnused'
    BY <1>5 DEF IInv, UnknownIsUnused, JoinRead, mapVars, connVars
  <2>3. (Role /\ LeftInitForGood /\ EntryOwner /\ PeerTaken /\ OneToOne /\
        PermitHasPeer /\ LinkedHasPeer /\ NoLostWakeup /\ TokenBAudited /\
        JoinerIsAudited)'
    BY <1>5 DEF IInv, Role, LeftInitForGood, EntryOwner, PeerTaken, OneToOne,
         PermitHasPeer, LinkedHasPeer, NoLostWakeup, TokenBAudited,
         JoinerIsAudited, JoinRead, mapVars, connVars
  <2> QED
    BY <2>1, <2>2, <2>3 DEF IInv
<1>6. ASSUME NEW j \in Joiners, JoinRecord(j)
      PROVE  IInv'
  <2>1. TypeOK'
    <3>1. joiner_id' \in [Sessions -> Joiners \cup {None}]
      BY <1>6 DEF IInv, TypeOK, JoinRecord
    <3>2. returned' \in [Sessions -> SUBSET Joiners]
      BY <1>6 DEF IInv, TypeOK, JoinRecord
    <3>3. join' \in [Joiners -> JoinState]
      BY <1>6 DEF IInv, TypeOK, JoinRecord, JoinState
    <3> QED
      BY <1>6, <3>1, <3>2, <3>3 DEF IInv, TypeOK, JoinRecord, mapVars, connVars
  <2>2. UnknownIsUnused'
    BY <1>6, RelayAssumption DEF IInv, UnknownIsUnused, TypeOK, JoinRecord,
         mapVars, connVars
  <2>3. TokenBAudited'
    BY <1>6, RelayAssumption DEF IInv, TokenBAudited, TypeOK, Role,
         JoinRecord, connVars
  <2>4. JoinerIsAudited'
    BY <1>6, RelayAssumption DEF IInv, JoinerIsAudited, JoinRecord, connVars
  <2>5. (Role /\ LeftInitForGood /\ EntryOwner /\ PeerTaken /\ OneToOne /\
        PermitHasPeer /\ LinkedHasPeer /\ NoLostWakeup)'
    BY <1>6 DEF IInv, Role, LeftInitForGood, EntryOwner, PeerTaken, OneToOne,
         PermitHasPeer, LinkedHasPeer, NoLostWakeup, JoinRecord, mapVars,
         connVars
  <2> QED
    BY <2>1, <2>2, <2>3, <2>4, <2>5 DEF IInv
<1>7. ASSUME NEW j \in Joiners, JoinAbort(j)
      PROVE  IInv'
  <2>1. TypeOK'
    BY <1>7 DEF IInv, TypeOK, JoinAbort, mapVars, connVars, JoinState
  <2>2. (UnknownIsUnused /\ Role /\ LeftInitForGood /\ EntryOwner /\ PeerTaken
        /\ OneToOne /\ PermitHasPeer /\ LinkedHasPeer /\ NoLostWakeup /\
        TokenBAudited /\ JoinerIsAudited)'
    BY <1>7 DEF IInv, UnknownIsUnused, Role, LeftInitForGood, EntryOwner,
         PeerTaken, OneToOne, PermitHasPeer, LinkedHasPeer, NoLostWakeup,
         TokenBAudited, JoinerIsAudited, JoinAbort, mapVars, connVars
  <2> QED
    BY <2>1, <2>2 DEF IInv
<1> QED
  BY <1>1, <1>2, <1>3, <1>4, <1>5, <1>6, <1>7 DEF Call

\* GET /relay/{id}: the request.
LEMMA LookupInv ==
  ASSUME IInv, NEW c \in Conns, NEW s \in Sessions, NEW t \in {"A", "B"},
         WsLookup(c, s, t)
  PROVE  IInv'
<1>1. TypeOK'
  BY DEF IInv, TypeOK, WsLookup, callVars, mapVars, ConnState
<1>2. UnknownIsUnused'
  BY DEF IInv, UnknownIsUnused, WsLookup, Issued, callVars, mapVars
<1>3. Role'
  BY DEF IInv, Role, TypeOK, WsLookup
<1>4. LeftInitForGood'
  BY DEF IInv, LeftInitForGood, TypeOK, WsLookup, mapVars
<1>5. EntryOwner'
  BY DEF IInv, EntryOwner, TypeOK, WsLookup, mapVars
<1>6. PeerTaken'
  BY DEF IInv, PeerTaken, TypeOK, WsLookup, mapVars
<1>7. OneToOne'
  BY DEF IInv, OneToOne, PeerTaken, WsLookup
<1>8. PermitHasPeer'
  BY DEF IInv, PermitHasPeer, TypeOK, WsLookup
<1>9. LinkedHasPeer'
  BY DEF IInv, LinkedHasPeer, TypeOK, WsLookup
<1>10. NoLostWakeup'
  BY DEF IInv, NoLostWakeup, TypeOK, Role, WsLookup
<1>11. TokenBAudited'
  BY DEF IInv, TokenBAudited, TypeOK, WsLookup, Issued, callVars
<1>12. JoinerIsAudited'
  BY DEF IInv, JoinerIsAudited, PeerTaken, WsLookup, callVars
<1> QED
  BY <1>1, <1>2, <1>3, <1>4, <1>5, <1>6, <1>7, <1>8, <1>9, <1>10, <1>11,
       <1>12 DEF IInv

\* The handler of a connection, up to and including its upgrade.
LEMMA SetupInv ==
  ASSUME IInv, NEW c \in Conns,
         WsRemoveInit(c) \/ WsInsertPending(c) \/ WsTakePending(c) \/ WsAbandon(c)
  PROVE  IInv'
<1>1. ASSUME WsRemoveInit(c)
      PROVE  IInv'
  <2>1. TypeOK'
    <3>0. 0 \in 0 .. Grace
      BY RelayAssumption DEF Grace
    <3>1. init_age' \in [Sessions -> 0 .. Grace]
      BY <1>1, <3>0 DEF IInv, TypeOK, WsRemoveInit
    <3>2. relay_init' \in SUBSET Sessions /\ pc' \in [Conns -> ConnState]
      BY <1>1 DEF IInv, TypeOK, WsRemoveInit, ConnState
    <3> QED
      BY <1>1, <3>1, <3>2 DEF IInv, TypeOK, WsRemoveInit, callVars
  <2>2. UnknownIsUnused'
    BY <1>1 DEF IInv, UnknownIsUnused, WsRemoveInit, callVars
  <2>3. Role'
    BY <1>1 DEF IInv, Role, WsRemoveInit
  <2>4. LeftInitForGood'
    BY <1>1 DEF IInv, LeftInitForGood, WsRemoveInit
  <2>5. EntryOwner'
    BY <1>1 DEF IInv, EntryOwner, WsRemoveInit
  <2>6. PeerTaken'
    BY <1>1 DEF IInv, PeerTaken, WsRemoveInit
  <2>7. PermitHasPeer'
    BY <1>1 DEF IInv, PermitHasPeer, WsRemoveInit
  <2>8. LinkedHasPeer'
    BY <1>1 DEF IInv, LinkedHasPeer, WsRemoveInit
  <2>9. NoLostWakeup'
    BY <1>1 DEF IInv, NoLostWakeup, WsRemoveInit
  <2>10. TokenBAudited'
    BY <1>1 DEF IInv, TokenBAudited, WsRemoveInit, callVars
  <2>11. (OneToOne /\ JoinerIsAudited)'
    BY <1>1 DEF IInv, OneToOne, JoinerIsAudited, WsRemoveInit, callVars
  <2> QED
    BY <2>1, <2>2, <2>3, <2>4, <2>5, <2>6, <2>7, <2>8, <2>9, <2>10, <2>11 DEF
         IInv
<1>2. ASSUME WsInsertPending(c)
      PROVE  IInv'
  <2>1. TypeOK'
    BY <1>2 DEF IInv, TypeOK, Role, WsInsertPending, callVars, ConnState
  <2>2. Role'
    BY <1>2 DEF IInv, Role, WsInsertPending
  <2>3. LeftInitForGood'
    BY <1>2 DEF IInv, LeftInitForGood, WsInsertPending
  <2>4. EntryOwner'
    BY <1>2 DEF IInv, EntryOwner, TypeOK, Role, WsInsertPending
  <2>5. PeerTaken'
    BY <1>2 DEF IInv, PeerTaken, WsInsertPending
  <2>6. PermitHasPeer'
    BY <1>2 DEF IInv, PermitHasPeer, WsInsertPending
  <2>7. LinkedHasPeer'
    BY <1>2 DEF IInv, LinkedHasPeer, WsInsertPending
  <2>8. NoLostWakeup'
    BY <1>2, RelayAssumption DEF IInv, NoLostWakeup, PeerTaken,
         WsInsertPending
  <2>9. TokenBAudited'
    BY <1>2 DEF IInv, TokenBAudited, WsInsertPending, callVars
  <2>10. (UnknownIsUnused /\ OneToOne /\ JoinerIsAudited)'
    BY <1>2 DEF IInv, UnknownIsUnused, OneToOne, JoinerIsAudited,
         WsInsertPending, callVars
  <2> QED
    BY <2>1, <2>2, <2>3, <2>4, <2>5, <2>6, <2>7, <2>8, <2>9, <2>10 DEF IInv
<1>3. ASSUME WsTakePending(c)
      PROVE  IInv'
  <2>1. TypeOK'
    BY <1>3 DEF IInv, TypeOK, Role, WsTakePending, TakePending, callVars,
         ConnState
  <2>2. Role'
    BY <1>3 DEF IInv, Role, TypeOK, WsTakePending
  <2>3. LeftInitForGood'
    BY <1>3 DEF IInv, LeftInitForGood, TypeOK, WsTakePending, TakePending
  <2>4. EntryOwner'
    BY <1>3 DEF IInv, EntryOwner, TypeOK, WsTakePending, TakePending
  <2>5. PeerTaken'
    BY <1>3 DEF IInv, PeerTaken, TypeOK, Role, EntryOwner, WsTakePending,
         TakePending
  <2>6. OneToOne'
    BY <1>3 DEF IInv, OneToOne, TypeOK, Role, EntryOwner, PeerTaken,
         WsTakePending
  <2>7. PermitHasPeer'
    BY <1>3 DEF IInv, PermitHasPeer, TypeOK, WsTakePending
  <2>8. LinkedHasPeer'
    BY <1>3 DEF IInv, LinkedHasPeer, TypeOK, WsTakePending
  <2>9. NoLostWakeup'
    BY <1>3 DEF IInv, NoLostWakeup, TypeOK, Role, WsTakePending
  <2>10. TokenBAudited'
    BY <1>3 DEF IInv, TokenBAudited, TypeOK, WsTakePending, callVars
  <2>11. JoinerIsAudited'
    BY <1>3 DEF IInv, JoinerIsAudited, TypeOK, Role, TokenBAudited,
         WsTakePending, callVars
  <2>12. UnknownIsUnused'
    BY <1>3 DEF IInv, UnknownIsUnused, WsTakePending, callVars
  <2> QED
    BY <2>1, <2>2, <2>3, <2>4, <2>5, <2>6, <2>7, <2>8, <2>9, <2>10, <2>11,
         <2>12 DEF IInv
<1>4. ASSUME WsAbandon(c)
      PROVE  IInv'
  <2>1. TypeOK'
    BY <1>4 DEF IInv, TypeOK, WsAbandon, callVars, mapVars, ConnState
  <2>2. Role'
    BY <1>4 DEF IInv, Role, WsAbandon, SettingUp
  <2>3. LeftInitForGood'
    BY <1>4 DEF IInv, LeftInitForGood, WsAbandon, mapVars
  <2>4. EntryOwner'
    BY <1>4 DEF IInv, EntryOwner, WsAbandon, mapVars
  <2>5. PeerTaken'
    BY <1>4 DEF IInv, PeerTaken, WsAbandon, mapVars
  <2>6. PermitHasPeer'
    BY <1>4 DEF IInv, PermitHasPeer, WsAbandon
  <2>7. LinkedHasPeer'
    BY <1>4 DEF IInv, LinkedHasPeer, WsAbandon
  <2>8. NoLostWakeup'
    BY <1>4 DEF IInv, NoLostWakeup, WsAbandon
  <2>9. TokenBAudited'
    BY <1>4 DEF IInv, TokenBAudited, WsAbandon, SettingUp, callVars
  <2>10. (UnknownIsUnused /\ OneToOne /\ JoinerIsAudited)'
    BY <1>4 DEF IInv, UnknownIsUnused, OneToOne, JoinerIsAudited, WsAbandon,
         callVars, mapVars
  <2> QED
    BY <2>1, <2>2, <2>3, <2>4, <2>5, <2>6, <2>7, <2>8, <2>9, <2>10 DEF IInv
<1> QED
  BY <1>1, <1>2, <1>3, <1>4

\* creator_ws and joiner_ws, and what the client does to them.
LEMMA SocketInv ==
  ASSUME IInv, NEW c \in Conns,
         \/ CreatorStart(c) \/ JoinerStart(c) \/ CreatorNotified(c)
         \/ CreatorPinged(c) \/ PongDone(c)
         \/ CreatorLeaves(c) \/ RelayEnds(c) \/ OtherFrame(c) \/ ClientCloses(c)
  PROVE  IInv'
<1>1. ASSUME CreatorStart(c)
      PROVE  IInv'
  <2>1. TypeOK'
    BY <1>1, RelayAssumption DEF IInv, TypeOK, CreatorStart, callVars,
         mapVars, ConnState
  <2>2. Role'
    BY <1>1 DEF IInv, Role, CreatorStart
  <2>3. LeftInitForGood'
    BY <1>1 DEF IInv, LeftInitForGood, CreatorStart, mapVars
  <2>4. EntryOwner'
    BY <1>1 DEF IInv, EntryOwner, CreatorStart, mapVars
  <2>5. PeerTaken'
    BY <1>1 DEF IInv, PeerTaken, CreatorStart, mapVars
  <2>6. PermitHasPeer'
    BY <1>1 DEF IInv, PermitHasPeer, CreatorStart
  <2>7. LinkedHasPeer'
    BY <1>1 DEF IInv, LinkedHasPeer, CreatorStart
  <2>8. NoLostWakeup'
    BY <1>1 DEF IInv, NoLostWakeup, CreatorStart
  <2>9. TokenBAudited'
    BY <1>1 DEF IInv, TokenBAudited, CreatorStart, callVars
  <2>10. (UnknownIsUnused /\ OneToOne /\ JoinerIsAudited)'
    BY <1>1 DEF IInv, UnknownIsUnused, OneToOne, JoinerIsAudited,
         CreatorStart, callVars, mapVars
  <2> QED
    BY <2>1, <2>2, <2>3, <2>4, <2>5, <2>6, <2>7, <2>8, <2>9, <2>10 DEF IInv
<1>2. ASSUME JoinerStart(c)
      PROVE  IInv'
  <2>1. TypeOK'
    BY <1>2 DEF IInv, TypeOK, Role, JoinerStart, NotifyOne, callVars, mapVars,
         ConnState
  <2>2. Role'
    BY <1>2 DEF IInv, Role, JoinerStart
  <2>3. LeftInitForGood'
    BY <1>2 DEF IInv, LeftInitForGood, JoinerStart, mapVars
  <2>4. EntryOwner'
    BY <1>2 DEF IInv, EntryOwner, JoinerStart, mapVars
  <2>5. PeerTaken'
    BY <1>2 DEF IInv, PeerTaken, JoinerStart, mapVars
  <2>6. PermitHasPeer'
    BY <1>2 DEF IInv, PermitHasPeer, TypeOK, JoinerStart, NotifyOne
  <2>7. LinkedHasPeer'
    BY <1>2 DEF IInv, LinkedHasPeer, JoinerStart
  <2>8. NoLostWakeup'
    BY <1>2 DEF IInv, NoLostWakeup, JoinerStart, NotifyOne
  <2>9. TokenBAudited'
    BY <1>2 DEF IInv, TokenBAudited, JoinerStart, callVars
  <2>10. (UnknownIsUnused /\ OneToOne /\ JoinerIsAudited)'
    BY <1>2 DEF IInv, UnknownIsUnused, OneToOne, JoinerIsAudited, JoinerStart,
         callVars, mapVars
  <2> QED
    BY <2>1, <2>2, <2>3, <2>4, <2>5, <2>6, <2>7, <2>8, <2>9, <2>10 DEF IInv
<1>3. ASSUME CreatorNotified(c)
      PROVE  IInv'
  <2>1. TypeOK'
    BY <1>3, RelayAssumption DEF IInv, TypeOK, CreatorNotified, callVars, mapVars,
         ConnState
  <2>2. Role'
    BY <1>3 DEF IInv, Role, CreatorNotified
  <2>3. LeftInitForGood'
    BY <1>3 DEF IInv, LeftInitForGood, CreatorNotified, mapVars
  <2>4. EntryOwner'
    BY <1>3 DEF IInv, EntryOwner, PeerTaken, PermitHasPeer, CreatorNotified,
         mapVars
  <2>5. PeerTaken'
    BY <1>3 DEF IInv, PeerTaken, CreatorNotified, mapVars
  <2>6. PermitHasPeer'
    BY <1>3 DEF IInv, PermitHasPeer, CreatorNotified
  <2>7. LinkedHasPeer'
    BY <1>3 DEF IInv, LinkedHasPeer, PermitHasPeer, CreatorNotified
  <2>8. NoLostWakeup'
    BY <1>3 DEF IInv, NoLostWakeup, TypeOK, CreatorNotified
  <2>9. TokenBAudited'
    BY <1>3 DEF IInv, TokenBAudited, CreatorNotified, callVars
  <2>10. (UnknownIsUnused /\ OneToOne /\ JoinerIsAudited)'
    BY <1>3 DEF IInv, UnknownIsUnused, OneToOne, JoinerIsAudited,
         CreatorNotified, callVars, mapVars
  <2> QED
    BY <2>1, <2>2, <2>3, <2>4, <2>5, <2>6, <2>7, <2>8, <2>9, <2>10 DEF IInv
<1>4. ASSUME CreatorLeaves(c)
      PROVE  IInv'
  <2>1. TypeOK'
    BY <1>4, RelayAssumption DEF IInv, TypeOK, Role, CreatorLeaves, callVars, ConnState
  <2>2. Role'
    BY <1>4 DEF IInv, Role, CreatorLeaves
  <2>3. LeftInitForGood'
    BY <1>4 DEF IInv, LeftInitForGood, CreatorLeaves
  <2>4. EntryOwner'
    BY <1>4 DEF IInv, EntryOwner, CreatorLeaves
  <2>5. PeerTaken'
    BY <1>4 DEF IInv, PeerTaken, CreatorLeaves
  <2>6. PermitHasPeer'
    BY <1>4 DEF IInv, PermitHasPeer, CreatorLeaves
  <2>7. LinkedHasPeer'
    BY <1>4 DEF IInv, LinkedHasPeer, CreatorLeaves
  <2>8. NoLostWakeup'
    BY <1>4 DEF IInv, NoLostWakeup, CreatorLeaves
  <2>9. TokenBAudited'
    BY <1>4 DEF IInv, TokenBAudited, CreatorLeaves, callVars
  <2>10. (UnknownIsUnused /\ OneToOne /\ JoinerIsAudited)'
    BY <1>4 DEF IInv, UnknownIsUnused, OneToOne, JoinerIsAudited,
         CreatorLeaves, callVars
  <2> QED
    BY <2>1, <2>2, <2>3, <2>4, <2>5, <2>6, <2>7, <2>8, <2>9, <2>10 DEF IInv
<1>5. ASSUME RelayEnds(c)
      PROVE  IInv'
  <2>1. TypeOK'
    BY <1>5 DEF IInv, TypeOK, RelayEnds, callVars, mapVars, ConnState
  <2>2. Role'
    BY <1>5 DEF IInv, Role, RelayEnds
  <2>3. LeftInitForGood'
    BY <1>5 DEF IInv, LeftInitForGood, RelayEnds, mapVars
  <2>4. EntryOwner'
    BY <1>5 DEF IInv, EntryOwner, RelayEnds, mapVars
  <2>5. PeerTaken'
    BY <1>5 DEF IInv, PeerTaken, RelayEnds, mapVars
  <2>6. PermitHasPeer'
    BY <1>5 DEF IInv, PermitHasPeer, RelayEnds
  <2>7. LinkedHasPeer'
    BY <1>5 DEF IInv, LinkedHasPeer, RelayEnds
  <2>8. NoLostWakeup'
    BY <1>5 DEF IInv, NoLostWakeup, RelayEnds
  <2>9. TokenBAudited'
    BY <1>5 DEF IInv, TokenBAudited, RelayEnds, callVars
  <2>10. (UnknownIsUnused /\ OneToOne /\ JoinerIsAudited)'
    BY <1>5 DEF IInv, UnknownIsUnused, OneToOne, JoinerIsAudited, RelayEnds,
         callVars, mapVars
  <2> QED
    BY <2>1, <2>2, <2>3, <2>4, <2>5, <2>6, <2>7, <2>8, <2>9, <2>10 DEF IInv
<1>6. ASSUME OtherFrame(c)
      PROVE  IInv'
  <2>1. TypeOK'
    BY <1>6 DEF IInv, TypeOK, OtherFrame, callVars, mapVars, ConnState
  <2>2. Role'
    BY <1>6 DEF IInv, Role, OtherFrame
  <2>3. LeftInitForGood'
    BY <1>6 DEF IInv, LeftInitForGood, OtherFrame, mapVars
  <2>4. EntryOwner'
    BY <1>6 DEF IInv, EntryOwner, OtherFrame, mapVars
  <2>5. PeerTaken'
    BY <1>6 DEF IInv, PeerTaken, OtherFrame, mapVars
  <2>6. PermitHasPeer'
    BY <1>6 DEF IInv, PermitHasPeer, OtherFrame
  <2>7. LinkedHasPeer'
    BY <1>6 DEF IInv, LinkedHasPeer, OtherFrame
  <2>8. NoLostWakeup'
    BY <1>6 DEF IInv, NoLostWakeup, OtherFrame
  <2>9. TokenBAudited'
    BY <1>6 DEF IInv, TokenBAudited, OtherFrame, callVars
  <2>10. (UnknownIsUnused /\ OneToOne /\ JoinerIsAudited)'
    BY <1>6 DEF IInv, UnknownIsUnused, OneToOne, JoinerIsAudited, OtherFrame,
         callVars, mapVars
  <2> QED
    BY <2>1, <2>2, <2>3, <2>4, <2>5, <2>6, <2>7, <2>8, <2>9, <2>10 DEF IInv
<1>7. ASSUME ClientCloses(c)
      PROVE  IInv'
  <2>1. TypeOK'
    BY <1>7 DEF IInv, TypeOK, ClientCloses, callVars, mapVars
  <2>2. (UnknownIsUnused /\ Role /\ LeftInitForGood /\ EntryOwner /\ PeerTaken
        /\ OneToOne /\ PermitHasPeer /\ LinkedHasPeer /\ NoLostWakeup /\
        TokenBAudited /\ JoinerIsAudited)'
    BY <1>7 DEF IInv, UnknownIsUnused, Role, LeftInitForGood, EntryOwner,
         PeerTaken, OneToOne, PermitHasPeer, LinkedHasPeer, NoLostWakeup,
         TokenBAudited, JoinerIsAudited, ClientCloses, callVars, mapVars
  <2> QED
    BY <2>1, <2>2 DEF IInv
<1>8. ASSUME CreatorPinged(c) \/ PongDone(c)
      PROVE  IInv'
  <2>0. /\ UNCHANGED <<callVars, mapVars, sid, token, joiner_ready, peer>>
        /\ pc[c] \in {"waiting", "ponging"} /\ pc'[c] \in {"waiting", "ponging"}
        /\ \A d \in Conns \ {c} : pc'[d] = pc[d]
        /\ relay_pending \in [Sessions -> Conns \cup {None}]
        /\ peer \in [Conns -> Conns \cup {None}]
    BY <1>8 DEF IInv, TypeOK, CreatorPinged, PongDone
  <2>1. TypeOK'
    BY <1>8 DEF IInv, TypeOK, CreatorPinged, PongDone, callVars, mapVars, ConnState
  <2>2. Role'
    BY <2>0 DEF IInv, Role
  <2>3. LeftInitForGood'
    BY <2>0 DEF IInv, LeftInitForGood, mapVars
  <2>4. EntryOwner'
    BY <2>0 DEF IInv, EntryOwner, mapVars
  <2>5. PeerTaken'
    BY <2>0 DEF IInv, PeerTaken, mapVars
  <2>6. PermitHasPeer'
    BY <2>0 DEF IInv, PermitHasPeer
  <2>7. LinkedHasPeer'
    BY <2>0 DEF IInv, LinkedHasPeer
  <2>8. NoLostWakeup'
    BY <2>0 DEF IInv, NoLostWakeup, Role
  <2>9. TokenBAudited'
    BY <2>0 DEF IInv, TokenBAudited, callVars
  <2>10. (UnknownIsUnused /\ OneToOne /\ JoinerIsAudited)'
    BY <2>0 DEF IInv, UnknownIsUnused, OneToOne, JoinerIsAudited, callVars, mapVars
  <2> QED
    BY <2>1, <2>2, <2>3, <2>4, <2>5, <2>6, <2>7, <2>8, <2>9, <2>10 DEF IInv
<1> QED
  BY <1>1, <1>2, <1>3, <1>4, <1>5, <1>6, <1>7, <1>8

\* The cleanup and the clock.
LEMMA BackgroundInv ==
  ASSUME IInv, PurgeInit \/ PurgePending \/ Tick
  PROVE  IInv'
<1>1. ASSUME PurgeInit
      PROVE  IInv'
  <2>1. TypeOK'
    BY <1>1, RelayAssumption DEF IInv, TypeOK, PurgeInit, callVars, connVars, Grace
  <2>2. UnknownIsUnused'
    BY <1>1 DEF IInv, UnknownIsUnused, PurgeInit, callVars, connVars
  <2>3. LeftInitForGood'
    BY <1>1 DEF IInv, LeftInitForGood, PurgeInit, connVars
  <2>4. (Role /\ EntryOwner /\ PeerTaken /\ OneToOne /\ PermitHasPeer /\
        LinkedHasPeer /\ NoLostWakeup /\ TokenBAudited /\ JoinerIsAudited)'
    BY <1>1 DEF IInv, Role, EntryOwner, PeerTaken, OneToOne, PermitHasPeer,
         LinkedHasPeer, NoLostWakeup, TokenBAudited, JoinerIsAudited,
         PurgeInit, callVars, connVars
  <2> QED
    BY <2>1, <2>2, <2>3, <2>4 DEF IInv
<1>2. ASSUME PurgePending
      PROVE  IInv'
  <2>1. TypeOK'
    BY <1>2 DEF IInv, TypeOK, PurgePending, callVars, connVars
  <2>2. LeftInitForGood'
    BY <1>2 DEF IInv, LeftInitForGood, TypeOK, PurgePending, connVars
  <2>3. EntryOwner'
    BY <1>2 DEF IInv, EntryOwner, PurgePending, connVars
  <2>4. PeerTaken'
    BY <1>2 DEF IInv, PeerTaken, PurgePending, connVars
  <2>5. (UnknownIsUnused /\ Role /\ OneToOne /\ PermitHasPeer /\ LinkedHasPeer
        /\ NoLostWakeup /\ TokenBAudited /\ JoinerIsAudited)'
    BY <1>2 DEF IInv, UnknownIsUnused, Role, OneToOne, PermitHasPeer,
         LinkedHasPeer, NoLostWakeup, TokenBAudited, JoinerIsAudited,
         PurgePending, callVars, connVars
  <2> QED
    BY <2>1, <2>2, <2>3, <2>4, <2>5 DEF IInv
<1>3. ASSUME Tick
      PROVE  IInv'
  <2>1. TypeOK'
    BY <1>3, RelayAssumption DEF IInv, TypeOK, Tick, callVars, Grace, Waiting
  <2>2. (UnknownIsUnused /\ Role /\ LeftInitForGood /\ EntryOwner /\ PeerTaken
        /\ OneToOne /\ PermitHasPeer /\ LinkedHasPeer /\ NoLostWakeup /\
        TokenBAudited /\ JoinerIsAudited)'
    BY <1>3 DEF IInv, UnknownIsUnused, Role, LeftInitForGood, EntryOwner,
         PeerTaken, OneToOne, PermitHasPeer, LinkedHasPeer, NoLostWakeup,
         TokenBAudited, JoinerIsAudited, Tick, callVars
  <2> QED
    BY <2>1, <2>2 DEF IInv
<1> QED
  BY <1>1, <1>2, <1>3

\* Every step preserves the inductive invariant.
LEMMA NextInv ==
  ASSUME IInv, Counted, [Next]_vars
  PROVE  IInv'
<1>1. CASE Call
  BY <1>1, CallInv
<1>2. ASSUME NEW c \in Conns, NEW s \in Sessions, NEW t \in {"A", "B"},
             WsLookup(c, s, t)
      PROVE  IInv'
  BY <1>2, LookupInv
<1>3. ASSUME NEW c \in Conns, Handler(c) \/ FromClient(c)
      PROVE  IInv'
  BY <1>3, SetupInv, SocketInv
     DEF Handler, FromClient, CreatorClosed, CreatorTimedOut, PongTaken, PongFails
<1>4. CASE PurgeInit \/ PurgePending \/ Tick
  BY <1>4, BackgroundInv
<1>5. CASE UNCHANGED vars
  BY <1>5 DEF vars, callVars, mapVars, connVars, IInv, TypeOK, UnknownIsUnused, Role,
       LeftInitForGood, EntryOwner, PeerTaken, OneToOne, PermitHasPeer, LinkedHasPeer,
       NoLostWakeup, TokenBAudited, JoinerIsAudited
<1> QED
  BY <1>1, <1>2, <1>3, <1>4, <1>5 DEF Next

-----------------------------------------------------------------------------
(***************************************************************************)
(* The sessions in use.  Their number grows in one step only, a create     *)
(* call that is admitted: a session that has left both maps is held by the *)
(* handler that took it out or is never used again.                        *)
(***************************************************************************)

Loose(s) == \E c \in Conns : sid[c] = s /\ pc[c] \in {"cloned", "removed"}

\* A session is in use where a request or a map holds it.
LEMMA InUseWhere ==
  InUse = {s \in Sessions : create[s] \in {"admitted", "persisted"} \/ Loose(s)}
            \cup relay_init \cup PendingSessions
  BY DEF InUse, InProgress, Loose, PendingSessions

\* A step that admits no session and leaves no more of them with a handler or
\* in a map leaves no more in use.
LEMMA InUseShrinks ==
  ASSUME \A s \in Sessions :
           /\ create'[s] \in {"admitted", "persisted"} => create[s] \in {"admitted", "persisted"}
           /\ Loose(s)' => Loose(s) \/ s \in relay_init
           /\ relay_pending'[s] # None => relay_pending[s] # None \/ Loose(s),
         \A s \in relay_init' : s \in relay_init \/ create[s] \in {"admitted", "persisted"},
         IInv'
  PROVE  InUse' \subseteq InUse
<1>1. relay_init' \subseteq Sessions
  BY DEF IInv, TypeOK
<1>2. ASSUME NEW s \in InUse'
      PROVE  s \in InUse
  <2>1. /\ s \in Sessions
        /\ \/ s \in relay_init' \/ relay_pending'[s] # None
           \/ create'[s] \in {"admitted", "persisted"} \/ Loose(s)'
    BY <1>1, <1>2 DEF InUse, InProgress, PendingSessions, Loose
  <2>2. \/ s \in relay_init \/ relay_pending[s] # None
        \/ create[s] \in {"admitted", "persisted"} \/ Loose(s)
    BY <2>1
  <2> QED
    BY <2>1, <2>2, InUseWhere DEF PendingSessions
<1> QED
  BY <1>2

\* What a request of create does to the sessions in use.
LEMMA CallUses ==
  ASSUME IInv, IInv', Call, \A s \in Sessions : ~CreateCheck(s)
  PROVE  InUse' \subseteq InUse
<1>1. UNCHANGED <<relay_pending, connVars>>
  BY DEF Call, CreatePersist, CreateInsert, CreateAbort, JoinRead, JoinRecord, JoinAbort, mapVars
<1>2. \A s \in Sessions : Loose(s)' = Loose(s)
  BY <1>1 DEF Loose, connVars
<1>3. \A s \in Sessions : create'[s] \in {"admitted", "persisted"}
                            => create[s] \in {"admitted", "persisted"}
  BY DEF Call, CreatePersist, CreateInsert, CreateAbort, JoinRead, JoinRecord, JoinAbort,
       IInv, TypeOK
<1>4. \A s \in relay_init' : s \in relay_init \/ create[s] \in {"admitted", "persisted"}
  BY DEF Call, CreatePersist, CreateInsert, CreateAbort, JoinRead, JoinRecord, JoinAbort, mapVars
<1> QED
  BY <1>1, <1>2, <1>3, <1>4, InUseShrinks

\* A handler of GET /relay/{id} takes a session out of relay_init, holds it and
\* puts it into relay_pending; all else only removes sessions.
LEMMA SocketUses ==
  ASSUME IInv, IInv', NEW c \in Conns,
         \/ \E s \in Sessions, t \in {"A", "B"} : WsLookup(c, s, t)
         \/ Handler(c) \/ FromClient(c)
  PROVE  InUse' \subseteq InUse
<1>1. UNCHANGED callVars /\ relay_init' \subseteq relay_init
  BY DEF WsLookup, Handler, WsRemoveInit, WsInsertPending, WsTakePending, WsAbandon,
       CreatorStart, JoinerStart, CreatorNotified, FromClient, CreatorPinged,
         PongTaken, PongFails, PongDone, CreatorClosed, CreatorTimedOut,
       CreatorLeaves, RelayEnds, OtherFrame, ClientCloses, mapVars
<1>2. CASE \E s \in Sessions, t \in {"A", "B"} : WsLookup(c, s, t)
  <2>1. PICK s \in Sessions, t \in {"A", "B"} : WsLookup(c, s, t)
    BY <1>2
  <2>2. \A r \in Sessions : Loose(r)' => Loose(r) \/ r \in relay_init
    BY <2>1 DEF WsLookup, Loose, IInv, TypeOK
  <2> QED
    BY <1>1, <2>1, <2>2, InUseShrinks DEF WsLookup, mapVars, callVars
<1>3. CASE ~\E s \in Sessions, t \in {"A", "B"} : WsLookup(c, s, t)
  <2>1. /\ UNCHANGED sid
        /\ \A d \in Conns : pc'[d] \in {"cloned", "removed"} => pc[d] \in {"cloned", "removed"}
    BY <1>3 DEF Handler, WsRemoveInit, WsInsertPending, WsTakePending, WsAbandon,
         CreatorStart, JoinerStart, CreatorNotified, FromClient, CreatorPinged,
         PongTaken, PongFails, PongDone, CreatorClosed, CreatorTimedOut,
         CreatorLeaves, RelayEnds, OtherFrame, ClientCloses, IInv, TypeOK
  <2>2. \A s \in Sessions : Loose(s)' => Loose(s)
    BY <2>1 DEF Loose
  <2>3. \A s \in Sessions : relay_pending'[s] # None => relay_pending[s] # None \/ Loose(s)
    BY <1>3 DEF Handler, WsRemoveInit, WsInsertPending, WsTakePending, TakePending, WsAbandon,
         CreatorStart, JoinerStart, CreatorNotified, FromClient, CreatorPinged,
         PongTaken, PongFails, PongDone, CreatorClosed, CreatorTimedOut,
         CreatorLeaves, RelayEnds, OtherFrame, ClientCloses, mapVars, Loose, IInv, TypeOK
  <2> QED
    BY <1>1, <2>2, <2>3, InUseShrinks DEF callVars
<1> QED
  BY <1>2, <1>3

LEMMA BackgroundUses ==
  ASSUME IInv, IInv', PurgeInit \/ PurgePending \/ Tick \/ UNCHANGED vars
  PROVE  InUse' \subseteq InUse
<1>1. UNCHANGED <<create, pc, sid>> /\ relay_init' \subseteq relay_init
  BY DEF PurgeInit, PurgePending, Tick, vars, callVars, mapVars, connVars
<1>2. \A s \in Sessions : relay_pending'[s] # None => relay_pending[s] # None
  BY DEF PurgeInit, PurgePending, Tick, vars, mapVars
<1> QED
  BY <1>1, <1>2, InUseShrinks DEF Loose

\* When a session is admitted, the two maps hold fewer than max_sessions, and
\* the others in use are those in progress, the one admitted included.
LEMMA CheckCounted ==
  ASSUME IInv, Counted, NEW s \in Sessions, CreateCheck(s)
  PROVE  Counted'
<1>1. UNCHANGED <<relay_init, relay_pending>> /\ PendingSessions' = PendingSessions
  BY DEF CreateCheck, mapVars, PendingSessions
<1>2. /\ IsFiniteSet(relay_init) /\ IsFiniteSet(PendingSessions)
      /\ IsFiniteSet(relay_init \cup PendingSessions)
  <2>1. /\ relay_init \subseteq InUse /\ PendingSessions \subseteq InUse
        /\ relay_init \cup PendingSessions \subseteq InUse
    BY DEF InUse
  <2> QED
    BY <2>1, FS_Subset DEF Counted
<1>3. IsFiniteSet(InProgress') /\ IsFiniteSet(InUse')
  <2>1. IsFiniteSet(InProgress')
    BY CheckRecords
  <2>2. InUse' = InProgress' \cup (relay_init \cup PendingSessions)
    BY <1>1 DEF InUse
  <2> QED
    BY <1>2, <2>1, <2>2, FS_Union
<1>4. CASE MaxSessions > 0 /\ SessionCount < MaxSessions
  <2> DEFINE Held == relay_init \cup PendingSessions
  <2>1. /\ Cardinality(Held) \in Nat
        /\ Cardinality(relay_init) \in Nat /\ Cardinality(PendingSessions) \in Nat
        /\ Cardinality(relay_init \cap PendingSessions) \in Nat
    BY <1>2, FS_CardinalityType, FS_Intersection
  <2>2. Cardinality(Held) <= SessionCount
    <3>1. Cardinality(Held) = Cardinality(relay_init) + Cardinality(PendingSessions)
                                - Cardinality(relay_init \cap PendingSessions)
      BY <1>2, FS_Union
    <3> QED
      BY <2>1, <3>1 DEF SessionCount
  <2>3. /\ Cardinality(InProgress') \in Nat
        /\ Cardinality(InProgress' \cap Held) \in Nat
    BY <1>2, <1>3, FS_CardinalityType, FS_Intersection
  <2>4. InUse' = InProgress' \cup Held
    BY <1>1 DEF InUse
  <2>5. Cardinality(InUse') <= Cardinality(InProgress') + Cardinality(Held)
    BY <1>2, <1>3, <2>1, <2>3, <2>4, FS_Union
  <2>6. Cardinality(InUse') \in Nat
    BY <1>3, FS_CardinalityType
  <2>7. SessionCount \in Nat
    BY <2>1 DEF SessionCount
  <2>8. Cardinality(InUse') < MaxSessions + peak'
    BY <1>4, <2>1, <2>2, <2>3, <2>5, <2>6, <2>7, CheckRecords, RelayAssumption
  <2> QED
    BY <1>3, <2>8 DEF Counted
<1>5. CASE MaxSessions = 0
  BY <1>3, <1>5 DEF Counted
<1>6. CASE create' = [create EXCEPT ![s] = "refused"]
  <2>1. InUse' \subseteq InUse
    BY <1>6 DEF CreateCheck, mapVars, connVars, InUse, InProgress, PendingSessions, IInv, TypeOK
  <2>2. /\ Cardinality(InUse') <= Cardinality(InUse)
        /\ Cardinality(InUse') \in Nat /\ Cardinality(InUse) \in Nat
    BY <2>1, <1>3, FS_Subset, FS_CardinalityType DEF Counted
  <2>3. peak \in Nat
    BY DEF IInv, TypeOK
  <2> QED
    BY <1>3, <2>2, <2>3, CheckRecords, RelayAssumption DEF Counted
<1> QED
  BY <1>4, <1>5, <1>6, RelayAssumption DEF CreateCheck

\* Every step keeps the bound on the sessions in use.
LEMMA NextCounted ==
  ASSUME IInv, IInv', Counted, [Next]_vars
  PROVE  Counted'
<1>1. CASE \E s \in Sessions : CreateCheck(s)
  BY <1>1, CheckCounted
<1>2. CASE \A s \in Sessions : ~CreateCheck(s)
  <2>1. InUse' \subseteq InUse
    BY <1>2, CallUses, SocketUses, BackgroundUses DEF Next
  <2>2. UNCHANGED peak
    BY <1>2 DEF Next, Call, CreatePersist, CreateInsert, CreateAbort, JoinRead, JoinRecord,
         JoinAbort, WsLookup, Handler, WsRemoveInit, WsInsertPending, WsTakePending, WsAbandon,
         CreatorStart, JoinerStart, CreatorNotified, FromClient, CreatorPinged,
         PongTaken, PongFails, PongDone, CreatorClosed, CreatorTimedOut,
         CreatorLeaves, RelayEnds, OtherFrame, ClientCloses, PurgeInit, PurgePending, Tick,
         vars, callVars
  <2>3. /\ IsFiniteSet(InUse')
        /\ Cardinality(InUse') <= Cardinality(InUse)
        /\ Cardinality(InUse') \in Nat /\ Cardinality(InUse) \in Nat
    BY <2>1, FS_Subset, FS_CardinalityType DEF Counted
  <2>4. peak \in Nat
    BY DEF IInv, TypeOK
  <2> QED
    BY <2>2, <2>3, <2>4, RelayAssumption DEF Counted
<1> QED
  BY <1>1, <1>2

\* IInv and the bound are inductive together: they hold of the initial states
\* and every step keeps them.
THEOREM Invariance == Spec => [](IInv /\ Counted)
<1>1. Init => IInv /\ Counted
  BY InitInv, InitCounted
<1>2. IInv /\ Counted /\ [Next]_vars => IInv' /\ Counted'
  BY NextInv, NextCounted
<1> QED
  BY <1>1, <1>2, PTL DEF Spec

-----------------------------------------------------------------------------
(***************************************************************************)
(* The safety properties.                                                  *)
(***************************************************************************)

\* Every variable keeps its type; no age exceeds Grace.
THEOREM TypeCorrect == Spec => []TypeOK
  BY Invariance, PTL DEF IInv

\* Once a creator's request has taken a session out of relay_init, the
\* session is never there again, whatever else interleaves with it.
THEOREM NeverBackInInit == Spec => []LeftInitForGood
  BY Invariance, PTL DEF IInv

\* A joiner is paired with one creator of its session and a creator with at
\* most one joiner, for any number of sockets that compete for the entry.
THEOREM PairedOnce == Spec => []OneToOne
  BY Invariance, PTL DEF IInv

\* A creator starts to relay only after its own joiner did.
THEOREM LinkedToJoiner == Spec => []LinkedHasPeer
  BY Invariance, PTL DEF IInv

\* A joiner's notification is not lost on a creator that is not waiting yet.
THEOREM WakeupIsKept == Spec => []NoLostWakeup
  BY Invariance, PTL DEF IInv

\* The limit on sessions is exceeded by no more than the sessions that were in
\* progress at one time: a session is counted once, in whichever map holds it.
THEOREM SessionsBound == Spec => []SessionBound
<1>1. IInv /\ Counted => SessionBound
  <2> SUFFICES ASSUME IInv, Counted, MaxSessions > 0
               PROVE  SessionCount < MaxSessions + peak
    BY DEF SessionBound
  <2> DEFINE Held == relay_init \cup PendingSessions
  <2>1. /\ relay_init \subseteq InUse /\ PendingSessions \subseteq InUse
        /\ Held \subseteq InUse
    BY DEF InUse
  <2>2. /\ IsFiniteSet(relay_init) /\ IsFiniteSet(PendingSessions) /\ IsFiniteSet(Held)
        /\ Cardinality(Held) <= Cardinality(InUse)
    BY <2>1, FS_Subset DEF Counted
  <2>3. relay_init \cap PendingSessions = {}
    BY DEF IInv, LeftInitForGood, PendingSessions
  <2>4. /\ Cardinality(relay_init) \in Nat /\ Cardinality(PendingSessions) \in Nat
        /\ Cardinality(Held) \in Nat /\ Cardinality(InUse) \in Nat
    BY <2>2, FS_CardinalityType DEF Counted
  <2>5. Cardinality(Held) = SessionCount
    <3>1. Cardinality(Held) = Cardinality(relay_init) + Cardinality(PendingSessions)
                                - Cardinality(relay_init \cap PendingSessions)
      BY <2>2, FS_Union
    <3>2. Cardinality(relay_init \cap PendingSessions) = 0
      BY <2>3, FS_EmptySet
    <3> QED
      BY <2>4, <3>1, <3>2 DEF SessionCount
  <2>6. peak \in Nat
    BY DEF IInv, TypeOK
  <2> QED
    BY <2>2, <2>4, <2>5, <2>6, RelayAssumption DEF Counted
<1> QED
  BY <1>1, Invariance, PTL

\* Every joiner that got a creator's entry left a trace in relay_sessions.
THEOREM Audit == Spec => []JoinerIsAudited
  BY Invariance, PTL DEF IInv

-----------------------------------------------------------------------------
(***************************************************************************)
(* The deadline and the grace.  The age of an entry is measured from the   *)
(* lookup, the deadline from the start of creator_ws, at most SetupDelay   *)
(* later: while there is time left the entry is younger than Grace.        *)
(***************************************************************************)

Clocks ==
  /\ \A c \in Conns :
       /\ pc[c] = "idle" => age[c] = 0 /\ sid[c] = None
       /\ pc[c] \in {"cloned", "removed", "upgrading"} => age[c] <= SetupDelay
       /\ Waiting(c) /\ left[c] > 0 => age[c] + left[c] <= SetupDelay + Timeout
  /\ expired # None => \A c \in expired : age[c] >= Grace

\* A creator whose upgrade is under way, or that waits with time left.
Expecting(c) ==
  \/ pc[c] = "upgrading"
  \/ Waiting(c) /\ left[c] > 0

Reachable ==
  \A c \in Conns : Expecting(c) /\ OnlyCreator(c) /\ ~Claimed(c) => relay_pending[sid[c]] = c

LEMMA ClocksInit == Init => Clocks /\ Reachable
  BY DEF Init, Clocks, Reachable, Expecting, Waiting

\* Only Tick changes an age; a handler's deadline is set when it starts.
LEMMA ClocksNext ==
  ASSUME IInv, Clocks, [Next]_vars
  PROVE  Clocks'
<1> USE RelayAssumption DEF callVars, mapVars, connVars, Waiting
<1>0. \A c \in Conns : age[c] \in 0 .. Grace /\ left[c] \in 0 .. Timeout
  BY DEF IInv, TypeOK
<1>1. CASE Tick
  <2>1. /\ UNCHANGED <<pc, sid, expired>>
        /\ \A c \in Conns : pc[c] \in SettingUp => age[c] < SetupDelay
        /\ \A c \in Conns : /\ age'[c] = IF Aging(c) /\ age[c] < Grace THEN age[c] + 1 ELSE age[c]
                            /\ left'[c] = IF Waiting(c) /\ left[c] > 0
                                          THEN left[c] - 1 ELSE left[c]
    BY <1>1 DEF Tick
  <2>2. ASSUME NEW c \in Conns, pc[c] = "idle"
        PROVE  age'[c] = 0 /\ sid'[c] = None
    <3>1. ~Aging(c)
      BY <2>2 DEF IInv, EntryOwner, Aging
    <3> QED
      BY <2>1, <2>2, <3>1 DEF Clocks
  <2>3. ASSUME NEW c \in Conns, pc[c] \in {"cloned", "removed", "upgrading"}
        PROVE  age'[c] <= SetupDelay
    BY <1>0, <2>1, <2>3 DEF SettingUp
  <2>4. ASSUME NEW c \in Conns, Waiting(c), left'[c] > 0
        PROVE  age'[c] + left'[c] <= SetupDelay + Timeout
    <3>1. left[c] > 0 /\ left'[c] = left[c] - 1 /\ age'[c] <= age[c] + 1
      BY <1>0, <2>1, <2>4
    <3>2. age[c] + left[c] <= SetupDelay + Timeout
      BY <2>4, <3>1 DEF Clocks
    <3>3. age'[c] \in Nat
      BY <1>0, <2>1 DEF Grace
    <3> QED
      BY <1>0, <3>1, <3>2, <3>3
  <2>5. \A c \in Conns : age[c] >= Grace => age'[c] >= Grace
    BY <1>0, <2>1 DEF Grace
  <2>6. expired # None => expired \subseteq Conns
    BY DEF IInv, TypeOK
  <2> QED
    BY <2>1, <2>2, <2>3, <2>4, <2>5, <2>6 DEF Clocks
<1>2. ASSUME NEW c \in Conns, CreatorStart(c)
      PROVE  Clocks'
  <2>1. /\ UNCHANGED <<age, sid, expired>>
        /\ pc[c] = "upgrading" /\ pc'[c] = "waiting" /\ left'[c] = Timeout
        /\ \A d \in Conns \ {c} : pc'[d] = pc[d] /\ left'[d] = left[d]
    BY <1>2 DEF CreatorStart, IInv, TypeOK
  <2>2. age[c] <= SetupDelay
    BY <2>1 DEF Clocks
  <2>3. age[c] + left'[c] <= SetupDelay + Timeout
    BY <1>0, <2>1, <2>2 DEF Grace
  <2> QED
    BY <2>1, <2>2, <2>3 DEF Clocks
<1>3. ASSUME NEW c \in Conns,
             \/ \E s \in Sessions, t \in {"A", "B"} : WsLookup(c, s, t)
             \/ WsRemoveInit(c) \/ WsInsertPending(c) \/ WsTakePending(c) \/ WsAbandon(c)
             \/ JoinerStart(c) \/ CreatorNotified(c) \/ CreatorPinged(c) \/ PongDone(c)
             \/ CreatorLeaves(c) \/ RelayEnds(c) \/ OtherFrame(c) \/ ClientCloses(c)
      PROVE  Clocks'
  <2>1. /\ UNCHANGED <<age, expired>>
        /\ \A d \in Conns \ {c} : pc'[d] = pc[d] /\ sid'[d] = sid[d] /\ left'[d] = left[d]
    BY <1>3 DEF WsLookup, WsRemoveInit, WsInsertPending, WsTakePending, WsAbandon, JoinerStart,
                CreatorNotified, CreatorPinged, PongDone, CreatorLeaves, RelayEnds, OtherFrame,
                ClientCloses, IInv, TypeOK
  <2>2. /\ pc'[c] = "idle" => pc[c] = "idle" /\ sid'[c] = sid[c]
        /\ pc'[c] \in {"cloned", "removed", "upgrading"}
             => pc[c] \in {"idle", "cloned", "removed", "upgrading"}
        /\ Waiting(c)' => Waiting(c) /\ left'[c] = left[c]
    BY <1>3 DEF WsLookup, WsRemoveInit, WsInsertPending, WsTakePending, WsAbandon, JoinerStart,
                CreatorNotified, CreatorPinged, PongDone, CreatorLeaves, RelayEnds, OtherFrame,
                ClientCloses, IInv, TypeOK
  <2>3. pc[c] = "idle" => age[c] <= SetupDelay
    BY DEF Clocks
  <2> QED
    BY <2>1, <2>2, <2>3 DEF Clocks
<1>4. CASE PurgeInit
  BY <1>4 DEF PurgeInit, Clocks
<1>5. CASE Call \/ PurgePending \/ UNCHANGED vars
  <2>1. UNCHANGED <<pc, sid, age, left>> /\ expired' \in {expired, None}
    BY <1>5 DEF Call, CreateCheck, CreatePersist, CreateInsert, CreateAbort, JoinRead,
                JoinRecord, JoinAbort, PurgePending, vars
  <2> QED
    BY <2>1 DEF Clocks
<1> QED
  BY <1>1, <1>2, <1>3, <1>4, <1>5 DEF Next, Handler, FromClient, CreatorClosed, CreatorTimedOut,
       PongTaken, PongFails

LEMMA ReachableNext ==
  ASSUME IInv, Clocks, Reachable, [Next]_vars
  PROVE  Reachable'
<1> USE RelayAssumption DEF callVars, mapVars, connVars, Waiting
<1> SUFFICES ASSUME NEW c \in Conns, Expecting(c)', OnlyCreator(c)', ~Claimed(c)'
             PROVE  relay_pending'[sid'[c]] = c
  BY DEF Reachable
<1>0. age[c] \in 0 .. Grace /\ left[c] \in 0 .. Timeout /\ Timeout \in Nat
  BY DEF IInv, TypeOK
\* The entry is too young for the cleanup.
<1>1. Expecting(c) => age[c] < Grace
  BY <1>0 DEF Expecting, Clocks, Grace
\* The creator that may lose its entry is the only one of its session.
<1>2. ASSUME NEW d \in Conns, d # c, token[d] = "A", UNCHANGED <<sid, token>>
      PROVE  sid[d] # sid[c]
  BY <1>2 DEF OnlyCreator
<1>3. ASSUME NEW d \in Conns, WsInsertPending(d)
      PROVE  relay_pending'[sid'[c]] = c
  <2>1. /\ UNCHANGED <<sid, token, peer, left>> /\ pc[d] = "removed" /\ pc'[d] = "upgrading"
        /\ relay_pending' = [relay_pending EXCEPT ![sid[d]] = d]
        /\ \A e \in Conns \ {d} : pc'[e] = pc[e]
        /\ sid[d] \in Sessions /\ token[d] = "A"
    BY <1>3 DEF WsInsertPending, IInv, TypeOK, Role
  <2>2. CASE c = d
    BY <2>1, <2>2 DEF IInv, TypeOK
  <2>3. CASE c # d
    <3>1. sid[d] # sid[c]
      BY <1>2, <2>1, <2>3
    <3>2. relay_pending'[sid[c]] = relay_pending[sid[c]]
      BY <2>1, <3>1 DEF IInv, TypeOK
    <3>3. Expecting(c) /\ OnlyCreator(c) /\ ~Claimed(c)
      BY <2>1, <2>3 DEF Expecting, OnlyCreator, Claimed
    <3> QED
      BY <2>1, <3>2, <3>3 DEF Reachable
  <2> QED
    BY <2>2, <2>3
<1>4. ASSUME NEW d \in Conns, WsTakePending(d)
      PROVE  relay_pending'[sid'[c]] = c
  <2>1. /\ UNCHANGED <<sid, token, left>> /\ pc[d] = "missed" /\ sid[d] \in Sessions
        /\ pc'[d] \notin {"upgrading", "waiting", "ponging"}
        /\ \A e \in Conns \ {d} : pc'[e] = pc[e] /\ peer'[e] = peer[e]
        /\ peer[d] = None
    BY <1>4 DEF WsTakePending, IInv, TypeOK, Role, PeerTaken
  <2>2. c # d
    BY <2>1 DEF Expecting
  <2>3. Expecting(c) /\ OnlyCreator(c) /\ ~Claimed(c)
    BY <2>1, <2>2 DEF Expecting, OnlyCreator, Claimed
  <2>4. relay_pending[sid[c]] = c
    BY <2>3 DEF Reachable
  <2>5. relay_pending'[sid[c]] = c
    <3>1. CASE UNCHANGED relay_pending
      BY <2>4, <3>1
    <3>2. CASE /\ peer' = [peer EXCEPT ![d] = relay_pending[sid[d]]]
               /\ relay_pending' = TakePending(sid[d])
      <4>1. peer'[d] = relay_pending[sid[d]]
        BY <3>2 DEF IInv, TypeOK
      <4>2. sid[d] # sid[c]
        BY <2>4, <4>1 DEF Claimed
      <4> QED
        BY <2>4, <3>2, <4>2 DEF TakePending, IInv, TypeOK
    <3> QED
      BY <1>4, <3>1, <3>2 DEF WsTakePending
  <2> QED
    BY <2>1, <2>5
<1>5. ASSUME NEW d \in Conns, CreatorLeaves(d)
      PROVE  relay_pending'[sid'[c]] = c
  <2>1. /\ UNCHANGED <<sid, token, peer>> /\ pc[d] = "waiting" /\ pc'[d] = "gone"
        /\ relay_pending' = [relay_pending EXCEPT ![sid[d]] = None]
        /\ \A e \in Conns \ {d} : pc'[e] = pc[e] /\ left'[e] = left[e]
        /\ sid[d] \in Sessions /\ token[d] = "A"
    BY <1>5 DEF CreatorLeaves, IInv, TypeOK, Role
  <2>2. c # d
    BY <2>1 DEF Expecting
  <2>3. sid[d] # sid[c]
    BY <1>2, <2>1, <2>2
  <2>4. relay_pending'[sid[c]] = relay_pending[sid[c]]
    BY <2>1, <2>3 DEF IInv, TypeOK
  <2>5. Expecting(c) /\ OnlyCreator(c) /\ ~Claimed(c)
    BY <2>1, <2>2 DEF Expecting, OnlyCreator, Claimed
  <2> QED
    BY <2>1, <2>4, <2>5 DEF Reachable
<1>6. CASE PurgePending
  <2>1. UNCHANGED <<sid, token, peer, left, pc>>
    BY <1>6 DEF PurgePending
  <2>2. Expecting(c) /\ OnlyCreator(c) /\ ~Claimed(c)
    BY <2>1 DEF Expecting, OnlyCreator, Claimed
  <2>3. relay_pending[sid[c]] = c /\ sid[c] \in Sessions
    BY <2>2 DEF Reachable, Expecting, IInv, Role
  <2>4. c \notin expired
    BY <1>0, <1>1, <1>6, <2>2 DEF PurgePending, Clocks, Grace
  <2> QED
    BY <1>6, <2>1, <2>3, <2>4 DEF PurgePending
<1>7. ASSUME NEW d \in Conns, \E s \in Sessions, t \in {"A", "B"} : WsLookup(d, s, t)
      PROVE  relay_pending'[sid'[c]] = c
  <2>1. /\ UNCHANGED <<relay_pending, peer, left>> /\ pc[d] = "idle"
        /\ pc'[d] \notin {"upgrading", "waiting", "ponging"}
        /\ \A e \in Conns \ {d} : pc'[e] = pc[e] /\ sid'[e] = sid[e] /\ token'[e] = token[e]
    BY <1>7 DEF WsLookup, IInv, TypeOK
  <2>2. c # d
    BY <2>1 DEF Expecting
  <2>3. Expecting(c) /\ ~Claimed(c)
    BY <2>1, <2>2 DEF Expecting, Claimed
  <2>4. sid[d] # sid[c]
    BY <2>1, <2>3 DEF Clocks, Expecting, IInv, Role
  <2>5. OnlyCreator(c)
    BY <2>1, <2>2, <2>4 DEF OnlyCreator
  <2> QED
    BY <2>1, <2>2, <2>3, <2>5 DEF Reachable
<1>8. CASE Tick
  <2>1. /\ UNCHANGED <<relay_pending, sid, token, peer, pc>>
        /\ left'[c] > 0 => left[c] > 0
    BY <1>0, <1>8 DEF Tick
  <2>2. Expecting(c) /\ OnlyCreator(c) /\ ~Claimed(c)
    BY <2>1 DEF Expecting, OnlyCreator, Claimed
  <2> QED
    BY <2>1, <2>2 DEF Reachable
<1>9. ASSUME NEW d \in Conns,
             \/ WsRemoveInit(d) \/ WsAbandon(d) \/ CreatorStart(d) \/ JoinerStart(d)
             \/ CreatorNotified(d) \/ CreatorPinged(d) \/ PongDone(d) \/ RelayEnds(d)
             \/ OtherFrame(d) \/ ClientCloses(d)
      PROVE  relay_pending'[sid'[c]] = c
  <2>1. /\ UNCHANGED <<relay_pending, sid, token, peer>>
        /\ pc'[c] = "upgrading" => pc[c] = "upgrading"
        /\ Waiting(c)' =>
             \/ pc[c] = "upgrading"
             \/ Waiting(c) /\ UNCHANGED left[c]
    BY <1>9 DEF WsRemoveInit, WsAbandon, CreatorStart, JoinerStart, CreatorNotified, CreatorPinged,
                PongDone, RelayEnds, OtherFrame, ClientCloses, IInv, TypeOK
  <2>2. Expecting(c) /\ OnlyCreator(c) /\ ~Claimed(c)
    BY <2>1 DEF Expecting, OnlyCreator, Claimed
  <2> QED
    BY <2>1, <2>2 DEF Reachable
<1>10. CASE Call \/ PurgeInit \/ UNCHANGED vars
  <2>1. UNCHANGED <<relay_pending, sid, token, peer, pc, left>>
    BY <1>10 DEF Call, CreateCheck, CreatePersist, CreateInsert, CreateAbort, JoinRead,
                 JoinRecord, JoinAbort, PurgeInit, vars
  <2>2. Expecting(c) /\ OnlyCreator(c) /\ ~Claimed(c)
    BY <2>1 DEF Expecting, OnlyCreator, Claimed
  <2> QED
    BY <2>1, <2>2 DEF Reachable
<1> QED
  BY <1>3, <1>4, <1>5, <1>6, <1>7, <1>8, <1>9, <1>10
     DEF Next, Handler, FromClient, CreatorClosed, CreatorTimedOut,
       PongTaken, PongFails

\* The grace of the cleanup is long enough for any timeout and any number of
\* sessions, as long as an upgrade takes less than the 30 seconds: whoever
\* waits with one socket and time left can be joined.
THEOREM WaitingIsReachable == Spec => []WaitingCreatorIsReachable
<1>1. Init => IInv /\ Clocks /\ Reachable
  BY InitInv, ClocksInit
<1>2. Init /\ [][Next]_vars => []IInv
  BY Invariance, PTL DEF Spec
<1>3. IInv /\ Clocks /\ Reachable /\ [Next]_vars => (Clocks /\ Reachable)'
  BY ClocksNext, ReachableNext
<1>4. Reachable => WaitingCreatorIsReachable
  BY DEF Reachable, WaitingCreatorIsReachable, Expecting
<1> QED
  BY <1>1, <1>2, <1>3, <1>4, PTL DEF Spec

-----------------------------------------------------------------------------
(***************************************************************************)
(* The meeting of the two handlers, as module Handshake states it: every   *)
(* step is, for every creator's connection at once, a step of Handshake or *)
(* a stutter.                                                              *)
(***************************************************************************)

\* The joiner of an object is the one connection that took it.
LEMMA ChosenOne ==
  ASSUME NEW p, NEW q, NEW c, NEW d \in Conns, p[d] = c,
         \A e \in Conns : p[e] = c => e = d
  PROVE  q[CHOOSE e \in Conns : p[e] = c] = q[d]
  OBVIOUS

LEMMA JoinerOfTaker ==
  ASSUME IInv, NEW d \in Conns, peer[d] # None
  PROVE  JoinerOf(peer[d]) = pc[d]
<1>1. \A e \in Conns : peer[e] = peer[d] => e = d
  BY DEF IInv, OneToOne
<1>2. pc[CHOOSE e \in Conns : peer[e] = peer[d]] = pc[d]
  BY <1>1, ChosenOne
<1> QED
  BY <1>2 DEF JoinerOf, Claimed

\* While nothing is taken, a step of connection d shows in the object d took.
LEMMA JoinerMoves ==
  ASSUME IInv, IInv', NEW c \in Conns, NEW d \in Conns, UNCHANGED peer,
         \A e \in Conns \ {d} : pc'[e] = pc[e]
  PROVE  JoinerOf(c)' = IF peer[d] = c THEN pc'[d] ELSE JoinerOf(c)
<1>1. CASE \E e \in Conns : peer[e] = c
  <2>1. PICK e \in Conns : peer[e] = c
    BY <1>1
  <2>2. \A f \in Conns : peer[f] = c => f = e
    BY <2>1, RelayAssumption DEF IInv, OneToOne
  <2>3. pc[CHOOSE f \in Conns : peer[f] = c] = pc[e]
    BY <2>1, <2>2, ChosenOne
  <2>4. pc'[CHOOSE f \in Conns : peer[f] = c] = pc'[e]
    BY <2>1, <2>2, ChosenOne
  <2>5. JoinerOf(c) = pc[e] /\ JoinerOf(c)' = pc'[e]
    BY <2>1, <2>3, <2>4 DEF JoinerOf, Claimed
  <2> QED
    BY <2>1, <2>2, <2>5
<1>2. CASE \A e \in Conns : peer[e] # c
  BY <1>2 DEF JoinerOf, Claimed
<1> QED
  BY <1>1, <1>2

LEMMA JoinerStays ==
  ASSUME NEW c, UNCHANGED <<pc, peer>>
  PROVE  JoinerOf(c)' = JoinerOf(c)
  BY DEF JoinerOf, Claimed

\* An object can only be found under its own session.
LEMMA EntryIsOwn ==
  ASSUME IInv, NEW c \in Conns
  PROVE  /\ EntryOf(c) <=> sid[c] \in Sessions /\ relay_pending[sid[c]] = c
         /\ Claimed(c) => ~EntryOf(c)
<1>1. EntryOf(c) <=> sid[c] \in Sessions /\ relay_pending[sid[c]] = c
  BY RelayAssumption DEF IInv, EntryOwner, EntryOf
<1>2. Claimed(c) => ~(sid[c] \in Sessions /\ relay_pending[sid[c]] = c)
  BY RelayAssumption DEF IInv, PeerTaken, Claimed
<1> QED
  BY <1>1, <1>2

LEMMA MeetingInit ==
  ASSUME Init, NEW c \in Conns
  PROVE  Meeting(c)!Init
<1>1. pc[c] = "idle" /\ c \notin joiner_ready /\ ~Claimed(c) /\ ~EntryOf(c)
  BY RelayAssumption DEF Init, Claimed, EntryOf
<1>2. CreatorOf(c) = "absent" /\ JoinerOf(c) = "absent"
  BY <1>1 DEF CreatorOf, Waiting, JoinerOf
<1>3. EntryOf(c) = (CreatorOf(c) = "upgrading")
  BY <1>1, <1>2 DEF EntryOf
<1>4. (c \in joiner_ready) = FALSE
  BY <1>1
<1> QED
  BY <1>2, <1>3, <1>4 DEF Meeting!Init

\* What the objects show changes with the steps of their handlers only.
LEMMA MeetingSame ==
  ASSUME NEW c \in Conns, UNCHANGED <<relay_pending, pc, peer, joiner_ready>>
  PROVE  UNCHANGED Meeting(c)!vars
  BY JoinerStays DEF Meeting!vars, EntryOf, CreatorOf, Waiting, JoinerOf, Claimed

\* Only the creator's handler changes what the creator shows.
LEMMA CreatorStays ==
  ASSUME NEW c \in Conns, pc'[c] = pc[c]
  PROVE  CreatorOf(c)' = CreatorOf(c)
  BY DEF CreatorOf, Waiting

LEMMA EntryStays ==
  ASSUME NEW c \in Conns, UNCHANGED relay_pending
  PROVE  EntryOf(c)' = EntryOf(c)
  BY DEF EntryOf

\* No joiner takes its own entry.
LEMMA NotOwnPeer ==
  ASSUME IInv, NEW d \in Conns
  PROVE  peer[d] # d
  BY RelayAssumption DEF IInv, PeerTaken

\* A handler that is about to find its role.
LEMMA MeetingOutside ==
  ASSUME IInv, IInv', NEW c \in Conns, NEW d \in Conns,
         \/ \E s \in Sessions, t \in {"A", "B"} : WsLookup(d, s, t)
         \/ WsRemoveInit(d)
  PROVE  UNCHANGED Meeting(c)!vars
<1>1. /\ UNCHANGED <<relay_pending, joiner_ready, peer>>
      /\ \A e \in Conns \ {d} : pc'[e] = pc[e]
      /\ pc[d] \in {"idle", "cloned"}
      /\ pc'[d] \in {"cloned", "removed", "missed", "unauthorized"}
  BY DEF WsLookup, WsRemoveInit, callVars, mapVars, IInv, TypeOK
<1>2. peer[d] # c
  BY <1>1, RelayAssumption DEF IInv, PeerTaken
<1>3. JoinerOf(c)' = JoinerOf(c)
  BY <1>1, <1>2, JoinerMoves
<1>4. CreatorOf(c)' = CreatorOf(c)
  BY <1>1 DEF CreatorOf, Waiting
<1> QED
  BY <1>1, <1>3, <1>4, EntryStays DEF Meeting!vars

\* The entry of the creator is inserted, in place of another perhaps.
LEMMA MeetingInsert ==
  ASSUME IInv, IInv', NEW c \in Conns, NEW d \in Conns, WsInsertPending(d)
  PROVE  [Meeting(c)!Next]_(Meeting(c)!vars)
<1>1. /\ UNCHANGED <<joiner_ready, peer, sid>>
      /\ \A e \in Conns \ {d} : pc'[e] = pc[e]
      /\ pc[d] = "removed" /\ pc'[d] = "upgrading"
      /\ sid[d] \in Sessions
      /\ relay_pending'[sid[d]] = d
      /\ \A s \in Sessions \ {sid[d]} : relay_pending'[s] = relay_pending[s]
  BY DEF WsInsertPending, callVars, IInv, TypeOK, Role
<1>2. peer[d] # c
  BY <1>1, RelayAssumption DEF IInv, PeerTaken
<1>3. JoinerOf(c)' = JoinerOf(c)
  BY <1>1, <1>2, JoinerMoves
<1>4. CASE c = d
  <2>1. CreatorOf(c) = "absent" /\ CreatorOf(c)' = "upgrading"
    BY <1>1, <1>4 DEF CreatorOf, Waiting
  <2>2. EntryOf(c)' = TRUE
    BY <1>1, <1>4 DEF EntryOf
  <2>3. Meeting(c)!Insert
    BY <1>1, <1>3, <2>1, <2>2 DEF Meeting!Insert
  <2> QED
    BY <2>3 DEF Meeting!Next
<1>5. CASE c # d
  <2>1. CreatorOf(c)' = CreatorOf(c)
    BY <1>1, <1>5, CreatorStays
  <2>2. CASE EntryOf(c)' = EntryOf(c)
    BY <1>1, <1>3, <2>1, <2>2 DEF Meeting!vars
  <2>3. CASE EntryOf(c)' # EntryOf(c)
    <3>1. EntryOf(c)' => EntryOf(c)
      BY <1>1, <1>5 DEF EntryOf
    <3>2. EntryOf(c) = TRUE /\ EntryOf(c)' = FALSE
      BY <2>3, <3>1 DEF EntryOf
    <3>3. Meeting(c)!Remove
      BY <1>1, <1>3, <2>1, <3>2 DEF Meeting!Remove
    <3> QED
      BY <3>3 DEF Meeting!Next
  <2> QED
    BY <2>2, <2>3
<1> QED
  BY <1>4, <1>5

\* An entry is found and removed in one step, by one joiner.
LEMMA MeetingTake ==
  ASSUME IInv, IInv', NEW c \in Conns, NEW d \in Conns, WsTakePending(d)
  PROVE  [Meeting(c)!Next]_(Meeting(c)!vars)
<1>1. /\ UNCHANGED <<joiner_ready, sid>>
      /\ pc[d] = "missed" /\ pc'[d] \in {"taken", "not_found"}
      /\ \A e \in Conns \ {d} : pc'[e] = pc[e] /\ peer'[e] = peer[e]
      /\ sid[d] \in Sessions
      /\ peer[d] = None
  BY DEF WsTakePending, callVars, IInv, TypeOK, Role, PeerTaken
<1>2. CreatorOf(c)' = CreatorOf(c)
  BY <1>1 DEF CreatorOf, Waiting
<1>3. CASE /\ relay_pending[sid[d]] = c
           /\ peer' = [peer EXCEPT ![d] = relay_pending[sid[d]]]
           /\ relay_pending' = TakePending(sid[d])
           /\ pc' = [pc EXCEPT ![d] = "taken"]
  <2>1. EntryOf(c) = TRUE
    BY <1>1, <1>3 DEF EntryOf
  <2>2. JoinerOf(c) = "absent"
    BY <2>1, EntryIsOwn DEF JoinerOf
  <2>3. peer'[d] = c /\ pc'[d] = "taken"
    BY <1>3 DEF IInv, TypeOK
  <2>4. \A e \in Conns : peer'[e] = c => e = d
    BY <2>3, RelayAssumption DEF IInv, OneToOne
  <2>5. pc'[CHOOSE e \in Conns : peer'[e] = c] = pc'[d]
    BY <2>3, <2>4, ChosenOne
  <2>6. JoinerOf(c)' = "taken"
    BY <2>3, <2>5 DEF JoinerOf, Claimed
  <2>7. EntryOf(c)' = FALSE
    <3>1. \A s \in Sessions : relay_pending[s] = c => s = sid[d]
      BY <1>1, <1>3, RelayAssumption DEF IInv, EntryOwner
    <3>2. \A s \in Sessions : relay_pending'[s] # c
      BY <1>1, <1>3, <3>1, RelayAssumption DEF TakePending, IInv, TypeOK
    <3> QED
      BY <3>2 DEF EntryOf
  <2>8. Meeting(c)!Take
    BY <1>1, <1>2, <2>1, <2>2, <2>6, <2>7 DEF Meeting!Take
  <2> QED
    BY <2>8 DEF Meeting!Next
<1>4. CASE /\ relay_pending[sid[d]] # c
           /\ peer' = [peer EXCEPT ![d] = relay_pending[sid[d]]]
           /\ relay_pending' = TakePending(sid[d])
  <2>1. \A e \in Conns : peer'[e] = c <=> peer[e] = c
    BY <1>1, <1>4, RelayAssumption DEF IInv, TypeOK
  <2>2. \A e \in Conns : peer[e] = c => pc'[e] = pc[e]
    BY <1>1, RelayAssumption
  <2>3. JoinerOf(c)' = JoinerOf(c)
    <3>1. CASE \E e \in Conns : peer[e] = c
      <4>1. PICK e \in Conns : peer[e] = c
        BY <3>1
      <4>2. \A f \in Conns : (peer[f] = c => f = e) /\ (peer'[f] = c => f = e)
        BY <2>1, <4>1, RelayAssumption DEF IInv, OneToOne
      <4>3. pc[CHOOSE f \in Conns : peer[f] = c] = pc[e]
        BY <4>1, <4>2, ChosenOne
      <4>4. pc'[CHOOSE f \in Conns : peer'[f] = c] = pc'[e]
        BY <2>1, <4>1, <4>2, ChosenOne
      <4>5. JoinerOf(c) = pc[e] /\ JoinerOf(c)' = pc'[e]
        BY <2>1, <4>1, <4>3, <4>4 DEF JoinerOf, Claimed
      <4> QED
        BY <2>2, <4>1, <4>5
    <3>2. CASE \A e \in Conns : peer[e] # c
      BY <2>1, <3>2 DEF JoinerOf, Claimed
    <3> QED
      BY <3>1, <3>2
  <2>4. EntryOf(c)' = EntryOf(c)
    BY <1>1, <1>4, RelayAssumption DEF EntryOf, TakePending, IInv, TypeOK
  <2> QED
    BY <1>1, <1>2, <2>3, <2>4 DEF Meeting!vars
<1>5. CASE UNCHANGED <<peer, relay_pending>>
  <2>1. peer[d] # c
    BY <1>1, RelayAssumption
  <2>2. JoinerOf(c)' = JoinerOf(c)
    BY <1>1, <1>5, <2>1, JoinerMoves
  <2> QED
    BY <1>1, <1>2, <1>5, <2>2, EntryStays DEF Meeting!vars
<1> QED
  BY <1>3, <1>4, <1>5 DEF WsTakePending

\* creator_ws starts to wait, joiner_ws notifies, creator_ws is woken.
LEMMA MeetingWait ==
  ASSUME IInv, IInv', NEW c \in Conns, NEW d \in Conns,
         CreatorStart(d) \/ CreatorNotified(d)
  PROVE  [Meeting(c)!Next]_(Meeting(c)!vars)
<1>1. /\ UNCHANGED <<relay_pending, peer>>
      /\ \A e \in Conns \ {d} : pc'[e] = pc[e]
      /\ \/ pc[d] = "upgrading" /\ pc'[d] = "waiting" /\ UNCHANGED joiner_ready
         \/ /\ pc[d] = "waiting" /\ pc'[d] = "linked"
            /\ d \in joiner_ready /\ joiner_ready' = joiner_ready \ {d}
  BY DEF CreatorStart, CreatorNotified, callVars, mapVars, IInv, TypeOK
<1>2. peer[d] # c
  BY <1>1, RelayAssumption DEF IInv, PeerTaken
<1>3. JoinerOf(c)' = JoinerOf(c) /\ EntryOf(c)' = EntryOf(c)
  BY <1>1, <1>2, JoinerMoves, EntryStays
<1>4. CASE c = d
  <2>1. \/ CreatorOf(c) = "upgrading" /\ CreatorOf(c)' = "waiting"
        \/ CreatorOf(c) = "waiting" /\ CreatorOf(c)' = "linked"
    BY <1>1, <1>4 DEF CreatorOf, Waiting
  <2>2. CASE pc[d] = "upgrading"
    <3>1. Meeting(c)!Start
      BY <1>1, <1>3, <1>4, <2>2 DEF Meeting!Start, CreatorOf, Waiting
    <3> QED
      BY <3>1 DEF Meeting!Next
  <2>3. CASE pc[d] = "waiting"
    <3>1. Meeting(c)!Link
      BY <1>1, <1>3, <1>4, <2>3 DEF Meeting!Link, CreatorOf, Waiting
    <3> QED
      BY <3>1 DEF Meeting!Next
  <2> QED
    BY <1>1, <2>2, <2>3
<1>5. CASE c # d
  <2>1. CreatorOf(c)' = CreatorOf(c)
    BY <1>1, <1>5, CreatorStays
  <2>2. (c \in joiner_ready)' = (c \in joiner_ready)
    BY <1>1, <1>5
  <2> QED
    BY <1>3, <2>1, <2>2 DEF Meeting!vars
<1> QED
  BY <1>4, <1>5

LEMMA MeetingJoin ==
  ASSUME IInv, IInv', NEW c \in Conns, NEW d \in Conns, JoinerStart(d)
  PROVE  [Meeting(c)!Next]_(Meeting(c)!vars)
<1>1. /\ UNCHANGED <<relay_pending, peer>>
      /\ \A e \in Conns \ {d} : pc'[e] = pc[e]
      /\ pc[d] = "taken" /\ pc'[d] = "joined"
      /\ peer[d] # None
      /\ joiner_ready' = joiner_ready \cup {peer[d]}
  BY DEF JoinerStart, NotifyOne, callVars, mapVars, IInv, TypeOK, Role
<1>2. EntryOf(c)' = EntryOf(c) /\ CreatorOf(c)' = CreatorOf(c)
  BY <1>1, EntryStays DEF CreatorOf, Waiting
<1>3. CASE peer[d] = c
  <2>1. JoinerOf(c) = "taken" /\ JoinerOf(c)' = "joined"
    BY <1>1, <1>3, JoinerOfTaker, JoinerMoves
  <2>2. (c \in joiner_ready)' = TRUE
    BY <1>1, <1>3
  <2>3. Meeting(c)!Join
    BY <1>2, <2>1, <2>2 DEF Meeting!Join
  <2> QED
    BY <2>3 DEF Meeting!Next
<1>4. CASE peer[d] # c
  <2>1. JoinerOf(c)' = JoinerOf(c)
    BY <1>1, <1>4, JoinerMoves
  <2>2. (c \in joiner_ready)' = (c \in joiner_ready)
    BY <1>1, <1>4
  <2> QED
    BY <1>2, <2>1, <2>2 DEF Meeting!vars
<1> QED
  BY <1>3, <1>4

\* A Pong keeps the handler busy, which nobody else can see.
LEMMA MeetingPong ==
  ASSUME IInv, IInv', NEW c \in Conns, NEW d \in Conns, CreatorPinged(d) \/ PongDone(d)
  PROVE  UNCHANGED Meeting(c)!vars
<1>1. /\ UNCHANGED <<relay_pending, joiner_ready, peer>>
      /\ \A e \in Conns \ {d} : pc'[e] = pc[e]
      /\ pc[d] \in {"waiting", "ponging"} /\ pc'[d] \in {"waiting", "ponging"}
  BY DEF CreatorPinged, PongDone, callVars, mapVars, IInv, TypeOK
<1>2. peer[d] # c
  BY <1>1, RelayAssumption DEF IInv, PeerTaken
<1>3. JoinerOf(c)' = JoinerOf(c)
  BY <1>1, <1>2, JoinerMoves
<1>4. CreatorOf(c)' = CreatorOf(c)
  BY <1>1 DEF CreatorOf, Waiting
<1> QED
  BY <1>1, <1>3, <1>4, EntryStays DEF Meeting!vars

\* An early return of creator_ws removes an entry of its session, its own or
\* that of another socket.
LEMMA MeetingLeave ==
  ASSUME IInv, IInv', NEW c \in Conns, NEW d \in Conns, CreatorLeaves(d)
  PROVE  [Meeting(c)!Next]_(Meeting(c)!vars)
<1>1. /\ UNCHANGED <<joiner_ready, peer, sid>>
      /\ \A e \in Conns \ {d} : pc'[e] = pc[e]
      /\ pc[d] = "waiting" /\ pc'[d] = "gone"
      /\ sid[d] \in Sessions
      /\ relay_pending' = [relay_pending EXCEPT ![sid[d]] = None]
  BY DEF CreatorLeaves, callVars, IInv, TypeOK, Role
<1>2. peer[d] # c
  BY <1>1, RelayAssumption DEF IInv, PeerTaken
<1>3. JoinerOf(c)' = JoinerOf(c)
  BY <1>1, <1>2, JoinerMoves
<1>4. EntryOf(c)' => EntryOf(c)
  BY <1>1, RelayAssumption DEF EntryOf, IInv, TypeOK
<1>5. CASE c = d
  <2>1. CreatorOf(c) = "waiting" /\ CreatorOf(c)' = "gone"
    BY <1>1, <1>5 DEF CreatorOf, Waiting
  <2>2. EntryOf(c)' = FALSE
    <3>1. \A s \in Sessions : relay_pending[s] = d => s = sid[d]
      BY RelayAssumption DEF IInv, EntryOwner
    <3>2. \A s \in Sessions : relay_pending'[s] # d
      BY <1>1, <3>1, RelayAssumption DEF IInv, TypeOK
    <3> QED
      BY <1>5, <3>2 DEF EntryOf
  <2>3. Meeting(c)!Leave
    BY <1>1, <1>3, <2>1, <2>2 DEF Meeting!Leave
  <2> QED
    BY <2>3 DEF Meeting!Next
<1>6. CASE c # d
  <2>1. CreatorOf(c)' = CreatorOf(c)
    BY <1>1, <1>6, CreatorStays
  <2>2. CASE EntryOf(c)' = EntryOf(c)
    BY <1>1, <1>3, <2>1, <2>2 DEF Meeting!vars
  <2>3. CASE EntryOf(c)' # EntryOf(c)
    <3>1. EntryOf(c) = TRUE /\ EntryOf(c)' = FALSE
      BY <1>4, <2>3 DEF EntryOf
    <3>2. Meeting(c)!Remove
      BY <1>1, <1>3, <2>1, <3>1 DEF Meeting!Remove
    <3> QED
      BY <3>2 DEF Meeting!Next
  <2> QED
    BY <2>2, <2>3
<1> QED
  BY <1>5, <1>6

\* A handler ends, in the middle of its setup or of its relay loop: that of
\* the creator, or that of the joiner.
LEMMA MeetingEnd ==
  ASSUME IInv, IInv', NEW c \in Conns, NEW d \in Conns,
         WsAbandon(d) \/ RelayEnds(d) \/ OtherFrame(d)
  PROVE  [Meeting(c)!Next]_(Meeting(c)!vars)
<1>1. /\ UNCHANGED <<relay_pending, joiner_ready, peer>>
      /\ \A e \in Conns \ {d} : pc'[e] = pc[e]
      /\ pc[d] \in SettingUp \cup {"linked", "joined"} /\ pc'[d] = "gone"
  BY DEF WsAbandon, RelayEnds, OtherFrame, callVars, mapVars, IInv, TypeOK
<1>2. EntryOf(c)' = EntryOf(c)
  BY <1>1, EntryStays
<1>3. CASE c = d
  <2>1. JoinerOf(c)' = JoinerOf(c)
    BY <1>1, <1>3, NotOwnPeer, JoinerMoves
  <2>2. CreatorOf(c)' = "gone" /\ CreatorOf(c) \in {"absent", "upgrading", "linked"}
    BY <1>1, <1>3 DEF CreatorOf, Waiting, SettingUp
  <2>3. CASE CreatorOf(c) \in {"absent", "upgrading"}
    <3>1. Meeting(c)!Drop
      BY <1>1, <1>2, <2>1, <2>2, <2>3 DEF Meeting!Drop
    <3> QED
      BY <3>1 DEF Meeting!Next
  <2>4. CASE CreatorOf(c) = "linked"
    <3>1. Meeting(c)!CreatorEnds
      BY <1>1, <1>2, <2>1, <2>2, <2>4 DEF Meeting!CreatorEnds
    <3> QED
      BY <3>1 DEF Meeting!Next
  <2> QED
    BY <2>2, <2>3, <2>4
<1>4. CASE peer[d] = c
  <2>1. c # d
    BY <1>4, NotOwnPeer
  <2>2. CreatorOf(c)' = CreatorOf(c)
    BY <1>1, <2>1, CreatorStays
  <2>3. pc[d] \in {"taken", "joined"}
    BY <1>1, <1>4, RelayAssumption DEF IInv, PeerTaken, SettingUp
  <2>4. JoinerOf(c) = pc[d] /\ JoinerOf(c)' = "gone"
    BY <1>1, <1>4, RelayAssumption, JoinerOfTaker, JoinerMoves
  <2>5. Meeting(c)!JoinerEnds
    BY <1>1, <1>2, <2>2, <2>3, <2>4 DEF Meeting!JoinerEnds
  <2> QED
    BY <2>5 DEF Meeting!Next
<1>5. CASE c # d /\ peer[d] # c
  <2>1. CreatorOf(c)' = CreatorOf(c) /\ JoinerOf(c)' = JoinerOf(c)
    BY <1>1, <1>5, CreatorStays, JoinerMoves
  <2> QED
    BY <1>1, <1>2, <2>1 DEF Meeting!vars
<1> QED
  BY <1>3, <1>4, <1>5

\* The cleanup removes entries and touches no handler.
LEMMA MeetingPurge ==
  ASSUME IInv, NEW c \in Conns, PurgePending
  PROVE  [Meeting(c)!Next]_(Meeting(c)!vars)
<1>1. UNCHANGED <<pc, peer, joiner_ready>>
  BY DEF PurgePending, connVars
<1>2. CreatorOf(c)' = CreatorOf(c) /\ JoinerOf(c)' = JoinerOf(c)
  BY <1>1, CreatorStays, JoinerStays
<1>3. EntryOf(c)' => EntryOf(c)
  BY RelayAssumption DEF PurgePending, EntryOf
<1>4. CASE EntryOf(c)' = EntryOf(c)
  BY <1>1, <1>2, <1>4 DEF Meeting!vars
<1>5. CASE EntryOf(c)' # EntryOf(c)
  <2>1. EntryOf(c) = TRUE /\ EntryOf(c)' = FALSE
    BY <1>3, <1>5 DEF EntryOf
  <2>2. Meeting(c)!Remove
    BY <1>1, <1>2, <2>1 DEF Meeting!Remove
  <2> QED
    BY <2>2 DEF Meeting!Next
<1> QED
  BY <1>4, <1>5

\* Any number of sockets, joiners and sessions compete for the maps, and yet
\* each creator meets its joiner as Handshake says.
THEOREM Rendezvous == Spec => HandlersMeet
<1>1. Init => \A c \in Conns : Meeting(c)!Init
  BY MeetingInit
<1>2. IInv /\ IInv' /\ [Next]_vars => \A c \in Conns : [Meeting(c)!Next]_(Meeting(c)!vars)
  <2> SUFFICES ASSUME IInv, IInv', [Next]_vars, NEW c \in Conns
               PROVE  [Meeting(c)!Next]_(Meeting(c)!vars)
    OBVIOUS
  <2>1. ASSUME NEW d \in Conns,
               \/ \E s \in Sessions, t \in {"A", "B"} : WsLookup(d, s, t)
               \/ Handler(d) \/ CreatorPinged(d) \/ PongTaken(d) \/ OtherFrame(d)
        PROVE  [Meeting(c)!Next]_(Meeting(c)!vars)
    BY <2>1, MeetingOutside, MeetingInsert, MeetingTake, MeetingWait, MeetingPong, MeetingJoin,
       MeetingLeave, MeetingEnd
       DEF Handler, CreatorClosed, CreatorTimedOut, PongTaken, PongFails
  <2>2. CASE PurgePending
    BY <2>2, MeetingPurge
  <2>3. CASE \/ Call \/ PurgeInit \/ Tick \/ UNCHANGED vars
             \/ \E d \in Conns : ClientCloses(d)
    <3>1. UNCHANGED <<relay_pending, pc, peer, joiner_ready>>
      BY <2>3 DEF Call, CreateCheck, CreatePersist, CreateInsert, CreateAbort, JoinRead,
           JoinRecord, JoinAbort, PurgeInit, Tick, ClientCloses, vars, mapVars, connVars
    <3> QED
      BY <3>1, MeetingSame
  <2> QED
    BY <2>1, <2>2, <2>3 DEF Next, FromClient
<1> QED
  BY <1>1, <1>2, Invariance, PTL DEF Spec, HandlersMeet
=============================================================================
