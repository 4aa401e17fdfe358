------------------------- MODULE GroupMembers_proof --------------------------
(***************************************************************************)
(* Proofs about GroupMembers, for any number of users and joins.           *)
(***************************************************************************)
EXTENDS GroupMembers, FiniteSetTheorems, TLAPS

\* A call past its check has a username; past Rank it has a role.
CallHasName ==
  \A k \in Calls :
    /\ pc[k] # "idle" => name[k] \in Users
    /\ pc[k] = "ranked" => role[k] \in Roles

\* A call that was told "member" has seen a member.
MemberHasSeenOne ==
  \A k \in Calls : pc[k] = "ranked" /\ role[k] = "member" /\ ~left
                     => Members # {}

\* A key that is not in the database yet is the call's own.
KeyIsOwn == \A k \in Calls : pc[k] = "keyless" => key[k] = k

\* Every call in progress may add a row to those that were counted.
Counted ==
  /\ IsFiniteSet(Members) /\ IsFiniteSet(Joining)
  /\ Cardinality(Joining) <= peak
  /\ MaxMembers > 0 /\ ~miscounted =>
       Cardinality(Members) + Cardinality(Joining) < MaxMembers + peak

\* A member who joins again keeps the role: an owner is not demoted, and
\* nobody is promoted.
RoleIsKept ==
  [][\A u \in Users : rank[u] # None /\ rank'[u] # None => rank'[u] = rank[u]]_vars

IInv ==
  /\ TypeOK
  /\ CallHasName
  /\ MemberHasSeenOne
  /\ KeyIsOwn
  /\ KeyAgreement
  /\ OwnedGroup
  /\ Counted

-----------------------------------------------------------------------------

LEMMA InitInv == Init => IInv
<1> SUFFICES ASSUME Init PROVE IInv
  OBVIOUS
<1>1. Members = {}
  BY DEF Init, Members
<1>2. TypeOK
  BY DEF Init, TypeOK
<1>3. CallHasName /\ MemberHasSeenOne /\ KeyIsOwn /\ KeyAgreement
  BY DEF Init, CallHasName, MemberHasSeenOne, KeyIsOwn, KeyAgreement
<1>4. Joining = {}
  BY DEF Init, Joining
<1>5. Counted
  BY <1>1, <1>4, FS_EmptySet, MembersAssumption DEF Init, Counted
<1> QED
  BY <1>1, <1>2, <1>3, <1>5 DEF IInv, OwnedGroup

-----------------------------------------------------------------------------
(***************************************************************************)
(* The counts.                                                             *)
(***************************************************************************)

InProgress == {"admitted", "keyless", "keyed", "ranked"}

\* A call that moves on joins those in progress, stays or leaves them.
LEMMA JoiningMoves ==
  ASSUME TypeOK, NEW k \in Calls, NEW to, pc' = [pc EXCEPT ![k] = to]
  PROVE  Joining' = IF to \in InProgress THEN Joining \cup {k} ELSE Joining \ {k}
  BY DEF TypeOK, Joining, InProgress

\* The call that is admitted counts itself; the count it saw was below the
\* limit.
LEMMA CountedCheck ==
  ASSUME IInv, NEW k \in Calls, NEW u \in Users, JoinCheck(k, u)
  PROVE  Counted' /\ peak' \in Nat /\ miscounted' \in BOOLEAN
<1>1. PICK n \in 0 .. Cardinality(Members) :
        /\ Goto(k, "idle", IF MaxMembers > 0 /\ n >= MaxMembers THEN "failed" ELSE "admitted")
        /\ Recorded(n)
  BY DEF JoinCheck
<1>2. Members' = Members
  BY DEF JoinCheck, Members
<1>3. /\ IsFiniteSet(Members) /\ IsFiniteSet(Joining)
      /\ Cardinality(Members) \in Nat /\ Cardinality(Joining) \in Nat
      /\ peak \in Nat /\ miscounted \in BOOLEAN /\ MaxMembers \in Nat
  BY FS_CardinalityType, MembersAssumption DEF IInv, Counted, TypeOK
<1>4. k \notin Joining
  BY <1>1 DEF Joining, Goto
<1>5. CASE MaxMembers > 0 /\ n >= MaxMembers
  <2>1. Joining' = Joining
    <3>1. pc' = [pc EXCEPT ![k] = "failed"]
      BY <1>1, <1>5 DEF Goto
    <3>2. Joining' = Joining \ {k}
      BY <3>1, JoiningMoves DEF IInv, InProgress
    <3> QED
      BY <1>4, <3>2
  <2>2. peak' = peak
    BY <1>1, <1>3, <2>1 DEF Recorded, IInv, Counted
  <2>3. miscounted' \in BOOLEAN /\ (~miscounted' => ~miscounted)
    BY <1>1, <1>3 DEF Recorded
  <2> QED
    BY <1>2, <1>3, <2>1, <2>2, <2>3 DEF IInv, Counted
<1>6. CASE ~(MaxMembers > 0 /\ n >= MaxMembers)
  <2>1. Joining' = Joining \cup {k}
    BY <1>1, <1>6, JoiningMoves DEF IInv, Goto, InProgress
  <2>2. IsFiniteSet(Joining') /\ Cardinality(Joining') = Cardinality(Joining) + 1
    BY <1>3, <1>4, <2>1, FS_AddElement
  <2>3. peak' \in Nat /\ Cardinality(Joining') <= peak'
    BY <1>1, <1>3, <2>2 DEF Recorded
  <2>4. miscounted' \in BOOLEAN /\ (~miscounted' => n = Cardinality(Members))
    BY <1>1, <1>3 DEF Recorded
  <2>5. MaxMembers > 0 /\ ~miscounted' => Cardinality(Members) < MaxMembers
    BY <1>3, <1>6, <2>4
  <2> QED
    BY <1>2, <1>3, <2>2, <2>3, <2>4, <2>5 DEF Counted
<1> QED
  BY <1>5, <1>6

\* A call that inserts no row or stops, and members who leave.
LEMMA CountedLess ==
  ASSUME IInv, UNCHANGED history, Members' \subseteq Members, Joining' \subseteq Joining
  PROVE  Counted'
<1>1. /\ IsFiniteSet(Members') /\ IsFiniteSet(Joining')
      /\ Cardinality(Members) \in Nat /\ Cardinality(Joining) \in Nat
      /\ Cardinality(Members') \in Nat /\ Cardinality(Joining') \in Nat
      /\ Cardinality(Members') <= Cardinality(Members)
      /\ Cardinality(Joining') <= Cardinality(Joining)
      /\ peak \in Nat /\ MaxMembers \in Nat
  BY FS_CardinalityType, FS_Subset, MembersAssumption DEF IInv, Counted, TypeOK
<1> QED
  BY <1>1 DEF IInv, Counted, history

-----------------------------------------------------------------------------

\* The steps of a join call that change no row of group_members.
LEMMA JoinInv ==
  ASSUME IInv, NEW k \in Calls,
         \/ \E u \in Users : JoinCheck(k, u)
         \/ KeyRead(k) \/ KeyInsert(k) \/ JoinAbort(k)
  PROVE  IInv'
<1>1. rank' = rank /\ left' = left /\ Members' = Members
  BY DEF JoinCheck, KeyRead, KeyInsert, JoinAbort, Members
<1>2. OwnedGroup'
  BY <1>1 DEF IInv, OwnedGroup
<1>3. ASSUME NEW u \in Users, JoinCheck(k, u)
      PROVE  IInv'
  <2>1. Counted' /\ peak' \in Nat /\ miscounted' \in BOOLEAN
    BY <1>3, CountedCheck
  <2>2. PICK to \in {"failed", "admitted"} : Goto(k, "idle", to)
    BY <1>3 DEF JoinCheck
  <2>3. name' = [name EXCEPT ![k] = u]
        /\ UNCHANGED <<key, role, group_key, token, rank, leaving, left>>
    BY <1>3 DEF JoinCheck
  <2>4. TypeOK'
    BY <2>1, <2>2, <2>3 DEF IInv, TypeOK, Goto
  <2>5. (CallHasName /\ MemberHasSeenOne /\ KeyIsOwn /\ KeyAgreement)'
    BY <1>1, <2>2, <2>3
       DEF IInv, TypeOK, Goto, CallHasName, MemberHasSeenOne, KeyIsOwn, KeyAgreement
  <2> QED
    BY <1>2, <2>1, <2>4, <2>5 DEF IInv
<1>4. ASSUME KeyRead(k) \/ KeyInsert(k) \/ JoinAbort(k)
      PROVE  Counted'
  <2>1. PICK to : Goto(k, pc[k], to) /\ pc[k] \in InProgress
    BY <1>4 DEF KeyRead, KeyInsert, JoinAbort, Goto, InProgress
  <2>2. k \in Joining
    BY <2>1 DEF Joining, InProgress
  <2>3. Joining' \subseteq Joining
    BY <2>1, <2>2, JoiningMoves DEF IInv, Goto
  <2>4. UNCHANGED history
    BY <1>4 DEF KeyRead, KeyInsert, JoinAbort
  <2> QED
    BY <1>1, <2>3, <2>4, CountedLess
<1>5. CASE KeyRead(k)
  BY <1>1, <1>2, <1>4, <1>5, MembersAssumption
     DEF IInv, KeyRead, Goto, TypeOK, CallHasName, MemberHasSeenOne, KeyIsOwn,
         KeyAgreement, history
<1>6. CASE KeyInsert(k)
  BY <1>1, <1>2, <1>4, <1>6, MembersAssumption
     DEF IInv, KeyInsert, Goto, TypeOK, CallHasName, MemberHasSeenOne, KeyIsOwn,
         KeyAgreement, history
<1>7. CASE JoinAbort(k)
  BY <1>1, <1>2, <1>4, <1>7, MembersAssumption
     DEF IInv, JoinAbort, Goto, TypeOK, CallHasName, MemberHasSeenOne, KeyIsOwn,
         KeyAgreement, history
<1> QED
  BY <1>3, <1>5, <1>6, <1>7

LEMMA RankInv ==
  ASSUME IInv, NEW k \in Calls, Rank(k)
  PROVE  IInv'
<1>1. PICK n \in 0 .. Cardinality(Members) :
        /\ CountMayBe(n)
        /\ role' = [role EXCEPT ![k] = IF n = 0 THEN "owner" ELSE "member"]
  BY DEF Rank
<1>2. Members' = Members /\ left' = left /\ rank' = rank
  BY DEF Rank, Members
<1>3. n # 0 => Members # {}
  BY <1>1, FS_EmptySet DEF CountMayBe
<1>4. MemberHasSeenOne'
  BY <1>1, <1>2, <1>3 DEF IInv, TypeOK, MemberHasSeenOne, Rank, Goto
<1>5. TypeOK'
  BY <1>1, <1>2 DEF IInv, TypeOK, Rank, Goto, Roles, history
<1>6. (CallHasName /\ KeyIsOwn /\ KeyAgreement)'
  BY <1>1 DEF IInv, TypeOK, CallHasName, KeyIsOwn, KeyAgreement, Rank, Goto, Roles
<1>7. OwnedGroup'
  BY <1>2 DEF IInv, OwnedGroup
<1>8. Counted'
  <2>1. pc[k] = "keyed" /\ pc' = [pc EXCEPT ![k] = "ranked"] /\ UNCHANGED history
    BY DEF Rank, Goto
  <2>2. Joining' = Joining
    BY <2>1, JoiningMoves DEF IInv, Joining, InProgress
  <2> QED
    BY <1>2, <2>1, <2>2, CountedLess
<1> QED
  BY <1>4, <1>5, <1>6, <1>7, <1>8 DEF IInv

LEMMA UpsertInv ==
  ASSUME IInv, NEW k \in Calls, Upsert(k)
  PROVE  IInv'
<1>1. name[k] \in Users /\ role[k] \in Roles
  BY DEF IInv, CallHasName, Upsert, Goto
<1>2. /\ token' = [token EXCEPT ![name[k]] = k]
      /\ rank' = [rank EXCEPT ![name[k]] =
                    IF rank[name[k]] = None THEN role[k] ELSE rank[name[k]]]
      /\ left' = left /\ pc' = [pc EXCEPT ![k] = "served"]
      /\ pc[k] = "ranked"
      /\ UNCHANGED <<name, key, role, group_key, leaving, history>>
  BY DEF Upsert, Goto
<1>3. TypeOK'
  BY <1>1, <1>2, MembersAssumption DEF IInv, TypeOK, Roles, history
<1>4. \A u \in Users : rank[u] # None => rank'[u] = rank[u]
  BY <1>1, <1>2 DEF IInv, TypeOK
<1>5. Members \subseteq Members' /\ rank'[name[k]] # None
  BY <1>1, <1>2, <1>4, MembersAssumption DEF IInv, TypeOK, Members, Roles
<1>6. (CallHasName /\ KeyIsOwn /\ KeyAgreement)'
  BY <1>2 DEF IInv, TypeOK, CallHasName, KeyIsOwn, KeyAgreement
<1>7. MemberHasSeenOne'
  BY <1>2, <1>5 DEF IInv, TypeOK, MemberHasSeenOne
<1>8. OwnedGroup'
  <2> SUFFICES ASSUME ~left
               PROVE  \E u \in Members' : rank'[u] = "owner"
    BY <1>2 DEF OwnedGroup
  <2>1. CASE Members # {}
    BY <1>2, <1>4, <1>5, <2>1, MembersAssumption DEF IInv, OwnedGroup, Members
  <2>2. CASE Members = {}
    <3>1. role[k] = "owner"
      BY <1>1, <1>2, <2>2 DEF IInv, MemberHasSeenOne, Roles
    <3>2. rank[name[k]] = None
      BY <1>1, <2>2 DEF Members
    <3> QED
      BY <1>1, <1>2, <1>5, <3>1, <3>2 DEF IInv, TypeOK, Members
  <2> QED
    BY <2>1, <2>2
\* The row is new or not; the call is no longer in progress.
<1>9. Counted'
  <2>1. Joining' = Joining \ {k} /\ k \in Joining
    BY <1>2, JoiningMoves DEF IInv, Joining, InProgress
  <2>2. Members' \subseteq Members \cup {name[k]}
    BY <1>1, <1>2 DEF Members, IInv, TypeOK
  <2>3. /\ IsFiniteSet(Members) /\ IsFiniteSet(Joining)
        /\ Cardinality(Members) \in Nat /\ Cardinality(Joining) \in Nat
        /\ peak \in Nat /\ MaxMembers \in Nat
    BY FS_CardinalityType, MembersAssumption DEF IInv, Counted, TypeOK
  <2>4. IsFiniteSet(Joining') /\ Cardinality(Joining') = Cardinality(Joining) - 1
    BY <2>1, <2>3, FS_RemoveElement
  <2>5. /\ IsFiniteSet(Members \cup {name[k]})
        /\ Cardinality(Members \cup {name[k]}) \in Nat
        /\ Cardinality(Members \cup {name[k]}) <= Cardinality(Members) + 1
    <3>1. CASE name[k] \in Members
      <4>1. Members \cup {name[k]} = Members
        BY <3>1
      <4>2. /\ IsFiniteSet(Members \cup {name[k]})
            /\ Cardinality(Members \cup {name[k]}) = Cardinality(Members)
        BY <2>3, <4>1, Zenon
      <4> QED
        BY <2>3, <4>2
    <3>2. CASE name[k] \notin Members
      BY <2>3, <3>2, FS_AddElement
    <3> QED
      BY <3>1, <3>2
  <2>6. /\ IsFiniteSet(Members') /\ Cardinality(Members') \in Nat
        /\ Cardinality(Members') <= Cardinality(Members \cup {name[k]})
    BY <2>2, <2>5, FS_Subset, FS_CardinalityType
  <2> QED
    BY <1>2, <2>3, <2>4, <2>5, <2>6 DEF IInv, Counted, history
<1> QED
  BY <1>3, <1>6, <1>7, <1>8, <1>9 DEF IInv

LEMMA LeaveInv ==
  ASSUME IInv, NEW u \in Users, LeaveResolve(u) \/ LeaveDelete(u)
  PROVE  IInv'
<1>1. TypeOK'
  BY DEF IInv, TypeOK, LeaveResolve, LeaveDelete, history
<1>2. (CallHasName /\ KeyIsOwn /\ KeyAgreement)'
  BY DEF IInv, CallHasName, KeyIsOwn, KeyAgreement, LeaveResolve, LeaveDelete
<1>3. (MemberHasSeenOne /\ OwnedGroup)'
  <2>1. CASE LeaveResolve(u)
    BY <2>1 DEF IInv, MemberHasSeenOne, OwnedGroup, Members, LeaveResolve
  <2>2. CASE LeaveDelete(u)
    BY <2>2 DEF MemberHasSeenOne, OwnedGroup, LeaveDelete
  <2> QED
    BY <2>1, <2>2
<1>4. Counted'
  <2>1. Members' \subseteq Members /\ Joining' = Joining /\ UNCHANGED history
    BY DEF IInv, TypeOK, Members, Joining, LeaveResolve, LeaveDelete
  <2> QED
    BY <2>1, CountedLess
<1> QED
  BY <1>1, <1>2, <1>3, <1>4 DEF IInv

\* IInv is inductive.
LEMMA StepInv == IInv /\ [Next]_vars => IInv'
<1> SUFFICES ASSUME IInv, [Next]_vars
             PROVE  IInv'
  OBVIOUS
<1>1. ASSUME NEW k \in Calls, NEW u \in Users, JoinCheck(k, u)
      PROVE  IInv'
  BY <1>1, JoinInv
<1>2. ASSUME NEW k \in Calls, Join(k)
      PROVE  IInv'
  BY <1>2, JoinInv, RankInv, UpsertInv DEF Join
<1>3. ASSUME NEW u \in Leavers, LeaveResolve(u) \/ LeaveDelete(u)
      PROVE  IInv'
  BY <1>3, LeaveInv, MembersAssumption
<1>4. CASE UNCHANGED vars
  BY <1>4 DEF vars, history, IInv, TypeOK, CallHasName, MemberHasSeenOne, KeyIsOwn,
              KeyAgreement, OwnedGroup, Counted, Members, Joining
<1> QED
  BY <1>1, <1>2, <1>3, <1>4 DEF Next

\* A call's progress, key and role, and every row, keep their types.
THEOREM TypeCorrect == Spec => []TypeOK
  BY InitInv, StepInv, PTL DEF Spec, IInv

\* All members ever let in share the key in the database, however many joins
\* race to create it.
THEOREM SharedKey == Spec => []KeyAgreement
  BY InitInv, StepInv, PTL DEF Spec, IInv

\* Until the first leave a group with members has an owner, whatever joins
\* race and whatever counts fail.
THEOREM HasOwner == Spec => []OwnedGroup
  BY InitInv, StepInv, PTL DEF Spec, IInv

\* Without a failed count the limit is exceeded by less than the number of
\* calls that were in progress together, however many calls there are.
THEOREM MembersBound == Spec => []MemberBound
<1>1. IInv => MemberBound
  <2> SUFFICES ASSUME IInv, MaxMembers > 0, ~miscounted
               PROVE  Cardinality(Members) < MaxMembers + peak
    BY DEF MemberBound
  <2>1. Cardinality(Members) \in Nat /\ Cardinality(Joining) \in Nat /\ peak \in Nat
    BY FS_CardinalityType DEF IInv, Counted, TypeOK
  <2> QED
    BY <2>1, MembersAssumption DEF IInv, Counted
<1> QED
  BY <1>1, InitInv, StepInv, PTL DEF Spec

\* Joining again never changes a member's role.
THEOREM RoleStays == Spec => RoleIsKept
<1>1. IInv /\ [Next]_vars =>
        [\A u \in Users : rank[u] # None /\ rank'[u] # None
                            => rank'[u] = rank[u]]_vars
  <2> SUFFICES ASSUME IInv, Next, NEW u \in Users,
                      rank[u] # None, rank'[u] # None
               PROVE  rank'[u] = rank[u]
    OBVIOUS
  <2>1. ASSUME NEW k \in Calls, Upsert(k)
        PROVE  rank'[u] = rank[u]
    BY <2>1 DEF IInv, TypeOK, Upsert
  <2>2. ASSUME NEW k \in Calls, NEW v \in Users,
               \/ JoinCheck(k, v) \/ KeyRead(k) \/ KeyInsert(k)
               \/ Rank(k) \/ JoinAbort(k)
        PROVE  rank' = rank
    BY <2>2 DEF JoinCheck, KeyRead, KeyInsert, Rank, JoinAbort
  <2>3. ASSUME NEW v \in Users, LeaveResolve(v) \/ LeaveDelete(v)
        PROVE  rank'[u] = rank[u]
    BY <2>3 DEF IInv, TypeOK, LeaveResolve, LeaveDelete
  <2> QED
    BY <2>1, <2>2, <2>3, MembersAssumption DEF Next, Join
<1> QED
  BY <1>1, InitInv, StepInv, PTL DEF Spec, RoleIsKept
=============================================================================
