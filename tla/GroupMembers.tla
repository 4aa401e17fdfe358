---------------------------- MODULE GroupMembers -----------------------------
(***************************************************************************)
(* Membership of the group mode: POST /group/join with its four separate   *)
(* queries, get_or_create_group_key, and the DELETE of /group/leave.  A    *)
(* call is dropped at any await if its client hangs up.                    *)
(*                                                                         *)
(* Tokens and keys are named after the join call that generates them.      *)
(* What a join or leave tells the connected members changes none of this   *)
(* state: see GroupChat.                                                   *)
(***************************************************************************)
EXTENDS Naturals, FiniteSets

CONSTANTS
  Users,           \* usernames
  Calls,           \* calls of POST /group/join
  Leavers,         \* bound: users who may call DELETE /group/leave
  None,
  MaxMembers,      \* group.max_members, 0 for no limit
  DbFails          \* whether a SELECT COUNT may fail

ASSUME MembersAssumption ==
  /\ None \notin Users \cup Calls \cup {"owner", "member"}
  /\ Leavers \subseteq Users
  /\ MaxMembers \in Nat
  /\ DbFails \in BOOLEAN

VARIABLES
  pc,              \* progress of each join call
  name,            \* its username
  key,             \* the group key it has
  role,            \* the role it was told
  group_key,       \* row 'group_key' of group_config
  token,           \* token_hash of each user's row in group_members
  rank,            \* role of each user's row, None if there is no row
  leaving,         \* users whose leave call has found their row
  left,            \* whether anyone has left yet
  peak,            \* the most join calls that were in progress at one time
  miscounted       \* whether a call was admitted on a count that failed

history == <<peak, miscounted>>
vars == <<pc, name, key, role, group_key, token, rank, leaving, left, history>>

Roles == {"owner", "member"}

Members == {u \in Users : rank[u] # None}

\* Calls between their check of the limit and their INSERT.
Joining == {k \in Calls : pc[k] \in {"admitted", "keyless", "keyed", "ranked"}}

\* The types of the variables; a row has a role exactly when it has a token.
TypeOK ==
  /\ pc \in [Calls -> {"idle", "admitted", "keyless", "keyed", "ranked",
                       "served", "failed"}]
  /\ name \in [Calls -> Users \cup {None}]
  /\ key \in [Calls -> Calls \cup {None}]
  /\ role \in [Calls -> Roles \cup {None}]
  /\ group_key \in Calls \cup {None}
  /\ token \in [Users -> Calls \cup {None}]
  /\ rank \in [Users -> Roles \cup {None}]
  /\ \A u \in Users : rank[u] = None <=> token[u] = None
  /\ leaving \subseteq Users
  /\ left \in BOOLEAN
  /\ peak \in Nat
  /\ miscounted \in BOOLEAN

Init ==
  /\ pc = [k \in Calls |-> "idle"]
  /\ name = [k \in Calls |-> None] /\ key = name /\ role = name
  /\ group_key = None
  /\ token = [u \in Users |-> None] /\ rank = token
  /\ leaving = {}
  /\ left = FALSE
  /\ peak = 0
  /\ miscounted = FALSE

Goto(k, from, to) == pc[k] = from /\ pc' = [pc EXCEPT ![k] = to]

\* get_member_count: an error counts as an empty group.
CountMayBe(n) == (n = Cardinality(Members)) \/ (DbFails /\ n = 0)

-----------------------------------------------------------------------------
(***************************************************************************)
(* POST /group/join.                                                       *)
(***************************************************************************)

Recorded(n) ==
  /\ peak' = IF Cardinality(Joining') > peak THEN Cardinality(Joining') ELSE peak
  /\ miscounted' = (miscounted \/ n # Cardinality(Members))

\* Fault: the limit itself is still admitted.
AdmitOneMore(k, u) ==
  /\ \E n \in 0 .. Cardinality(Members) :
       /\ CountMayBe(n)
       /\ Goto(k, "idle", IF MaxMembers > 0 /\ n > MaxMembers
                          THEN "failed" ELSE "admitted")
       /\ Recorded(n)
  /\ name' = [name EXCEPT ![k] = u]
  /\ UNCHANGED <<key, role, group_key, token, rank, leaving, left>>

JoinCheck(k, u) ==
  /\ \E n \in 0 .. Cardinality(Members) :
       /\ CountMayBe(n)
       /\ Goto(k, "idle", IF MaxMembers > 0 /\ n >= MaxMembers
                          THEN "failed" ELSE "admitted")
       /\ Recorded(n)
  /\ name' = [name EXCEPT ![k] = u]
  /\ UNCHANGED <<key, role, group_key, token, rank, leaving, left>>

\* SELECT the key; without a row one is generated.
KeyRead(k) ==
  /\ Goto(k, "admitted", IF group_key = None THEN "keyless" ELSE "keyed")
  /\ key' = [key EXCEPT ![k] = IF group_key = None THEN k ELSE group_key]
  /\ UNCHANGED <<name, role, group_key, token, rank, leaving, left, history>>

\* Fault: the row of another call is replaced.
KeyReplace(k) ==
  /\ Goto(k, "keyless", "keyed")
  /\ group_key' = key[k]
  /\ UNCHANGED <<name, key, role, token, rank, leaving, left, history>>

\* INSERT the key: the primary key makes all but one of several calls fail.
KeyInsert(k) ==
  /\ \/ group_key = None /\ group_key' = key[k] /\ Goto(k, "keyless", "keyed")
     \/ group_key # None /\ Goto(k, "keyless", "failed") /\ UNCHANGED group_key
  /\ UNCHANGED <<name, key, role, token, rank, leaving, left, history>>

\* The first to join becomes owner.
Rank(k) ==
  /\ Goto(k, "keyed", "ranked")
  /\ \E n \in 0 .. Cardinality(Members) :
       /\ CountMayBe(n)
       /\ role' = [role EXCEPT ![k] = IF n = 0 THEN "owner" ELSE "member"]
  /\ UNCHANGED <<name, key, group_key, token, rank, leaving, left, history>>

\* Fault: ON CONFLICT also sets the role.
UpsertRole(k) ==
  /\ Goto(k, "ranked", "served")
  /\ token' = [token EXCEPT ![name[k]] = k]
  /\ rank' = [rank EXCEPT ![name[k]] = role[k]]
  /\ UNCHANGED <<name, key, role, group_key, leaving, left, history>>

\* INSERT ... ON CONFLICT(username) DO UPDATE of pubkey and token only.
Upsert(k) ==
  /\ Goto(k, "ranked", "served")
  /\ token' = [token EXCEPT ![name[k]] = k]
  /\ rank' = [rank EXCEPT ![name[k]] = IF @ = None THEN role[k] ELSE @]
  /\ UNCHANGED <<name, key, role, group_key, leaving, left, history>>

\* A query fails, or the client hangs up.
JoinAbort(k) ==
  /\ \E from \in {"admitted", "keyless", "keyed", "ranked"} : Goto(k, from, "failed")
  /\ UNCHANGED <<name, key, role, group_key, token, rank, leaving, left, history>>

LeaveResolve(u) ==
  /\ rank[u] # None
  /\ leaving' = leaving \cup {u}
  /\ UNCHANGED <<pc, name, key, role, group_key, token, rank, left, history>>

\* Fault: leaving revokes the token and keeps the row.
LeaveRevoke(u) ==
  /\ u \in leaving
  /\ token' = [token EXCEPT ![u] = None]
  /\ leaving' = leaving \ {u}
  /\ left' = TRUE
  /\ UNCHANGED <<pc, name, key, role, group_key, rank, history>>

\* The DELETE goes by username, whatever has become of the row by then.
LeaveDelete(u) ==
  /\ u \in leaving
  /\ rank' = [rank EXCEPT ![u] = None]
  /\ token' = [token EXCEPT ![u] = None]
  /\ leaving' = leaving \ {u}
  /\ left' = TRUE
  /\ UNCHANGED <<pc, name, key, role, group_key, history>>

Join(k) == KeyRead(k) \/ KeyInsert(k) \/ Rank(k) \/ Upsert(k) \/ JoinAbort(k)

Next ==
  \/ \E k \in Calls : Join(k) \/ \E u \in Users : JoinCheck(k, u)
  \/ \E u \in Leavers : LeaveResolve(u) \/ LeaveDelete(u)

Spec == Init /\ [][Next]_vars

-----------------------------------------------------------------------------
(***************************************************************************)
(* Properties.                                                             *)
(***************************************************************************)

\* However many first joins race, everyone who was let in got the same key,
\* the one in the database: members can read one another.
KeyAgreement ==
  \A k \in Calls : pc[k] \in {"keyed", "ranked", "served"}
                     => key[k] # None /\ key[k] = group_key

\* Until somebody leaves, a group that has members has an owner.
OwnedGroup ==
  ~left /\ Members # {} => \E u \in Members : rank[u] = "owner"

\* max_members is compared before the key is read and the row inserted: the
\* limit is exceeded by no more than the calls that were in progress at one
\* time with the last one admitted, as long as no count has failed.
MemberBound ==
  MaxMembers > 0 /\ ~miscounted => Cardinality(Members) < MaxMembers + peak
=============================================================================
