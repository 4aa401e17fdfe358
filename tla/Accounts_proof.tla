--------------------------- MODULE Accounts_proof ----------------------------
(***************************************************************************)
(* Proofs about Accounts, for any number of requests, users, tokens and    *)
(* codes.                                                                  *)
(***************************************************************************)
EXTENDS Accounts, FiniteSetTheorems, WellFoundedInduction, TLAPS

\* Where a registration has an account that nobody can act for yet, and where
\* a request acts for the account of its token.
Unopened == {"inserted", "present", "tokened"}
Acting == {"unregister", "invite"} \cup Refreshing

\* The rows of an account that was opened are complete, and only those who
\* were told so have its tokens.
Rows ==
  /\ TokenMeansAccount
  /\ opened \cap DOMAIN users \subseteq presence
  /\ \A k \in known \cap DOMAIN tokens : tokens[k] \in opened

\* How far a request has come.
Callers ==
  \A t \in Tasks :
    /\ pc[t] \in Unopened => user[t] \in DOMAIN users /\ user[t] \notin opened
    /\ pc[t] \in {"present", "tokened"} => user[t] \in presence
    /\ pc[t] \in {"inserted", "present"} => Own(user[t]) = {}
    /\ pc[t] = "tokened" => /\ \E k \in DOMAIN tokens : Own(user[t]) = {k}
                             /\ code[t] # None
    /\ pc[t] \in Acting => user[t] \in opened
    /\ pc[t] \in Registering => name[t] \in Names
    /\ pc[t] \notin Registering => code[t] = None

\* Every registration has an account of its own.
Apart ==
  \A s, t \in Tasks :
    s # t /\ pc[s] \in Unopened /\ pc[t] \in Unopened => user[s] # user[t]

Core == TypeOK /\ Rows /\ Callers /\ Apart

-----------------------------------------------------------------------------

LEMMA CoreInit == Init => Core
<1> SUFFICES ASSUME Init PROVE Core
  OBVIOUS
<1>1. TypeOK
  BY AccountsAssumption DEF Init, TypeOK, NoRows
<1>2. Rows
  BY DEF Init, Rows, TokenMeansAccount, NoRows
<1>3. Callers /\ Apart
  BY DEF Init, Callers, Apart, Unopened, Acting, Refreshing, Registering
<1> QED
  BY <1>1, <1>2, <1>3 DEF Core

LEMMA CoreRegister ==
  ASSUME Core, NEW t \in Tasks,
         \/ \E n \in Names, c \in Codes \cup {None} : Register(t, n, c)
         \/ CheckName(t) \/ CheckPlaces(t)
  PROVE  Core'
<1> USE DEF Core, Goto
<1>1. ASSUME NEW n \in Names, NEW c \in Codes \cup {None}, Register(t, n, c)
      PROVE  Core'
  BY <1>1, AccountsAssumption
     DEF Register, tables, history, TypeOK, Rows, TokenMeansAccount, Callers, Apart,
         Own, Unopened, Acting, Refreshing, Registering
<1>2. CASE CheckName(t)
  BY <1>2, AccountsAssumption
     DEF CheckName, tables, history, TypeOK, Rows, TokenMeansAccount, Callers, Apart,
         Own, Unopened, Acting, Refreshing, Registering
<1>3. CASE CheckPlaces(t)
  BY <1>3, AccountsAssumption
     DEF CheckPlaces, tables, history, TypeOK, Rows, TokenMeansAccount, Callers, Apart,
         Own, Unopened, Acting, Refreshing, Registering
<1> QED
  BY <1>1, <1>2, <1>3

LEMMA CoreInsertUser ==
  ASSUME Core, NEW t \in Tasks, InsertUser(t)
  PROVE  Core'
<1> DEFINE u == lastUser + 1
<1>1. /\ lastUser' = u /\ lastUser \in Nat
      /\ u \in 1 .. MaxRows /\ u \notin 1 .. lastUser
  BY AccountsAssumption DEF Core, TypeOK, InsertUser
<1>2. Own(u) = {} /\ Own(u)' = {} /\ u \notin opened /\ u \notin DOMAIN users
  BY <1>1 DEF Core, TypeOK, InsertUser, Own
<1>3. DOMAIN users' = DOMAIN users \cup {u} /\ users'[u] \in Names
      /\ \A v \in DOMAIN users : users'[v] \in Names
  BY <1>1 DEF Core, TypeOK, InsertUser, Inserted, Callers, Registering
<1>4. TypeOK'
  BY <1>1, <1>3, AccountsAssumption DEF Core, TypeOK, InsertUser, history, Registering
<1>5. Rows'
  BY <1>2, <1>3 DEF Core, Rows, TokenMeansAccount, InsertUser, history
<1>6. pc' = [pc EXCEPT ![t] = "inserted"] /\ user' = [user EXCEPT ![t] = u]
      /\ \A v : Own(v)' = Own(v)
  BY <1>1 DEF InsertUser, Own
<1>7. Callers'
  BY <1>2, <1>3, <1>6
     DEF Core, TypeOK, InsertUser, Callers, history, Unopened, Acting, Refreshing, Registering
<1>8. Apart'
  BY <1>2, <1>6 DEF Core, TypeOK, InsertUser, Callers, Apart, Unopened
<1> QED
  BY <1>4, <1>5, <1>7, <1>8 DEF Core

LEMMA CoreInsertPresence ==
  ASSUME Core, NEW t \in Tasks, InsertPresence(t)
  PROVE  Core'
  BY AccountsAssumption
     DEF Core, InsertPresence, Goto, tables, history,
         TypeOK, Rows, TokenMeansAccount, Callers, Apart,
         Own, Unopened, Acting, Refreshing, Registering

LEMMA CoreRefreshCount ==
  ASSUME Core, NEW t \in Tasks, RefreshCount(t)
  PROVE  Core'
  BY AccountsAssumption
     DEF Core, RefreshCount, Goto, tables, history,
         TypeOK, Rows, TokenMeansAccount, Callers, Apart,
         Own, Unopened, Acting, Refreshing, Registering

LEMMA CoreInviteCreate ==
  ASSUME Core, NEW t \in Tasks, InviteCreate(t)
  PROVE  Core'
  BY AccountsAssumption
     DEF Core, InviteCreate, Inserted, Return, tables, history,
         TypeOK, Rows, TokenMeansAccount, Callers, Apart,
         Own, Unopened, Acting, Refreshing, Registering

LEMMA CoreAbort ==
  ASSUME Core, NEW t \in Tasks, Abort(t)
  PROVE  Core'
  BY AccountsAssumption
     DEF Core, Abort, Return, tables, history,
         TypeOK, Rows, TokenMeansAccount, Callers, Apart,
         Own, Unopened, Acting, Refreshing, Registering

LEMMA CoreResolve ==
  ASSUME Core, NEW t \in Tasks, NEW k \in known,
         NEW to \in {"unregister", "counting", "invite"}, Resolve(t, k, to)
  PROVE  Core'
<1>1. tokens[k] \in opened /\ tokens[k] \in 1 .. lastUser
  BY DEF Core, TypeOK, Rows, Resolve
<1>2. exposed' \subseteq opened'
  BY <1>1 DEF Core, TypeOK, Resolve, Expose
<1>3. TypeOK'
  BY <1>1, <1>2 DEF Core, TypeOK, Resolve, tables, Refreshing, Registering
<1>4. (Rows /\ Apart)'
  BY <1>1 DEF Core, TypeOK, Resolve, tables, Rows, TokenMeansAccount, Apart, Own, Unopened
<1>5. Callers'
  BY <1>1 DEF Core, TypeOK, Resolve, tables, Rows, TokenMeansAccount, Callers, Apart,
              Own, Unopened, Acting, Refreshing, Registering
<1> QED
  BY <1>3, <1>4, <1>5 DEF Core

LEMMA CoreRefreshDelete ==
  ASSUME Core, NEW t \in Tasks, RefreshDelete(t)
  PROVE  Core'
  BY AccountsAssumption
     DEF Core, RefreshDelete, Goto, Deleted, Restrict, Oldest, tables, history,
         TypeOK, Rows, TokenMeansAccount, Callers, Apart,
         Own, Unopened, Acting, Refreshing, Registering

LEMMA CoreUnregister ==
  ASSUME Core, NEW t \in Tasks, Unregister(t)
  PROVE  Core'
  BY AccountsAssumption
     DEF Core, Unregister, Return, Deleted, Restrict, tables, history,
         TypeOK, Rows, TokenMeansAccount, Callers, Apart,
         Own, Unopened, Acting, Refreshing, Registering

\* What the INSERT of a token does to the tables.
LEMMA TokenInserted ==
  ASSUME Core, NEW u \in 1 .. lastUser, InsertToken(u)
  PROVE  /\ lastToken' = lastToken + 1 /\ lastToken' \in 1 .. MaxRows
         /\ lastToken' \notin DOMAIN tokens \cup known
         /\ DOMAIN tokens' = DOMAIN tokens \cup {lastToken'}
         /\ tokens'[lastToken'] = u
         /\ \A k \in DOMAIN tokens : tokens'[k] = tokens[k]
         /\ Own(u)' = Own(u) \cup {lastToken'}
         /\ \A v : v # u => Own(v)' = Own(v)
<1>1. /\ lastToken' = lastToken + 1 /\ lastToken' \in 1 .. MaxRows
      /\ lastToken' \notin DOMAIN tokens \cup known
  BY AccountsAssumption DEF Core, TypeOK, InsertToken
<1>2. /\ DOMAIN tokens' = DOMAIN tokens \cup {lastToken'}
      /\ tokens'[lastToken'] = u
      /\ \A k \in DOMAIN tokens : tokens'[k] = tokens[k]
  BY <1>1 DEF InsertToken, Inserted
<1> QED
  BY <1>1, <1>2 DEF Own

LEMMA CoreRegisterToken ==
  ASSUME Core, NEW t \in Tasks, RegisterToken(t)
  PROVE  Core'
<1>1. user[t] \in 1 .. lastUser /\ InsertToken(user[t]) /\ pc[t] = "present"
  BY DEF Core, TypeOK, Callers, Unopened, RegisterToken, Goto
<1> DEFINE k == lastToken'
<1>2. TypeOK'
  BY <1>1, TokenInserted, AccountsAssumption
     DEF Core, TypeOK, RegisterToken, InsertToken, Goto, history, Registering
<1>3. Rows'
  BY <1>1, TokenInserted
     DEF Core, Rows, TokenMeansAccount, Callers, Unopened, RegisterToken, InsertToken,
         Goto, history
<1>4. Callers'
  BY <1>1, TokenInserted
     DEF Core, TypeOK, Callers, Apart, Unopened, Acting, Refreshing, Registering,
         RegisterToken, InsertToken, Goto, history
<1>5. Apart'
  BY <1>1 DEF Core, TypeOK, Apart, Unopened, RegisterToken, Goto
<1> QED
  BY <1>2, <1>3, <1>4, <1>5 DEF Core

LEMMA CoreRegisterWithoutCode ==
  ASSUME Core, NEW t \in Tasks, NEW told \in BOOLEAN, RegisterWithoutCode(t, told)
  PROVE  Core'
<1>1. user[t] \in 1 .. lastUser /\ InsertToken(user[t]) /\ pc[t] = "present"
  BY DEF Core, TypeOK, Callers, Unopened, RegisterWithoutCode
<1>0. /\ opened' \subseteq 1 .. lastUser /\ known' \subseteq 1 .. lastToken'
      /\ exposed' \subseteq opened'
  <2>1. /\ opened' \in {opened, opened \cup {user[t]}}
        /\ known' \in {known, known \cup {lastToken'}}
        /\ exposed' = exposed
    BY DEF RegisterWithoutCode, Told
  <2>2. lastToken' = lastToken + 1 /\ lastToken \in Nat
    BY <1>1, TokenInserted, AccountsAssumption DEF Core, TypeOK
  <2> QED
    BY <1>1, <2>1, <2>2 DEF Core, TypeOK
<1>2. TypeOK'
  BY <1>0, <1>1, TokenInserted, AccountsAssumption
     DEF Core, TypeOK, RegisterWithoutCode, InsertToken, Return, Registering
<1>3. Rows'
  BY <1>1, TokenInserted
     DEF Core, TypeOK, Rows, TokenMeansAccount, Callers, Unopened, RegisterWithoutCode,
         InsertToken, Told
<1>4. Callers'
  BY <1>1, TokenInserted
     DEF Core, TypeOK, Callers, Apart, Unopened, Acting, Refreshing, Registering,
         RegisterWithoutCode, InsertToken, Return, Told
<1>5. Apart'
  BY <1>1 DEF Core, TypeOK, Apart, Unopened, RegisterWithoutCode, Return
<1> QED
  BY <1>2, <1>3, <1>4, <1>5 DEF Core

LEMMA CoreMarkInvite ==
  ASSUME Core, NEW t \in Tasks, NEW told \in BOOLEAN, MarkInvite(t, told)
  PROVE  Core'
<1>1. /\ user[t] \in 1 .. lastUser /\ user[t] \in DOMAIN users \cap presence
      /\ pc[t] = "tokened" /\ code[t] \in Codes \cup {None}
  BY DEF Core, TypeOK, Callers, Unopened, MarkInvite
<1>0. /\ opened' \subseteq 1 .. lastUser /\ known' \subseteq 1 .. lastToken
      /\ exposed' \subseteq opened'
  BY <1>1 DEF Core, TypeOK, MarkInvite, Told, Own
<1>2. /\ DOMAIN invites' = DOMAIN invites
      /\ \A c \in DOMAIN invites : invites'[c] \in {0} \cup DOMAIN users
  BY <1>1 DEF Core, TypeOK, MarkInvite
<1>3. guests' \in [Codes -> Nat]
  <2>1. \A c \in Codes : guests[c] \in Nat /\ guests[c] + 1 \in Nat
    BY DEF Core, TypeOK
  <2>2. guests' = [c \in Codes |-> IF c = code[t] THEN guests[c] + 1 ELSE guests[c]]
    BY DEF Core, TypeOK, MarkInvite
  <2> QED
    BY <2>1, <2>2
<1>4. TypeOK'
  BY <1>0, <1>1, <1>2, <1>3, AccountsAssumption
     DEF Core, TypeOK, MarkInvite, Return, Registering
<1>5. Rows' /\ Apart'
  BY <1>1
     DEF Core, TypeOK, Rows, TokenMeansAccount, Callers, Unopened, Apart, MarkInvite,
         Return, Told, Own
<1>6. Callers'
  BY <1>1
     DEF Core, TypeOK, Callers, Apart, Unopened, Acting, Refreshing, Registering,
         MarkInvite, Return, Told, Own
<1> QED
  BY <1>4, <1>5, <1>6 DEF Core

LEMMA CoreRefreshInsert ==
  ASSUME Core, NEW t \in Tasks, NEW told \in BOOLEAN, RefreshInsert(t, told)
  PROVE  Core'
<1>1. /\ user[t] \in 1 .. lastUser /\ pc[t] = "refreshing"
      /\ user[t] \in opened \cap DOMAIN users \cap presence
  BY DEF Core, TypeOK, Rows, Callers, Acting, Refreshing, RefreshInsert
<1>2. /\ InsertToken(user[t]) /\ Return(t) /\ Told(told, user[t], {lastToken'})
      /\ UNCHANGED <<exposed, guests>>
  BY DEF RefreshInsert
<1>0. /\ opened' \subseteq 1 .. lastUser /\ known' \subseteq 1 .. lastToken'
      /\ exposed' \subseteq opened'
  <2>1. /\ opened' \in {opened, opened \cup {user[t]}}
        /\ known' \in {known, known \cup {lastToken'}}
        /\ exposed' = exposed
    BY <1>2 DEF Told
  <2>2. lastToken' = lastToken + 1 /\ lastToken \in Nat
    BY <1>1, <1>2, TokenInserted, AccountsAssumption DEF Core, TypeOK
  <2> QED
    BY <1>1, <2>1, <2>2 DEF Core, TypeOK
<1>3. TypeOK'
  BY <1>0, <1>1, <1>2, TokenInserted, AccountsAssumption
     DEF Core, TypeOK, InsertToken, Return, Registering
<1>4. Rows' /\ Apart'
  BY <1>1, <1>2, TokenInserted
     DEF Core, TypeOK, Rows, TokenMeansAccount, Callers, Unopened, Apart,
         InsertToken, Return, Told
<1>5. Callers'
  BY <1>1, <1>2, TokenInserted
     DEF Core, TypeOK, Callers, Apart, Unopened, Acting, Refreshing, Registering,
         InsertToken, Return, Told
<1> QED
  BY <1>3, <1>4, <1>5 DEF Core

LEMMA CoreNext == Core /\ [Next]_vars => Core'
<1> SUFFICES ASSUME Core, [Next]_vars PROVE Core'
  OBVIOUS
<1>1. ASSUME NEW t \in Tasks,
             \/ \E n \in Names, c \in Codes \cup {None} : Register(t, n, c)
             \/ \E k \in known, to \in {"unregister", "counting", "invite"} : Resolve(t, k, to)
             \/ RegisterStep(t) \/ RefreshStep(t) \/ Unregister(t) \/ InviteCreate(t)
             \/ Abort(t)
      PROVE  Core'
  BY <1>1, CoreRegister, CoreResolve, CoreInsertUser, CoreInsertPresence, CoreRegisterToken,
     CoreRegisterWithoutCode, CoreMarkInvite, CoreUnregister, CoreRefreshCount,
     CoreRefreshDelete, CoreRefreshInsert, CoreInviteCreate, CoreAbort
     DEF RegisterStep, RefreshStep
<1>2. CASE UNCHANGED vars
  BY <1>2 DEF vars, tables, task, history, Core, TypeOK, Rows, TokenMeansAccount, Callers,
              Apart, Own
<1> QED
  BY <1>1, <1>2 DEF Next

\* Type correctness, for any number of requests: no table refers to a row
\* that is not there.
THEOREM TypeCorrect == Spec => []TypeOK
<1>1. Core => TypeOK
  BY DEF Core
<1> QED
  BY CoreInit, CoreNext, <1>1, PTL DEF Spec

\* An account with a token can be found, whatever was dropped or deleted
\* meanwhile.
THEOREM WholeAccounts == Spec => []TokenMeansAccount
<1>1. Core => TokenMeansAccount
  BY DEF Core, Rows
<1> QED
  BY CoreInit, CoreNext, <1>1, PTL DEF Spec

-----------------------------------------------------------------------------
(***************************************************************************)
(* The limits.  What is checked on an old count is exceeded by the         *)
(* requests that have passed the check and not yet inserted: counting      *)
(* them too makes the bounds inductive.                                    *)
(***************************************************************************)

LEMMA Smaller ==
  ASSUME NEW S, IsFiniteSet(S), NEW T \in SUBSET S
  PROVE  /\ IsFiniteSet(T) /\ Cardinality(S) \in Nat /\ Cardinality(T) \in Nat
         /\ Cardinality(T) <= Cardinality(S)
BY FS_Subset, FS_CardinalityType

LEMMA TaskSets ==
  ASSUME NEW S \in SUBSET Tasks
  PROVE  /\ IsFiniteSet(S) /\ Cardinality(S) \in Nat /\ Cardinality(Tasks) \in Nat
         /\ Cardinality(S) <= Cardinality(Tasks)
BY Smaller, AccountsAssumption

LEMMA HasOldest ==
  ASSUME NEW S \in SUBSET Nat, S # {}
  PROVE  \E k \in S : Oldest(S) = {k}
<1> DEFINE R == StrictSubsetOrdering(Nat)
           T == {0 .. k : k \in S}
<1>1. T \subseteq FiniteSubsetsOf(Nat) /\ T # {}
  <2>1. \A k \in Nat : IsFiniteSet(0 .. k) /\ 0 .. k \subseteq Nat
    BY FS_Interval
  <2>2. \A k \in S : 0 .. k \in FiniteSubsetsOf(Nat)
    BY <2>1 DEF FiniteSubsetsOf
  <2> QED
    BY <2>2
<1>2. PICK X \in T : \A Y \in T : <<Y, X>> \notin R
  <2> HIDE DEF T
  <2> QED
    BY <1>1, FS_StrictSubsetOrderingWellFounded, WFMin
<1>3. PICK k \in S : X = 0 .. k
  BY <1>2
<1>4. \A j \in S : k <= j
  <2> SUFFICES ASSUME NEW j \in S, j < k PROVE FALSE
    OBVIOUS
  <2>1. 0 .. j \subseteq 0 .. k /\ 0 .. j # 0 .. k
    <3>1. k \in 0 .. k /\ k \notin 0 .. j
      OBVIOUS
    <3> QED
      BY <3>1
  <2>2. 0 .. j \in SUBSET Nat /\ 0 .. k \in SUBSET Nat
    OBVIOUS
  <2>3. <<0 .. j, 0 .. k>> \in R
    BY <2>1, <2>2 DEF StrictSubsetOrdering
  <2> QED
    BY <2>3, <1>2, <1>3
<1>5. \A i \in S : (\A j \in S : i <= j) => i = k
  BY <1>4
<1>6. Oldest(S) = {k}
  BY <1>4, <1>5 DEF Oldest
<1> QED
  BY <1>6

LEMMA Bounded ==
  ASSUME Core
  PROVE  /\ IsFiniteSet(DOMAIN users) /\ IsFiniteSet(DOMAIN tokens)
         /\ \A u : Own(u) \subseteq DOMAIN tokens /\ IsFiniteSet(Own(u))
<1>1. IsFiniteSet(1 .. lastUser) /\ IsFiniteSet(1 .. lastToken)
  BY FS_Interval, AccountsAssumption DEF Core, TypeOK
<1>2. IsFiniteSet(DOMAIN users) /\ IsFiniteSet(DOMAIN tokens)
  BY <1>1, Smaller DEF Core, TypeOK
<1> QED
  BY <1>2, Smaller DEF Own

Placing == {t \in Tasks : pc[t] = "counted"}

UserCount ==
  MaxUsers > 0 =>
    Cardinality(DOMAIN users) + Cardinality(Placing) <= MaxUsers - 1 + Cardinality(Tasks)

LEMMA UserCountInit == Init => UserCount
<1> SUFFICES ASSUME Init, MaxUsers > 0
             PROVE  Cardinality(DOMAIN users) + Cardinality(Placing)
                      <= MaxUsers - 1 + Cardinality(Tasks)
  BY DEF UserCount
<1>1. DOMAIN users = {} /\ Placing = {}
  BY DEF Init, NoRows, Placing
<1>2. Cardinality(Tasks) \in Nat
  BY TaskSets
<1> QED
  BY <1>1, <1>2, FS_EmptySet, AccountsAssumption

LEMMA UserCountNext == Core /\ UserCount /\ [Next]_vars => UserCount'
<1> SUFFICES ASSUME Core, UserCount, [Next]_vars, MaxUsers > 0
             PROVE  Cardinality(DOMAIN users') + Cardinality(Placing')
                      <= MaxUsers - 1 + Cardinality(Tasks)
  BY DEF UserCount
<1> USE AccountsAssumption
<1>1. /\ Placing \subseteq Tasks /\ Placing' \subseteq Tasks
      /\ Cardinality(Placing) \in Nat /\ Cardinality(Placing') \in Nat
      /\ Cardinality(Placing') <= Cardinality(Tasks) /\ Cardinality(Tasks) \in Nat
      /\ IsFiniteSet(DOMAIN users) /\ Cardinality(DOMAIN users) \in Nat
  BY TaskSets, Bounded, FS_CardinalityType DEF Placing
<1>2. ASSUME NEW t \in Tasks, CheckPlaces(t)
      PROVE  Cardinality(DOMAIN users') + Cardinality(Placing')
               <= MaxUsers - 1 + Cardinality(Tasks)
  <2>1. users' = users /\ Cardinality(DOMAIN users) < MaxUsers
    BY <1>2 DEF CheckPlaces, tables
  <2> QED
    BY <2>1, <1>1
<1>3. ASSUME NEW t \in Tasks, InsertUser(t)
      PROVE  Cardinality(DOMAIN users') + Cardinality(Placing')
               <= MaxUsers - 1 + Cardinality(Tasks)
  <2>1. DOMAIN users' = DOMAIN users \cup {lastUser'}
    BY <1>3 DEF InsertUser, Inserted
  <2>2. Placing' = Placing \ {t} /\ t \in Placing
    BY <1>3 DEF Core, TypeOK, InsertUser, Placing
  <2>3. Cardinality(DOMAIN users') <= Cardinality(DOMAIN users) + 1
        /\ Cardinality(DOMAIN users') \in Nat
    <3>1. Cardinality(DOMAIN users \cup {lastUser'})
            = IF lastUser' \in DOMAIN users THEN Cardinality(DOMAIN users)
              ELSE Cardinality(DOMAIN users) + 1
      BY <1>1, FS_AddElement
    <3> QED
      BY <2>1, <3>1, <1>1
  <2>4. Cardinality(Placing') = Cardinality(Placing) - 1
    BY <2>2, <1>1, TaskSets, FS_RemoveElement
  <2> QED
    BY <2>3, <2>4, <1>1 DEF UserCount
<1>4. ASSUME DOMAIN users' \subseteq DOMAIN users, Placing' \subseteq Placing
      PROVE  Cardinality(DOMAIN users') + Cardinality(Placing')
               <= MaxUsers - 1 + Cardinality(Tasks)
  <2>1. Cardinality(DOMAIN users') <= Cardinality(DOMAIN users)
        /\ Cardinality(DOMAIN users') \in Nat
    BY <1>4, <1>1, Smaller
  <2>2. Cardinality(Placing') <= Cardinality(Placing)
    BY <1>4, <1>1, TaskSets, Smaller
  <2> QED
    BY <2>1, <2>2, <1>1 DEF UserCount
<1>5. \/ \E t \in Tasks : CheckPlaces(t) \/ InsertUser(t)
      \/ DOMAIN users' \subseteq DOMAIN users /\ Placing' \subseteq Placing
  <2>1. ASSUME NEW t \in Tasks, NEW n \in Names, NEW c \in Codes \cup {None}, Register(t, n, c)
        PROVE  DOMAIN users' \subseteq DOMAIN users /\ Placing' \subseteq Placing
    BY <2>1 DEF Core, TypeOK, Register, tables, Placing
  <2>2. ASSUME NEW t \in Tasks, NEW k \in known,
               NEW to \in {"unregister", "counting", "invite"}, Resolve(t, k, to)
        PROVE  DOMAIN users' \subseteq DOMAIN users /\ Placing' \subseteq Placing
    BY <2>2 DEF Core, TypeOK, Resolve, tables, Placing
  <2>3. ASSUME NEW t \in Tasks,
               CheckName(t) \/ InsertPresence(t) \/ RegisterToken(t) \/ RefreshStep(t)
        PROVE  DOMAIN users' \subseteq DOMAIN users /\ Placing' \subseteq Placing
    BY <2>3
       DEF Core, TypeOK, CheckName, InsertPresence, RegisterToken, InsertToken, RefreshStep,
           RefreshCount, RefreshDelete, RefreshInsert, Goto, Return, tables, Placing
  <2>4. ASSUME NEW t \in Tasks,
               \/ \E told \in BOOLEAN : RegisterWithoutCode(t, told) \/ MarkInvite(t, told)
               \/ Unregister(t) \/ InviteCreate(t) \/ Abort(t)
        PROVE  DOMAIN users' \subseteq DOMAIN users /\ Placing' \subseteq Placing
    BY <2>4
       DEF Core, TypeOK, RegisterWithoutCode, InsertToken, MarkInvite, Unregister,
           InviteCreate, Abort, Return, Deleted, Restrict, tables, Placing
  <2>5. CASE UNCHANGED vars
    BY <2>5 DEF vars, tables, task, Placing
  <2> QED
    BY <2>1, <2>2, <2>3, <2>4, <2>5 DEF Next, RegisterStep
<1> QED
  BY <1>2, <1>3, <1>4, <1>5

\* max_users is exceeded by no more than the other registrations that were in
\* progress.
THEOREM PlacesBound == Spec => []UserBound
<1>1. Core /\ UserCount => UserBound
  <2> SUFFICES ASSUME Core, UserCount, MaxUsers > 0
               PROVE  Cardinality(DOMAIN users) <= MaxUsers - 1 + Cardinality(Tasks)
    BY DEF UserBound
  <2>1. Cardinality(Placing) \in Nat /\ Cardinality(Tasks) \in Nat
        /\ Cardinality(DOMAIN users) \in Nat
    BY TaskSets, Bounded, FS_CardinalityType DEF Placing
  <2> QED
    BY <2>1, AccountsAssumption DEF UserCount
<1> QED
  BY CoreInit, CoreNext, UserCountInit, UserCountNext, <1>1, PTL DEF Spec

Ready(u) == {t \in Tasks : pc[t] = "refreshing" /\ user[t] = u}

TokenCount ==
  MaxPerUser > 0 => \A u \in Ids :
    Cardinality(Own(u)) + Cardinality(Ready(u)) <= MaxPerUser - 1 + Cardinality(Tasks)

LEMMA TokenCountInit == Init => TokenCount
<1> SUFFICES ASSUME Init, MaxPerUser > 0, NEW u \in Ids
             PROVE  Cardinality(Own(u)) + Cardinality(Ready(u))
                      <= MaxPerUser - 1 + Cardinality(Tasks)
  BY DEF TokenCount
<1>1. Own(u) = {} /\ Ready(u) = {}
  BY DEF Init, NoRows, Own, Ready
<1>2. Cardinality(Tasks) \in Nat
  BY TaskSets
<1> QED
  BY <1>1, <1>2, FS_EmptySet, AccountsAssumption

\* Steps that add neither a token nor a request that will.
LEMMA TokensOnlyShrink ==
  ASSUME Core, [Next]_vars, NEW u
  PROVE  \/ \E t \in Tasks : \/ RefreshCount(t) \/ RefreshDelete(t) \/ RegisterToken(t)
                             \/ \E told \in BOOLEAN : RefreshInsert(t, told)
                                                      \/ RegisterWithoutCode(t, told)
         \/ Own(u)' \subseteq Own(u) /\ Ready(u)' \subseteq Ready(u)
<1>1. ASSUME NEW t \in Tasks, NEW n \in Names, NEW c \in Codes \cup {None}, Register(t, n, c)
      PROVE  Own(u)' \subseteq Own(u) /\ Ready(u)' \subseteq Ready(u)
  BY <1>1 DEF Core, TypeOK, Register, tables, Own, Ready
<1>2. ASSUME NEW t \in Tasks, NEW k \in known,
             NEW to \in {"unregister", "counting", "invite"}, Resolve(t, k, to)
      PROVE  Own(u)' \subseteq Own(u) /\ Ready(u)' \subseteq Ready(u)
  BY <1>2 DEF Core, TypeOK, Resolve, tables, Own, Ready
<1>3. ASSUME NEW t \in Tasks,
             CheckName(t) \/ CheckPlaces(t) \/ InsertUser(t) \/ InsertPresence(t)
      PROVE  Own(u)' \subseteq Own(u) /\ Ready(u)' \subseteq Ready(u)
  BY <1>3 DEF Core, TypeOK, CheckName, CheckPlaces, InsertUser, InsertPresence, Goto, tables,
              Own, Ready
<1>4. ASSUME NEW t \in Tasks, NEW told \in BOOLEAN, MarkInvite(t, told)
      PROVE  Own(u)' \subseteq Own(u) /\ Ready(u)' \subseteq Ready(u)
  BY <1>4 DEF Core, TypeOK, MarkInvite, Return, Own, Ready
<1>5. ASSUME NEW t \in Tasks, Unregister(t) \/ InviteCreate(t) \/ Abort(t)
      PROVE  Own(u)' \subseteq Own(u) /\ Ready(u)' \subseteq Ready(u)
  BY <1>5 DEF Core, TypeOK, Unregister, InviteCreate, Abort, Return, Deleted, Restrict, tables,
              Own, Ready
<1>6. CASE UNCHANGED vars
  BY <1>6 DEF vars, tables, task, Own, Ready
<1> QED
  BY <1>1, <1>2, <1>3, <1>4, <1>5, <1>6 DEF Next, RegisterStep, RefreshStep

LEMMA TokenCountNext == Core /\ TokenCount /\ [Next]_vars => TokenCount'
<1> SUFFICES ASSUME Core, TokenCount, [Next]_vars, MaxPerUser > 0, NEW u \in Ids
             PROVE  Cardinality(Own(u)') + Cardinality(Ready(u)')
                      <= MaxPerUser - 1 + Cardinality(Tasks)
  BY DEF TokenCount, Ids
<1> USE AccountsAssumption
<1> DEFINE Goal == Cardinality(Own(u)') + Cardinality(Ready(u)')
                     <= MaxPerUser - 1 + Cardinality(Tasks)
<1>1. /\ Cardinality(Own(u)) + Cardinality(Ready(u)) <= MaxPerUser - 1 + Cardinality(Tasks)
      /\ IsFiniteSet(Own(u)) /\ Cardinality(Own(u)) \in Nat
      /\ IsFiniteSet(Ready(u)) /\ Cardinality(Ready(u)) \in Nat
  BY Bounded, FS_CardinalityType, TaskSets DEF TokenCount, Ready
<1>2. /\ Cardinality(Ready(u)') \in Nat /\ Cardinality(Tasks) \in Nat
      /\ Cardinality(Ready(u)') <= Cardinality(Tasks)
  BY TaskSets DEF Ready
<1>3. ASSUME Own(u)' \subseteq Own(u), Ready(u)' \subseteq Ready(u)
      PROVE  Goal
  <2>1. Cardinality(Own(u)') <= Cardinality(Own(u)) /\ Cardinality(Own(u)') \in Nat
        /\ Cardinality(Ready(u)') <= Cardinality(Ready(u))
    BY <1>1, <1>3, Smaller
  <2> QED
    BY <2>1, <1>1, <1>2
<1>4. ASSUME NEW t \in Tasks, RefreshCount(t)
      PROVE  Goal
  <2>1. Own(u)' = Own(u)
    BY <1>4 DEF RefreshCount, tables, Own
  <2>2. CASE user[t] = u /\ Cardinality(Own(user[t])) < MaxPerUser
    BY <2>1, <2>2, <1>1, <1>2
  <2>3. CASE ~(user[t] = u /\ Cardinality(Own(user[t])) < MaxPerUser)
    <3>1. user[t] = u => ~(Cardinality(Own(user[t])) < MaxPerUser)
      BY <2>3
    <3>2. user[t] = u => Cardinality(Own(user[t])) >= MaxPerUser
      BY <3>1, <1>1
    <3>3. Ready(u)' \subseteq Ready(u)
      BY <3>2, <1>4 DEF Core, TypeOK, RefreshCount, Goto, Ready
    <3> QED
      BY <3>3, <2>1, <1>3
  <2> QED
    BY <2>2, <2>3
<1>5. ASSUME NEW t \in Tasks, RefreshDelete(t)
      PROVE  Goal
  <2>1. Own(u)' = IF user[t] = u THEN Own(u) \ Oldest(Own(u)) ELSE Own(u)
    BY <1>5 DEF RefreshDelete, Deleted, Restrict, Own, Oldest
  <2>2. Ready(u)' = IF user[t] = u THEN Ready(u) \cup {t} ELSE Ready(u)
    BY <1>5 DEF Core, TypeOK, RefreshDelete, Goto, Ready
  <2>3. CASE user[t] # u
    BY <2>1, <2>2, <2>3, <1>1
  <2>4. CASE user[t] = u /\ Own(u) = {}
    BY <2>1, <2>4, <1>2, FS_EmptySet
  <2>5. CASE user[t] = u /\ Own(u) # {}
    <3>1. Own(u) \subseteq Nat
      BY DEF Core, TypeOK, Own
    <3>2. PICK k \in Own(u) : Oldest(Own(u)) = {k}
      BY <2>5, <3>1, HasOldest
    <3>3. Own(u)' = Own(u) \ {k} /\ Ready(u)' = Ready(u) \cup {t}
      BY <2>1, <2>2, <2>5, <3>2
    <3>4. Cardinality(Own(u) \ {k}) = Cardinality(Own(u)) - 1
      BY <3>2, <1>1, FS_RemoveElement
    <3>5. Cardinality(Ready(u) \cup {t}) = IF t \in Ready(u) THEN Cardinality(Ready(u))
                                           ELSE Cardinality(Ready(u)) + 1
      BY <1>1, FS_AddElement
    <3> QED
      BY <3>3, <3>4, <3>5, <1>1, <1>2
  <2> QED
    BY <2>3, <2>4, <2>5
<1>6. ASSUME NEW t \in Tasks, NEW told \in BOOLEAN, RefreshInsert(t, told)
      PROVE  Goal
  <2>1. user[t] \in 1 .. lastUser /\ InsertToken(user[t]) /\ pc[t] = "refreshing" /\ Return(t)
    BY <1>6 DEF Core, TypeOK, RefreshInsert
  <2>2. CASE user[t] # u
    <3>1. Own(u)' = Own(u) /\ Ready(u)' \subseteq Ready(u)
      BY <2>1, <2>2, TokenInserted DEF Core, TypeOK, Return, Ready
    <3> QED
      BY <3>1, <1>3
  <2>3. CASE user[t] = u
    <3>1. Own(u)' = Own(u) \cup {lastToken'} /\ lastToken' \notin Own(u)
      BY <2>1, <2>3, TokenInserted DEF Own
    <3>2. Ready(u)' = Ready(u) \ {t} /\ t \in Ready(u)
      BY <2>1, <2>3 DEF Core, TypeOK, Return, Ready
    <3>3. Cardinality(Own(u)') = Cardinality(Own(u)) + 1
      BY <3>1, <1>1, FS_AddElement
    <3>4. Cardinality(Ready(u)') = Cardinality(Ready(u)) - 1
      BY <3>2, <1>1, FS_RemoveElement
    <3> QED
      BY <3>3, <3>4, <1>1
  <2> QED
    BY <2>2, <2>3
<1>7. ASSUME NEW t \in Tasks, pc[t] = "present", InsertToken(user[t]),
             Ready(u)' \subseteq Ready(u)
      PROVE  Goal
  <2>1. /\ user[t] \in 1 .. lastUser /\ user[t] \notin opened /\ Own(user[t]) = {}
    BY <1>7 DEF Core, TypeOK, Callers, Unopened
  <2>2. CASE user[t] # u
    <3>1. Own(u)' = Own(u)
      BY <1>7, <2>1, <2>2, TokenInserted
    <3> QED
      BY <3>1, <1>7, <1>3
  <2>3. CASE user[t] = u
    <3>1. Own(u)' = {lastToken'}
      BY <1>7, <2>1, <2>3, TokenInserted
    <3>2. Ready(u) = {}
      BY <2>1, <2>3 DEF Core, Callers, Acting, Refreshing, Ready
    <3>3. Cardinality(Own(u)') = 1 /\ Cardinality(Ready(u)') = 0
      BY <3>1, <3>2, <1>7, FS_Singleton, FS_EmptySet
    <3>4. Cardinality(Tasks) >= 1
      BY <1>2, FS_EmptySet
    <3> QED
      BY <3>3, <3>4, <1>2
  <2> QED
    BY <2>2, <2>3
<1>8. ASSUME NEW t \in Tasks, RegisterToken(t)
      PROVE  Goal
  <2>1. pc[t] = "present" /\ InsertToken(user[t]) /\ Ready(u)' \subseteq Ready(u)
    BY <1>8 DEF Core, TypeOK, RegisterToken, Goto, Ready
  <2> QED
    BY <2>1, <1>7
<1>9. ASSUME NEW t \in Tasks, NEW told \in BOOLEAN, RegisterWithoutCode(t, told)
      PROVE  Goal
  <2>1. pc[t] = "present" /\ InsertToken(user[t]) /\ Ready(u)' \subseteq Ready(u)
    BY <1>9 DEF Core, TypeOK, RegisterWithoutCode, Return, Ready
  <2> QED
    BY <2>1, <1>7
<1> QED
  BY <1>3, <1>4, <1>5, <1>6, <1>8, <1>9, TokensOnlyShrink

\* However many refreshes of a user race, the tokens that more than
\* max_per_user leaves are fewer than the requests in progress.
THEOREM TokensBound == Spec => []TokenBound
<1>1. Core /\ TokenCount => TokenBound
  <2> SUFFICES ASSUME Core, TokenCount, MaxPerUser > 0, NEW u \in DOMAIN users
               PROVE  Cardinality(Own(u)) <= MaxPerUser - 1 + Cardinality(Tasks)
    BY DEF TokenBound
  <2>1. u \in Ids
    BY AccountsAssumption DEF Core, TypeOK, Ids
  <2>2. Cardinality(Ready(u)) \in Nat /\ Cardinality(Tasks) \in Nat
        /\ Cardinality(Own(u)) \in Nat
    BY TaskSets, Bounded, FS_CardinalityType DEF Ready
  <2> QED
    BY <2>1, <2>2, AccountsAssumption DEF TokenCount
<1> QED
  BY CoreInit, CoreNext, TokenCountInit, TokenCountNext, <1>1, PTL DEF Spec

-----------------------------------------------------------------------------
Using(c) == {t \in Tasks : code[t] = c}

InviteCount ==
  ~open =>
    /\ \A t \in Tasks : code[t] \in DOMAIN invites \cup {None}
    /\ \A c \in Codes : (c \in DOMAIN invites => invites[c] = 0) => guests[c] = 0
    /\ \A c \in Codes : guests[c] + Cardinality(Using(c)) <= Cardinality(Tasks)

LEMMA InviteCountInit == Init => InviteCount
<1> SUFFICES ASSUME Init PROVE InviteCount
  OBVIOUS
<1>1. \A c \in Codes : Using(c) = {} /\ guests[c] = 0
  BY AccountsAssumption DEF Init, Using
<1>2. Cardinality(Tasks) \in Nat /\ Cardinality({}) = 0
  BY TaskSets, FS_EmptySet
<1>3. \A t \in Tasks : code[t] = None
  BY DEF Init
<1>4. \A c \in Codes : guests[c] + Cardinality(Using(c)) <= Cardinality(Tasks)
  BY <1>1, <1>2
<1> QED
  BY <1>1, <1>3, <1>4 DEF InviteCount

\* Steps after which no invite is used by more requests than before.
LEMMA InvitesUnused ==
  ASSUME Core, InviteCount, ~open', UNCHANGED open, NEW c \in Codes,
         guests'[c] \in {0, guests[c]}, Using(c)' \subseteq Using(c)
  PROVE  guests'[c] + Cardinality(Using(c)') <= Cardinality(Tasks)
<1>1. /\ Cardinality(Using(c)) \in Nat /\ Cardinality(Using(c)') \in Nat
      /\ Cardinality(Using(c)') <= Cardinality(Using(c)) /\ Cardinality(Tasks) \in Nat
      /\ guests[c] \in Nat
  <2>1. Using(c) \subseteq Tasks
    BY DEF Using
  <2> QED
    BY <2>1, TaskSets, Smaller DEF Core, TypeOK
<1> QED
  BY <1>1 DEF InviteCount

LEMMA InviteCountNext == Core /\ InviteCount /\ [Next]_vars => InviteCount'
<1> SUFFICES ASSUME Core, InviteCount, [Next]_vars, ~open'
             PROVE  /\ \A t \in Tasks : code'[t] \in DOMAIN invites' \cup {None}
                    /\ \A c \in Codes : (c \in DOMAIN invites' => invites'[c] = 0)
                                          => guests'[c] = 0
                    /\ \A c \in Codes : guests'[c] + Cardinality(Using(c)')
                                          <= Cardinality(Tasks)
  BY DEF InviteCount
<1> DEFINE Goal ==
      /\ \A t \in Tasks : code'[t] \in DOMAIN invites' \cup {None}
      /\ \A c \in Codes : (c \in DOMAIN invites' => invites'[c] = 0) => guests'[c] = 0
      /\ \A c \in Codes : guests'[c] + Cardinality(Using(c)') <= Cardinality(Tasks)
<1> USE AccountsAssumption
<1>1. ASSUME NEW t \in Tasks, NEW n \in Names, NEW c \in Codes \cup {None}, Register(t, n, c)
      PROVE  Goal
  <2>1. /\ UNCHANGED <<open, invites, guests>> /\ code' = [code EXCEPT ![t] = c]
        /\ c \in DOMAIN invites /\ invites[c] = 0
    BY <1>1 DEF Register, tables, history
  <2>2. \A d \in Codes : d # c => Using(d)' \subseteq Using(d)
    BY <2>1 DEF Core, TypeOK, Using
  <2>3. c \in Codes /\ guests[c] = 0 /\ guests'[c] = 0
    BY <2>1 DEF Core, TypeOK, InviteCount
  <2>4. Cardinality(Using(c)') \in Nat /\ Cardinality(Using(c)') <= Cardinality(Tasks)
    BY TaskSets DEF Using
  <2>5. \A d \in Codes : guests'[d] + Cardinality(Using(d)') <= Cardinality(Tasks)
    BY <2>1, <2>2, <2>3, <2>4, InvitesUnused
  <2> QED
    BY <2>1, <2>5 DEF Core, TypeOK, InviteCount
<1>2. ASSUME NEW t \in Tasks, NEW told \in BOOLEAN, MarkInvite(t, told)
      PROVE  Goal
  <2> PICK c : c = code[t]
    OBVIOUS
  <2>1. /\ UNCHANGED open /\ c \in DOMAIN invites /\ c \in Codes
        /\ user[t] # 0 /\ c # None
    <3>1. UNCHANGED open /\ pc[t] = "tokened"
      BY <1>2 DEF MarkInvite
    <3>2. c \in DOMAIN invites /\ c \in Codes /\ c # None
      BY <3>1 DEF Core, TypeOK, Callers, Registering, InviteCount
    <3> QED
      BY <3>1, <3>2 DEF Core, TypeOK, Callers, Unopened
  <2>2. /\ DOMAIN invites' = DOMAIN invites /\ invites'[c] = user[t]
        /\ \A d \in DOMAIN invites : d # c => invites'[d] = invites[d]
    BY <2>1, <1>2 DEF MarkInvite
  <2>3. /\ guests'[c] = guests[c] + 1 /\ \A d \in Codes : d # c => guests'[d] = guests[d]
        /\ code' = [code EXCEPT ![t] = None]
    BY <2>1, <1>2 DEF Core, TypeOK, MarkInvite, Return
  <2>4. Using(c)' = Using(c) \ {t} /\ t \in Using(c)
        /\ \A d \in Codes : d # c => Using(d)' \subseteq Using(d)
    BY <2>1, <2>3 DEF Core, TypeOK, Using
  <2>5. Cardinality(Using(c)') = Cardinality(Using(c)) - 1
        /\ Cardinality(Using(c)) \in Nat /\ guests[c] \in Nat
    <3>1. IsFiniteSet(Using(c)) /\ Cardinality(Using(c)) \in Nat
      BY TaskSets DEF Using
    <3>2. Cardinality(Using(c) \ {t}) = Cardinality(Using(c)) - 1
      BY <2>4, <3>1, FS_RemoveElement
    <3> QED
      BY <2>1, <2>4, <3>1, <3>2 DEF Core, TypeOK
  <2>6. guests'[c] + Cardinality(Using(c)') <= Cardinality(Tasks)
    <3>1. guests[c] + Cardinality(Using(c)) <= Cardinality(Tasks)
      BY <2>1 DEF InviteCount
    <3> QED
      BY <2>3, <2>5, <3>1
  <2>7. \A d \in Codes : guests'[d] + Cardinality(Using(d)') <= Cardinality(Tasks)
    BY <2>1, <2>3, <2>4, <2>6, InvitesUnused
  <2> QED
    BY <2>1, <2>2, <2>3, <2>7 DEF Core, TypeOK, InviteCount
<1>3. ASSUME UNCHANGED open,
             DOMAIN invites \subseteq DOMAIN invites',
             \A c \in DOMAIN invites : invites'[c] \in {0, invites[c]},
             \A c \in Codes : IF c \in DOMAIN invites /\ invites'[c] # invites[c]
                              THEN guests'[c] = 0 ELSE guests'[c] = guests[c],
             \A t \in Tasks : code'[t] \in {code[t], None}
      PROVE  Goal
  <2>1. \A c \in Codes : Using(c)' \subseteq Using(c) /\ guests'[c] \in {0, guests[c]}
    BY <1>3 DEF Using
  <2>2. \A c \in Codes : guests'[c] + Cardinality(Using(c)') <= Cardinality(Tasks)
    BY <1>3, <2>1, InvitesUnused
  <2>3. \A t \in Tasks : code'[t] \in DOMAIN invites' \cup {None}
    BY <1>3 DEF InviteCount
  <2>4. \A c \in Codes : (c \in DOMAIN invites' => invites'[c] = 0) => guests'[c] = 0
    BY <1>3 DEF InviteCount
  <2> QED
    BY <2>2, <2>3, <2>4
<1>4. ASSUME NEW t \in Tasks, Unregister(t)
      PROVE  Goal
  <2>1. /\ UNCHANGED open /\ DOMAIN invites' = DOMAIN invites
        /\ \A c \in DOMAIN invites :
             invites'[c] = IF invites[c] = user[t] THEN 0 ELSE invites[c]
        /\ \A c \in Codes : guests'[c] = IF c \in DOMAIN invites /\ invites[c] = user[t]
                                          THEN 0 ELSE guests[c]
        /\ code' = [code EXCEPT ![t] = None]
    BY <1>4 DEF Unregister, Return
  <2>2. \A c \in Codes : (c \in DOMAIN invites' => invites'[c] = 0) => guests'[c] = 0
    BY <2>1 DEF InviteCount
  <2>3. \A s \in Tasks : code'[s] \in {code[s], None}
    BY <2>1 DEF Core, TypeOK
  <2>4. \A c \in Codes : Using(c)' \subseteq Using(c) /\ guests'[c] \in {0, guests[c]}
    BY <2>1, <2>3 DEF Using
  <2>5. \A c \in Codes : guests'[c] + Cardinality(Using(c)') <= Cardinality(Tasks)
    BY <2>1, <2>4, InvitesUnused
  <2> QED
    BY <2>1, <2>2, <2>3, <2>5 DEF InviteCount
<1>5. ASSUME NEW t \in Tasks, InviteCreate(t)
      PROVE  Goal
  BY <1>3, <1>5 DEF Core, TypeOK, InviteCreate, Inserted, Return, history
<1>6. ASSUME UNCHANGED <<open, invites, guests>>,
             \A t \in Tasks : code'[t] \in {code[t], None}
      PROVE  Goal
  BY <1>3, <1>6
<1>7. ASSUME NEW t \in Tasks,
             \/ CheckName(t) \/ CheckPlaces(t) \/ InsertUser(t) \/ InsertPresence(t)
             \/ RegisterToken(t) \/ RefreshCount(t) \/ RefreshDelete(t) \/ Abort(t)
             \/ \E k \in known, to \in {"unregister", "counting", "invite"} : Resolve(t, k, to)
             \/ \E told \in BOOLEAN : RegisterWithoutCode(t, told) \/ RefreshInsert(t, told)
      PROVE  Goal
  <2>1. /\ UNCHANGED <<open, invites, guests>>
        /\ code' = code \/ code' = [code EXCEPT ![t] = None]
    BY <1>7
       DEF CheckName, CheckPlaces, InsertUser, InsertPresence, RegisterToken, InsertToken,
           RefreshCount, RefreshDelete, Abort, Resolve, RegisterWithoutCode, RefreshInsert,
           Goto, Return, tables, history
  <2> QED
    BY <2>1, <1>6 DEF Core, TypeOK
<1>8. CASE UNCHANGED vars
  BY <1>8, <1>6 DEF vars, tables, task, history
<1> QED
  BY <1>1, <1>2, <1>4, <1>5, <1>7, <1>8 DEF Next, RegisterStep, RefreshStep

\* One invite never lets in more accounts than there are requests at once,
\* before the account recorded for it is deleted.
THEOREM InvitesBound == Spec => []InviteBound
<1>1. Core /\ InviteCount => InviteBound
  <2> SUFFICES ASSUME Core, InviteCount, ~open, NEW c \in Codes
               PROVE  guests[c] <= Cardinality(Tasks)
    BY DEF InviteBound
  <2>1. Cardinality(Using(c)) \in Nat /\ Cardinality(Tasks) \in Nat /\ guests[c] \in Nat
    BY TaskSets DEF Using, Core, TypeOK
  <2> QED
    BY <2>1 DEF InviteCount
<1> QED
  BY CoreInit, CoreNext, InviteCountInit, InviteCountNext, <1>1, PTL DEF Spec

-----------------------------------------------------------------------------
(***************************************************************************)
(* The refinement.  Of a user who is not exposed, the refreshes in         *)
(* progress and the lost tokens are fewer than max_per_user, and so those  *)
(* refreshes that are about to delete a token leave at least one that the  *)
(* user knows.                                                             *)
(***************************************************************************)

Removing(u) == {t \in Tasks : pc[t] = "deleting" /\ user[t] = u}

Uncrowded ==
  \A u \in Ids \ exposed :
    RefreshesOf(u) # {} =>
      Cardinality(RefreshesOf(u)) + Cardinality(Lost(u)) < MaxPerUser

Spare ==
  \A u \in DOMAIN users \ exposed :
    Removing(u) # {} => Cardinality(Removing(u)) < Cardinality(Own(u) \cap known)

LEMMA Counts ==
  ASSUME Core, NEW u
  PROVE  /\ IsFiniteSet(Own(u)) /\ Cardinality(Own(u)) \in Nat
         /\ IsFiniteSet(Lost(u)) /\ Cardinality(Lost(u)) \in Nat
         /\ IsFiniteSet(Own(u) \cap known) /\ Cardinality(Own(u) \cap known) \in Nat
         /\ IsFiniteSet(RefreshesOf(u)) /\ Cardinality(RefreshesOf(u)) \in Nat
         /\ IsFiniteSet(Removing(u)) /\ Cardinality(Removing(u)) \in Nat
         /\ Cardinality(Own(u)) = Cardinality(Lost(u)) + Cardinality(Own(u) \cap known)
<1>1. /\ IsFiniteSet(Own(u)) /\ Cardinality(Own(u)) \in Nat
      /\ IsFiniteSet(Lost(u)) /\ Cardinality(Lost(u)) \in Nat
      /\ IsFiniteSet(Own(u) \cap known) /\ Cardinality(Own(u) \cap known) \in Nat
  BY Bounded, Smaller, FS_CardinalityType DEF Lost
<1>2. /\ IsFiniteSet(RefreshesOf(u)) /\ Cardinality(RefreshesOf(u)) \in Nat
      /\ IsFiniteSet(Removing(u)) /\ Cardinality(Removing(u)) \in Nat
  BY TaskSets DEF RefreshesOf, Removing
<1>3. Cardinality(Own(u)) = Cardinality(Lost(u)) + Cardinality(Own(u) \cap known)
  <2>1. Own(u) = Lost(u) \cup (Own(u) \cap known) /\ Lost(u) \cap (Own(u) \cap known) = {}
    BY DEF Lost
  <2>2. Cardinality(Lost(u) \cup (Own(u) \cap known))
          = Cardinality(Lost(u)) + Cardinality(Own(u) \cap known) - Cardinality({})
    BY <1>1, <2>1, FS_Union
  <2> QED
    BY <1>1, <2>1, <2>2, FS_EmptySet
<1> QED
  BY <1>1, <1>2, <1>3

\* A refresh of u begins or loses its answer; nothing else adds to the
\* refreshes of u or, while there are any, to its lost tokens.
LEMMA RefreshSteps ==
  ASSUME Core, [Next]_vars, NEW u
  PROVE  \/ \E t \in Tasks : \E k \in known : Resolve(t, k, "counting") /\ tokens[k] = u
         \/ \E t \in Tasks : RefreshInsert(t, FALSE) /\ user[t] = u
         \/ /\ RefreshesOf(u)' \subseteq RefreshesOf(u)
            /\ RefreshesOf(u)' # {} => Lost(u)' \subseteq Lost(u)
            /\ u \in exposed' <=> u \in exposed
<1> DEFINE Quiet == /\ RefreshesOf(u)' \subseteq RefreshesOf(u)
                    /\ RefreshesOf(u)' # {} => Lost(u)' \subseteq Lost(u)
                    /\ u \in exposed' <=> u \in exposed
<1>1. ASSUME NEW t \in Tasks, NEW k \in known,
             NEW to \in {"unregister", "counting", "invite"}, Resolve(t, k, to),
             ~(to = "counting" /\ tokens[k] = u)
      PROVE  Quiet
  <2>1. UNCHANGED <<tokens, known>> /\ pc' = [pc EXCEPT ![t] = to]
        /\ user' = [user EXCEPT ![t] = tokens[k]]
    BY <1>1 DEF Resolve, tables
  <2>2. RefreshesOf(u)' \subseteq RefreshesOf(u)
    BY <1>1, <2>1 DEF Core, TypeOK, RefreshesOf, Refreshing
  <2>3. u \in exposed' <=> u \in exposed
    BY <1>1 DEF Resolve, Expose
  <2> QED
    BY <2>1, <2>2, <2>3 DEF Lost, Own
<1>2. ASSUME NEW t \in Tasks,
             \/ \E n \in Names, c \in Codes \cup {None} : Register(t, n, c)
             \/ CheckName(t) \/ CheckPlaces(t) \/ InsertUser(t) \/ InsertPresence(t)
             \/ RefreshCount(t) \/ InviteCreate(t) \/ Abort(t)
      PROVE  Quiet
  <2>1. UNCHANGED <<tokens, known, exposed>>
    BY <1>2 DEF Register, CheckName, CheckPlaces, InsertUser, InsertPresence, RefreshCount,
                InviteCreate, Abort, tables, history
  <2>2. RefreshesOf(u)' \subseteq RefreshesOf(u)
    BY <1>2 DEF Core, TypeOK, Register, CheckName, CheckPlaces, InsertUser, InsertPresence,
                RefreshCount, InviteCreate, Abort, Goto, Return, RefreshesOf, Refreshing
  <2> QED
    BY <2>1, <2>2 DEF Lost, Own
<1>3. ASSUME NEW t \in Tasks,
             Unregister(t) \/ RefreshDelete(t) \/ \E told \in BOOLEAN : MarkInvite(t, told)
      PROVE  Quiet
  <2>1. UNCHANGED exposed /\ known \subseteq known' /\ Own(u)' \subseteq Own(u)
    BY <1>3 DEF Unregister, RefreshDelete, MarkInvite, Told, Deleted, Restrict, history, Own
  <2>2. RefreshesOf(u)' \subseteq RefreshesOf(u)
    BY <1>3 DEF Core, TypeOK, Unregister, RefreshDelete, MarkInvite, Goto, Return,
                RefreshesOf, Refreshing
  <2> QED
    BY <2>1, <2>2 DEF Lost
<1>4. ASSUME NEW t \in Tasks,
             RegisterToken(t) \/ \E told \in BOOLEAN : RegisterWithoutCode(t, told)
      PROVE  Quiet
  <2>1. /\ UNCHANGED exposed /\ known \subseteq known'
        /\ user[t] \in 1 .. lastUser /\ InsertToken(user[t]) /\ user[t] \notin opened
    BY <1>4 DEF Core, TypeOK, Callers, Unopened, RegisterToken, RegisterWithoutCode, Told,
                Goto, history
  <2>2. RefreshesOf(u)' \subseteq RefreshesOf(u)
    BY <1>4 DEF Core, TypeOK, RegisterToken, RegisterWithoutCode, Goto, Return,
                RefreshesOf, Refreshing
  <2>3. CASE u = user[t]
    <3>1. RefreshesOf(u) = {}
      BY <2>1, <2>3 DEF Core, Callers, Acting, RefreshesOf
    <3> QED
      BY <2>1, <2>2, <3>1
  <2>4. CASE u # user[t]
    <3>1. Own(u)' = Own(u)
      BY <2>1, <2>4, TokenInserted
    <3> QED
      BY <2>1, <2>2, <3>1 DEF Lost
  <2> QED
    BY <2>3, <2>4
<1>5. ASSUME NEW t \in Tasks, NEW told \in BOOLEAN, RefreshInsert(t, told),
             told \/ user[t] # u
      PROVE  Quiet
  <2>1. /\ UNCHANGED exposed /\ known \subseteq known'
        /\ user[t] \in 1 .. lastUser /\ InsertToken(user[t])
        /\ known' = IF told THEN known \cup {lastToken'} ELSE known
    BY <1>5 DEF Core, TypeOK, RefreshInsert, Told
  <2>2. RefreshesOf(u)' \subseteq RefreshesOf(u)
    BY <1>5 DEF Core, TypeOK, RefreshInsert, Return, RefreshesOf, Refreshing
  <2>3. Lost(u)' \subseteq Lost(u)
    <3>1. Own(u)' = IF user[t] = u THEN Own(u) \cup {lastToken'} ELSE Own(u)
      BY <2>1, TokenInserted
    <3> QED
      BY <1>5, <2>1, <3>1 DEF Lost
  <2> QED
    BY <2>1, <2>2, <2>3
<1>6. CASE UNCHANGED vars
  BY <1>6 DEF vars, tables, task, history, Lost, Own, RefreshesOf
<1> QED
  BY <1>1, <1>2, <1>3, <1>4, <1>5, <1>6 DEF Next, RegisterStep, RefreshStep

LEMMA UncrowdedNext == Core /\ Uncrowded /\ [Next]_vars => Uncrowded'
<1> SUFFICES ASSUME Core, Core', Uncrowded, [Next]_vars,
                    NEW u \in Ids, u \notin exposed', RefreshesOf(u)' # {}
             PROVE  Cardinality(RefreshesOf(u)') + Cardinality(Lost(u)') < MaxPerUser
  BY CoreNext DEF Uncrowded, Ids
<1> USE AccountsAssumption
<1>1. /\ IsFiniteSet(Lost(u)) /\ Cardinality(Lost(u)) \in Nat
      /\ IsFiniteSet(RefreshesOf(u)) /\ Cardinality(RefreshesOf(u)) \in Nat
  BY Counts
<1>2. Cardinality(Lost(u)') \in Nat /\ Cardinality(RefreshesOf(u)') \in Nat
  <2>1. Cardinality(RefreshesOf(u)') \in Nat
    BY TaskSets DEF RefreshesOf
  <2>2. lastToken' \in Nat /\ Lost(u)' \subseteq 1 .. lastToken'
    BY DEF Core, TypeOK, Lost, Own
  <2>3. IsFiniteSet(1 .. lastToken')
    BY <2>2, FS_Interval
  <2> QED
    BY <2>1, <2>2, <2>3, Smaller
<1>3. ASSUME NEW t \in Tasks, NEW k \in known, Resolve(t, k, "counting"), tokens[k] = u
      PROVE  Cardinality(RefreshesOf(u)') + Cardinality(Lost(u)') < MaxPerUser
  <2>1. ~(Cardinality(RefreshesOf(u)) + 1 + Cardinality(Lost(u)) >= MaxPerUser)
    BY <1>3 DEF Resolve, Expose
  <2>2. Lost(u)' = Lost(u)
    BY <1>3 DEF Resolve, tables, Lost, Own
  <2>3. RefreshesOf(u)' = RefreshesOf(u) \cup {t} /\ t \notin RefreshesOf(u)
    BY <1>3 DEF Core, TypeOK, Resolve, RefreshesOf, Refreshing
  <2>4. Cardinality(RefreshesOf(u)') = Cardinality(RefreshesOf(u)) + 1
    BY <1>1, <2>3, FS_AddElement
  <2> QED
    BY <1>1, <2>1, <2>2, <2>4
<1>4. ASSUME NEW t \in Tasks, RefreshInsert(t, FALSE), user[t] = u
      PROVE  Cardinality(RefreshesOf(u)') + Cardinality(Lost(u)') < MaxPerUser
  <2>1. /\ u \in 1 .. lastUser /\ InsertToken(u) /\ UNCHANGED <<known, exposed>>
        /\ pc[t] = "refreshing" /\ Return(t)
    BY <1>4 DEF Core, TypeOK, RefreshInsert, Told
  <2>2. Lost(u)' = Lost(u) \cup {lastToken'} /\ lastToken' \notin Lost(u)
    BY <2>1, TokenInserted DEF Lost, Own
  <2>3. RefreshesOf(u)' = RefreshesOf(u) \ {t} /\ t \in RefreshesOf(u)
    BY <1>4, <2>1 DEF Core, TypeOK, Return, RefreshesOf, Refreshing
  <2>4. Cardinality(Lost(u)') = Cardinality(Lost(u)) + 1
    BY <1>1, <2>2, FS_AddElement
  <2>5. Cardinality(RefreshesOf(u)') = Cardinality(RefreshesOf(u)) - 1
    BY <1>1, <2>3, FS_RemoveElement
  <2>6. Cardinality(RefreshesOf(u)) + Cardinality(Lost(u)) < MaxPerUser
    BY <2>1, <2>3 DEF Uncrowded
  <2> QED
    BY <1>1, <2>4, <2>5, <2>6
<1>5. ASSUME RefreshesOf(u)' \subseteq RefreshesOf(u), Lost(u)' \subseteq Lost(u), u \notin exposed
      PROVE  Cardinality(RefreshesOf(u)') + Cardinality(Lost(u)') < MaxPerUser
  <2>1. /\ Cardinality(RefreshesOf(u)') <= Cardinality(RefreshesOf(u))
        /\ Cardinality(Lost(u)') <= Cardinality(Lost(u))
    BY <1>1, <1>5, Smaller
  <2>2. Cardinality(RefreshesOf(u)) + Cardinality(Lost(u)) < MaxPerUser
    BY <1>5 DEF Uncrowded
  <2> QED
    BY <1>1, <1>2, <2>1, <2>2
<1> QED
  BY <1>3, <1>4, <1>5, RefreshSteps

LEMMA SpareNext == Core /\ Uncrowded /\ Spare /\ [Next]_vars => Spare'
<1> SUFFICES ASSUME Core, Core', Uncrowded, Spare, [Next]_vars,
                    NEW u \in DOMAIN users', u \notin exposed', Removing(u)' # {}
             PROVE  Cardinality(Removing(u)') < Cardinality((Own(u) \cap known)')
  BY CoreNext DEF Spare
<1> USE AccountsAssumption
<1> DEFINE Goal == Cardinality(Removing(u)') < Cardinality((Own(u) \cap known)')
<1>1. /\ IsFiniteSet(Own(u)) /\ Cardinality(Own(u)) \in Nat
      /\ IsFiniteSet(Own(u) \cap known) /\ Cardinality(Own(u) \cap known) \in Nat
      /\ IsFiniteSet(Removing(u)) /\ Cardinality(Removing(u)) \in Nat
      /\ IsFiniteSet(RefreshesOf(u)) /\ Cardinality(RefreshesOf(u)) \in Nat
      /\ Cardinality(Lost(u)) \in Nat
      /\ Cardinality(Own(u)) = Cardinality(Lost(u)) + Cardinality(Own(u) \cap known)
  BY Counts
<1>2. /\ IsFiniteSet((Own(u) \cap known)') /\ Cardinality((Own(u) \cap known)') \in Nat
      /\ IsFiniteSet(Removing(u)') /\ Cardinality(Removing(u)') \in Nat
  <2>1. IsFiniteSet(Removing(u)') /\ Cardinality(Removing(u)') \in Nat
    BY TaskSets DEF Removing
  <2>2. lastToken' \in Nat /\ (Own(u) \cap known)' \subseteq 1 .. lastToken'
    BY DEF Core, TypeOK, Own
  <2>3. IsFiniteSet(1 .. lastToken')
    BY <2>2, FS_Interval
  <2> QED
    BY <2>1, <2>2, <2>3, Smaller
<1>3. ASSUME u \in DOMAIN users, u \notin exposed, Removing(u)' \subseteq Removing(u),
             Own(u) \cap known \subseteq (Own(u) \cap known)'
      PROVE  Goal
  <2>1. /\ Cardinality(Removing(u)') <= Cardinality(Removing(u))
        /\ Cardinality(Own(u) \cap known) <= Cardinality((Own(u) \cap known)')
    BY <1>1, <1>2, <1>3, Smaller
  <2>2. Cardinality(Removing(u)) < Cardinality(Own(u) \cap known)
    BY <1>3 DEF Spare
  <2> QED
    BY <1>1, <1>2, <2>1, <2>2
<1>4. ASSUME NEW t \in Tasks, InsertUser(t)
      PROVE  Goal
  <2>1. /\ DOMAIN users' = DOMAIN users \cup {lastUser + 1} /\ UNCHANGED <<tokens, known, exposed>>
        /\ pc[t] = "counted" /\ pc' = [pc EXCEPT ![t] = "inserted"]
        /\ user' = [user EXCEPT ![t] = lastUser + 1]
    BY <1>4 DEF InsertUser, Inserted, history
  <2>2. Removing(u)' \subseteq Removing(u) /\ Own(u)' = Own(u)
    BY <2>1 DEF Core, TypeOK, Removing, Own
  <2>3. u # lastUser + 1
    <3>1. \A s \in Removing(u)' : user[s] = u /\ user[s] \in opened
      BY <2>1 DEF Core, TypeOK, Callers, Acting, Refreshing, Removing
    <3> QED
      BY <3>1 DEF Core, TypeOK
  <2> QED
    BY <2>1, <2>2, <2>3, <1>3
<1>5. ASSUME NEW t \in Tasks, RefreshCount(t)
      PROVE  Goal
  <2>1. /\ Own(u)' = Own(u) /\ u \in DOMAIN users
        /\ pc[t] = "counting" /\ UNCHANGED <<user, known, exposed>>
        /\ pc' = [pc EXCEPT ![t] = IF Cardinality(Own(user[t])) >= MaxPerUser
                                   THEN "deleting" ELSE "refreshing"]
    BY <1>5 DEF RefreshCount, Goto, tables, history, Own
  <2>2. CASE user[t] = u /\ Cardinality(Own(u)) >= MaxPerUser
    <3>1. t \in RefreshesOf(u)
      BY <2>1, <2>2 DEF RefreshesOf, Refreshing
    <3>2. Cardinality(RefreshesOf(u)) + Cardinality(Lost(u)) < MaxPerUser
      <4>1. u \in Ids
        BY <2>1 DEF Core, TypeOK, Ids
      <4> QED
        BY <4>1, <2>1, <3>1 DEF Uncrowded
    <3>3. Removing(u)' \subseteq RefreshesOf(u)
      BY <2>1, <2>2 DEF Core, TypeOK, Removing, RefreshesOf, Refreshing
    <3>4. Cardinality(Removing(u)') <= Cardinality(RefreshesOf(u))
      BY <1>1, <3>3, Smaller
    <3>5. Cardinality((Own(u) \cap known)') = Cardinality(Own(u) \cap known)
      BY <2>1
    <3> QED
      BY <1>1, <1>2, <2>2, <3>2, <3>4, <3>5
  <2>3. CASE ~(user[t] = u /\ Cardinality(Own(u)) >= MaxPerUser)
    <3>1. Removing(u)' \subseteq Removing(u)
      <4>1. user[t] = u => ~(Cardinality(Own(user[t])) >= MaxPerUser)
        BY <2>3
      <4> QED
        BY <2>1, <4>1 DEF Core, TypeOK, Removing
    <3> QED
      BY <3>1, <2>1, <1>3
  <2> QED
    BY <2>2, <2>3
<1>6. ASSUME NEW t \in Tasks, RefreshDelete(t)
      PROVE  Goal
  <2>1. /\ Own(u)' = IF user[t] = u THEN Own(u) \ Oldest(Own(u)) ELSE Own(u)
        /\ UNCHANGED <<users, user, known, exposed>> /\ pc[t] = "deleting"
        /\ pc' = [pc EXCEPT ![t] = "refreshing"]
    BY <1>6 DEF RefreshDelete, Deleted, Restrict, Goto, history, Own, Oldest
  <2>2. CASE user[t] # u \/ Own(u) = {}
    <3>1. Own(u)' = Own(u) /\ Removing(u)' \subseteq Removing(u)
      BY <2>1, <2>2 DEF Core, TypeOK, Removing
    <3> QED
      BY <3>1, <2>1, <1>3
  <2>3. CASE user[t] = u /\ Own(u) # {}
    <3>1. Own(u) \subseteq Nat
      BY DEF Core, TypeOK, Own
    <3>2. PICK k \in Own(u) : Oldest(Own(u)) = {k}
      BY <2>3, <3>1, HasOldest
    <3>3. /\ (Own(u) \cap known)' = (Own(u) \cap known) \ {k}
          /\ Removing(u)' = Removing(u) \ {t} /\ t \in Removing(u)
      BY <2>1, <2>3, <3>2 DEF Core, TypeOK, Removing
    <3>4. Cardinality((Own(u) \cap known)') >= Cardinality(Own(u) \cap known) - 1
      <4> DEFINE S == Own(u) \cap known
      <4>1. IsFiniteSet(S) /\ Cardinality(S) \in Nat
        BY <1>1
      <4> HIDE DEF S
      <4>2. k \in S => Cardinality(S \ {k}) = Cardinality(S) - 1
        BY <4>1, FS_RemoveElement
      <4>3. k \notin S => S \ {k} = S
        OBVIOUS
      <4>4. Cardinality(S \ {k}) >= Cardinality(S) - 1
        BY <4>1, <4>2, <4>3
      <4> QED
        BY <3>3, <4>4 DEF S
    <3>5. Cardinality(Removing(u)') = Cardinality(Removing(u)) - 1
      <4> DEFINE R == Removing(u)
      <4>1. IsFiniteSet(R)
        BY <1>1
      <4>2. t \in R
        BY <3>3
      <4> HIDE DEF R
      <4>3. Cardinality(R \ {t}) = Cardinality(R) - 1
        BY <4>1, <4>2, FS_RemoveElement
      <4> QED
        BY <3>3, <4>3 DEF R
    <3>6. Cardinality(Removing(u)) < Cardinality(Own(u) \cap known)
      BY <2>1, <3>3 DEF Spare
    <3> QED
      BY <3>4, <3>5, <3>6, <1>1, <1>2
  <2> QED
    BY <2>2, <2>3
<1>7. ASSUME NEW t \in Tasks, Unregister(t)
      PROVE  Goal
  <2>1. u \in DOMAIN users /\ u # user[t] /\ Own(u)' = Own(u) /\ UNCHANGED <<known, exposed>>
    BY <1>7 DEF Unregister, Deleted, Restrict, Own
  <2>2. Removing(u)' \subseteq Removing(u)
    BY <1>7 DEF Core, TypeOK, Unregister, Return, Removing
  <2> QED
    BY <2>1, <2>2, <1>3
<1>8. ASSUME NEW t \in Tasks,
             \/ RegisterToken(t)
             \/ \E told \in BOOLEAN : RegisterWithoutCode(t, told) \/ RefreshInsert(t, told)
      PROVE  Goal
  <2>1. /\ InsertToken(user[t]) /\ user[t] \in 1 .. lastUser
        /\ UNCHANGED <<users, exposed>> /\ known \subseteq known'
    BY <1>8 DEF Core, TypeOK, Callers, Unopened, Acting, Refreshing, RegisterToken,
                RegisterWithoutCode, RefreshInsert, InsertToken, Told, Goto, history
  <2>2. Removing(u)' \subseteq Removing(u)
    BY <1>8 DEF Core, TypeOK, RegisterToken, RegisterWithoutCode, RefreshInsert, Goto, Return,
                Removing
  <2>3. Own(u) \subseteq Own(u)'
    BY <2>1, TokenInserted
  <2> QED
    BY <2>1, <2>2, <2>3, <1>3
<1>9. ASSUME NEW t \in Tasks,
             \/ \E n \in Names, c \in Codes \cup {None} : Register(t, n, c)
             \/ CheckName(t) \/ CheckPlaces(t) \/ InsertPresence(t) \/ InviteCreate(t)
             \/ Abort(t) \/ \E told \in BOOLEAN : MarkInvite(t, told)
      PROVE  Goal
  <2>1. UNCHANGED <<users, tokens, exposed>> /\ known \subseteq known'
    BY <1>9 DEF Register, CheckName, CheckPlaces, InsertPresence, InviteCreate,
                Abort, MarkInvite, Told, tables, history
  <2>2. Removing(u)' \subseteq Removing(u)
    BY <1>9 DEF Core, TypeOK, Register, CheckName, CheckPlaces, InsertPresence,
                InviteCreate, Abort, MarkInvite, Goto, Return, Removing
  <2> QED
    BY <2>1, <2>2, <1>3 DEF Own
<1>10. ASSUME NEW t \in Tasks, NEW k \in known,
              NEW to \in {"unregister", "counting", "invite"}, Resolve(t, k, to)
       PROVE  Goal
  <2>1. UNCHANGED <<users, tokens, known>>
    BY <1>10 DEF Resolve, tables
  <2>2. Removing(u)' \subseteq Removing(u) /\ Removing(u) \subseteq RefreshesOf(u)
    BY <1>10 DEF Core, TypeOK, Resolve, Removing, RefreshesOf, Refreshing
  <2>3. u \notin exposed
    BY <1>10, <2>2 DEF Resolve, Expose
  <2> QED
    BY <2>1, <2>2, <2>3, <1>3 DEF Own
<1>11. CASE UNCHANGED vars
  BY <1>11, <1>3 DEF vars, tables, task, history, Own, Removing
<1> QED
  BY <1>4, <1>5, <1>6, <1>7, <1>8, <1>9, <1>10, <1>11 DEF Next, RegisterStep, RefreshStep

\* The abstract state stays as it is when no account becomes or ceases to be
\* an account that was opened, and no known token comes or goes.
LEMMA Unseen ==
  ASSUME Core, UNCHANGED <<opened, exposed, known>>,
         opened \cap DOMAIN users' = opened \cap DOMAIN users,
         known \cap DOMAIN tokens' = known \cap DOMAIN tokens,
         \A k \in known \cap DOMAIN tokens : tokens'[k] = tokens[k]
  PROVE  UNCHANGED Credential!vars
<1>1. opened' \cap DOMAIN users' = opened \cap DOMAIN users
      /\ opened' \ DOMAIN users' = opened \ DOMAIN users
  OBVIOUS
<1>2. Restrict(tokens', known' \cap DOMAIN tokens') = Restrict(tokens, known \cap DOMAIN tokens)
  BY DEF Restrict
<1> QED
  BY <1>1, <1>2 DEF Credential!vars

\* What a client learns in an answer that names the account u and its token k.
LEMMA Learnt ==
  ASSUME Core, Core', NEW u \in opened', NEW k \in DOMAIN tokens',
         u \in DOMAIN users', DOMAIN users' = DOMAIN users,
         opened' = opened \cup {u}, known' = known \cup {k}, k \notin known,
         UNCHANGED exposed,
         tokens'[k] = u, \A j \in DOMAIN tokens : tokens'[j] = tokens[j],
         DOMAIN tokens' = DOMAIN tokens \cup {k}
  PROVE  Credential!Next
<1> USE AccountsAssumption
<1>1. u \in Ids /\ k \in Ids
  BY DEF Core, TypeOK, Ids
<1>2. Restrict(tokens', known' \cap DOMAIN tokens')
        = [j \in DOMAIN Restrict(tokens, known \cap DOMAIN tokens) \cup {k} |->
             IF j = k THEN u ELSE Restrict(tokens, known \cap DOMAIN tokens)[j]]
  BY DEF Restrict
<1>3. Credential!HandOut(u, k)
  BY <1>2 DEF Credential!HandOut
<1>4. CASE u \in opened
  <2>1. Credential!Issue(u, k)
    BY <1>3, <1>4 DEF Credential!Issue
  <2> QED
    BY <1>1, <2>1 DEF Credential!Next
<1>5. CASE u \notin opened
  <2>1. Credential!Open(u, k)
    BY <1>3, <1>5 DEF Credential!Open
  <2> QED
    BY <1>1, <2>1 DEF Credential!Next
<1> QED
  BY <1>4, <1>5

LEMMA RefinesDelete ==
  ASSUME Core, Spare, NEW t \in Tasks, RefreshDelete(t)
  PROVE  [Credential!Next]_(Credential!vars)
<1> USE AccountsAssumption
<1> PICK u : u = user[t]
  OBVIOUS
<1>1. /\ UNCHANGED <<users, opened, exposed, known>> /\ pc[t] = "deleting"
      /\ tokens' = Deleted(tokens, Oldest(Own(u))) /\ u \in opened
  BY DEF Core, Callers, Acting, Refreshing, RefreshDelete, Goto, history
<1>2. CASE Own(u) = {}
  <2>1. tokens' = Deleted(tokens, {})
    BY <1>1, <1>2 DEF Oldest
  <2>2. DOMAIN tokens' = DOMAIN tokens /\ \A k \in DOMAIN tokens : tokens'[k] = tokens[k]
    BY <2>1 DEF Deleted, Restrict
  <2> QED
    BY <1>1, <2>2, Unseen
<1>3. CASE Own(u) # {}
  <2>1. Own(u) \subseteq Nat
    BY DEF Core, TypeOK, Own
  <2>2. PICK k \in Own(u) : Oldest(Own(u)) = {k}
    BY <1>3, <2>1, HasOldest
  <2>3. /\ DOMAIN tokens' = DOMAIN tokens \ {k}
        /\ \A j \in DOMAIN tokens' : tokens'[j] = tokens[j]
    BY <1>1, <2>2 DEF Deleted, Restrict
  <2>4. CASE k \notin known
    BY <1>1, <2>3, <2>4, Unseen
  <2>5. CASE k \in known
    <3> DEFINE accepted == Restrict(tokens, known \cap DOMAIN tokens)
    <3>1. u \in exposed \/ \E j \in Own(u) \cap known : j # k
      <4> SUFFICES ASSUME u \notin exposed, Own(u) \cap known \subseteq {k}
                   PROVE  FALSE
        OBVIOUS
      <4>1. u \in DOMAIN users
        BY <1>3 DEF Core, Rows, TokenMeansAccount, Own
      <4>2. t \in Removing(u)
        BY <1>1 DEF Removing
      <4>3. Cardinality(Removing(u)) < Cardinality(Own(u) \cap known)
        BY <4>1, <4>2 DEF Spare
      <4>4. /\ IsFiniteSet(Removing(u)) /\ Cardinality(Removing(u)) \in Nat
            /\ Cardinality(Own(u) \cap known) \in Nat
        BY Counts
      <4>5. Cardinality(Removing(u)) # 0
        BY <4>2, <4>4, FS_EmptySet
      <4>6. Cardinality({k}) = 1 /\ IsFiniteSet({k})
        BY FS_Singleton
      <4>7. Cardinality(Own(u) \cap known) <= 1
        BY <4>6, Smaller
      <4> QED
        BY <4>3, <4>4, <4>5, <4>7
    <3>2. /\ k \in DOMAIN accepted /\ accepted[k] = u
          /\ u \in exposed \/ \E j \in DOMAIN accepted \ {k} : accepted[j] = accepted[k]
      BY <2>5, <3>1, <2>2 DEF Restrict, Own
    <3>3. Restrict(tokens', known' \cap DOMAIN tokens')
            = [i \in DOMAIN accepted \ {k} |-> accepted[i]]
      BY <1>1, <2>3 DEF Restrict
    <3>4. Credential!Revoke(k)
      BY <1>1, <3>2, <3>3 DEF Credential!Revoke
    <3> QED
      BY <3>2, <3>4 DEF Credential!Next
  <2> QED
    BY <2>4, <2>5
<1> QED
  BY <1>2, <1>3

LEMMA RefinesUnregister ==
  ASSUME Core, NEW t \in Tasks, Unregister(t)
  PROVE  [Credential!Next]_(Credential!vars)
<1> DEFINE accepted == Restrict(tokens, known \cap DOMAIN tokens)
<1> PICK u : u = user[t]
  OBVIOUS
<1>1. /\ UNCHANGED <<opened, exposed, known>> /\ u \in opened
      /\ DOMAIN users' = DOMAIN users \ {u}
      /\ DOMAIN tokens' = DOMAIN tokens \ Own(u)
      /\ \A k \in DOMAIN tokens' : tokens'[k] = tokens[k]
  BY DEF Core, Callers, Acting, Unregister, Deleted, Restrict
<1>2. CASE u \notin DOMAIN users
  <2>1. Own(u) = {}
    BY <1>2 DEF Core, Rows, TokenMeansAccount, Own
  <2> QED
    BY <1>1, <1>2, <2>1, Unseen
<1>3. CASE u \in DOMAIN users
  <2>1. Restrict(tokens', known' \cap DOMAIN tokens')
          = [j \in {i \in DOMAIN accepted : accepted[i] # u} |-> accepted[j]]
    BY <1>1 DEF Restrict, Own
  <2>2. Credential!Close(u)
    BY <1>1, <1>3, <2>1 DEF Credential!Close
  <2> QED
    BY <1>1, <1>3, <2>2 DEF Credential!Next
<1> QED
  BY <1>2, <1>3

LEMMA RefinesAnswer ==
  ASSUME Core, Core', NEW t \in Tasks, NEW told \in BOOLEAN,
         RegisterWithoutCode(t, told) \/ MarkInvite(t, told) \/ RefreshInsert(t, told)
  PROVE  [Credential!Next]_(Credential!vars)
<1> PICK u : u = user[t]
  OBVIOUS
<1>1. CASE RegisterWithoutCode(t, told) \/ RefreshInsert(t, told)
  <2>1. /\ u \in 1 .. lastUser /\ InsertToken(u) /\ Told(told, u, {lastToken'})
        /\ u \in DOMAIN users /\ UNCHANGED <<users, exposed>>
    BY <1>1 DEF Core, TypeOK, Callers, Unopened, RegisterWithoutCode, RefreshInsert, InsertToken
  <2>2. /\ lastToken' \notin DOMAIN tokens \cup known
        /\ DOMAIN tokens' = DOMAIN tokens \cup {lastToken'} /\ tokens'[lastToken'] = u
        /\ \A j \in DOMAIN tokens : tokens'[j] = tokens[j]
    BY <2>1, TokenInserted
  <2>3. CASE told
    <3>1. opened' = opened \cup {u} /\ known' = known \cup {lastToken'}
      BY <2>1, <2>3 DEF Told
    <3> QED
      BY <2>1, <2>2, <3>1, Learnt
  <2>4. CASE ~told
    <3>1. UNCHANGED <<opened, known>>
      BY <2>1, <2>4 DEF Told
    <3> QED
      BY <2>1, <2>2, <3>1, Unseen
  <2> QED
    BY <2>3, <2>4
<1>2. CASE MarkInvite(t, told)
  <2>1. /\ Told(told, u, Own(u)) /\ UNCHANGED <<users, tokens, exposed>>
        /\ u \in DOMAIN users \ opened /\ \E k \in DOMAIN tokens : Own(u) = {k}
    BY <1>2 DEF Core, Callers, Unopened, MarkInvite
  <2>2. PICK k \in DOMAIN tokens : Own(u) = {k}
    BY <2>1
  <2>3. tokens[k] = u /\ k \notin known
    BY <2>1, <2>2 DEF Core, Rows, Own
  <2>4. CASE told
    <3>1. opened' = opened \cup {u} /\ known' = known \cup {k}
      BY <2>1, <2>2, <2>4 DEF Told
    <3> QED
      BY <2>1, <2>3, <3>1, Learnt
  <2>5. CASE ~told
    <3>1. UNCHANGED <<opened, known>>
      BY <2>1, <2>5 DEF Told
    <3> QED
      BY <2>1, <3>1, Unseen
  <2> QED
    BY <2>4, <2>5
<1> QED
  BY <1>1, <1>2

LEMMA RefinesResolve ==
  ASSUME Core, NEW t \in Tasks, NEW k \in known,
         NEW to \in {"unregister", "counting", "invite"}, Resolve(t, k, to)
  PROVE  [Credential!Next]_(Credential!vars)
<1>1. UNCHANGED <<users, tokens, opened, known>> /\ k \in DOMAIN tokens
  BY DEF Resolve, tables
<1>2. CASE UNCHANGED exposed
  BY <1>1, <1>2, Unseen
<1>3. CASE exposed' \in {exposed \cup {tokens[k]}, exposed \ {tokens[k]}}
  <2>1. tokens[k] \in opened \cap DOMAIN users
    BY <1>1 DEF Core, Rows, TokenMeansAccount
  <2>2. Credential!Ask(tokens[k])
    BY <1>1, <1>3 DEF Credential!Ask
  <2> QED
    BY <2>1, <2>2 DEF Credential!Next
<1> QED
  BY <1>2, <1>3 DEF Resolve, Expose

LEMMA RefinesNext ==
  ASSUME Core, Core', Spare, [Next]_vars
  PROVE  [Credential!Next]_(Credential!vars)
<1>1. ASSUME NEW t \in Tasks,
             \/ \E n \in Names, c \in Codes \cup {None} : Register(t, n, c)
             \/ CheckName(t) \/ CheckPlaces(t) \/ InsertPresence(t) \/ RefreshCount(t)
             \/ InviteCreate(t) \/ Abort(t)
      PROVE  UNCHANGED Credential!vars
  <2>1. UNCHANGED <<users, tokens, opened, exposed, known>>
    BY <1>1 DEF Register, CheckName, CheckPlaces, InsertPresence, RefreshCount,
                InviteCreate, Abort, tables, history
  <2> QED
    BY <2>1, Unseen
<1>2. ASSUME NEW t \in Tasks, InsertUser(t)
      PROVE  UNCHANGED Credential!vars
  <2>1. /\ UNCHANGED <<tokens, opened, exposed, known>>
        /\ DOMAIN users' = DOMAIN users \cup {lastUser + 1}
    BY <1>2 DEF InsertUser, Inserted, history
  <2>2. lastUser + 1 \notin opened
    BY AccountsAssumption DEF Core, TypeOK
  <2> QED
    BY <2>1, <2>2, Unseen
<1>3. ASSUME NEW t \in Tasks, RegisterToken(t)
      PROVE  UNCHANGED Credential!vars
  <2>1. user[t] \in 1 .. lastUser /\ InsertToken(user[t])
        /\ UNCHANGED <<users, opened, exposed, known>>
    BY <1>3 DEF Core, TypeOK, Callers, Unopened, RegisterToken, InsertToken, Goto, history
  <2> QED
    BY <2>1, TokenInserted, Unseen
<1>4. ASSUME UNCHANGED vars
      PROVE  UNCHANGED Credential!vars
  BY <1>4, Unseen DEF vars, tables, history
<1> QED
  BY <1>1, <1>2, <1>3, <1>4, RefinesAnswer, RefinesDelete, RefinesUnregister,
     RefinesResolve
     DEF Next, RegisterStep, RefreshStep

\* A client that was answered with an account keeps a token that works until
\* the account is deleted, as long as its refreshes in progress and the tokens
\* it was not told of are fewer than max_per_user.
THEOREM AccessKept == Spec => HoldersKeepAccess
<1>1. Init => Credential!Init
  BY DEF Init, NoRows, Restrict, Credential!Init
<1>2. Init => Uncrowded /\ Spare
  BY DEF Init, NoRows, Uncrowded, Spare, RefreshesOf, Refreshing
<1>3. Core /\ Core' /\ Spare /\ [Next]_vars => [Credential!Next]_(Credential!vars)
  BY RefinesNext
<1> QED
  BY CoreInit, CoreNext, UncrowdedNext, SpareNext, <1>1, <1>2, <1>3, PTL
     DEF Spec, HoldersKeepAccess, Credential!Spec

=============================================================================
