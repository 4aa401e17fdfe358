------------------------------ MODULE Accounts -------------------------------
(***************************************************************************)
(* The accounts of the discovery mode: /register, /unregister,             *)
(* /token/refresh and /invite/create as they read and write the tables     *)
(* users, presence, tokens and invites.                                    *)
(*                                                                         *)
(* A handler is a task that runs one statement after the other; no two     *)
(* statements share a transaction, so each is an action of its own.  What  *)
(* is refused without a change to the tables, what fails and what is       *)
(* dropped because the client hangs up are all Abort; if that happens      *)
(* after the last statement the client is not `told`.  Foreign keys are    *)
(* enforced, as sqlx asks SQLite to.  Users and tokens are named by their  *)
(* rowid, which AUTOINCREMENT never gives out twice.                       *)
(***************************************************************************)
EXTENDS Naturals, FiniteSets, Functions

CONSTANTS
  Tasks,             \* requests that may be in progress at one time
  Names,             \* usernames in lower case
  Codes,             \* invite codes
  None,
  MaxUsers,          \* registration.max_users, 0 for no limit
  MaxPerUser,        \* tokens.max_per_user
  MaxRows            \* bound: rows ever inserted into users and tokens

ASSUME AccountsAssumption ==
  /\ None \notin Names \cup Codes
  /\ IsFiniteSet(Tasks)
  /\ MaxUsers \in Nat /\ MaxPerUser \in Nat /\ MaxRows \in Nat

VARIABLES
  open,              \* registration.open
  users,             \* username_lc of each row of users
  presence,          \* the users with a row in presence
  tokens,            \* user_id of each row of tokens
  invites,           \* used_by of each row of invites, 0 for NULL
  lastUser,          \* the last rowid of users,
  lastToken,         \* and of tokens
  pc,                \* what each task does next
  user, name, code,  \* its user_id, username and invite_code
  known,             \* tokens that clients were answered
  opened,            \* users whose registration was answered
  exposed,           \* users whose refreshes may leave them without a token
  guests             \* registrations each code has admitted since it was unused

tables == <<users, presence, tokens, invites, lastUser, lastToken>>
task == <<pc, user, name, code>>
history == <<known, opened, exposed, guests>>
vars == <<open, tables, task, history>>

Ids == 1 .. MaxRows

Registering == {"checking", "named", "counted", "inserted", "present", "tokened"}
Refreshing == {"counting", "deleting", "refreshing"}

\* The types of the variables; presence and invites refer to rows of users.
TypeOK ==
  /\ open \in BOOLEAN
  /\ DOMAIN users \subseteq 1 .. lastUser
  /\ \A u \in DOMAIN users : users[u] \in Names
  /\ presence \subseteq DOMAIN users
  /\ DOMAIN tokens \subseteq 1 .. lastToken
  /\ \A k \in DOMAIN tokens : tokens[k] \in 1 .. lastUser
  /\ DOMAIN invites \subseteq Codes
  /\ \A c \in DOMAIN invites : invites[c] \in {0} \cup DOMAIN users
  /\ lastUser \in 0 .. MaxRows
  /\ lastToken \in 0 .. MaxRows
  /\ pc \in [Tasks -> {"idle", "unregister", "invite"} \cup Registering \cup Refreshing]
  /\ user \in [Tasks -> 0 .. lastUser]
  /\ name \in [Tasks -> Names \cup {None}]
  /\ code \in [Tasks -> Codes \cup {None}]
  /\ known \subseteq 1 .. lastToken
  /\ opened \subseteq 1 .. lastUser
  /\ exposed \subseteq opened
  /\ guests \in [Codes -> Nat]

NoRows == [x \in {} |-> 0]

\* A database whose accounts were all deleted may still hold invites.
Init ==
  /\ open \in BOOLEAN
  /\ users = NoRows /\ tokens = NoRows /\ presence = {}
  /\ \E S \in SUBSET Codes : invites = [c \in S |-> 0]
  /\ lastUser = 0 /\ lastToken = 0
  /\ pc = [t \in Tasks |-> "idle"]
  /\ user = [t \in Tasks |-> 0]
  /\ name = [t \in Tasks |-> None] /\ code = name
  /\ known = {} /\ opened = {} /\ exposed = {}
  /\ guests = [c \in Codes |-> 0]

\* INSERT of a row with key x, DELETE of the rows with keys in X.
Inserted(table, x, row) == [y \in DOMAIN table \cup {x} |-> IF y = x THEN row ELSE table[y]]
Deleted(table, X) == Restrict(table, DOMAIN table \ X)

Own(u) == {k \in DOMAIN tokens : tokens[k] = u}

Goto(t, from, to) ==
  /\ pc[t] = from
  /\ pc' = [pc EXCEPT ![t] = to]
  /\ UNCHANGED <<user, name, code>>

Return(t) ==
  /\ pc' = [pc EXCEPT ![t] = "idle"]
  /\ user' = [user EXCEPT ![t] = 0]
  /\ name' = [name EXCEPT ![t] = None]
  /\ code' = [code EXCEPT ![t] = None]

\* An early return, a statement that fails, or a client that hangs up.
Abort(t) ==
  /\ pc[t] # "idle"
  /\ Return(t)
  /\ UNCHANGED <<open, tables, history>>

-----------------------------------------------------------------------------
(***************************************************************************)
(* POST /register.                                                         *)
(***************************************************************************)

\* Unless registration is open, the invite must exist and be unused.
Register(t, n, c) ==
  /\ pc[t] = "idle"
  /\ open \/ (c \in DOMAIN invites /\ invites[c] = 0)
  /\ pc' = [pc EXCEPT ![t] = "checking"]
  /\ name' = [name EXCEPT ![t] = n]
  /\ code' = [code EXCEPT ![t] = c]
  /\ UNCHANGED <<open, tables, user, history>>

CheckName(t) ==
  /\ name[t] \notin Range(users)
  /\ Goto(t, "checking", "named")
  /\ UNCHANGED <<open, tables, history>>

\* Fault: one more than the limit.
CheckPlacesLate(t) ==
  /\ MaxUsers > 0 => Cardinality(DOMAIN users) <= MaxUsers
  /\ Goto(t, "named", "counted")
  /\ UNCHANGED <<open, tables, history>>

CheckPlaces(t) ==
  /\ MaxUsers > 0 => Cardinality(DOMAIN users) < MaxUsers
  /\ Goto(t, "named", "counted")
  /\ UNCHANGED <<open, tables, history>>

\* The UNIQUE constraint has the last word on the name.
InsertUser(t) ==
  /\ pc[t] = "counted"
  /\ name[t] \notin Range(users)
  /\ lastUser + lastToken < MaxRows
  /\ lastUser' = lastUser + 1
  /\ users' = Inserted(users, lastUser', name[t])
  /\ pc' = [pc EXCEPT ![t] = "inserted"]
  /\ user' = [user EXCEPT ![t] = lastUser']
  /\ UNCHANGED <<open, presence, tokens, invites, lastToken, name, code, history>>

InsertPresence(t) ==
  /\ Goto(t, "inserted", "present")
  /\ presence' = presence \cup {user[t]}
  /\ UNCHANGED <<open, users, tokens, invites, lastUser, lastToken, history>>

\* The INSERT of register and of token_refresh.
InsertToken(u) ==
  /\ lastUser + lastToken < MaxRows
  /\ lastToken' = lastToken + 1
  /\ tokens' = Inserted(tokens, lastToken', u)
  /\ UNCHANGED <<open, users, presence, invites, lastUser>>

RegisterToken(t) ==
  /\ code[t] # None
  /\ InsertToken(user[t])
  /\ Goto(t, "present", "tokened")
  /\ UNCHANGED history

\* The client learns that it has the account u, and the tokens K.
Told(told, u, K) ==
  /\ opened' = IF told THEN opened \cup {u} ELSE opened
  /\ known' = IF told THEN known \cup K ELSE known

\* Without an invite code this is the last statement: the answer is 201.
RegisterWithoutCode(t, told) ==
  /\ pc[t] = "present"
  /\ code[t] = None
  /\ InsertToken(user[t])
  /\ Return(t)
  /\ Told(told, user[t], {lastToken'})
  /\ UNCHANGED <<exposed, guests>>

\* Fault: the invite stays unused.
MarkNothing(t, told) ==
  /\ pc[t] = "tokened"
  /\ Return(t)
  /\ Told(told, user[t], Own(user[t]))
  /\ guests' = [guests EXCEPT ![code[t]] = @ + 1]
  /\ UNCHANGED <<open, tables, exposed>>

\* The last statement otherwise.  It marks whatever row has the code, used
\* or not.
MarkInvite(t, told) ==
  /\ pc[t] = "tokened"
  /\ invites' = [c \in DOMAIN invites |-> IF c = code[t] THEN user[t] ELSE invites[c]]
  /\ Return(t)
  /\ Told(told, user[t], Own(user[t]))
  /\ guests' = [guests EXCEPT ![code[t]] = @ + 1]
  /\ UNCHANGED <<open, users, presence, tokens, lastUser, lastToken, exposed>>

-----------------------------------------------------------------------------
(***************************************************************************)
(* The requests with a token.  Expiry is left to module Presence.          *)
(***************************************************************************)

\* The refreshes of user u in progress, and its tokens nobody was told of.
RefreshesOf(u) == {t \in Tasks : pc[t] \in Refreshing /\ user[t] = u}
Lost(u) == Own(u) \ known

\* History: from the refresh with which the refreshes of u in progress and its
\* lost tokens reach max_per_user together, until u refreshes with no other
\* refresh in progress and with fewer lost tokens.
Expose(u) ==
  LET crowded == Cardinality(RefreshesOf(u)) + 1 + Cardinality(Lost(u)) >= MaxPerUser
  IN \/ crowded /\ exposed' = exposed \cup {u}
     \/ ~crowded /\ RefreshesOf(u) = {} /\ exposed' = exposed \ {u}
     \/ ~crowded /\ RefreshesOf(u) # {} /\ UNCHANGED exposed

\* resolve_token, for a token the client was given.
Resolve(t, k, to) ==
  /\ pc[t] = "idle"
  /\ k \in known \cap DOMAIN tokens
  /\ pc' = [pc EXCEPT ![t] = to]
  /\ user' = [user EXCEPT ![t] = tokens[k]]
  /\ \/ to = "counting" /\ Expose(tokens[k])
     \/ to # "counting" /\ UNCHANGED exposed
  /\ UNCHANGED <<open, tables, name, code, known, opened, guests>>

\* Fault: the invite goes on naming the account.
UnregisterKeepsInvite(t) ==
  /\ pc[t] = "unregister"
  /\ users' = Deleted(users, {user[t]})
  /\ presence' = presence \ {user[t]}
  /\ tokens' = Deleted(tokens, Own(user[t]))
  /\ Return(t)
  /\ UNCHANGED <<open, invites, lastUser, lastToken, history>>

\* DELETE /unregister.  The row takes its presence and its tokens with it;
\* its id is set to NULL in invites.
Unregister(t) ==
  /\ pc[t] = "unregister"
  /\ users' = Deleted(users, {user[t]})
  /\ presence' = presence \ {user[t]}
  /\ tokens' = Deleted(tokens, Own(user[t]))
  /\ invites' = [c \in DOMAIN invites |-> IF invites[c] = user[t] THEN 0 ELSE invites[c]]
  /\ guests' = [c \in Codes |-> IF c \in DOMAIN invites /\ invites[c] = user[t]
                                THEN 0 ELSE guests[c]]
  /\ Return(t)
  /\ UNCHANGED <<open, lastUser, lastToken, known, opened, exposed>>

\* Fault: one more than the limit.
RefreshCountLate(t) ==
  /\ Goto(t, "counting", IF Cardinality(Own(user[t])) > MaxPerUser
                         THEN "deleting" ELSE "refreshing")
  /\ UNCHANGED <<open, tables, history>>

\* POST /token/refresh.
RefreshCount(t) ==
  /\ Goto(t, "counting", IF Cardinality(Own(user[t])) >= MaxPerUser
                         THEN "deleting" ELSE "refreshing")
  /\ UNCHANGED <<open, tables, history>>

\* Fault: all tokens of the user.
Every(S) == S

\* The tokens of a user were created in the order of their rowids.
Oldest(S) == {k \in S : \A j \in S : k <= j}

RefreshDelete(t) ==
  /\ Goto(t, "deleting", "refreshing")
  /\ tokens' = Deleted(tokens, Oldest(Own(user[t])))
  /\ UNCHANGED <<open, users, presence, invites, lastUser, lastToken, history>>

\* Fault: there is no such foreign key.
RefreshInsertAnyway(t, told) ==
  /\ pc[t] = "refreshing"
  /\ InsertToken(user[t])
  /\ Return(t)
  /\ Told(told, user[t], {lastToken'})
  /\ UNCHANGED <<exposed, guests>>

\* The foreign key refuses a token for an account that is gone.
RefreshInsert(t, told) ==
  /\ pc[t] = "refreshing"
  /\ user[t] \in DOMAIN users
  /\ InsertToken(user[t])
  /\ Return(t)
  /\ Told(told, user[t], {lastToken'})
  /\ UNCHANGED <<exposed, guests>>

\* POST /invite/create.  The code is random; the primary key refuses one
\* that exists, the foreign key a creator who does not.
InviteCreate(t) ==
  /\ pc[t] = "invite"
  /\ user[t] \in DOMAIN users
  /\ \E c \in Codes \ DOMAIN invites : invites' = Inserted(invites, c, 0)
  /\ Return(t)
  /\ UNCHANGED <<open, users, presence, tokens, lastUser, lastToken, history>>

-----------------------------------------------------------------------------
RegisterStep(t) ==
  \/ CheckName(t) \/ CheckPlaces(t) \/ InsertUser(t) \/ InsertPresence(t)
  \/ RegisterToken(t)
  \/ \E told \in BOOLEAN : RegisterWithoutCode(t, told) \/ MarkInvite(t, told)

RefreshStep(t) ==
  \/ RefreshCount(t) \/ RefreshDelete(t)
  \/ \E told \in BOOLEAN : RefreshInsert(t, told)

Next ==
  \E t \in Tasks :
    \/ \E n \in Names, c \in Codes \cup {None} : Register(t, n, c)
    \/ \E k \in known, to \in {"unregister", "counting", "invite"} : Resolve(t, k, to)
    \/ RegisterStep(t) \/ RefreshStep(t) \/ Unregister(t) \/ InviteCreate(t)
    \/ Abort(t)

Spec == Init /\ [][Next]_vars

-----------------------------------------------------------------------------
(***************************************************************************)
(* Properties.                                                             *)
(***************************************************************************)

\* Whoever can log in can be found: the tables users and presence have the
\* rows of every account that has a token, through partial registrations
\* and through deletions that overtake other requests of the same user.
TokenMeansAccount ==
  \A k \in DOMAIN tokens : tokens[k] \in DOMAIN users \cap presence

\* max_users is compared with a count that is out of date by the time of the
\* INSERT: it may be exceeded, but only by registrations in progress at once.
UserBound ==
  MaxUsers > 0 => Cardinality(DOMAIN users) <= MaxUsers - 1 + Cardinality(Tasks)

\* The same of max_per_user, which every refresh enforces by deleting one
\* token: the excess does not add up.
TokenBound ==
  MaxPerUser > 0 =>
    \A u \in DOMAIN users : Cardinality(Own(u)) <= MaxPerUser - 1 + Cardinality(Tasks)

\* An invite admits one account, or as many as were being registered with it
\* at once, before the account that is recorded as its user is deleted.  (A
\* registration counts when it reaches the UPDATE of the invite: one that is
\* dropped before leaves an account nobody was told of.)
InviteBound ==
  ~open => \A c \in Codes : guests[c] <= Cardinality(Tasks)

\* To its clients the server is the abstract one: in particular a user keeps
\* a token that works through any refreshes, simultaneous, dropped or not
\* answered, as long as those in progress and the tokens it was not told of
\* are fewer than max_per_user.
Credential == INSTANCE Credentials WITH
  Tokens <- Ids,
  accounts <- opened \cap DOMAIN users,
  closed <- opened \ DOMAIN users,
  issued <- known,
  exposed <- exposed,
  accepted <- Restrict(tokens, known \cap DOMAIN tokens)

HoldersKeepAccess == Credential!Spec
=============================================================================
