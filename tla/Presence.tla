------------------------------ MODULE Presence -------------------------------
(***************************************************************************)
(* Who is online: /register, /heartbeat, /update and /lookup of the        *)
(* discovery mode, and the expiry of the tokens that let a user in.        *)
(*                                                                         *)
(* As in Accounts, a handler is a task and every statement a step; between *)
(* any two of them the clock may advance, and the request may fail or be   *)
(* dropped.  If that happens after the last one the client is not `told`.  *)
(* Of /register only what it stores is here: what it checks first, and the *)
(* invites, are in Accounts.  So is /token/refresh: a token it returns     *)
(* lives as long as any other.                                             *)
(***************************************************************************)
EXTENDS Integers, FiniteSets, Functions

CONSTANTS
  Tasks,             \* requests that may be in progress at one time
  Ips,
  None,
  Day,               \* ticks of the clock in a day
  TtlDays,           \* tokens.ttl_days, 0 for no expiry
  OfflineAfter,      \* presence.offline_after_minutes, in ticks
  MaxIds,            \* bound: rows ever inserted into users
  MaxTime            \* bound: when the clock stops

ASSUME PresenceAssumption ==
  /\ None \notin Ips
  /\ Day \in Nat \ {0}
  /\ TtlDays \in Nat /\ OfflineAfter \in Nat
  /\ MaxIds \in Nat /\ MaxTime \in Nat

VARIABLES
  now,               \* the clock of the host, which SQLite reads too
  users,             \* ids of the rows of users
  presence,          \* ip and last_seen of the rows of presence, by user_id
  tokens,            \* user and time of issue of the rows of tokens
  lastUser,          \* the last id of users, which AUTOINCREMENT never gives twice
  pc,                \* what each task does next
  user, ip,          \* its user and the ip it has read or was sent
  since,             \* when it began, if it tells that its user is there
  heard,             \* of each account, when the latest of these requests that
                     \* was answered began, -1 if none was
  acted              \* of each account, when a request of its user last stored
                     \* something

table == <<users, presence, tokens, lastUser>>
task == <<pc, user, ip, since>>
history == <<heard, acted>>
vars == <<now, table, task, history>>

Ids == 1 .. MaxIds
Registering == {"inserted", "present"}
Telling == {"inserted", "update", "heartbeat"}
Requests == {"update", "heartbeat", "unregister"}

\* The types of the variables.  No time is in the future.
TypeOK ==
  /\ now \in 0 .. MaxTime
  /\ lastUser \in 0 .. MaxIds
  /\ users \subseteq 1 .. lastUser
  /\ DOMAIN presence \subseteq 1 .. lastUser
  /\ \A u \in DOMAIN presence : presence[u] \in [ip : Ips, seen : 0 .. now]
  /\ tokens \subseteq [user : users, issued : 0 .. now]
  /\ pc \in [Tasks -> {"idle", "asking"} \cup Registering \cup Requests]
  /\ user \in [Tasks -> 0 .. lastUser]
  /\ ip \in [Tasks -> Ips \cup {None}]
  /\ since \in [Tasks -> 0 .. now]
  /\ heard \in [Ids -> -1 .. now] /\ acted \in [Ids -> -1 .. now]

Init ==
  /\ now = 0
  /\ users = {} /\ tokens = {} /\ lastUser = 0
  /\ presence = [u \in {} |-> None]
  /\ pc = [t \in Tasks |-> "idle"]
  /\ user = [t \in Tasks |-> 0] /\ since = user
  /\ ip = [t \in Tasks |-> None]
  /\ heard = [u \in Ids |-> -1] /\ acted = heard

Tick ==
  /\ now < MaxTime
  /\ now' = now + 1
  /\ UNCHANGED <<table, task, history>>

DayOf(time) == time \div Day

Expires(k) == k.issued + TtlDays * Day

\* Fault: refused on the day it expires.
AcceptedBefore(k) == TtlDays > 0 => DayOf(Expires(k)) > DayOf(now)

\* expires_at > datetime('now') compares texts: the one has a T after the
\* date, the other a space, which is less.  Only the dates can decide.
Accepted(k) == TtlDays > 0 => DayOf(Expires(k)) >= DayOf(now)

Start(t, what, u, i) ==
  /\ pc[t] = "idle"
  /\ pc' = [pc EXCEPT ![t] = what]
  /\ user' = [user EXCEPT ![t] = u]
  /\ ip' = [ip EXCEPT ![t] = i]
  /\ since' = [since EXCEPT ![t] = IF what \in Telling THEN now ELSE 0]

Return(t) ==
  /\ pc' = [pc EXCEPT ![t] = "idle"]
  /\ user' = [user EXCEPT ![t] = 0]
  /\ ip' = [ip EXCEPT ![t] = None]
  /\ since' = [since EXCEPT ![t] = 0]

\* A statement fails, or the client hangs up.  A lookup whose second query
\* fails answers no, which changes nothing either.
Abort(t) ==
  /\ pc[t] # "idle"
  /\ Return(t)
  /\ UNCHANGED <<now, table, history>>

\* History: the answer to the request of task t reaches its client, or not.
Hear(t, told) ==
  heard' = IF told /\ user[t] \in users /\ heard[user[t]] < since[t]
           THEN [heard EXCEPT ![user[t]] = since[t]] ELSE heard

\* History: a request of u has stored something.
Act(u) == acted' = [acted EXCEPT ![u] = now]

\* The row of u, new or not, says that u was there now.
Saw(u, i) ==
  presence' = [v \in DOMAIN presence \cup {u} |->
                 IF v = u THEN [ip |-> i, seen |-> now] ELSE presence[v]]

-----------------------------------------------------------------------------
(***************************************************************************)
(* POST /register.                                                         *)
(***************************************************************************)

\* The INSERT into users: the first statement that stores something.
Register(t, i) ==
  /\ lastUser < MaxIds
  /\ lastUser' = lastUser + 1
  /\ users' = users \cup {lastUser'}
  /\ Start(t, "inserted", lastUser', i)
  /\ Act(lastUser')
  /\ UNCHANGED <<now, presence, tokens, heard>>

InsertPresence(t) ==
  /\ pc[t] = "inserted"
  /\ Saw(user[t], ip[t]) /\ Act(user[t])
  /\ pc' = [pc EXCEPT ![t] = "present"]
  /\ UNCHANGED <<now, users, tokens, lastUser, user, ip, since, heard>>

InsertToken(t, told) ==
  /\ pc[t] = "present"
  /\ tokens' = tokens \cup {[user |-> user[t], issued |-> now]}
  /\ Act(user[t]) /\ Hear(t, told)
  /\ Return(t)
  /\ UNCHANGED <<now, users, presence, lastUser>>

-----------------------------------------------------------------------------
(***************************************************************************)
(* The requests with a token, and /lookup.                                 *)
(***************************************************************************)

\* resolve_token; the address is that of an update.  Only a client that was
\* answered has a token.
Resolve(t, k, what, i) ==
  /\ heard[k.user] >= 0
  /\ Accepted(k)
  /\ Start(t, what, k.user, i)
  /\ UNCHANGED <<now, table, history>>

\* Fault: there is no such foreign key.
UpdateAnyway(t, told) ==
  /\ pc[t] = "update"
  /\ Saw(user[t], ip[t]) /\ Act(user[t]) /\ Hear(t, told)
  /\ Return(t)
  /\ UNCHANGED <<now, users, tokens, lastUser>>

\* Fault: the row is only inserted, never changed.
UpdateNothing(t, told) ==
  /\ pc[t] = "update"
  /\ user[t] \in users
  /\ Hear(t, told)
  /\ Return(t)
  /\ UNCHANGED <<now, table, acted>>

\* PUT /update.  The foreign key refuses a row for a user who is gone.
Update(t, told) ==
  /\ pc[t] = "update"
  /\ user[t] \in users
  /\ Saw(user[t], ip[t]) /\ Act(user[t]) /\ Hear(t, told)
  /\ Return(t)
  /\ UNCHANGED <<now, users, tokens, lastUser>>

\* POST /heartbeat.  It is answered even if there is no row any more.
Heartbeat(t, told) ==
  /\ pc[t] = "heartbeat"
  /\ IF user[t] \in DOMAIN presence
     THEN Saw(user[t], presence[user[t]].ip) /\ Act(user[t])
     ELSE UNCHANGED <<presence, acted>>
  /\ Hear(t, told)
  /\ Return(t)
  /\ UNCHANGED <<now, users, tokens, lastUser>>

\* Fault: tokens do not go with their user.
UnregisterKeepsTokens(t) ==
  /\ pc[t] = "unregister"
  /\ users' = users \ {user[t]}
  /\ presence' = Restrict(presence, DOMAIN presence \ {user[t]})
  /\ heard' = [heard EXCEPT ![user[t]] = -1]
  /\ acted' = [acted EXCEPT ![user[t]] = -1]
  /\ Return(t)
  /\ UNCHANGED <<now, tokens, lastUser>>

\* DELETE /unregister, with the cascade.
Unregister(t) ==
  /\ pc[t] = "unregister"
  /\ users' = users \ {user[t]}
  /\ presence' = Restrict(presence, DOMAIN presence \ {user[t]})
  /\ tokens' = {k \in tokens : k.user # user[t]}
  /\ heard' = [heard EXCEPT ![user[t]] = -1]
  /\ acted' = [acted EXCEPT ![user[t]] = -1]
  /\ Return(t)
  /\ UNCHANGED <<now, lastUser>>

\* GET /lookup, first query.
Lookup(t, u) ==
  /\ u \in users \cap DOMAIN presence
  /\ Start(t, "asking", u, presence[u].ip)
  /\ UNCHANGED <<now, table, history>>

\* last_seen > datetime('now', '-N minutes').
Recently(time) == now - time < OfflineAfter

At(i) == {v \in DOMAIN presence : presence[v].ip = i}

\* Second query, by the ip the first one has read.  user_id is the rowid of
\* presence and ip has no index: of several rows the scan gives the one with
\* the lowest id.  No row means no.
Answer(t, online) ==
  /\ pc[t] = "asking"
  /\ \/ At(ip[t]) = {} /\ ~online
     \/ \E v \in At(ip[t]) : /\ \A w \in At(ip[t]) : v <= w
                             /\ online <=> Recently(presence[v].seen)
  /\ Return(t)
  /\ UNCHANGED <<now, table, history>>

-----------------------------------------------------------------------------
RegisterStep(t) ==
  \/ \E i \in Ips : Register(t, i)
  \/ InsertPresence(t)
  \/ \E told \in BOOLEAN : InsertToken(t, told)

TokenStep(t) ==
  \/ \E k \in tokens, what \in Requests \ {"update"} : Resolve(t, k, what, None)
  \/ \E k \in tokens, i \in Ips : Resolve(t, k, "update", i)
  \/ \E told \in BOOLEAN : Update(t, told) \/ Heartbeat(t, told)
  \/ Unregister(t)

Next ==
  \/ Tick
  \/ \E t \in Tasks :
       \/ RegisterStep(t) \/ TokenStep(t)
       \/ \E u \in users : Lookup(t, u)
       \/ \E online \in BOOLEAN : Answer(t, online)
       \/ Abort(t)

Spec == Init /\ [][Next]_vars

-----------------------------------------------------------------------------
(***************************************************************************)
(* Properties.                                                             *)
(***************************************************************************)

\* An account whose owner was answered can be looked up until it is deleted,
\* and a request that was let in before does not bring its row back.  (A
\* registration that breaks off may leave an account that cannot.)
AnsweredIsListed ==
  /\ DOMAIN presence \subseteq users
  /\ \A u \in users : heard[u] >= 0 => u \in DOMAIN presence

\* A token is accepted for all of ttl_days, and less than a day longer.
TokenLife ==
  TtlDays > 0 => \A k \in tokens :
    /\ now <= Expires(k) => Accepted(k)
    /\ Accepted(k) => now < Expires(k) + Day

Lately(time) == time >= 0 /\ time + OfflineAfter > now

\* A lookup finds a user with a public address of one's own online if the
\* user has sent a request within offline_after_minutes and got an answer,
\* however it overtook others and whatever became of those, and offline if
\* no request of the user has stored anything for that long.  Of users who
\* share an address the first holds if it does of all, the second of any.
OnlineIsRecent ==
  [][\A t \in Tasks, online \in BOOLEAN : Answer(t, online) =>
       LET here == At(ip[t])
       IN /\ here # {} /\ (\A u \in here : Lately(heard[u])) => online
          /\ online => \E u \in here : Lately(acted[u])]_vars

\* DESIGN.md:75, offline_after_minutes: how long without a heartbeat until
\* the user counts as offline.
OnlineIsOwn ==
  [][\A t \in Tasks : Answer(t, TRUE) /\ user[t] \in users =>
       Lately(acted[user[t]])]_vars
=============================================================================
