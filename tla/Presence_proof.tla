---------------------------- MODULE Presence_proof ---------------------------
(***************************************************************************)
(* Proofs about Presence, for any number of requests, users and addresses, *)
(* and for every length of a day, of a token's life and of the time after  *)
(* which a user is offline.                                                *)
(***************************************************************************)
EXTENDS Presence, TLAPS

\* last_seen lies between the last request that was answered and the last
\* that stored anything.
SeenBetween ==
  \A u \in DOMAIN presence : heard[u] <= presence[u].seen /\ presence[u].seen <= acted[u]

\* Only owners of accounts that exist have been heard.
HeardExists == \A u \in Ids \ users : heard[u] = -1

\* What a request with a token knows: its user is somebody who was answered,
\* if the account still exists.
Asking ==
  \A t \in Tasks : pc[t] \in Requests =>
    /\ user[t] \in 1 .. lastUser
    /\ user[t] \in users => heard[user[t]] >= 0
    /\ pc[t] = "update" => ip[t] \in Ips

\* What a registration knows: its account is there, and nobody was told yet.
Joining ==
  \A t \in Tasks : pc[t] \in Registering =>
    /\ user[t] \in users /\ heard[user[t]] = -1 /\ ip[t] \in Ips
    /\ pc[t] = "present" => user[t] \in DOMAIN presence
                            /\ since[t] <= presence[user[t]].seen

\* No two registrations have the same account.
Apart ==
  \A s, t \in Tasks : s # t /\ pc[s] \in Registering /\ pc[t] \in Registering =>
    user[s] # user[t]

Callers == Asking /\ Joining /\ Apart

IInv == TypeOK /\ AnsweredIsListed /\ SeenBetween /\ HeardExists /\ Callers

LEMMA InitInv == Init => IInv
  BY PresenceAssumption
     DEF Init, IInv, TypeOK, Ids, AnsweredIsListed, SeenBetween, HeardExists,
         Callers, Asking, Joining, Apart, Requests, Registering

LEMMA Types ==
  ASSUME TypeOK
  PROVE  /\ now \in Nat /\ lastUser \in Nat /\ lastUser <= MaxIds
         /\ 0 .. now \subseteq -1 .. now /\ now \in 0 .. now
         /\ 1 .. lastUser \subseteq Ids
         /\ \A u \in Ids : heard[u] \in Int /\ acted[u] \in Int
         /\ \A t \in Tasks : since[t] \in Nat /\ since[t] <= now
         /\ \A u \in DOMAIN presence : presence[u].ip \in Ips /\ presence[u].seen \in Nat
                                       /\ presence[u].seen <= now
  BY PresenceAssumption DEF TypeOK, Ids

LEMMA TickInv == IInv /\ Tick => IInv'
<1> SUFFICES ASSUME IInv, Tick PROVE IInv'
  OBVIOUS
<1>1. now \in Nat /\ now' = now + 1 /\ now' \in 0 .. MaxTime
  BY PresenceAssumption DEF IInv, TypeOK, Tick
<1>2. 0 .. now \subseteq 0 .. now' /\ -1 .. now \subseteq -1 .. now'
  BY <1>1
<1>3. TypeOK'
  BY <1>1, <1>2 DEF IInv, TypeOK, Tick, table, task, history
<1> QED
  BY <1>3 DEF IInv, Tick, table, task, history, AnsweredIsListed, SeenBetween,
              HeardExists, Callers, Asking, Joining, Apart

\* Requests that leave the tables as they are.
LEMMA StartInv ==
  ASSUME IInv, UNCHANGED <<now, table, history>>, NEW t \in Tasks,
         NEW what \in Requests \cup {"asking"}, NEW u \in users, NEW i \in Ips \cup {None},
         what \in Requests => heard[u] >= 0, what = "update" => i \in Ips,
         Start(t, what, u, i)
  PROVE  IInv'
<1>1. u \in 1 .. lastUser /\ pc[t] = "idle"
  BY DEF IInv, TypeOK, Start
<1>2. TypeOK'
  BY <1>1, Types DEF IInv, TypeOK, Start, table, history, Requests
<1>3. Asking'
  BY <1>1 DEF IInv, TypeOK, Callers, Asking, Start, table, history
<1>4. Joining' /\ Apart'
  BY <1>1 DEF IInv, TypeOK, Callers, Joining, Apart, Start, table, history,
              Requests, Registering
<1> QED
  BY <1>2, <1>3, <1>4
     DEF IInv, Callers, AnsweredIsListed, SeenBetween, HeardExists, table, history

LEMMA EndInv ==
  ASSUME IInv, UNCHANGED <<now, table, history>>, NEW t \in Tasks, Return(t)
  PROVE  IInv'
<1>1. TypeOK'
  BY Types DEF IInv, TypeOK, Return, table, history
<1>2. Callers'
  BY DEF IInv, TypeOK, Callers, Asking, Joining, Apart, Return, table, history,
         Requests, Registering
<1> QED
  BY <1>1, <1>2 DEF IInv, AnsweredIsListed, SeenBetween, HeardExists, table, history

LEMMA RegisterInv ==
  ASSUME IInv, NEW t \in Tasks, NEW i \in Ips, Register(t, i)
  PROVE  IInv'
<1> DEFINE u == lastUser'
<1>1. /\ u = lastUser + 1 /\ u \in Ids /\ u \notin users /\ u \notin DOMAIN presence
      /\ 1 .. lastUser \subseteq 1 .. u /\ 0 .. lastUser \subseteq 0 .. u
      /\ u \in 1 .. u /\ u \in 0 .. MaxIds
  BY PresenceAssumption DEF IInv, TypeOK, Ids, Register
<1>2. heard[u] = -1 /\ \A v \in users : v # u
  BY <1>1 DEF IInv, HeardExists
<1>3. /\ acted' = [acted EXCEPT ![u] = now] /\ users' = users \cup {u}
      /\ Start(t, "inserted", u, i)
      /\ UNCHANGED <<now, presence, tokens, heard>>
  BY DEF Register, Act
<1>4. TypeOK'
  <2>1. acted' \in [Ids -> -1 .. now']
    BY <1>1, <1>3, Types DEF IInv, TypeOK
  <2>2. /\ pc' \in [Tasks -> {"idle", "asking"} \cup Registering \cup Requests]
        /\ user' \in [Tasks -> 0 .. lastUser'] /\ since' \in [Tasks -> 0 .. now']
        /\ ip' \in [Tasks -> Ips \cup {None}]
    BY <1>1, <1>3, Types DEF IInv, TypeOK, Start, Registering
  <2>3. tokens' \subseteq [user : users', issued : 0 .. now']
    BY <1>3 DEF IInv, TypeOK
  <2> QED
    BY <1>1, <1>3, <2>1, <2>2, <2>3 DEF IInv, TypeOK
<1>5. SeenBetween'
  BY <1>1, <1>3 DEF IInv, TypeOK, SeenBetween
<1>6. AnsweredIsListed' /\ HeardExists'
  BY <1>2, <1>3 DEF IInv, AnsweredIsListed, HeardExists
<1>7. Asking'
  BY <1>1, <1>2, <1>3 DEF IInv, TypeOK, Callers, Asking, Start, Requests
<1>8. Joining' /\ Apart'
  BY <1>1, <1>2, <1>3 DEF IInv, TypeOK, Callers, Joining, Apart, Start, Registering
<1> QED
  BY <1>4, <1>5, <1>6, <1>7, <1>8 DEF IInv, Callers

\* What a statement does that writes when user u was last seen.
LEMMA SawStep ==
  ASSUME IInv, UNCHANGED now, NEW u \in users, NEW i \in Ips, Saw(u, i), Act(u)
  PROVE  /\ u \in 1 .. lastUser /\ u \in Ids
         /\ DOMAIN presence' = DOMAIN presence \cup {u}
         /\ \A v \in DOMAIN presence' : presence'[v] \in [ip : Ips, seen : 0 .. now]
         /\ presence'[u].seen = now
         /\ \A v \in DOMAIN presence : v # u => presence'[v] = presence[v]
         /\ \A v \in DOMAIN presence : presence[v].seen <= presence'[v].seen
         /\ acted' \in [Ids -> -1 .. now] /\ acted'[u] = now
         /\ \A v \in Ids : v # u => acted'[v] = acted[v]
         /\ DOMAIN presence' \subseteq 1 .. lastUser
<1>1. u \in 1 .. lastUser /\ u \in Ids
  BY Types DEF IInv, TypeOK
<1>2. /\ DOMAIN presence' = DOMAIN presence \cup {u}
      /\ presence'[u] = [ip |-> i, seen |-> now]
      /\ \A v \in DOMAIN presence : v # u => presence'[v] = presence[v]
  BY DEF Saw
<1>3. \A v \in DOMAIN presence' : presence'[v] \in [ip : Ips, seen : 0 .. now]
  BY <1>2, Types DEF IInv, TypeOK
<1>4. \A v \in DOMAIN presence : presence[v].seen <= presence'[v].seen
  BY <1>2, Types DEF IInv
<1>5. /\ acted' \in [Ids -> -1 .. now] /\ acted'[u] = now
      /\ \A v \in Ids : v # u => acted'[v] = acted[v]
  BY <1>1, Types DEF IInv, TypeOK, Act
<1> QED
  BY <1>1, <1>2, <1>3, <1>4, <1>5 DEF IInv, TypeOK

LEMMA InsertPresenceInv ==
  ASSUME IInv, NEW t \in Tasks, InsertPresence(t)
  PROVE  IInv'
<1>1. user[t] \in users /\ heard[user[t]] = -1 /\ ip[t] \in Ips /\ pc[t] = "inserted"
  BY DEF IInv, Callers, Joining, InsertPresence, Registering
<1>2. /\ UNCHANGED <<now, users, tokens, lastUser, user, ip, since, heard>>
      /\ pc' = [pc EXCEPT ![t] = "present"] /\ Saw(user[t], ip[t]) /\ Act(user[t])
  BY DEF InsertPresence
<1>3. TypeOK'
  BY <1>1, <1>2, SawStep DEF IInv, TypeOK, Registering
<1>4. SeenBetween'
  <2> SUFFICES ASSUME NEW v \in DOMAIN presence'
               PROVE  heard[v] <= presence'[v].seen /\ presence'[v].seen <= acted'[v]
    BY <1>2 DEF SeenBetween
  <2>1. v \in Ids
    BY <1>1, <1>2, SawStep, Types DEF IInv
  <2>2. CASE v = user[t]
    <3>1. presence'[user[t]].seen = now /\ acted'[user[t]] = now
      BY <1>1, <1>2, SawStep
    <3>2. now \in Nat
      BY Types DEF IInv
    <3> QED
      BY <1>1, <2>2, <3>1, <3>2
  <2>3. CASE v # user[t]
    <3>1. v \in DOMAIN presence /\ presence'[v] = presence[v] /\ acted'[v] = acted[v]
      BY <1>1, <1>2, <2>1, <2>3, SawStep
    <3> QED
      BY <3>1 DEF IInv, SeenBetween
  <2> QED
    BY <2>2, <2>3
<1>5. AnsweredIsListed' /\ HeardExists'
  BY <1>1, <1>2, SawStep DEF IInv, AnsweredIsListed, HeardExists
<1>6. Asking'
  BY <1>2 DEF IInv, TypeOK, Callers, Asking, Requests
<1>7. Joining'
  <2> SUFFICES ASSUME NEW s \in Tasks, pc'[s] \in Registering
               PROVE  /\ user[s] \in users /\ heard[user[s]] = -1 /\ ip[s] \in Ips
                      /\ pc'[s] = "present" => /\ user[s] \in DOMAIN presence'
                                               /\ since[s] <= presence'[user[s]].seen
    BY <1>2 DEF Joining
  <2>1. CASE s = t
    BY <1>1, <1>2, <2>1, SawStep, Types DEF IInv
  <2>2. CASE s # t
    <3>1. pc'[s] = pc[s]
      BY <1>2, <2>2 DEF IInv, TypeOK
    <3>2. pc[s] = "present" => /\ user[s] \in DOMAIN presence
                               /\ since[s] <= presence[user[s]].seen
      BY DEF IInv, Callers, Joining, Registering
    <3>3. CASE user[s] = user[t]
      BY <1>1, <2>2, <3>1, <3>3 DEF IInv, Callers, Apart, Registering
    <3>4. CASE user[s] # user[t]
      BY <1>1, <1>2, <3>1, <3>2, <3>4, SawStep DEF IInv, Callers, Joining
    <3> QED
      BY <3>3, <3>4
  <2> QED
    BY <2>1, <2>2
<1>8. Apart'
  BY <1>1, <1>2 DEF IInv, TypeOK, Callers, Apart, Registering
<1> QED
  BY <1>3, <1>4, <1>5, <1>6, <1>7, <1>8 DEF IInv, Callers

\* What the answer to a request does.
LEMMA HearStep ==
  ASSUME IInv, NEW t \in Tasks, NEW told \in BOOLEAN, Hear(t, told), user[t] \in 1 .. lastUser
  PROVE  /\ heard' \in [Ids -> -1 .. now]
         /\ \A v \in Ids : v # user[t] => heard'[v] = heard[v]
         /\ \A v \in Ids : heard[v] <= heard'[v]
         /\ user[t] \notin users => heard' = heard
         /\ heard'[user[t]] \in {heard[user[t]], since[t]}
<1>1. user[t] \in Ids /\ since[t] \in -1 .. now
  BY Types DEF IInv, TypeOK
<1> QED
  BY <1>1, Types DEF IInv, TypeOK, Hear

\* The last statement of a registration, an update or a heartbeat: user u has
\* a row, whose time is not before the request began.
LEMMA ToldInv ==
  ASSUME IInv, NEW t \in Tasks, NEW told \in BOOLEAN, Hear(t, told), Return(t),
         user[t] \in users, pc[t] \in Requests \cup Registering,
         UNCHANGED <<now, users, lastUser>>,
         tokens' \subseteq tokens \cup {[user |-> user[t], issued |-> now]},
         DOMAIN presence' = DOMAIN presence \cup {user[t]},
         \A v \in DOMAIN presence' : presence'[v] \in [ip : Ips, seen : 0 .. now],
         \A v \in DOMAIN presence : v # user[t] => presence'[v] = presence[v],
         heard[user[t]] <= presence'[user[t]].seen, since[t] <= presence'[user[t]].seen,
         acted' \in [Ids -> -1 .. now], acted'[user[t]] = now,
         \A v \in Ids : v # user[t] => acted'[v] = acted[v]
  PROVE  IInv'
<1> DEFINE u == user[t]
<1>1. /\ u \in 1 .. lastUser /\ u \in Ids
      /\ pc' = [pc EXCEPT ![t] = "idle"] /\ user' = [user EXCEPT ![t] = 0]
      /\ ip' = [ip EXCEPT ![t] = None] /\ since' = [since EXCEPT ![t] = 0]
  BY Types DEF IInv, TypeOK, Return
<1>2. /\ heard' \in [Ids -> -1 .. now] /\ heard'[u] \in {heard[u], since[t]}
      /\ \A v \in Ids : v # u => heard'[v] = heard[v]
      /\ \A v \in Ids : heard[v] <= heard'[v]
  BY <1>1, HearStep
<1>3. TypeOK'
  <2>1. tokens' \subseteq [user : users', issued : 0 .. now']
    BY Types DEF IInv, TypeOK
  <2>2. /\ pc' \in [Tasks -> {"idle", "asking"} \cup Registering \cup Requests]
        /\ user' \in [Tasks -> 0 .. lastUser'] /\ since' \in [Tasks -> 0 .. now']
        /\ ip' \in [Tasks -> Ips \cup {None}]
    BY <1>1, Types DEF IInv, TypeOK
  <2>3. DOMAIN presence' \subseteq 1 .. lastUser'
    BY <1>1 DEF IInv, TypeOK
  <2> QED
    BY <1>2, <2>1, <2>2, <2>3 DEF IInv, TypeOK
<1>4. SeenBetween'
  <2> SUFFICES ASSUME NEW v \in DOMAIN presence'
               PROVE  heard'[v] <= presence'[v].seen /\ presence'[v].seen <= acted'[v]
    BY DEF SeenBetween
  <2>1. CASE v = u
    <3>1. presence'[u].seen \in 0 .. now
      BY <1>1
    <3> QED
      BY <1>2, <2>1, <3>1, Types DEF IInv
  <2>2. CASE v # u
    <3>1. v \in DOMAIN presence /\ v \in Ids
      BY <2>2, Types DEF IInv, TypeOK
    <3> QED
      BY <1>2, <2>2, <3>1 DEF IInv, SeenBetween
  <2> QED
    BY <2>1, <2>2
<1>5. AnsweredIsListed' /\ HeardExists'
  <2>1. \A v \in users : v \in Ids
    BY Types DEF IInv, TypeOK
  <2> QED
    BY <1>2, <2>1 DEF IInv, AnsweredIsListed, HeardExists
<1>6. Asking'
  <2> SUFFICES ASSUME NEW s \in Tasks, pc'[s] \in Requests
               PROVE  /\ user'[s] \in 1 .. lastUser
                      /\ user'[s] \in users => heard'[user'[s]] >= 0
                      /\ pc'[s] = "update" => ip'[s] \in Ips
    BY DEF Asking
  <2>1. s # t /\ pc'[s] = pc[s] /\ user'[s] = user[s] /\ ip'[s] = ip[s]
    BY <1>1 DEF IInv, TypeOK, Requests
  <2>2. user[s] \in Ids /\ (user[s] \in users => heard[user[s]] >= 0)
    BY <2>1, Types DEF IInv, Callers, Asking
  <2>3. user[s] \in users => heard'[user[s]] >= 0
    BY <1>2, <2>2, Types DEF IInv, TypeOK
  <2> QED
    BY <2>1, <2>3 DEF IInv, Callers, Asking
<1>7. Joining' /\ Apart'
  <2>1. \A s \in Tasks : pc'[s] \in Registering =>
          s # t /\ pc'[s] = pc[s] /\ user'[s] = user[s] /\ ip'[s] = ip[s] /\ since'[s] = since[s]
    BY <1>1 DEF IInv, TypeOK, Registering
  <2>2. \A s \in Tasks : s # t /\ pc[s] \in Registering => user[s] # u /\ user[s] \in Ids
    <3>1. pc[t] \in Requests => heard[u] >= 0
      BY DEF IInv, Callers, Asking
    <3> QED
      BY <3>1, Types DEF IInv, TypeOK, Callers, Joining, Apart
  <2>3. Apart'
    BY <2>1 DEF IInv, Callers, Apart
  <2>4. Joining'
    BY <1>2, <2>1, <2>2 DEF IInv, Callers, Joining
  <2> QED
    BY <2>3, <2>4
<1> QED
  BY <1>3, <1>4, <1>5, <1>6, <1>7 DEF IInv, Callers

LEMMA InsertTokenInv ==
  ASSUME IInv, NEW t \in Tasks, NEW told \in BOOLEAN, InsertToken(t, told)
  PROVE  IInv'
<1> DEFINE u == user[t]
<1>1. /\ pc[t] = "present" /\ u \in users /\ u \in DOMAIN presence
      /\ heard[u] <= presence[u].seen /\ since[t] <= presence[u].seen
  BY DEF IInv, Callers, Joining, SeenBetween, InsertToken, Registering
<1>2. /\ Hear(t, told) /\ Return(t) /\ Act(u)
      /\ UNCHANGED <<now, users, presence, lastUser>>
      /\ tokens' = tokens \cup {[user |-> u, issued |-> now]}
  BY DEF InsertToken
<1>3. /\ \A v \in DOMAIN presence' : presence'[v] \in [ip : Ips, seen : 0 .. now]
      /\ acted' \in [Ids -> -1 .. now] /\ acted'[u] = now
      /\ \A v \in Ids : v # u => acted'[v] = acted[v]
  BY <1>1, <1>2, Types DEF IInv, TypeOK, Act
<1>4. DOMAIN presence' = DOMAIN presence \cup {u} /\ pc[t] \in Registering
  BY <1>1, <1>2 DEF Registering
<1> QED
  BY <1>1, <1>2, <1>3, <1>4, ToldInv

\* An update, or a heartbeat that finds its row.
LEMMA TellInv ==
  ASSUME IInv, NEW t \in Tasks, NEW told \in BOOLEAN, NEW i \in Ips,
         user[t] \in users, pc[t] \in Requests \cup Registering, Saw(user[t], i), Act(user[t]),
         Hear(t, told), Return(t), UNCHANGED <<now, users, tokens, lastUser>>
  PROVE  IInv'
<1> DEFINE u == user[t]
<1>1. heard[u] <= now /\ since[t] <= now
  BY Types DEF IInv, TypeOK
<1>2. /\ DOMAIN presence' = DOMAIN presence \cup {u} /\ presence'[u].seen = now
      /\ \A v \in DOMAIN presence' : presence'[v] \in [ip : Ips, seen : 0 .. now]
      /\ \A v \in DOMAIN presence : v # u => presence'[v] = presence[v]
      /\ acted' \in [Ids -> -1 .. now] /\ acted'[u] = now
      /\ \A v \in Ids : v # u => acted'[v] = acted[v]
  BY SawStep
<1> QED
  BY <1>1, <1>2, ToldInv

LEMMA UpdateInv ==
  ASSUME IInv, NEW t \in Tasks, NEW told \in BOOLEAN, Update(t, told)
  PROVE  IInv'
<1>1. ip[t] \in Ips /\ pc[t] \in Requests
  BY DEF IInv, Callers, Asking, Update, Requests
<1> QED
  BY <1>1, TellInv DEF Update

LEMMA HeartbeatInv ==
  ASSUME IInv, NEW t \in Tasks, NEW told \in BOOLEAN, Heartbeat(t, told)
  PROVE  IInv'
<1>1. /\ user[t] \in 1 .. lastUser
      /\ user[t] \in users => heard[user[t]] >= 0
      /\ pc[t] \in Requests /\ Hear(t, told) /\ Return(t)
      /\ UNCHANGED <<now, users, tokens, lastUser>>
  BY DEF IInv, Callers, Asking, Heartbeat, Requests
<1>2. CASE user[t] \in DOMAIN presence
  <2>1. presence[user[t]].ip \in Ips /\ user[t] \in users
    BY <1>2, Types DEF IInv, AnsweredIsListed
  <2>2. Saw(user[t], presence[user[t]].ip) /\ Act(user[t])
    BY <1>2 DEF Heartbeat
  <2> QED
    BY <1>1, <2>1, <2>2, TellInv
<1>3. CASE user[t] \notin DOMAIN presence
  <2>1. user[t] \notin users
    BY <1>1, <1>3 DEF IInv, AnsweredIsListed
  <2>2. UNCHANGED <<now, table, history>>
    BY <1>1, <1>3, <2>1, HearStep DEF Heartbeat, table, history
  <2> QED
    BY <1>1, <2>2, EndInv
<1> QED
  BY <1>2, <1>3

LEMMA UnregisterInv ==
  ASSUME IInv, NEW t \in Tasks, Unregister(t)
  PROVE  IInv'
<1> DEFINE u == user[t]
<1>1. u \in Ids /\ u \in 1 .. lastUser /\ (u \in users => heard[u] >= 0)
      /\ pc[t] = "unregister"
  BY Types DEF IInv, Callers, Asking, Unregister, Requests
<1>2. /\ DOMAIN presence' = DOMAIN presence \ {u}
      /\ \A v \in DOMAIN presence' : presence'[v] = presence[v]
  BY DEF Unregister, Restrict
<1>3. /\ heard' = [heard EXCEPT ![u] = -1] /\ acted' = [acted EXCEPT ![u] = -1]
      /\ users' = users \ {u} /\ Return(t) /\ UNCHANGED <<now, lastUser>>
      /\ heard' \in [Ids -> -1 .. now] /\ acted' \in [Ids -> -1 .. now]
      /\ \A v \in Ids : v # u => heard'[v] = heard[v] /\ acted'[v] = acted[v]
  BY <1>1, Types DEF IInv, TypeOK, Unregister
<1>4. TypeOK'
  <2>1. tokens' \subseteq [user : users', issued : 0 .. now']
    <3>1. \A k \in tokens' : k \in tokens /\ k.user \in users'
      BY DEF IInv, TypeOK, Unregister
    <3> QED
      BY <1>3, <3>1 DEF IInv, TypeOK
  <2>2. /\ pc' \in [Tasks -> {"idle", "asking"} \cup Registering \cup Requests]
        /\ user' \in [Tasks -> 0 .. lastUser'] /\ since' \in [Tasks -> 0 .. now']
        /\ ip' \in [Tasks -> Ips \cup {None}]
    BY <1>3, Types DEF IInv, TypeOK, Return
  <2> QED
    BY <1>2, <1>3, <2>1, <2>2 DEF IInv, TypeOK
<1>5. SeenBetween' /\ AnsweredIsListed' /\ HeardExists'
  <2>1. \A v \in users \cup DOMAIN presence : v \in Ids
    BY Types DEF IInv, TypeOK
  <2> QED
    BY <1>1, <1>2, <1>3, <2>1 DEF IInv, SeenBetween, AnsweredIsListed, HeardExists
<1>6. Asking'
  <2>1. \A s \in Tasks : pc'[s] \in Requests =>
          pc'[s] = pc[s] /\ user'[s] = user[s] /\ ip'[s] = ip[s]
    BY <1>3 DEF IInv, TypeOK, Return, Requests
  <2> QED
    BY <1>3, <2>1, Types DEF IInv, Callers, Asking
<1>7. Joining' /\ Apart'
  <2>1. \A s \in Tasks : pc'[s] \in Registering =>
          pc'[s] = pc[s] /\ user'[s] = user[s] /\ ip'[s] = ip[s] /\ since'[s] = since[s]
    BY <1>3 DEF IInv, TypeOK, Return, Registering
  <2>2. \A s \in Tasks : pc[s] \in Registering => user[s] # u /\ user[s] \in Ids
    BY <1>1, Types DEF IInv, TypeOK, Callers, Joining
  <2>3. Apart'
    BY <2>1 DEF IInv, Callers, Apart
  <2>4. Joining'
    BY <1>2, <1>3, <2>1, <2>2 DEF IInv, Callers, Joining
  <2> QED
    BY <2>3, <2>4
<1> QED
  BY <1>4, <1>5, <1>6, <1>7 DEF IInv, Callers

LEMMA StepInv == IInv /\ [Next]_vars => IInv'
<1> SUFFICES ASSUME IInv, [Next]_vars PROVE IInv'
  OBVIOUS
<1>1. ASSUME NEW t \in Tasks, RegisterStep(t)
      PROVE  IInv'
  BY <1>1, RegisterInv, InsertPresenceInv, InsertTokenInv DEF RegisterStep
<1>2. ASSUME NEW t \in Tasks, NEW k \in tokens, NEW what \in Requests, NEW i \in Ips \cup {None},
             what = "update" => i \in Ips, Resolve(t, k, what, i)
      PROVE  IInv'
  <2>1. k.user \in users /\ heard[k.user] >= 0 /\ Start(t, what, k.user, i)
        /\ UNCHANGED <<now, table, history>>
    BY <1>2 DEF IInv, TypeOK, Resolve
  <2> QED
    BY <1>2, <2>1, StartInv
<1>3. ASSUME NEW t \in Tasks, TokenStep(t)
      PROVE  IInv'
  BY <1>2, <1>3, UpdateInv, HeartbeatInv, UnregisterInv DEF TokenStep, Requests
<1>4. ASSUME NEW t \in Tasks, NEW u \in users, Lookup(t, u)
      PROVE  IInv'
  <2>1. presence[u].ip \in Ips \cup {None}
    BY <1>4, Types DEF IInv, Lookup
  <2> QED
    BY <1>4, <2>1, StartInv DEF Lookup, Requests
<1>5. ASSUME NEW t \in Tasks, Abort(t) \/ \E online \in BOOLEAN : Answer(t, online)
      PROVE  IInv'
  BY <1>5, EndInv DEF Abort, Answer
<1>6. CASE UNCHANGED vars
  BY <1>6 DEF vars, table, task, history, IInv, TypeOK, AnsweredIsListed, SeenBetween,
              HeardExists, Callers, Asking, Joining, Apart
<1> QED
  BY <1>1, <1>3, <1>4, <1>5, <1>6, TickInv DEF Next

\* Type correctness: no time of the tables is in the future.
THEOREM TypeCorrect == Spec => []TypeOK
  BY InitInv, StepInv, PTL DEF Spec, IInv

\* Whoever was answered has a row in presence until the account is deleted,
\* and nobody has one afterwards, through registrations that break off and
\* updates that come too late.
THEOREM AnsweredAreListed == Spec => []AnsweredIsListed
  BY InitInv, StepInv, PTL DEF Spec, IInv

\* What a lookup says lies between what clients were answered and what the
\* server has stored.
THEOREM LookupIsRight == Spec => OnlineIsRecent
<1>1. IInv /\ [Next]_vars =>
        [\A t \in Tasks, online \in BOOLEAN : Answer(t, online) =>
           LET here == At(ip[t])
           IN /\ here # {} /\ (\A u \in here : Lately(heard[u])) => online
              /\ online => \E u \in here : Lately(acted[u])]_vars
  <2> SUFFICES ASSUME IInv, NEW t \in Tasks, NEW online \in BOOLEAN, Answer(t, online)
               PROVE  /\ At(ip[t]) # {} /\ (\A u \in At(ip[t]) : Lately(heard[u])) => online
                      /\ online => \E u \in At(ip[t]) : Lately(acted[u])
    OBVIOUS
  <2>1. \A u \in At(ip[t]) : /\ Lately(heard[u]) => Recently(presence[u].seen)
                             /\ Recently(presence[u].seen) => Lately(acted[u])
    <3> SUFFICES ASSUME NEW u \in At(ip[t])
                 PROVE  /\ Lately(heard[u]) => Recently(presence[u].seen)
                        /\ Recently(presence[u].seen) => Lately(acted[u])
      OBVIOUS
    <3>1. u \in DOMAIN presence /\ u \in Ids
      BY Types DEF IInv, TypeOK, At
    <3>2. /\ heard[u] <= presence[u].seen /\ presence[u].seen <= acted[u]
          /\ heard[u] \in Int /\ acted[u] \in Int /\ presence[u].seen \in Nat /\ now \in Nat
      BY <3>1, Types DEF IInv, SeenBetween
    <3> QED
      BY <3>2, PresenceAssumption DEF Lately, Recently
  <2> QED
    BY <2>1 DEF Answer
<1> QED
  BY <1>1, InitInv, StepInv, PTL DEF Spec, OnlineIsRecent

-----------------------------------------------------------------------------
(***************************************************************************)
(* Days.                                                                   *)
(***************************************************************************)

LEMMA DayBounds ==
  ASSUME NEW a \in Nat
  PROVE  /\ DayOf(a) \in Int
         /\ Day * DayOf(a) <= a /\ a < Day * DayOf(a) + Day
  BY PresenceAssumption DEF DayOf

LEMMA Later ==
  ASSUME NEW p \in Int, NEW q \in Int, p < q
  PROVE  Day * p + Day <= Day * q
<1>1. q - p - 1 \in Nat
  OBVIOUS
<1>2. Day * (q - p - 1) >= 0
  BY <1>1, PresenceAssumption
<1>3. Day * (q - p - 1) = Day * q - Day * p - Day
  BY PresenceAssumption
<1> QED
  BY <1>2, <1>3, PresenceAssumption

\* The comparison of texts errs by less than a day, and never against the
\* holder of the token.
THEOREM TokensLastLongEnough == Spec => []TokenLife
<1>1. IInv => TokenLife
  <2> SUFFICES ASSUME IInv, TtlDays > 0, NEW k \in tokens
               PROVE  /\ now <= Expires(k) => Accepted(k)
                      /\ Accepted(k) => now < Expires(k) + Day
    BY DEF TokenLife
  <2> DEFINE e == Expires(k)
  <2>1. now \in Nat /\ e \in Nat /\ Day \in Nat /\ Day > 0
    BY PresenceAssumption DEF IInv, TypeOK, Expires
  <2>2. /\ DayOf(now) \in Int /\ DayOf(e) \in Int
        /\ Day * DayOf(now) \in Int /\ Day * DayOf(e) \in Int
        /\ Day * DayOf(now) <= now /\ now < Day * DayOf(now) + Day
        /\ Day * DayOf(e) <= e /\ e < Day * DayOf(e) + Day
    BY <2>1, DayBounds
  <2>3. Accepted(k) <=> DayOf(e) >= DayOf(now)
    BY DEF Accepted
  <2>4. ASSUME now <= e
        PROVE  DayOf(e) >= DayOf(now)
    <3>1. ~(DayOf(e) < DayOf(now))
      BY <2>1, <2>2, <2>4, Later
    <3> QED
      BY <3>1, <2>2
  <2>5. ASSUME DayOf(e) >= DayOf(now)
        PROVE  now < e + Day
    <3>1. CASE DayOf(e) = DayOf(now)
      BY <2>1, <2>2, <3>1
    <3>2. CASE DayOf(now) < DayOf(e)
      BY <2>1, <2>2, <3>2, Later
    <3> QED
      BY <2>2, <2>5, <3>1, <3>2
  <2> QED
    BY <2>3, <2>4, <2>5
<1> QED
  BY <1>1, InitInv, StepInv, PTL DEF Spec
=============================================================================
