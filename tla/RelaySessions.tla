---------------------------- MODULE RelaySessions ----------------------------
(***************************************************************************)
(* The session life cycle of the relay: POST /relay/create,                *)
(* POST /relay/join/{id}, GET /relay/{id} up to the point where creator    *)
(* and joiner exchange frames, and the background cleanup.  What the two   *)
(* linked handlers forward is the subject of module RelayPipe.             *)
(*                                                                         *)
(* Every lock of AppState is held for one statement only, so a handler is  *)
(* a sequence of actions with the other requests, the cleanup task and the *)
(* clock interleaved between any two of them.  A session is named after    *)
(* the create call that makes it (the code draws a fresh UUID) and a       *)
(* PendingRelay object after the creator's connection that makes it.       *)
(*                                                                         *)
(* relay.enabled is taken to be true, and callers of create and join to    *)
(* pass resolve_token: a refusal there changes nothing.                    *)
(***************************************************************************)
EXTENDS Integers, FiniteSets

CONSTANTS
  Sessions,        \* calls of POST /relay/create, each with its own session id
  Joiners,         \* users, each calling POST /relay/join once
  Conns,           \* requests to GET /relay/{id}
  None,            \* no connection, no user, no session
  MaxSessions,     \* relay.max_sessions, 0 for no limit
  Timeout,         \* relay.session_timeout_seconds, in ticks
  Slack,           \* the 30 seconds cleanup_loop adds to it, in ticks
  SetupDelay       \* longest time from the lookup of a session to its upgrade

ASSUME RelayAssumption ==
  /\ None \notin Sessions \cup Joiners \cup Conns
  /\ MaxSessions \in Nat
  /\ Timeout \in Nat
  /\ Slack \in Nat \ {0}
  /\ SetupDelay \in Nat
  /\ SetupDelay < Slack

VARIABLES
  create,          \* progress of each create call
  join,            \* progress of each join call
  want,            \* the session each join call is about
  joiner_id,       \* column of the row in relay_sessions (audit)
  returned,        \* the users token_b was returned to
  relay_init,      \* keys of AppState.relay_init
  init_age,        \* time since InitializedRelay.created_at
  relay_pending,   \* AppState.relay_pending, the objects named by connection
  pc,              \* progress of each connection's handler
  sid,             \* the session a connection asks for
  token,           \* the token it presents, "A" or "B"
  age,             \* time since PendingRelay.created_at
  left,            \* time to the deadline of creator_ws
  joiner_ready,    \* PendingRelay objects whose Notify holds a permit
  peer,            \* the PendingRelay object a joiner took out of the map
  open,            \* connections whose client end is still open
  expired,         \* what cleanup_loop has found too old, None when it sleeps
  peak             \* the most sessions that were in progress at one time

callVars == <<create, join, want, joiner_id, returned, peak>>
mapVars  == <<relay_init, init_age, relay_pending>>
connVars == <<pc, sid, token, age, left, joiner_ready, peer, open>>
vars     == <<callVars, mapVars, connVars, expired>>

\* Fault: the cleanup grants no grace beyond the timeout.
GraceIsTimeout == Timeout

Grace == Timeout + Slack

CreateState == {"idle", "admitted", "persisted", "created", "refused"}

JoinState == {"idle", "read", "served", "refused"}

ConnState == {"idle", "cloned", "removed", "upgrading", "waiting", "ponging",
              "linked", "missed", "taken", "joined", "gone", "unauthorized", "not_found"}

\* A handler that has not answered yet, or whose upgrade is under way.
SettingUp == {"cloned", "removed", "upgrading", "missed", "taken"}

\* A creator in phase 1, whether its select is polled or a Pong being sent.
Waiting(c) == pc[c] \in {"waiting", "ponging"}

\* The types of the variables; in particular no age passes Grace and no
\* deadline the timeout, and relay_pending only holds creators' objects.
TypeOK ==
  /\ create \in [Sessions -> CreateState]
  /\ join \in [Joiners -> JoinState]
  /\ want \in [Joiners -> Sessions \cup {None}]
  /\ joiner_id \in [Sessions -> Joiners \cup {None}]
  /\ returned \in [Sessions -> SUBSET Joiners]
  /\ relay_init \in SUBSET Sessions
  /\ init_age \in [Sessions -> 0 .. Grace]
  /\ relay_pending \in [Sessions -> Conns \cup {None}]
  /\ pc \in [Conns -> ConnState]
  /\ sid \in [Conns -> Sessions \cup {None}]
  /\ token \in [Conns -> {"A", "B"}]
  /\ age \in [Conns -> 0 .. Grace]
  /\ left \in [Conns -> 0 .. Timeout]
  /\ joiner_ready \in SUBSET Conns
  /\ peer \in [Conns -> Conns \cup {None}]
  /\ open \in SUBSET Conns
  /\ expired \in {None} \cup SUBSET Conns
  /\ peak \in Nat

Init ==
  /\ create = [s \in Sessions |-> "idle"]
  /\ join = [j \in Joiners |-> "idle"]
  /\ want = [j \in Joiners |-> None]
  /\ joiner_id = [s \in Sessions |-> None]
  /\ returned = [s \in Sessions |-> {}]
  /\ relay_init = {}
  /\ init_age = [s \in Sessions |-> 0]
  /\ relay_pending = [s \in Sessions |-> None]
  /\ pc = [c \in Conns |-> "idle"]
  /\ sid = [c \in Conns |-> None]
  /\ token = [c \in Conns |-> "A"]
  /\ age = [c \in Conns |-> 0]
  /\ left = [c \in Conns |-> 0]
  /\ joiner_ready = {}
  /\ peer = [c \in Conns |-> None]
  /\ open = {}
  /\ expired = None
  /\ peak = 0

-----------------------------------------------------------------------------
(***************************************************************************)
(* POST /relay/create.                                                     *)
(***************************************************************************)

PendingSessions == {s \in Sessions : relay_pending[s] # None}

SessionCount == Cardinality(relay_init) + Cardinality(PendingSessions)

\* Sessions in the hands of a request, on their way into a map.
InProgress ==
  {s \in Sessions : \/ create[s] \in {"admitted", "persisted"}
                    \/ /\ s \notin relay_init \cup PendingSessions
                       /\ \E c \in Conns : sid[c] = s /\ pc[c] \in {"cloned", "removed"}}

Recorded ==
  peak' = IF Cardinality(InProgress') > peak THEN Cardinality(InProgress') ELSE peak

\* Fault: the limit itself is still admitted.
CreateOneMore(s) ==
  /\ create[s] = "idle"
  /\ \/ /\ MaxSessions = 0 \/ SessionCount <= MaxSessions
        /\ create' = [create EXCEPT ![s] = "admitted"]
     \/ /\ MaxSessions > 0 /\ SessionCount > MaxSessions
        /\ create' = [create EXCEPT ![s] = "refused"]
  /\ UNCHANGED <<join, want, joiner_id, returned, mapVars, connVars, expired>>
  /\ Recorded

\* The count is taken under both locks; both are released before it is used.
CreateCheck(s) ==
  /\ create[s] = "idle"
  /\ \/ /\ MaxSessions = 0 \/ SessionCount < MaxSessions
        /\ create' = [create EXCEPT ![s] = "admitted"]
     \/ /\ MaxSessions > 0 /\ SessionCount >= MaxSessions
        /\ create' = [create EXCEPT ![s] = "refused"]
  /\ UNCHANGED <<join, want, joiner_id, returned, mapVars, connVars, expired>>
  /\ Recorded

\* The audit row.  It exists from here on, with no joiner yet.
CreatePersist(s) ==
  /\ create[s] = "admitted"
  /\ create' = [create EXCEPT ![s] = "persisted"]
  /\ UNCHANGED <<join, want, joiner_id, returned, mapVars, connVars, expired, peak>>

CreateInsert(s) ==
  /\ create[s] = "persisted"
  /\ create' = [create EXCEPT ![s] = "created"]
  /\ relay_init' = relay_init \cup {s}
  /\ init_age' = [init_age EXCEPT ![s] = 0]
  /\ UNCHANGED <<join, want, joiner_id, returned, relay_pending, connVars, expired, peak>>

\* The INSERT fails, or the caller hangs up and the request is dropped.
CreateAbort(s) ==
  /\ create[s] \in {"admitted", "persisted"}
  /\ create' = [create EXCEPT ![s] = "refused"]
  /\ UNCHANGED <<join, want, joiner_id, returned, mapVars, connVars, expired, peak>>

-----------------------------------------------------------------------------
(***************************************************************************)
(* POST /relay/join/{id}.                                                  *)
(***************************************************************************)

\* token_b is copied out of relay_init; a session in no other map is a 404.
JoinRead(j, s) ==
  /\ join[j] = "idle"
  /\ create[s] = "created"
  /\ want' = [want EXCEPT ![j] = s]
  /\ join' = [join EXCEPT ![j] = IF s \in relay_init THEN "read" ELSE "refused"]
  /\ UNCHANGED <<create, joiner_id, returned, mapVars, connVars, expired, peak>>

\* Fault: token_b is returned and the joiner not recorded.
JoinUnrecorded(j) ==
  /\ join[j] = "read"
  /\ join' = [join EXCEPT ![j] = "served"]
  /\ returned' = [returned EXCEPT ![want[j]] = @ \cup {j}]
  /\ UNCHANGED <<create, want, joiner_id, mapVars, connVars, expired, peak>>

\* The joiner is recorded and then token_b returned; the caller may be gone.
JoinRecord(j) ==
  /\ join[j] = "read"
  /\ joiner_id' = [joiner_id EXCEPT ![want[j]] = j]
  /\ \/ /\ join' = [join EXCEPT ![j] = "served"]
        /\ returned' = [returned EXCEPT ![want[j]] = @ \cup {j}]
     \/ /\ join' = [join EXCEPT ![j] = "refused"]
        /\ UNCHANGED returned
  /\ UNCHANGED <<create, want, mapVars, connVars, expired, peak>>

\* The UPDATE fails, or the request is dropped before it.
JoinAbort(j) ==
  /\ join[j] = "read"
  /\ join' = [join EXCEPT ![j] = "refused"]
  /\ UNCHANGED <<create, want, joiner_id, returned, mapVars, connVars, expired, peak>>

-----------------------------------------------------------------------------
(***************************************************************************)
(* GET /relay/{id}: three separate critical sections for a creator, two    *)
(* for a joiner.  Clients only present tokens they were given.             *)
(***************************************************************************)

Issued(t, s) ==
  \/ t = "A" /\ create[s] = "created"
  \/ t = "B" /\ returned[s] # {}

\* The session is cloned out of relay_init and its token compared; for the
\* creator the PendingRelay object is built, its created_at set to now.
WsLookup(c, s, t) ==
  /\ pc[c] = "idle"
  /\ Issued(t, s)
  /\ sid' = [sid EXCEPT ![c] = s]
  /\ token' = [token EXCEPT ![c] = t]
  /\ \/ /\ s \in relay_init /\ t = "A"
        /\ pc' = [pc EXCEPT ![c] = "cloned"]
        /\ open' = open \cup {c}
     \/ /\ s \in relay_init /\ t = "B"
        /\ pc' = [pc EXCEPT ![c] = "unauthorized"]
        /\ UNCHANGED open
     \/ /\ s \notin relay_init
        /\ pc' = [pc EXCEPT ![c] = "missed"]
        /\ open' = open \cup {c}
  /\ UNCHANGED <<callVars, mapVars, age, left, joiner_ready, peer, expired>>

\* Fault: the session stays in relay_init.
WsKeepInit(c) ==
  /\ pc[c] = "cloned"
  /\ pc' = [pc EXCEPT ![c] = "removed"]
  /\ UNCHANGED <<callVars, mapVars, sid, token, age, left, joiner_ready,
                 peer, open, expired>>

WsRemoveInit(c) ==
  /\ pc[c] = "cloned"
  /\ relay_init' = relay_init \ {sid[c]}
  /\ init_age' = [init_age EXCEPT ![sid[c]] = 0]
  /\ pc' = [pc EXCEPT ![c] = "removed"]
  /\ UNCHANGED <<callVars, relay_pending, sid, token, age, left,
                 joiner_ready, peer, open, expired>>

WsInsertPending(c) ==
  /\ pc[c] = "removed"
  /\ relay_pending' = [relay_pending EXCEPT ![sid[c]] = c]
  /\ pc' = [pc EXCEPT ![c] = "upgrading"]
  /\ UNCHANGED <<callVars, relay_init, init_age, sid, token, age, left,
                 joiner_ready, peer, open, expired>>

\* Fault: the entry is read and left in the map.
PeekPending(s) == relay_pending

TakePending(s) == [relay_pending EXCEPT ![s] = None]

\* Compare and remove under one lock.
WsTakePending(c) ==
  /\ pc[c] = "missed"
  /\ \/ /\ relay_pending[sid[c]] # None /\ token[c] = "B"
        /\ peer' = [peer EXCEPT ![c] = relay_pending[sid[c]]]
        /\ relay_pending' = TakePending(sid[c])
        /\ pc' = [pc EXCEPT ![c] = "taken"]
        /\ UNCHANGED open
     \/ /\ relay_pending[sid[c]] = None \/ token[c] = "A"
        /\ pc' = [pc EXCEPT ![c] = "not_found"]
        /\ open' = open \ {c}
        /\ UNCHANGED <<peer, relay_pending>>
  /\ UNCHANGED <<callVars, relay_init, init_age, sid, token, age, left,
                 joiner_ready, expired>>

\* The client hangs up before the handler answers (the request is dropped at
\* its next await) or before the upgrade completes (on_upgrade never calls).
WsAbandon(c) ==
  /\ pc[c] \in SettingUp
  /\ c \notin open
  /\ pc' = [pc EXCEPT ![c] = "gone"]
  /\ UNCHANGED <<callVars, mapVars, sid, token, age, left, joiner_ready,
                 peer, open, expired>>

-----------------------------------------------------------------------------
(***************************************************************************)
(* creator_ws, phase 1, and joiner_ws up to its loop.                      *)
(***************************************************************************)

\* Fault: the deadline includes the grace of the cleanup.
StartWithGrace(c) ==
  /\ pc[c] = "upgrading"
  /\ pc' = [pc EXCEPT ![c] = "waiting"]
  /\ left' = [left EXCEPT ![c] = Grace]
  /\ UNCHANGED <<callVars, mapVars, sid, token, age, joiner_ready, peer,
                 open, expired>>

CreatorStart(c) ==
  /\ pc[c] = "upgrading"
  /\ pc' = [pc EXCEPT ![c] = "waiting"]
  /\ left' = [left EXCEPT ![c] = Timeout]
  /\ UNCHANGED <<callVars, mapVars, sid, token, age, joiner_ready, peer,
                 open, expired>>

\* Fault: Notify::notify_waiters, which only wakes a creator already waiting.
NotifyWaiters(c) == joiner_ready \cup {d \in {c} : pc[d] = "waiting"}

\* Notify::notify_one leaves a permit when the creator is not waiting yet.
NotifyOne(c) == joiner_ready \cup {c}

JoinerStart(c) ==
  /\ pc[c] = "taken"
  /\ pc' = [pc EXCEPT ![c] = "joined"]
  /\ joiner_ready' = NotifyOne(peer[c])
  /\ UNCHANGED <<callVars, mapVars, sid, token, age, left, peer, open, expired>>

CreatorNotified(c) ==
  /\ pc[c] = "waiting"
  /\ c \in joiner_ready
  /\ pc' = [pc EXCEPT ![c] = "linked"]
  /\ joiner_ready' = joiner_ready \ {c}
  /\ left' = [left EXCEPT ![c] = 0]
  /\ UNCHANGED <<callVars, mapVars, sid, token, age, peer, open, expired>>

\* The answer to a Ping is awaited inside the select's branch: until the Pong
\* is sent, nothing else is polled, neither notification nor socket nor
\* deadline, and a client that does not read may hold the handler there.
CreatorPinged(c) ==
  /\ pc[c] = "waiting"
  /\ c \in open
  /\ pc' = [pc EXCEPT ![c] = "ponging"]
  /\ UNCHANGED <<callVars, mapVars, sid, token, age, left, joiner_ready,
                 peer, open, expired>>

PongDone(c) ==
  /\ pc[c] = "ponging"
  /\ pc' = [pc EXCEPT ![c] = "waiting"]
  /\ UNCHANGED <<callVars, mapVars, sid, token, age, left, joiner_ready,
                 peer, open, expired>>

PongTaken(c) == c \in open /\ PongDone(c)

PongFails(c) == c \notin open /\ PongDone(c)

\* Both early returns remove by session id, whatever object the map holds.
\* The select has no bias: a ready notification need not win.
CreatorLeaves(c) ==
  /\ pc[c] = "waiting"
  /\ relay_pending' = [relay_pending EXCEPT ![sid[c]] = None]
  /\ pc' = [pc EXCEPT ![c] = "gone"]
  /\ open' = open \ {c}
  /\ left' = [left EXCEPT ![c] = 0]
  /\ UNCHANGED <<callVars, relay_init, init_age, sid, token, age,
                 joiner_ready, peer, expired>>

CreatorClosed(c) == c \notin open /\ CreatorLeaves(c)

\* Fault: the select has no deadline branch.
CreatorWaitsOn(c) == FALSE /\ CreatorLeaves(c)

CreatorTimedOut(c) == left[c] = 0 /\ CreatorLeaves(c)

\* Either relay loop ends when its own socket does; the peer's end does not
\* end it (see RelayPipe).
RelayEnds(c) ==
  /\ pc[c] \in {"linked", "joined"}
  /\ c \notin open
  /\ pc' = [pc EXCEPT ![c] = "gone"]
  /\ UNCHANGED <<callVars, mapVars, sid, token, age, left, joiner_ready,
                 peer, open, expired>>

\* A frame that is neither data nor a Ping, an unsolicited Pong say, ends the
\* relay loop that receives it.
OtherFrame(c) ==
  /\ pc[c] \in {"linked", "joined"}
  /\ c \in open
  /\ pc' = [pc EXCEPT ![c] = "gone"]
  /\ open' = open \ {c}
  /\ UNCHANGED <<callVars, mapVars, sid, token, age, left, joiner_ready,
                 peer, expired>>

ClientCloses(c) ==
  /\ c \in open
  /\ open' = open \ {c}
  /\ UNCHANGED <<callVars, mapVars, pc, sid, token, age, left, joiner_ready,
                 peer, expired>>

-----------------------------------------------------------------------------
(***************************************************************************)
(* cleanup_loop: the time is read once, then each map is purged under its  *)
(* own lock.  The 60 seconds between two rounds are left out: a round may  *)
(* begin at any time.                                                      *)
(***************************************************************************)
PurgeInit ==
  /\ expired = None
  /\ relay_init' = {s \in relay_init : init_age[s] < Grace}
  /\ init_age' = [s \in Sessions |-> IF s \in relay_init' THEN init_age[s] ELSE 0]
  /\ expired' = {c \in Conns : age[c] >= Grace}
  /\ UNCHANGED <<callVars, relay_pending, connVars>>

\* Fault: the second map is not purged.
SkipPending ==
  /\ expired # None
  /\ expired' = None
  /\ UNCHANGED <<callVars, mapVars, connVars>>

PurgePending ==
  /\ expired # None
  /\ relay_pending' = [s \in Sessions |->
                         IF relay_pending[s] \in expired THEN None
                         ELSE relay_pending[s]]
  /\ expired' = None
  /\ UNCHANGED <<callVars, relay_init, init_age, connVars>>

(***************************************************************************)
(* Time.  Ages stop at Grace, where no comparison can tell them apart any  *)
(* more; init_age is 0 outside relay_init and left is 0 outside phase 1.   *)
(* A handler is not held up between lookup and upgrade for longer than     *)
(* SetupDelay: this is the one assumption on the speed of the server.      *)
(***************************************************************************)
Aging(c) == pc[c] \in {"cloned", "removed", "upgrading", "waiting", "ponging"}
            \/ \E s \in Sessions : relay_pending[s] = c

Tick ==
  /\ \A c \in Conns : pc[c] \in SettingUp => age[c] < SetupDelay
  /\ init_age' = [s \in Sessions |->
                    IF s \in relay_init /\ init_age[s] < Grace
                    THEN init_age[s] + 1 ELSE init_age[s]]
  /\ age' = [c \in Conns |-> IF Aging(c) /\ age[c] < Grace
                             THEN age[c] + 1 ELSE age[c]]
  /\ left' = [c \in Conns |-> IF Waiting(c) /\ left[c] > 0
                              THEN left[c] - 1 ELSE left[c]]
  /\ UNCHANGED <<callVars, relay_init, relay_pending, pc, sid, token,
                 joiner_ready, peer, open, expired>>

-----------------------------------------------------------------------------
Call ==
  \/ \E s \in Sessions : \/ CreateCheck(s)
                         \/ CreatePersist(s)
                         \/ CreateInsert(s)
                         \/ CreateAbort(s)
  \/ \E j \in Joiners : \/ \E s \in Sessions : JoinRead(j, s)
                        \/ JoinRecord(j)
                        \/ JoinAbort(j)

\* Steps of the handler of connection c, once the request has arrived.
Handler(c) ==
  \/ WsRemoveInit(c)
  \/ WsInsertPending(c)
  \/ WsTakePending(c)
  \/ WsAbandon(c)
  \/ CreatorStart(c)
  \/ JoinerStart(c)
  \/ CreatorNotified(c)
  \/ PongFails(c)
  \/ CreatorClosed(c)
  \/ CreatorTimedOut(c)
  \/ RelayEnds(c)

\* Steps that take something of the client: a frame, a read, its end.
FromClient(c) ==
  \/ CreatorPinged(c)
  \/ PongTaken(c)
  \/ OtherFrame(c)
  \/ ClientCloses(c)

Next ==
  \/ Call
  \/ \E c \in Conns : \/ \E s \in Sessions, t \in {"A", "B"} : WsLookup(c, s, t)
                      \/ Handler(c)
                      \/ FromClient(c)
  \/ PurgeInit
  \/ PurgePending
  \/ Tick

Spec == Init /\ [][Next]_vars

(***************************************************************************)
(* The runtime polls every ready task, the cleanup task never ends and     *)
(* time passes.  select! picks the branch it polls first at random, so a   *)
(* deadline that has passed is not overlooked for ever by a handler that   *)
(* polls again and again.  Nothing is assumed of clients: they need not    *)
(* send, close or read, so a Pong they do not take is never sent.          *)
(***************************************************************************)
Fairness ==
  /\ \A c \in Conns : WF_vars(Handler(c)) /\ SF_vars(CreatorTimedOut(c))
  /\ WF_vars(PurgeInit)
  /\ WF_vars(PurgePending)
  /\ WF_vars(Tick)

FairSpec == Spec /\ Fairness

-----------------------------------------------------------------------------
(***************************************************************************)
(* Safety.                                                                 *)
(***************************************************************************)

\* A session that has left relay_init for a creator's socket never shows up
\* there again, so no later join call is handed token_b and no later request
\* is taken for the first creator, in spite of the three separate locks.
LeftInitForGood ==
  \A s \in relay_init :
    /\ relay_pending[s] = None
    /\ \A c \in Conns : sid[c] = s => pc[c] \in {"cloned", "gone", "unauthorized"}

\* relay_ws pairs a joiner with one creator of its own session, and a creator
\* with one joiner at most, even when several joiners present token_b.
OneToOne ==
  \A d \in Conns : peer[d] # None =>
    /\ token[d] = "B" /\ token[peer[d]] = "A"
    /\ sid[d] = sid[peer[d]]
    /\ \A e \in Conns : peer[e] = peer[d] => e = d

\* Nobody gets a creator's entry whose session shows no joiner in the audit
\* table relay_sessions.
JoinerIsAudited ==
  \A d \in Conns : peer[d] # None => joiner_id[sid[d]] # None

Claimed(c) == \E d \in Conns : peer[d] = c

OnlyCreator(c) == \A d \in Conns : sid[d] = sid[c] /\ token[d] = "A" => d = c

\* While a creator that opened one socket waits within its deadline and no
\* joiner has taken its entry, the entry is in relay_pending: neither the
\* cleanup nor a joiner's handler has removed it for nothing.  (With a second
\* socket of the creator this is lost: either one removes the other's entry.)
WaitingCreatorIsReachable ==
  \A c \in Conns : Waiting(c) /\ left[c] > 0 /\ OnlyCreator(c) /\ ~Claimed(c)
                     => relay_pending[sid[c]] = c

\* max_sessions is compared before the audit row is written, and a session is
\* in no map while its creator's request carries it from one to the other: the
\* limit is exceeded by no more than the sessions in progress at one time.
SessionBound == MaxSessions > 0 => SessionCount < MaxSessions + peak

(***************************************************************************)
(* Every creator's connection as its joiner sees it: module Handshake.     *)
(***************************************************************************)
EntryOf(c) == \E s \in Sessions : relay_pending[s] = c

CreatorOf(c) == IF Waiting(c) THEN "waiting"
                ELSE IF pc[c] \in {"upgrading", "linked", "gone"} THEN pc[c] ELSE "absent"

JoinerOf(c) == IF Claimed(c) THEN pc[CHOOSE d \in Conns : peer[d] = c] ELSE "absent"

Meeting(c) == INSTANCE Handshake WITH
  entry <- EntryOf(c), creator <- CreatorOf(c), joiner <- JoinerOf(c),
  permit <- c \in joiner_ready

\* Whatever the maps, the cleanup and the other sockets do, creator_ws and
\* joiner_ws meet as Handshake says: one joiner takes an entry, the creator
\* leaves phase 1 only when that joiner has started, and a notification that
\* comes before the creator waits is kept for it.
HandlersMeet ==
  /\ \A c \in Conns : Meeting(c)!Init
  /\ [][\A c \in Conns : [Meeting(c)!Next]_(Meeting(c)!vars)]_vars

(***************************************************************************)
(* Liveness, under Fairness.                                               *)
(***************************************************************************)

\* A creator whose client takes its Pongs, or sends no Pings, does not wait
\* for ever: it is linked, or its socket or its deadline ends it, whoever has
\* removed its entry meanwhile.  (The deadline of a client that sends Pings
\* and does not read is not polled; see README.md.)
WaitingEnds ==
  \A c \in Conns :
    []<>(pc[c] # "ponging") => []<>~Waiting(c)

\* No map leaks a session nobody will finish: an entry leaves relay_pending
\* even when the creator's upgrade failed and no handler will remove it, and
\* one that no creator ever connects to leaves relay_init.
EntriesDrain ==
  \A s \in Sessions :
    /\ []<>(relay_pending[s] = None)
    /\ []<>(s \notin relay_init)

\* A relay that answers "max_sessions_reached" will admit sessions again,
\* whatever became of the clients that fill it.
CapacityReturns ==
  MaxSessions > 0 =>
    []<>(SessionCount < MaxSessions)
=============================================================================
