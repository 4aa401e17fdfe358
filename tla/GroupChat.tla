------------------------------ MODULE GroupChat ------------------------------
(***************************************************************************)
(* The chat of the group mode: group_ws, group_ws_handler and broadcast.   *)
(* Handlers share the table group_messages and the map group_conns; each   *)
(* statement on either is a step of its own, with the other handlers       *)
(* interleaved.  broadcast holds the read lock of group_conns while it     *)
(* sends: several may run at once, and insert and remove wait for all of   *)
(* them.                                                                   *)
(*                                                                         *)
(* A message is named by its place in the order of the INSERTs, and the    *)
(* system frames {"type": "leave" or "join", "username": u} by the user u. *)
(* Any user may connect at any time: what join and leave do to the table   *)
(* group_members is the subject of GroupMembers, and only what they tell   *)
(* the connected members is here.  In a channel, a member whose post is    *)
(* refused changes nothing.                                                *)
(***************************************************************************)
EXTENDS Naturals, FiniteSets, Sequences

CONSTANTS
  Users, Conns,
  None,
  Announced,       \* bound: users a join or leave call of whom is announced
  HistoryLimit,    \* group.history_limit
  MaxMsgs,         \* bound: messages posted
  DbFails          \* whether a query on group_messages may fail

ASSUME GroupAssumption ==
  /\ None \notin Users \cup Conns
  /\ Users \cap (Conns \cup Nat) = {}
  /\ Conns \cap Nat = {}
  /\ Announced \subseteq Users
  /\ HistoryLimit \in Nat
  /\ MaxMsgs \in Nat
  /\ DbFails \in BOOLEAN

VARIABLES
  call,            \* progress of each user's join or leave call
  db,              \* group_messages in the order of id
  author,          \* the connection each message was posted on
  saved,           \* the messages whose INSERT succeeded, in their order
  missed,          \* DELETEs that failed since the last one that succeeded
  unread,          \* connections whose SELECT of the history failed
  group_conns,     \* AppState.group_conns: the connection that holds the rx
  latest,          \* the connection each user registered last
  since,           \* how many messages were posted before a registration
  pc,              \* progress of each connection's handler
  user,            \* whose token it was opened with
  open,            \* connections whose client has not gone
  hist,            \* what it was sent as history
  rx,              \* every frame put into its channel
  out,             \* how many of them were written to its socket
  posting,         \* the message a handler is working on
  todo             \* receivers a broadcast has not reached yet

tableVars == <<call, db, author, saved, missed, unread>>
mapVars == <<group_conns, latest, since>>
connVars == <<pc, user, open, hist, rx, out, posting, todo>>
vars == <<tableVars, mapVars, connVars>>

\* What broadcasts: a connection's handler, and a user's join or leave call.
Callers == Conns \cup Users

Messages == 1 .. Len(author)

\* The types of the variables; a history frame is no longer than the limit.
TypeOK ==
  /\ call \in [Users -> {"before", "telling", "answered"}]
  /\ author \in Seq(Conns) /\ Len(author) <= MaxMsgs
  /\ db \in Seq(Messages) /\ saved \in Seq(Messages)
  /\ missed \in Nat
  /\ unread \subseteq Conns
  /\ group_conns \in [Users -> Conns \cup {None}]
  /\ latest \in [Users -> Conns \cup {None}]
  /\ since \in [Conns -> 0 .. Len(author)]
  /\ pc \in [Conns -> {"idle", "accepted", "registered", "serving", "inserted",
                       "trimmed", "telling", "leaving", "removed", "parting",
                       "gone"}]
  /\ user \in [Conns -> Users \cup {None}]
  /\ open \subseteq Conns
  /\ hist \in [Conns -> Seq(Messages)]
  /\ \A c \in Conns : Len(hist[c]) <= HistoryLimit
  /\ rx \in [Conns -> Seq(Messages \cup Users)]
  /\ out \in [Conns -> Nat]
  /\ posting \in [Conns -> Messages \cup {0}]
  /\ todo \in [Callers -> SUBSET Conns]

Init ==
  /\ call = [u \in Users |-> "before"]
  /\ db = <<>> /\ author = <<>> /\ saved = <<>>
  /\ missed = 0 /\ unread = {}
  /\ group_conns = [u \in Users |-> None]
  /\ latest = group_conns
  /\ pc = [c \in Conns |-> "idle"]
  /\ user = [c \in Conns |-> None]
  /\ open = {}
  /\ hist = [c \in Conns |-> <<>>] /\ rx = hist
  /\ out = [c \in Conns |-> 0] /\ posting = out /\ since = out
  /\ todo = [k \in Callers |-> {}]

Goto(c, label) == pc' = [pc EXCEPT ![c] = label]

-----------------------------------------------------------------------------
(***************************************************************************)
(* broadcast, as part of its callers.                                      *)
(***************************************************************************)

\* The senders in the map when caller k takes the read lock.
Receivers(k) == {group_conns[u] : u \in Users} \ {None}

Take(k) == todo' = [todo EXCEPT ![k] = Receivers(k)]

\* Nobody holds the read lock: the write lock can be taken.
Unlocked == \A k \in Callers : todo[k] = {}

\* Fault: the receiver stays to be reached.
SendTwice(k, d, frame) ==
  /\ d \in todo[k]
  /\ rx' = [rx EXCEPT ![d] = Append(@, frame)]
  /\ \/ todo' = [todo EXCEPT ![k] = @ \ {d}]
     \/ rx[d] = <<>> /\ UNCHANGED todo
  /\ UNCHANGED <<tableVars, mapVars, pc, user, open, hist, out, posting>>

\* One iteration of the loop.  The receiver of a sender in the map is alive.
Send(k, d, frame) ==
  /\ d \in todo[k]
  /\ rx' = [rx EXCEPT ![d] = Append(@, frame)]
  /\ todo' = [todo EXCEPT ![k] = @ \ {d}]
  /\ UNCHANGED <<tableVars, mapVars, pc, user, open, hist, out, posting>>

-----------------------------------------------------------------------------
(***************************************************************************)
(* group_ws and group_ws_handler up to its loop.                           *)
(***************************************************************************)

Accept(c, u) ==
  /\ pc[c] = "idle"
  /\ user' = [user EXCEPT ![c] = u]
  /\ open' = open \cup {c}
  /\ Goto(c, "accepted")
  /\ UNCHANGED <<tableVars, mapVars, hist, rx, out, posting, todo>>

\* The client is gone before the upgrade.
Abandon(c) ==
  /\ pc[c] = "accepted"
  /\ c \notin open
  /\ Goto(c, "gone")
  /\ UNCHANGED <<tableVars, mapVars, user, open, hist, rx, out, posting, todo>>

\* Replaces, and thereby drops, the sender of the user's other connection.
Register(c) ==
  /\ pc[c] = "accepted"
  /\ Unlocked
  /\ group_conns' = [group_conns EXCEPT ![user[c]] = c]
  /\ latest' = [latest EXCEPT ![user[c]] = c]
  /\ since' = [since EXCEPT ![c] = Len(author)]
  /\ Goto(c, "registered")
  /\ UNCHANGED <<tableVars, user, open, hist, rx, out, posting, todo>>

\* Fault: LIMIT HistoryLimit + 1.
OneTooMany(s) == SubSeq(s, IF Len(s) > HistoryLimit THEN Len(s) - HistoryLimit
                                                    ELSE 1, Len(s))

\* ORDER BY id DESC LIMIT HistoryLimit.
Newest(s) == SubSeq(s, IF Len(s) > HistoryLimit THEN Len(s) - HistoryLimit + 1
                                                ELSE 1, Len(s))

\* A failed SELECT counts as no rows.
ReadHistory(c) ==
  /\ pc[c] = "registered"
  /\ \/ hist' = [hist EXCEPT ![c] = Newest(db)] /\ UNCHANGED unread
     \/ DbFails /\ unread' = unread \cup {c} /\ UNCHANGED hist
  /\ Goto(c, "serving")
  /\ UNCHANGED <<call, db, author, saved, missed, mapVars, user, open, rx, out, posting, todo>>

-----------------------------------------------------------------------------
(***************************************************************************)
(* The loop of group_ws_handler.                                           *)
(***************************************************************************)

\* A "msg" frame is read and its INSERT tried; a failure is ignored.
Insert(c) ==
  /\ pc[c] = "serving"
  /\ c \in open
  /\ Len(author) < MaxMsgs
  /\ author' = Append(author, c)
  /\ posting' = [posting EXCEPT ![c] = Len(author')]
  /\ \/ db' = Append(db, Len(author')) /\ saved' = Append(saved, Len(author'))
     \/ DbFails /\ UNCHANGED <<db, saved>>
  /\ Goto(c, "inserted")
  /\ UNCHANGED <<call, missed, unread, mapVars, user, open, hist, rx, out, todo>>

\* Fault: one row is deleted for each one inserted.
TrimOldest(c) ==
  /\ pc[c] = "inserted"
  /\ db' = (IF Len(db) >= HistoryLimit THEN Tail(db) ELSE db) /\ missed' = 0
  /\ Goto(c, "trimmed")
  /\ UNCHANGED <<call, author, saved, unread, mapVars, user, open, hist, rx, out,
                 posting, todo>>

\* The DELETE; a failure is ignored.
Trim(c) ==
  /\ pc[c] = "inserted"
  /\ \/ db' = Newest(db) /\ missed' = 0
     \/ DbFails /\ missed' = missed + 1 /\ UNCHANGED db
  /\ Goto(c, "trimmed")
  /\ UNCHANGED <<call, author, saved, unread, mapVars, user, open, hist, rx, out,
                 posting, todo>>

Tell(c) ==
  /\ pc[c] = "trimmed"
  /\ Take(c)
  /\ Goto(c, "telling")
  /\ UNCHANGED <<tableVars, mapVars, user, open, hist, rx, out, posting>>

Told(c) ==
  /\ pc[c] = "telling"
  /\ todo[c] = {}
  /\ Goto(c, "serving")
  /\ posting' = [posting EXCEPT ![c] = 0]
  /\ UNCHANGED <<tableVars, mapVars, user, open, hist, rx, out, todo>>

\* A frame of the channel is written to the socket.
Forward(c) ==
  /\ pc[c] = "serving"
  /\ out[c] < Len(rx[c])
  /\ c \in open
  /\ out' = [out EXCEPT ![c] = @ + 1]
  /\ UNCHANGED <<tableVars, mapVars, pc, user, open, hist, rx, posting, todo>>

\* The socket ends, or what is written to it fails.
SocketEnds(c) ==
  /\ pc[c] = "serving"
  /\ c \notin open
  /\ Goto(c, "leaving")
  /\ UNCHANGED <<tableVars, mapVars, user, open, hist, rx, out, posting, todo>>

\* Fault: the handler does not drain its channel.
DropQueued(c) ==
  /\ pc[c] = "serving"
  /\ group_conns[user[c]] # c
  /\ Goto(c, "leaving")
  /\ UNCHANGED <<tableVars, mapVars, user, open, hist, rx, out, posting, todo>>

\* Fault: the handler is not told that its sender was dropped.
KeepServing(c) == FALSE /\ UNCHANGED vars

\* recv() = None: the sender was dropped and the channel is drained.
SenderDropped(c) ==
  /\ pc[c] = "serving"
  /\ group_conns[user[c]] # c
  /\ out[c] = Len(rx[c])
  /\ Goto(c, "leaving")
  /\ UNCHANGED <<tableVars, mapVars, user, open, hist, rx, out, posting, todo>>

\* remove(&username), whichever connection the entry belongs to.
Remove(c) ==
  /\ pc[c] = "leaving"
  /\ Unlocked
  /\ group_conns' = [group_conns EXCEPT ![user[c]] = None]
  /\ Goto(c, "removed")
  /\ UNCHANGED <<tableVars, latest, since, user, open, hist, rx, out, posting, todo>>

Part(c) ==
  /\ pc[c] = "removed"
  /\ Take(c)
  /\ Goto(c, "parting")
  /\ UNCHANGED <<tableVars, mapVars, user, open, hist, rx, out, posting>>

\* The handler returns.
Parted(c) ==
  /\ pc[c] = "parting"
  /\ todo[c] = {}
  /\ Goto(c, "gone")
  /\ UNCHANGED <<tableVars, mapVars, user, open, hist, rx, out, posting, todo>>

\* The client closes, or sends a frame that is neither text nor a Ping.
ClientCloses(c) ==
  /\ c \in open
  /\ open' = open \ {c}
  /\ UNCHANGED <<tableVars, mapVars, pc, user, hist, rx, out, posting, todo>>

-----------------------------------------------------------------------------
(***************************************************************************)
(* The last step of group_join and of group_leave; the connection of a     *)
(* user who leaves, if there is one, is left alone.                        *)
(***************************************************************************)
CallStep(u, from, to) ==
  /\ call[u] = from
  /\ call' = [call EXCEPT ![u] = to]
  /\ UNCHANGED <<db, author, saved, missed, unread, mapVars, pc, user, open, hist, rx, out,
                 posting>>

Announce(u) == CallStep(u, "before", "telling") /\ Take(u)

Answer(u) == todo[u] = {} /\ CallStep(u, "telling", "answered") /\ UNCHANGED todo

-----------------------------------------------------------------------------
\* Fault: the history is read before the connection is registered.
HistoryFirst(c) ==
  \/ Abandon(c)
  \/ /\ pc[c] = "accepted"
     /\ hist' = [hist EXCEPT ![c] = Newest(db)]
     /\ Goto(c, "registered")
     /\ UNCHANGED <<tableVars, mapVars, user, open, rx, out, posting, todo>>
  \/ /\ pc[c] = "registered"
     /\ Unlocked
     /\ group_conns' = [group_conns EXCEPT ![user[c]] = c]
     /\ latest' = [latest EXCEPT ![user[c]] = c]
     /\ since' = [since EXCEPT ![c] = Len(author)]
     /\ Goto(c, "serving")
     /\ UNCHANGED <<tableVars, user, open, hist, rx, out, posting, todo>>

Connect(c) ==
  \/ Abandon(c) \/ Register(c) \/ ReadHistory(c)

Serve(c) ==
  \/ Trim(c) \/ Tell(c) \/ Told(c) \/ Forward(c)
  \/ SocketEnds(c) \/ SenderDropped(c)

End(c) == Remove(c) \/ Part(c) \/ Parted(c)

Broadcast ==
  \/ \E c \in Conns, d \in Conns :
       Send(c, d, IF pc[c] = "telling" THEN posting[c] ELSE user[c])
  \/ \E u \in Users, d \in Conns : Send(u, d, u)

Next ==
  \/ \E c \in Conns :
       \/ \E u \in Users : Accept(c, u)
       \/ Connect(c) \/ Insert(c) \/ Serve(c) \/ End(c) \/ ClientCloses(c)
  \/ Broadcast
  \/ \E u \in Announced : Announce(u) \/ Answer(u)

Spec == Init /\ [][Next]_vars

(***************************************************************************)
(* Every handler that can run does, and the lock queues fairly: a writer   *)
(* that waits is served once the readers before it are done, although new  *)
(* broadcasts keep coming.  Clients that are there read.                   *)
(***************************************************************************)
Fairness ==
  /\ \A c \in Conns : /\ WF_vars(Connect(c)) /\ SF_vars(Register(c))
                      /\ WF_vars(Serve(c))
                      /\ WF_vars(End(c)) /\ SF_vars(Remove(c))
  /\ WF_vars(Broadcast)
  /\ \A u \in Announced : WF_vars(Answer(u))

FairSpec == Spec /\ Fairness

-----------------------------------------------------------------------------
(***************************************************************************)
(* Safety.                                                                 *)
(***************************************************************************)

Untrimmed == {c \in Conns : pc[c] = "inserted"}

\* Concurrent INSERTs and DELETEs, any of which may fail, leave the newest
\* HistoryLimit of all messages ever stored for a SELECT to find, and at most
\* one row too many for each handler in between and for each DELETE that
\* failed: the next that succeeds makes up for all of them.
HistoryKept ==
  /\ Newest(db) = Newest(saved)
  /\ Len(db) <= HistoryLimit + Cardinality(Untrimmed) + missed

InFlight == {posting[c] : c \in Conns}

Has(s, x) == \E i \in 1 .. Len(s) : s[i] = x

\* A client has a message live, in its history, or older than a full history.
Received(c, n) ==
  \/ Has(rx[c], n)
  \/ Has(hist[c], n)
  \/ Len(hist[c]) = HistoryLimit /\ \A i \in 1 .. HistoryLimit : n < hist[c][i]

\* A handler registers before it reads the history.  So while its sender is
\* in the map, its client has received live every message posted since,
\* stored or not, and nothing that was stored falls between history and live
\* messages: any message whose broadcast is over.
NoGap ==
  \A c \in Conns, n \in Messages \ InFlight :
    (\E u \in Users : group_conns[u] = c) =>
      /\ n > since[c] => Has(rx[c], n)
      /\ Has(saved, n) /\ pc[c] # "registered" /\ c \notin unread => Received(c, n)

\* Whatever overtakes what, a client gets the messages posted on one
\* connection in the order of posting, and each live at most once.
SenderOrder ==
  \A c \in Conns : \A i, j \in 1 .. Len(rx[c]) :
    i < j /\ rx[c][i] \in Messages /\ rx[c][j] \in Messages
      /\ author[rx[c][i]] = author[rx[c][j]] => rx[c][i] < rx[c][j]

\* DESIGN.md, group mode: users connect by WebSocket and get all messages in
\* real time.  At least the connection a user opened last does.
ConnectedGetAll ==
  ~DbFails =>
    \A c \in Conns, n \in Messages \ InFlight :
      pc[c] = "serving" /\ c \in open /\ latest[user[c]] = c => Received(c, n)

(***************************************************************************)
(* Liveness, under Fairness.                                               *)
(***************************************************************************)

\* Every frame put into a channel: each message, each departure, each call.
MaxFrames == MaxMsgs + Cardinality(Conns) + Cardinality(Announced)

\* A frame put into the channel of a client that stays reaches it, even when
\* a newer connection of the same user has replaced its sender.
FramesArrive ==
  \A c \in Conns, k \in 1 .. MaxFrames :
    Len(rx[c]) >= k ~> (out[c] >= k \/ c \notin open)

\* No handler outlives its client or its sender for ever: broadcasts that hold
\* the lock end, the entry is removed and the departure announced.
HandlersEnd ==
  \A c \in Conns :
    /\ (pc[c] # "idle" /\ c \notin open) ~> pc[c] = "gone"
    /\ (pc[c] = "serving" /\ group_conns[user[c]] # c) ~> pc[c] = "gone"
=============================================================================
