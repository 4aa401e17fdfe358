# naleys-server in TLA+

A formal model of naleys-server, the discovery, relay and group chat server of
Naleystogramm: TLA+ modules of the parts of the server where requests, sockets,
background tasks and the clock interleave, TLC configurations that check them on
small instances, and TLAPS proofs for every value of the constants.

The reference is the Rust source. Where it and `DESIGN.md` disagree, the modules
say what the code does, and a run shows the disagreement.

## 1. The system

One process (axum on the multi-threaded tokio runtime) serves either mode
`discovery` or mode `group`; the relay is part of both. Each request and each
WebSocket is a task of its own. Tasks share `AppState`: a pool of SQLite
connections, two mutex-protected maps of relay sessions, a map of group
connections under a read-write lock, the rate limiter and the minimal client
version. No lock is held across an `await` on anything else and no two queries
share a transaction, so any other task may run between two statements, and a
request is dropped at any `await` when its client hangs up.

| Component | State | Operations | What is hard about it |
|---|---|---|---|
| Relay sessions (`relay.rs`) | `relay_init`, `relay_pending`, table `relay_sessions` | create, join, WebSocket lookup, early returns of the creator's handler, cleanup | three separate lock regions per WebSocket, removal by session id, failed upgrades, deadline against cleanup |
| Relay pipe (`relay.rs`) | two channels, `pre_buffer`, a `Notify`, two sockets | phase 1 (wait), flush, phase 2 (forward), joiner's loop | `select!` races, wake-up before wait, order across the flush, ends of the two handlers |
| Group chat (`group.rs`) | `group_conns`, table `group_messages` | connect, history, post, trim, broadcast, teardown | reconnects, broadcasts in parallel, history against live messages |
| Group membership (`group.rs`) | tables `group_members`, `group_config` | join, leave | check-then-act over four queries, failing counts |
| Rate limiter (`rate_limit.rs`) | a map of `Vec<Instant>` for each kind of request | allow_register, allow_lookup | boundaries of the sliding window |
| Accounts (`discovery.rs`, `db.rs`) | tables `users`, `presence`, `invites` | register, unregister, invite_create | nine queries without a transaction, invites and limits checked early and used late |
| Tokens (`discovery.rs`, `auth.rs`) | table `tokens` | refresh, resolve_token | count, delete, insert as separate queries; text comparison of times |
| Presence (`discovery.rs`) | table `presence` | update, heartbeat, lookup, search, info | `online` asked by ip |
| Version gate (`version.rs`) | `min_version` | refresh_loop, satisfies | unreachable GitHub, unparsable versions |
| Configuration, router, errors | none after start | | |

How they interact: `relay_create` and `relay_join` call `resolve_token` of the
discovery part (in group mode the table it reads is never filled, so the relay
refuses everybody there); `register` and `lookup` ask the rate limiter first;
`register` reads the version gate; join, leave and every group handler call
`broadcast`, which only reads `group_conns`; nothing else is shared.

What makes each part correct is stated in section 3.

## 2. Modules

| Module | Content | Code |
|---|---|---|
| `RelaySessions` | life cycle of relay sessions | `relay.rs` create, join, `relay_ws`, both handlers as far as they touch the maps, `cleanup_loop` |
| `RelayPipe` | one `PendingRelay` object: both handlers, channels, clients | `creator_ws`, `joiner_ws` |
| `Handshake` | abstract: how the two handlers of one `PendingRelay` object meet | |
| `FifoPipe` | abstract: what a direction of the relay promises its two clients | |
| `GroupChat` | group WebSocket handlers, history, broadcast | `group_ws`, `group_ws_handler`, `broadcast`, the announcements of join and leave |
| `GroupMembers` | join and leave as they change the tables | `group_join`, `get_or_create_group_key`, `get_member_count`, `group_leave` |
| `RateLimiter` | one map of the limiter | `check` |
| `Admission` | composes the limiter with the version gate, as `register` calls them | `refresh_loop`, `fetch_latest`, `satisfies`, the start of `register` |
| `Accounts` | the tables of users, tokens and invites | `register`, `unregister`, `token_refresh`, `invite_create`, `resolve_token` |
| `Credentials` | abstract: what the server promises the holders of its tokens | |
| `Presence` | who is online, and how long a token lives | what `register` stores, `update`, `heartbeat`, `lookup`, the expiry in `resolve_token` |
| `MC*` | symmetry for TLC | |
| `*_proof` | theorems and their proofs | |

Definitions whose comment begins with "Fault:" are no part of a specification:
each is a variant of the definition that follows it, with a mistake one could
make in that code, and shows that some property notices.

### RelaySessions

A session is named after the create call that makes it and a `PendingRelay`
object after the connection of the creator that makes it. `relay_init` is a set,
`relay_pending` maps a session to its object or `None`. `pc[c]` follows the
handler of connection `c`: for a creator `cloned` (the session was copied out of
`relay_init`), `removed`, `upgrading` (inserted into `relay_pending`), `waiting`
(phase 1), `linked` (phase 2); for a joiner `missed` (not in `relay_init`), `taken`
(entry removed from `relay_pending`), `joined` (has notified); `gone` at the end.
Each step between two of them is one lock region of `relay_ws` or one branch of a `select!`.
Phase 1 answers a Ping inside such a branch and awaits the sending of the Pong there: until
that is done (`ponging`) no branch is polled, neither the joiner's notification nor the
deadline, and only the client can end it, by reading (`PongTaken`) or by going away
(`PongFails`). A Pong that fits into the socket's buffer counts as taken.
`CreatorLeaves` removes by session id, whatever object the entry holds by then, as
the code does. `cleanup_loop` is two actions, since it reads the clock once and
then takes the two locks one after the other. `open` says which clients are still
there; clients may go at any time, before the upgrade too (`WsAbandon`).

Time is in ticks. `age` is the time since `created_at`, `left` the time to the
creator's deadline. The one assumption on the speed of the server is
`SetupDelay`: a handler takes less than the 30 seconds of `Slack` from the lookup
to the upgrade. The 60 seconds between two rounds of the cleanup are left out: a
round may begin at any time.

`relay_create` compares `max_sessions` with the entries of both maps and inserts later; in
between, and while a creator's socket carries its session from one map to the other, the
session counts nowhere. `InProgress` are the sessions in such hands, and the history
variable `peak` is the most there were at once. `SessionBound` says that the limit is
exceeded by no more than that.

### RelayPipe, FifoPipe and Handshake

`RelayPipe` begins when the object is in `relay_pending` and follows both handlers
to their end. Each iteration of a loop is one action per `select!` branch; the
flush is part of leaving phase 1, because nothing awaits between two of its
`send`s and nobody else sends on that channel. `wireA`, `wireB` are frames a client
has sent and its handler has not read; `takenA`, `takenB` record what was read,
`gotA`, `gotB` what was written to a client that was still there. The branch
`recv() = None` has no action: it needs every sender dropped, and each handler
holds one in its own `Arc<PendingRelay>`. `FifoPipe` has two variables, what one
client handed over and what the other received, and says that the second is
always a prefix of the first and both only grow. What other tasks do to the object's
entry, the cleanup or another socket of the creator, is `PurgeEntry`, at any time.

`Handshake` is what the two modules of the relay have in common: of one object its
entry, where its creator and its joiner are, and the permit of its `Notify`. An object is
found once, only the one that found it wakes the creator, and the permit is used once
and never lost. `RelaySessions` implements it for each connection of a creator,
`RelayPipe` for the one pair it follows (`HandlersMeet` of either), so that what
`RelayPipe` assumes of its surroundings is what `RelaySessions` shows they do.

### GroupChat

A message is named by its place in the order of the INSERTs. `group_conns` maps a
user to the connection whose channel the entry's sender belongs to, `rx[c]` holds
every frame ever put into the channel of `c` and `out[c]` how many of them were
written. `broadcast` takes the set of receivers with the read lock (`Take`) and
sends to them one by one (`Send`), several broadcasts at once; `Register` and
`Remove` need the write lock (`Unlocked`). INSERT, trimming DELETE and broadcast of
a post are three actions, as are the removal, the announcement and the end of a
handler. Whether a user is a member is left to `GroupMembers`.

With `DbFails` each of the three queries may fail, and the code ignores it: a message that
was not stored is broadcast, a history that was not read is not sent. Four history variables
say what the properties need to know: `saved`, the messages whose INSERT succeeded; `missed`,
how many DELETEs failed since the last one that did not; `unread`, the connections whose
SELECT failed; and `since`, how many messages had been posted when a connection was
registered. So `HistoryKept` compares the table with what was stored, and
`NoGap` promises live messages whatever fails, and the older ones if they were stored and
the history could be read.

### GroupMembers

`group_join` is one action per query; `pc[k]` follows call `k`. An error of the
count is taken for zero, as `unwrap_or((0,))` does (`DbFails`), and the primary key
of `group_config` makes the second of two INSERTs of the group key fail. Leaving
resolves the token and deletes by username in two steps. A call may be dropped
between any two queries. `Joining` are the calls between the comparison with `max_members` and
the INSERT, `peak` is the most there were at once, and `miscounted` says that a call was let
in on a count that had failed: then nothing bounds the members, otherwise
`MemberBound` does.

### RateLimiter

`check` holds the lock of the map throughout, so a call is one action, granted or
denied. `granted` remembers all requests ever granted; the `Vec` is represented by
the positions of its elements in it.

### Admission

Extends `RateLimiter` by the version gate, the next thing a registration meets.
Versions that semver parses are numbers in their order, any other text is
`Unparsable`, a request without `client_version` is `Absent`. `refresh_loop` exists only
if the configuration says `latest`; it is two actions, `Fetch` (the answer of GitHub) and
`Store` (the write lock), so that releases and registrations come in between, and
`FetchFails` changes nothing. A request is counted by the limiter (`Arrive`) before the
gate looks at its version (`TooOld`, `Pass`). The repository knows GitHub only as the
URL it asks; that releases get newer, as far as their tags can be compared, is an
assumption of the model (`Publish`).

### Accounts and Credentials

A task is a request in progress, and each statement its handler runs is an action.
`Abort` stands for every way a handler can end without a further change: an early
return, a statement that fails, a client that hangs up. If the client is gone only
when the last statement is done, the answer is lost (`told = FALSE`). Users and tokens
are named by their rowids, which AUTOINCREMENT does not give out twice. The foreign keys
and their cascades are in the actions that meet them: `Unregister` takes presence and
tokens along and makes the invite unused, `RefreshInsert` and `InviteCreate` are refused
for an account that is gone. `known` and `opened` record what clients were answered and
`guests` how many registrations a code has admitted since its row was last unused; no
action's guard reads them but `Resolve` (a client can only send a token it was given).
Nothing limits how many answers are lost or how many requests run at once but the size of
`Tasks`; `MaxRows` bounds the rows ever inserted.

`exposed` are the users who may lose their last token. A refresh at `max_per_user` deletes
the oldest token before it inserts one, so refreshes that run together, or whose answers
were lost, use up the tokens a user knows: a user is exposed by the refresh with which his
refreshes in progress and the tokens he was not told of reach `max_per_user` together
(`Expose`), and until he refreshes alone with fewer of the latter. `exposed` is a history
variable too, and counts the requests of one user only.

`Credentials` has the view of the clients: accounts, deleted accounts, exposed accounts,
tokens handed out and tokens accepted. An account comes with a token, a token is revoked only
if the account has another one or is exposed, and a deleted account gets no more of either.

### Presence

Time is in ticks, `Day` of them to a day. `expires_at` has a `T` where
`datetime('now')` has a space, so that comparing the texts compares the dates and,
if these are equal, takes the token for valid (`Accepted`).

`register` is in the module with what it stores, the INSERTs into `users`, `presence` and
`tokens`, each an action after which the request may fail or be dropped (`Abort`): an
account may be in `users` only, or in `presence` too although its owner was never answered.
Users are numbered as AUTOINCREMENT does. `lookup` is two actions: the first reads the ip,
the second asks for a row with that ip and gets the one with the lowest id, as a scan in the
order of the rowid does.

Two history variables say what is known of a user: `heard`, when the latest of its requests
that was answered began, and `acted`, when a request of it last stored anything. They differ by
the requests that were stored and not answered, or are still in progress. `last_seen` lies
between the two, and so does what `lookup` can promise (`OnlineIsRecent`).

## 3. Runs and what they show

Runs that pass:

| Run | Instance | Properties |
|---|---|---|
| `RelaySessions` | 1 session, 1 joiner, 3 sockets, timeout 1, slack 2, setup delay 1; 169k states | `LeftInitForGood`, `OneToOne`, `JoinerIsAudited`, `WaitingCreatorIsReachable`, `HandlersMeet` (refinement of `Handshake`) |
| `RelaySessions_live` | 2 sessions, 1 joiner, 2 sockets, one place, timeout 1; 354k states | `SessionBound`, `WaitingEnds`, `EntriesDrain`, `CapacityReturns` |
| `RelayPipe` | 2 payloads, Ping, another frame, 2 frames per client; 41k states | `NothingLost`, `FramesInOrder` (refinement of `FifoPipe` by each direction), `HandlersMeet` (of `Handshake`), `LinkedFramesArrive` |
| `GroupChat` | 2 users, 2 connections, 2 messages, history of 1, failing queries; 1.2M states | `HistoryKept`, `NoGap`, `SenderOrder` |
| `GroupChat_live` | 1 user with 2 connections, 1 message, an announcement; 46k states | `FramesArrive`, `HandlersEnd` |
| `GroupMembers` | 3 users who may leave, 3 joins, a limit of 1, failing counts; 72k states | `KeyAgreement`, `OwnedGroup`, `MemberBound` |
| `Admission` | 1 address, limit 2, window 3, 7 ticks, 1 request at a time, 2 releases and tags that do not parse; 1.2M states | `SlidingWindow`, `DeniedOnlyWhenFull`, `FloorHolds`, `NewestPasses` |
| `Accounts` | 2 requests at a time, 3 names, 1 code, 1 place, 3 tokens per user, 6 rows; 1.4M states | `TokenMeansAccount`, `UserBound`, `TokenBound`, `InviteBound`, `HoldersKeepAccess` (refinement of `Credentials`) |
| `Presence` | 2 users, 2 addresses, 2 requests at a time, 3 days of 2 ticks, tokens for 1 day, offline after 2 ticks; 2.8M states | `AnsweredIsListed`, `TokenLife`, `OnlineIsRecent` |

Every module also has a type invariant, checked in its first run.

Why the bounds are enough: three sockets are what it takes for two creators' sockets and a
joiner, or a creator and two joiners, to meet in one session; sessions do not interact except
in the count of `relay_create`, for which there is a run with two and one place, where either
is in progress while the other is counted or not. A timeout of one tick, a slack of two and a
setup delay of one are the least values for which all orders of deadline, upgrade and cleanup
occur; the liveness run has a countdown of one tick too, which is where a Ping can hold it up.
Two payloads let frames be told apart, two frames per client put one before and one after the
flush. Connections of the group meet in pairs (old and new of one user, or two users); one
message more than the history keeps makes trimming matter, and of two messages either may be
stored and the other not. Three joins and one place are what it takes for two of them to enter
on one count and for a third to meet a limit already exceeded. Seven ticks are more than two
windows, and one address is enough as each has a `Vec` of its own; two releases are what it
takes for a fetch to be overtaken. With one place and one code, two registrations exceed the
place and share the code, and there are rows for one of them to be deleted and the code to be
used again meanwhile. Three tokens per user are the least with which a user who runs one
refresh can lose its answer and not be exposed; with two refreshes, or two answers lost, he is,
so both sides of `HoldersKeepAccess` occur. Six rows are a user, his three tokens and two more,
so that refreshes run at the limit of a user, one after the other or together. A day of two
ticks has a time before and a time at which a token expires on the same date; three days see a
token issued, valid and expired; with an offline time of two ticks a request that takes one is
still recent when it is answered, and one that takes two is not.

Runs that find a disagreement, each with its quotation under `findings` in
`PROJECT.json`:

| Run | Property | What happens |
|---|---|---|
| `RelayPipe_close` | `SessionClosesWithEither` | a handler does not end when its peer's does |
| `GroupChat_evicted` | `ConnectedGetAll` | the old connection's teardown evicts the user's new connection |
| `Presence_online` | `OnlineIsOwn` | of two users behind one address, the one with the higher id, who stored nothing for the whole time, is answered online because the other did |

Smaller ones, without a run because a step or two show them:

* `max_sessions` (DESIGN.md:204): `relay_create` compares it after the locks were released, so
  two calls get one place (`SessionBound` says how many at most), and does not count linked
  sessions.
* A creator that sends a Ping and does not read keeps its handler, and its entry until the
  cleanup takes it, beyond `session_timeout_seconds` (DESIGN.md:205): the Pong is awaited in the
  branch that read the Ping (`relay.rs:233`), and the deadline is not polled. `WaitingEnds` is
  about the others.
* The audit row names the last user who asked for `token_b` (`relay.rs:114`), whoever connects
  with it; `JoinerIsAudited` says that some joiner is recorded.
* A joiner that connects before the creator is answered "invalid token" (`relay.rs:148`,
  against the order left open by DESIGN.md:180).
* `max_session_bytes` is read by no code; `token_b` is returned to every caller of join until
  the creator connects; a creator with two sockets may lose its entry (the reason
  for `OnlyCreator` in `WaitingCreatorIsReachable`).
* Two first joins of a group both become owner, and `max_members` is exceeded in the same way
  (`group.rs:173`, `group.rs:148`): the count and the INSERT are separate queries. `MemberBound`
  says by how much, and that a count that fails, which is taken for zero, lifts the limit. Leaving
  a group does not close the connection.
* A message whose INSERT fails is broadcast all the same (`group.rs:335`): those connected have it,
  those who come later never get it. `NoGap` says what remains true.
* `max_users` (DESIGN.md:73) is exceeded by registrations that run at once, an invite admits
  several of them: `UserBound` and `InviteBound` say how many at most.
* A user with `max_per_user` refreshes at once, or with that many whose answers were lost, may
  end without a token that works: the last one known is deleted to make room (`discovery.rs:386`)
  and the request then fails or is dropped. `HoldersKeepAccess` says that it takes as many.
* A registration that breaks off leaves its name taken: by an account that no lookup finds
  (before `discovery.rs:195`) or by one that is listed, as online even, although nobody was
  answered (after it). `AnsweredIsListed` is about those who were.
* A token is accepted until the end of the day it expires on (DESIGN.md:74): `TokenLife`.

## 4. Fairness

Only the server is assumed to make progress, never a client. `RelaySessions`: a
handler that can take a step does so eventually (tokio polls every woken task), both
halves of a cleanup round and the clock go on. The deadline of phase 1 has strong fairness:
its `sleep_until` is ready at every poll once it has passed, and `select!` draws the branch it
polls first at random, so that a client which sends one Ping after the other delays it but not
for ever. Reading is up to the client (`PongTaken` has no fairness): a client that sends a Ping
and neither reads nor goes away holds its handler, and `WaitingEnds` is claimed for connections
that are out of `ponging` again and again; `EntriesDrain` and `CapacityReturns` hold all the
same, since the cleanup removes the entry. `RelayPipe`: each `select!` branch that
stays ready is taken eventually, because `select!` polls its branches in random order;
the clock is not assumed, so the deadline may or may not strike. `GroupChat`: as for
the relay, and strong fairness for the two actions that take the write lock, since
tokio's `RwLock` queues fairly and a waiting writer is not overtaken for ever by new
readers; a client that is still connected reads what is written to it. The modules of the
discovery part state no fairness: they promise nothing that must eventually happen, as every
request may be dropped and the clock and the releases may stop.

## 5. What is proved

All theorems hold for any constants that satisfy the named assumption of the module, and
where it says so for more: nothing is assumed of the sizes of the sets, and the bounds of the
model checker (`MaxTime`, `MaxIds`, `MaxRows`, `MaxFrames` and the like) may be any
numbers. Those named `*Assumption` say that markers like `None` are no values, that limits
are natural numbers, and for the relay that setup takes less than the slack
(`SetupDelay < Slack`), on which only `WaitingIsReachable` depends.

`RelaySessions_proof`. Invariant `IInv` strengthens the type invariant by what the program
counter of a connection says about the other variables: a creator past `cloned` has taken its
session out of `relay_init` and no create call can bring it back, an entry of `relay_pending`
is a creator's object of that session which no joiner has taken, a joiner's `peer` is such an
object and nobody else's, and a permit or a linked creator has a joiner that has started. None
of the properties is inductive by itself: that an entry is in nobody's hands, for instance, is
what `OneToOne` needs when the next joiner takes it. One lemma per group of actions shows that
`IInv` is preserved; `PairedOnce`, `LinkedToJoiner`, `NeverBackInInit`, `WakeupIsKept`, `Audit`
and `TypeCorrect` follow. (`LinkedHasPeer` and `NoLostWakeup`, parts of the invariant, are
stated in the proof module only: `Handshake` says the same and more.) `WaitingIsReachable` adds
the clocks (`Clocks`): an entry's age is at most the setup delay when the deadline is set, so
age and remaining time add up to no more than the timeout and the delay, which is less than the
grace; a cleanup round only holds entries that are at least that old. `Reachable` is the
property for creators that are still being upgraded too.

`SessionsBound` counts the sessions that are in a map or in somebody's hands (`InUse`): the
maps alone are no measure, since a session leaves one before it enters the other. `Counted` says
that they are finitely many, although there may be infinitely many names for sessions, and
fewer than the limit and `peak` together: a call is admitted when the maps hold fewer than
the limit, and `peak` is by then at least all that is in progress; no other step brings a
session into use. `Rendezvous` goes through the steps once more and
says which step of `Handshake` each one is for a given connection: most are none, and a
change of its entry that is not its own is `Remove`.

`RelayPipe_proof`. `OnTheWay` says of each direction that what was read is what was
delivered, followed by the channel and, from the creator, by `pre_buffer`; after a creator
that left early something unnamed is missing at the end, which is why the invariant has a
`rest`. `NothingIsLost` follows, and so does the refinement of `FifoPipe` by both
directions (`PipesImplemented`): a frame that is written to a client is the next of those
read. `Rendezvous` is the refinement of `Handshake`.

`GroupChat_proof`. `TrimmingIsSafe`: `Recent` says that the table is an end of the sequence of
all messages ever stored, all of it or at least `history_limit` long, whoever trims and
whichever query fails; so what a SELECT finds depends on `saved` alone (`NewestKept`). `Few`
bounds the table by the handlers yet to trim and the DELETEs that failed in a row (`missed`),
which the next one that succeeds makes up for. `OrderIsKept`: a handler works on the last
message of its connection (`Own`), and no channel it has yet to reach holds that message
(`Unsent`). `NothingMissed`: a message that a connection in the map should have and has not is
in the hands of a handler that will still send it there (`Heard`, `Pending`). For the history
one needs that messages are stored in the order of their names (`Ascending`): then one that was
stored and is not in a history frame is older than all in it, and the frame is full.

`GroupMembers_proof`. `SharedKey` needs that a key not yet in the database is the
call's own; `HasOwner` needs that a call which was told "member" has seen a member
and that nobody has left since. `MembersBound` counts the members and the calls that have
passed the check together. `RoleStays` (a member who joins again keeps the role) is an
action property that only the proof module states.

`RateLimiter_proof`. `LimitHolds` says of every window of time, for any limit, window
and number of requests, that it holds no more granted requests than the limit. The
invariant says that `granted` is sorted, that the `Vec` is a final segment of it and
that whatever is missing from the `Vec` is at least a window old; the argument at a
grant counts the positions between the oldest kept and the newest. `NoSpuriousDenial`
is the converse.

`Admission_proof`. A step of `Admission` is a step of the limiter or leaves it alone, so its
invariant and both properties carry over (`AdmissionLimited`, `AdmissionNotDenied`).
`GateInv` orders the versions: what is in force or has been fetched is no newer than the
newest release and no older than any minimum before it, as far as it can be compared.
`FloorIsKept` and `NewestIsLetIn` are action properties that follow at the step in question.

`Accounts_proof`. `Core` is the type invariant with who may act for whom: a registration in
progress holds the rowid it inserted, which nobody was told and no other task has, so its
account can neither be deleted nor get a token from elsewhere. `WholeAccounts` follows. The
limits are counted with the requests that have passed the check: users and those about to
insert one (`UserCount`), tokens of a user and the refreshes about to add one
(`TokenCount`), admissions of a code and the registrations that use it (`InviteCount`);
each sum stays below the limit plus the number of tasks. `AccessKept` is the refinement of
`Credentials`, without a further assumption. A refresh of a user who is not exposed and which
deletes a token must leave another that its client knows. `Uncrowded` says that the refreshes of
such a user and his lost tokens are fewer than `max_per_user`. `Spare` says that he knows
more tokens than there are refreshes about to delete one: a refresh gets there by counting
`max_per_user` tokens, and those of them that were not lost are more than the refreshes in
progress; from there on each DELETE takes one token and one refresh away together. For an
exposed user this fails, as in the code: with two tokens, two refreshes delete both before
either inserts, and if both are dropped then, the user is locked out.

`Presence_proof`. `AnsweredAreListed` needs what a registration in progress has (`Joining`):
its account exists, nobody was told of it, no other registration has it (`Apart`), and past the
second INSERT it has a row; for a request with a token (`Asking`), that its user was answered
or is gone. `LookupIsRight` needs that `last_seen` is no earlier than the last answered request
of the user and no later than the last that stored anything (`SeenBetween`), although requests
overtake each other and an answer may be lost. `TokensLastLongEnough` is arithmetic on days
(`DayBounds`, `Later`), for any length of a day and any `ttl_days`.

Only model-checked: liveness (`WaitingEnds`, `EntriesDrain`, `CapacityReturns`,
`LinkedFramesArrive`, `FramesArrive`, `HandlersEnd`), which is out of the prover's reach.

## 6. What is not modelled

* A crash or restart: all state of the relay, of the connections, of the limiter and of
  the version gate is lost with the process, and the tables hold what some prefix of the
  statements has written, which the models reach anyway because a request may be dropped
  between any two of them (for all requests at once: `Abort` of each task).
* Cryptography, token and id generation: names that are never drawn twice. (An invite code
  has only some 32 random bits; the primary key refuses a second of the same text.)
* Sizes of payloads and memory: channels are unbounded in the code.
* Read-only endpoints, which change nothing: `/info` of either mode, `/search`,
  `/group/members` and `/group/history`. (`/info` counts as online who was seen within 30
  minutes whatever `offline_after_minutes` says; `_` in a search is a wildcard of LIKE.)
* In the group: `broadcast_only`, which only decides who may post, and `history: false`,
  which leaves out the history frame. `allow_file_relay` is read by no code, `invite_only`
  and `require_invite` only by `/info`: an invite is asked for when registration is closed.
* The syntax checks of `register` (length and characters of a name, addresses, ports): they
  refuse before anything is written.
* The composition of the discovery part with the relay: `relay_create` and `relay_join` ask
  `resolve_token` once and keep its answer, so that a relay session outlives the
  token or the account of its creator; the two share no other state.
* Configuration parsing, migrations, packaging.

## 7. Plan

Done: the relay, its pipe and the handshake both implement; the group chat, also under
failing queries, and its membership; limiter and version gate; accounts, tokens and presence;
proofs of every safety property and every refinement the runs check. What could come next:

1. `Presence` with `token_refresh` and with time in `Accounts`, so that the expiry of a token and
   its removal as the oldest meet in one module.
2. One module of the group that joins `GroupMembers` to `GroupChat`, if the code comes to
   relate a membership to its connection (today it does not).
3. A bound on the queues of relay and group, once the code has one.
