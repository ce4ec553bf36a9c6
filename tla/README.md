# cursorIM in TLA+

cursorIM is an instant-messaging server in Go: clients connect by WebSocket or
TCP, send messages to users or groups, and see when their friends come and go.
Several server processes share MySQL and Redis. This directory models the parts
of it in which goroutines, processes and clients meet, checks them with TLC on
small instances, and proves their safety properties with TLAPS for any number of
servers, users, connections, messages and requests.

## The system

| component | state | operations | interacts with |
|---|---|---|---|
| connection manager (`internal/connection/optimized_connection_manager.go`) | the map user → connection id → connection under a read-write mutex; a queue of 1000 messages | `RegisterConnection`, `UnregisterConnection` (by type), `SendMessage`, `processMessage`, the listener, `Run`, `Close` | registry, status manager, connections, Redis channel `server_msg:<id>` |
| user registry (`user_registry.go`) | a local set of users under its own mutex; Redis `user_registry:<user>` with five minutes to live, and `server_users:<id>` | `RegisterUser`, `UnregisterUser`, `FindUserServer`, heartbeat, `CleanupServerUsers` | Redis |
| connection handlers (`internal/server`) | one goroutine per connection | authenticate, kick, register, announce, wait for `done`, announce, unregister; save and forward every message | manager, message service |
| enhanced connections (`enhanced_websocket.go`, `enhanced_tcp.go`) | channels `done` and `send` (256), the socket | `SendMessage`, `Close`, `StartReading`, `StartWriting`; no lock | handler, manager, client |
| message service (`internal/chat/message_service.go`) | three message tables; a channel of 100 notifications | `SaveMessage`, `BroadcastStatus`, `processNotifications` | MySQL, manager |
| accounts and friends (`internal/user`) | users, friendships | register, log in, `AddFriend` | MySQL |
| group service (`internal/group`) | groups and group_members | create, invite, leave, rename, dissolve | MySQL |
| status manager (`internal/status`) | a cache of user statuses; in Redis the record, a hash of flags and the set of online users | `UpdateUserStatus`, queries, cleanup | manager, Redis, the HTTP heartbeat |
| conversations (`internal/chat/chat_service.go`) | conversations, participants with their last-read time | open, mark as read, list | MySQL, message service |
| protocol adapter and framing (`internal/protocol`, the readers of the connections) | a buffer and the flag and size of a frame | `JSONToProtobuf`, `ProtobufToJSON`, read flag, length, body; split JSON texts | connections |
| legacy manager (`redis_manager.go`, with the handlers of `connection_handler.go`) | two maps under one mutex; in Redis two sets and a key per user and type; a queue of 1000; the rows "unsent" of the table of messages | `RegisterConnection`, `UnregisterConnection` (by type), `SendMessage`, `processMessage`, the subscription, `storeOfflineMessage`, `sendOfflineMessages`, `Run`, `Close` | legacy connections, Redis channels `message_to:<user>`, MySQL |
| legacy connections (`websocket.go`, `tcp.go`) | as the enhanced ones | as the enhanced ones, JSON only; the TCP one reads texts without lengths and sends without looking at `done` | legacy manager, client |
| routes, JWT, configuration, generated code, web client, tools | | wiring | |

What is hard here is concurrency without a common lock: the manager's mutex
covers only its map; the registry, two Redis keys, the status cache and the
notifications are updated after it has been released, one after the other, by as
many goroutines as there are connections. The list `hazards` in `PROJECT.json`
names every such place by its line, with the properties aimed at it.

What makes each component correct: of the manager and the registry, that a
connection is reachable while it is served and leaves nothing behind when it is
not; of the routing, that a message is in one place and ends; of a connection,
that it is a bounded first-in first-out box for its senders and that a dead end
is noticed; of the message service, that what is forwarded is saved, and friends
are told in order; of the group service, that a group keeps its owner as its
admin and that a membership belongs to a group; of the status manager, that Redis
ends with what the servers know; of conversations, that two users have one and
that what was read stays read; of the legacy manager, that its maps and its sets
in Redis stay true to the handlers that are there, and that a message no connection takes
is kept until one does; of framing and adapter, that a reader passes on what was
sent, once and in order, and that what a recipient decodes does not depend on the way.

## The modules

A step of every module is one critical section, one Redis command, one query or
transaction, or one statement on a channel: other goroutines run in between.

**`ConnectionManager`** models manager, registry and handlers on any number of
servers. `pc[c]` is the next step of the handler of connection `c`, `pc[s]` that
of the goroutine of `Run` on server `s` when it unregisters somebody. `call`
holds the arguments of a running `UnregisterConnection` and `toClose` its local
variable `connsToClose`. `connections` is the map (a connection determines its
user and server), `closed` are the connections whose `done` is closed.
`localUsers`, `registry` and `serverUsers` are the registry's three places;
`online` is the flag of the status cache, and `announced` what the
friends of a user were last told by any server: the status, and whether a later notice was lost
(`missed`), because the query of the friends failed, the notification channel was full or the
process ended with it (`SendStatusUpdate`, `ProcessGone`). It survives a crash: the friends keep
what they know. `Accept` is the start of a handler, which unregisters the user's WebSocket
connections first when the new one is TCP-style; `AddConnection` to `MarkOnline` are `RegisterConnection`;
`Remove` to `MarkOffline` are `UnregisterConnection`; `BeginStop` to `Exit` are
the ordered stop; `Crash` and `Restart` lose the memory and keep Redis. A handler
does not end with its connection's `Close` but with its own deferred call, and
both a handler and `Run` may call `UnregisterConnection` for the same user.

**`MessageRouting`** extends it with messages: `SendMessage` and its two looks at
the local set and one at Redis, the channel and queue of every server, the
listener, and `processMessage` with its two read locks (`TakeMessage`,
`CollectConns`) and its loop. Every step of `ConnectionManager` happens here too
(`ManagerStep`), except that `DropClosed`, the unregistration by connection id,
is now made by `UnregisterClosed` in the loop. `Carried` says what such a step
does to a message that is in a process which ends, and to the map which
`processMessage` has looked up and not yet read: it follows the manager's map
until it becomes empty, and is then detached from it. `ImplementsManager` checks
that the composition is a refinement of `ConnectionManager`.

**`Connection`** models one connection of either kind: two senders (`Run` and the
reader), two closers (the reader and whoever took the connection out of the map),
reader, writer, handler and client. A `select` is a choice among its ready cases,
a send on a closed channel and a second `close(done)` panic and stop the process.
**`Mailbox`** is the abstract specification: a bounded first-in first-out box that
closes once. `ImplementsMailbox` is the refinement, with `accepted` and `written`
as what was put in and given.

**`GroupService`** models the tables `groups` and `group_members` and requests that
are each at one of their queries. `QueryFails` ends a request, but lets
an invitation go on if its last query failed, as the code does.

**`MessageService`** models `handleEnhancedMessage` with its two inserts,
`AddFriend`, and the status broadcast with its channel.

**`StatusManager`** models the record of a user in the memory of every server.
`pc[c]` is where the handler of connection `c` is in `UpdateUserStatus`, `turn[c]`
which of its updates it makes. The mutex covers `SetOnline` and `SetFlag` only;
`syncToRedis` reads the shared record again after the unlock (`MarshalOnline` to
`QueueOnline`, into `pipe[c]`) and Redis runs the commands one by one (`ExecStatus`
to `ExecOnline`), since a `Pipeline` is no transaction, whatever the comment at
`manager.go:97` says. `BeatConnections` and `BeatOnline` are the HTTP heartbeat, which
replaces the hash by a string; until that expires, commands for the hash fail.
The history variables `newest`, `stale` and `current` tell whether a copy was
overtaken by a newer one, and `excuses` keeps what has happened to the keys of a user.
One flag is left out: no type `"http"` is ever passed.

**`Conversations`** models `CreateConversation` (`Find` or `SkipFind`, `Describe`,
`Make`), and the time stamps of messages and of `MarkMessagesAsRead`, which are
taken in one step and stored in another; `Unread` is what `GetConversations`
counts. A user who asks for a conversation with itself is answered with any single
conversation of its own, as the query says.

**`LegacyManager`** models the first connection manager, which `main` no longer
creates but the source keeps, with its handlers, which `router.go` still registers. It has the
shape of `ConnectionManager`: `pc` and `call`, `Accept`, `AddConnection` to
`MarkOnline`, `Remove` to `MarkOffline`. What differs is modelled as it is there: a
second map `newest` of the last connection of every type; sets in Redis that name a
user and a type but no server, so that all servers share the entries; no
second look at the map before `MarkOffline`; a handler that calls
`UnregisterConnection` before its registration and, deferred, after it; and `SendPanics`,
since `SendMessage` of the first TCP connection offers a message without looking at `done`.

**`OfflineStore`** extends it with messages, in copies: a sender's object, one for every server
that receives it from Redis, one for every goroutine that sends it again. `SendMessage`
puts a copy into the queue and then publishes it (`Publish`), unless `Run` has
marked it as handled in between (`handled`); `Receive` is the subscription; `Take` to
`Store` are `processMessage` with its two read locks, its loop, the panic and the
insert of a row "unsent"; `Query` to `Mark` are `sendOfflineMessages`. `detached` says, as in
`MessageRouting`, that the map which was looked up is no longer the manager's. A
message of a client was saved under its own id before it is sent, an answer to a
ping has no id: only the second can be stored.

**`MessageAdapter`** has no state: it is the two conversions of `adapter.go` and
what the encodings keep. Fields that are copied unchanged are one field here; type,
status, code, error, details and metadata are modelled one by one. **`Framing`** is one connection, chosen
from `Clients`, whose client sends some frames. What it sends is a function of it: `FrameEnd` says
how far each frame reaches, `Wire` which unit is where, and the reader's state is a
place in that (`pos`, and `filled`, up to which it has arrived). `Fill`, `ReadFlag`, `ReadSize`, `ReadBody` are the enhanced TCP reader, `ReadTexts` and `ParseMessages` the first one,
which counts braces: one step of `ParseMessages` is one turn of the loop of `parseMessages`.
`ReadMessage` is both WebSocket readers, `PassOn` what all of them do with a message, and
`Write` the recipient's `SendMessageWithProtocol`. A unit is a byte, but for the
four bytes of a length, which `binary.Read` waits for. Frames of the protocol "none"
are what may lie between the others. `Dropped` is what the authentication has read too much.

`MC*` modules give the constants their values for TLC. `*_proofs` hold the
theorems.

**Slips.** Next to some actions stands an operator whose comment begins with
"Slip": the action as it would be after a plausible mistake in the code, a forgotten
reset, a missing guard, a swapped order. No specification uses them. They test
the properties: every property of a passing run fails when the slip listed for it
under `mutants` in `PROJECT.json` takes the place of the action.

Abstractions: messages, ids and users are model values; Redis, MySQL, the Go
runtime and the clients are environments; time is absent, so a route that nobody
refreshes may expire, and a deadline pass, at any moment; the status broadcast of
a handler is one step of `ConnectionManager`, which hands the notice over for all
friends or loses it, and is taken apart in `MessageService`. A notice counts as told when it is in
the channel: that one server's channel keeps the order is `StatusInOrder`; two servers' channels may overtake each
other. Status messages that clients send themselves are left out. A group's creation fails without leaving anything and is then no
step. Two connections of one user never get the same id (their ids hold a time
in nanoseconds). Login, the read-only queries and HTTP handlers change no modelled state.

## What TLC checks

| run | question | instance |
|---|---|---|
| `cm_lifecycle` | does anything of a connection stay behind without somebody who will remove it? | one server; one user with a browser, an app, and a browser again; deliveries that drop closed connections |
| `cm_cluster` | is a user who waits for the old connection to be finished reachable and visible, is what the friends were last told right, does a stop leave users of other servers alone, and does every closed connection get unregistered? | two servers, one crashes, one stops, both come back once; a user who moves from the first to the second and back; every notice to the friends may be lost |
| `mr_reconnect` | is a message given up while its recipient stays reachable? does it always end? is the composition a `ConnectionManager`? | one message, a user who reconnects, local or through Redis |
| `mr_order` | is every message in one place or ended, and do messages that go the same way stay in order? | three messages from two servers, a queue of one, full buffers, failing Redis, a stop |
| `conn_channel` | when can a panic happen, does everything end? is it a `Mailbox`? | both kinds; two messages from the manager, one answer of the reader, room for two |
| `groups` | can requests that overlap or fail lose the owner or corrupt memberships? | two requests at a time, three users, three memberships ever |
| `messages` | is what is forwarded saved, once; is friendship mutual; are friends told in order? | a message, the same again, a group message; two friend requests; two broadcasts, a channel of two |
| `status` | does Redis end with the record of the server that changed it last? | three connections of one user on two servers, a heartbeat, pipelines that break |
| `conversations` | do two users get one conversation, with both of them in it, and does what was read stay read? | three requests, two of them racing and one for a group; a message and two marks; failing queries |
| `legacy` | do the first manager's maps and sets stay true to its handlers, and is a message that no connection took kept? | two servers that may stop or panic; a user's app and browser at one, two browsers there, or one of them there and an app at the other, in any order; a message of a client or an answer while the app and then a browser are there; failing queries, a queue of one; the browser's buffer may be full |
| `framing` | does a reader stay in step with its client, and do all who read a message read the same? | all four kinds of connections; two or three frames of seven, with flags, sizes and braces among their bytes, in all pieces |

One run, `conn_panic`, ends in a counterexample: a message is offered between `close(done)` and the second
`select`, after `close(send)`, and the process panics. `findings` quotes the
comments that say otherwise.

Some statements fail without a run of their own. A handler may find that the user has no other
connection and release the lock; a new connection registers completely; the first
handler now removes the user from the registry (`CheckOthers`, `DeleteLocalUser`, `DeleteRoute`):
the new connection is served, but messages no longer find it. That is why
`PatientUserReachable` is about users who wait. It is also about users to whom nobody sends
a message meanwhile (`Addressees`): the late delivery of an older message finds the finished connection closed,
and the unregistration it begins takes the user out of the registry under the next connection. A stop has the same effect on a user who is in the set that `ReadMembers` reads and then moves
to another server: `SweepUser` deletes the new route. After a crash or a failed
command the set may also name users who moved long ago. `SweepSparesMoved` is about the
set itself, when nothing of this kind has happened before. A message whose recipient has left meanwhile is given up by `processMessage`
without being stored (`TakeMessage`), which a comment there calls impossible. A group
message is saved and sent to the group's id, which is no user, since nothing calls
`BroadcastToGroup`. A heartbeat makes `UpdateUserStatus` return an error for ten
minutes. Without Redis nobody enters the registry, so that `SendMessage` finds nobody
local and gives every message up. Every process calls itself `server-1` (`main.go:58`):
two of them would share a channel and a set of users, while the models give every
server its own id. All readers drop a group message without a recipient
(`enhanced_tcp.go:244`) although the handlers would accept it.

What the conditions of the properties leave open is as telling as what they say.
`FriendsKnow` ends where a notice is lost: nothing repeats it, so the friends of a user whose server
crashed, or whose "offline" met a full channel, see the user online until the next notice. And only for
users who wait does it say that they are shown online: a user who reconnects sooner is shown offline
when the old handler says so after the new one.
`RecordCatchesUp` holds only if no copy was overtaken or cut short: an update
that another one overtakes leaves Redis with the older record, and nothing corrects it
before the user's next update. `OneConversation` is about requests one after the
other: two at the same time make two conversations. `ReadStaysRead` needs marks of one
user that do not overlap. `KeptOrDelivered` and `MarkedWasSent` count as
settled what was lost to a full queue, a failed query or the end of the manager, and
what could not be stored since its id is in the table: a message of a client
that finds its recipient away is thus saved and never sent again.
`InStep` leaves out bodies longer than the limit, a body that is read before all of it has
arrived, and clients that do not wait for `OK`: in each of these cases TLC finds the
reader out of step, since the rest of a frame is then read as flags and sizes, or its beginning is
missing. `NestedParsed` leaves out contents with a lone brace, which block the
reader for good, and `SameForAll` compares ways that use the same protocols:
JSON alone keeps a status or a type that protobuf turns into "unknown".

Bounds. Three connections of one user are enough for a handler, the handler that
kicks it and one that comes while both are leaving; the interleavings that break
a guard of `UnregisterConnection` need two. Two lives of a server show what a
restart finds in Redis. Two messages that go the same way are what order needs,
and a third that goes another way competes with them for the queue. Capacities of one and two
make full and empty buffers happen. Only in `cm_cluster` does a user have friends (`Befriended`); that user's
three connections follow one another, and handlers that overlap are covered by `FriendsKnowTheorem`, for any
number of them. In `status`, two handlers of one server share a
record, and a third one's server has another record of the same user. In `legacy`, one id for stored rows is enough for an answer that is
stored, sent again and fails again, since a row is never stored twice; only the browser's buffer may be
full (`SlowConns`), since a full app is passed over in the same way; while no
message is under way, two connections come in any order (`Groups`): app and browser at one server, two browsers
there, and app or browser there with the app of the other server. So a handler that leaves takes out a newer
connection of its type, or one that is being registered, and handlers of two servers remove each other's entries in Redis. When a message is sent, only app and browser are there (`Audience`), the second from when the first is closed
(`Before`), which lets its handler, the deliveries and the resending overlap. In `framing`, a limit of three units, a buffer of four and frames of two to
six let every read end anywhere in a frame, and the codes wrap around at 4 instead
of 2^31. One tick of the clock
is enough to tell a message before a mark from one after it. Every bound is a constant: `MaxLives`,
`QueueCap`, `Capacity`, `NotifyCap`, and the sets `Conns`, `Msgs`, `Sends`,
`RunMsgs`, `RowIds`, `Convs`, `MaxTime`, `FreshIds`, `Groups`, `Audience`, `Before`, `SlowConns`,
`MaxMessageSize`, `BufferSize`, `HalfRange`, `Clients`. Deadlock is not checked, since a system that nobody uses may
rest. The type invariant of the group service is among the runs, as it says that member ids are keys;
those of the other modules stand beside their variables. All of them are proved. The instances of TLC run with Redis enabled; Redis commands fail in
`mr_order` only, since most properties of the other runs are about what is kept when Redis
works. The theorems cover both.

Fairness. Goroutines that can go on do so: every handler, the goroutine of `Run`,
a stop that has begun, reader, writer and closers, a broadcast, and the goroutine
of the notification channel; the Go scheduler runs every runnable goroutine. No fairness is
assumed for clients (connecting, leaving, sending), for crashes, stops and
restarts, for the expiry of a key, or for deadlines of clients that are there; a write to a client that has
become unreachable fails in the end, by the write deadline.

## What is proved

The first part of `MessageRouting_proofs` is about `ConnectionManager`, for any sets of servers,
users and connections, with and without Redis, whether or not its commands fail:

- `TypeInvariant`: `TypeOK`.
- `SupportInvariant` and from it `NoLeakedEntry`, `NoUnreachableConnection`,
  `NoGhostLocalUser`, `NoGhostOnline`, `NoGhostRoute`.

None of the five is inductive. The step that matters is a handler that leaves
because it has seen another connection of the user in the map: then somebody else
must still be responsible. `SupportInv` adds what this rests on: the user and the
type in the arguments of a handler's call are those of its own connection, and the
call of a server has no type (`CallOK`); only a call at its closing step has
connections to close, all of its own server (`ClosingOK`); and without Redis
nothing enters the registry and no goroutine tries to write it (`MemoryOnly`).
With them and `NoLeakedEntry`, whoever sees another connection in the map sees one whose handler is
`Engaged`, and that handler will decide later. Most steps move one goroutine from
one step to the next without giving up this responsibility; the lemma
`HandlerStepMoves` says so once for all of them (`HandlerMoves`), and the proof of
each invariant then looks at the few steps that add a user, a flag or a route or
give one up.

`PatientTheorem` (`PatientUserReachable`) rests on `PatientInv`: in calm, that is while
Redis takes every command and no server that may be stopped has been touched, what the
handler of a patient user has entered so far stays, at each of its steps (`Entered`).
Nobody can take it back: a patient user has one busy handler at a time, and no goroutine of `Run`
is about to unregister it (`Alone`); a crash takes the memory and the
handler together.

`FriendsKnowTheorem` (`FriendsKnow`) needs `Alone` too. Whatever a step does to the last notice it does to
the handlers who are served as well: each says "online" on entering that step and "offline" on leaving it, and a
process that ends with one of them leaves its user's friends behind (`missed`). The "offline" of one
handler does not hide another's "online" where users wait, since there is no other.

`SweepTheorem` (`SweepSparesMoved`) joins the two arguments. Whom a stop newly finds in the set
of its server (`NewSweep`) has a handler there that is yet to take the user out
(`NoGhostMember`, proved like `NoGhostRoute`, with one more step), and by `Alone` that is
the only one: the user is not served elsewhere.

Its second part is about `MessageRouting`, for any servers, connections, messages and capacity of the
queues, with Redis failing and servers stopping and crashing at any step:

- `IsManager` (`ImplementsManager`): the composition is a `ConnectionManager`. The step
  that is not obvious is the unregistration which `processMessage` makes of a connection
  it finds closed: that this is a `DropClosed` needs that whatever is still to be tried was registered in
  this life of the server (`TriesRegistered`), and that a server that is down holds no message
  (`DownQuiet`); `RouteInv` consists of these, the types, and the manager's own
  invariants, which hold here through the refinement.
- `AlwaysOnePlace` (`OnePlace`), from `PlaceInv`: a message that was passed on and has
  not ended is at one kind of place on one server (`SpotOK`), and no queue or channel has it twice (`LinesOK`).
- `TakenInOrder` (`SameWayInOrder`), from `OrderInv`: a sender begins with a message
  after the one before, and of two that go the same way the second is never at a
  place further on, nor before the first where both are (`NotAhead`, `Behind`).
- `NothingLost` (`NoLossWhileReachable`), from `ReachInv`: if a connection has been
  reachable since `SendMessage` was called, then the message is on the way to its server, and whoever has
  it in hand has that connection still to try, in the map which is the manager's or in what was
  read of it (`Follows`). That the recipient is in the local set and has its route all
  the time comes from the manager's invariants.

`NothingLost` has conditions that are facts about the code: without Redis nobody is in
the local set, and a message even to a connected user ends as given up; and once a stop has closed the
connections, the process still registers new ones, which nothing that is published reaches.

`Connection_proofs`, for any capacity, senders and messages: `TypeCorrect`; `PanicOnlyByRace`
(`PanicNeedsRace`), from `RaceInv`: a sender that is between its two selects, or that has begun
before `done` was closed, has found the connection open when it was called; and
`IsMailbox`, the refinement of `Mailbox`, from `BufferInv`: while the writer is at work, what was accepted is
what was written and then the buffer.

`MessageService_proofs`, for any messages, users, requests and broadcasts:
`ServiceTyped`; `SavedBeforeForwarded` and `NeverForwardedTwice`, from `SaveInv`, which says
for each step of a handler which tables know the id, and that two messages with one id
never both pass the second insert; `AlwaysMutual`, which is inductive with the types alone; and `ToldInOrder`
(`StatusInOrder`), from `OrderInv`: what is in the channel and what has left it is
in the order of the broadcasts.

`Conversations_proofs`, for any requests, users, messages and marks: `ConversationsTyped`;
`AnswersAreOurs`, from `MadeInv` (a conversation has one maker, whose two users are in it); `OnlyOneConversation`,
from `SearchInv`: a request whose searches worked and which is about to make a
conversation follows no request that made one for the same two users; and
`ReadIsKept` (`ReadStaysRead`), from `ReadInv`: the stored time of a reader is not before
that of an applied mark, unless a mark that overlaps it was applied too.

`StatusManager_proofs`, for any connections, servers and heartbeats: `StatusTyped`,
`RecordArrives` (`RecordCatchesUp`) and `OnlineSetArrives` (`OnlineSetCatchesUp`). Both say
what Redis has when no update is under way; the invariants say what is true on the way. `CopyInv`:
what a copy that is not old has read so far is the record as it is now, although
the reads are many and the mutex is free. `SyncInv`: unless a copy was overtaken or cut
short, either a copy that is not old is still to come (`Coming`), or Redis has the
record, but for commands of such a copy that are still to run and what a heartbeat has replaced (`Arrived`).

`GroupService_proofs`, for any number of concurrent requests, whether or not
queries fail: `GroupTypeOK`, `OwnerStaysAdmin`, `OnlyOwnerActs`,
`OrphanOnlyByRace`, `DoubleExplained`. `OwnerInv` says what a request still relies
on after each of its queries, although the tables have changed since
(`RequestHolds`): the owner of a group never changes, ids of rows are not used
again, and so the row a request to leave has found is the caller's own or gone.
`RaceInv` says that a request which writes something it would not write if it
looked again has left, or met, a trace in the history variables.

`LegacyManager_proofs`, for any servers, users, connections, messages and copies, with and
without Redis: `ManagerTyped`, `MapsAgree` (`NewestIsHeld`), `EntriesHaveOwner` (`NoGhostEntry`),
`AcceptedIsKept` (`KeptOrDelivered`) and `MarkedWasHandedOver` (`MarkedWasSent`).
They are proved of `StoreSpec`, in which `OfflineStore` runs beside the handlers:
`StoreSteps` says that each of its steps is a step of the manager (`Moves`) or leaves
the manager alone. `NewestIsHeld` is inductive with the types of the two maps, once it
is known that a connection in the map has a handler, without which the end of a
process would leave its entry behind; `HandlerInv` says this, that a handler always
unregisters its own user's connections, and that nothing enters the sets without
Redis. For `NoGhostEntry`, `EntriesKept` shows that the set of connections which owe
the removal of an entry loses one only in the step that removes the entry.
`AcceptedIsKept` and `MarkedWasHandedOver` are about the table, and `TableInv` says what goroutines know of it: ids
and rows belong together (`RowsOK`), and a goroutine that resends has listed rows that
are there and marks them when none is left to do (`ResendOK`). `KeptInv` and `MarkInv`
follow a message, not its copies: it is safe while any copy is in a queue, a channel or a hand,
or once one has come to a recorded end; before it is sent, a client's message is in the table (`SavedOK`).

`Framing_proofs` is about `MessageAdapter` and `Framing`, for any clients with any number of frames,
bodies of any length, any bytes between the frames that are no marks, and any pieces in which all this arrives.

- `ConvertedOnce`, for any texts, details, maps and codes: a message
  that has been converted to protobuf and back is not changed by a further conversion, of
  either kind, and JSON changes nothing after JSON, nor before protobuf. Four lemmas say
  so of the type, the status, the code and the error; the code needs that the wrap
  around to a range is the identity within it.
- `AllReadTheSame` (`SameForAll`), from `FrameInv`: what was passed on about a frame is the
  message of that frame, decoded once, with a conversation (`IsOf`), and what was written is that,
  or that after one more passage as JSON (`IsFrom`). `ConvertedOnce` does the rest (`SameHowever`).
- `StaysInStep` (`InStep`), from `StepInv`, which adds to it where the reader stands: a reader that looks for
  a flag is in no frame, one that looks for a size is behind the flag of a frame and knows it,
  and one that looks for a body is behind the size of a frame and knows both.
- `AllTextsFound` (`NestedParsed`), from `TextInv`: the reader stands in no text, and has found
  all in front of it; and between two reads no whole text lies between its place and what has arrived.
  That the loop stops at the end of the next text and nowhere before (`TextEnd`) is counted: there is no
  brace in front of it (`NoBraces`), and in it more are opened than closed until its end (`OpenUntilEnd`).

Where the frames lie in the stream (`Layout`), and what is in each place of it (`Shape`), is an
induction over the frames. The theorems of the library about induction take an operator as a
parameter, which no installed prover instantiates; instead, a set of numbers that has an element has
a least one (`LeastNatural`, from the well-foundedness of the order), and the least place at which
something fails is looked at. That `FrameEnd`, a recursive function, is one at all is proved in the same way (`Sums`).

The assumptions are those the modules declare: names are distinct, every
connection has a user, a server and a type, bounds are positive, a request is no mark,
and the value for an empty hand is no copy. TLC evaluates them in every run.

Only model-checked:

- All liveness properties: they need fairness and `ENABLED`, which the proof system does not handle.
  They are `ClosedIsUnregistered`, `EveryMessageSettles`, `DeadEndNoticed`, `EverybodyEnds` and `FriendIsTold`.

## What is not modelled

The queries and the cleanup of the status manager, which nothing calls on the
manager in use, and the expiry of its JSON copy, which nothing reads back; the
read-only queries of messages and conversations; registration and login; the
legacy manager's key `conn:<user>:<type>`, which nobody reads, and its heartbeat, which
extends keys of another name; `DetectProtocolType`, the encoders of `encoder.go` and
`SerializeMessage` of a connection, which nothing in the server calls; and what only wires or displays. In the source as it is, `main`
registers `GET /api/ws` although the router has done so already (`main.go:79`,
`router.go:112`); the models take the enhanced handler, which `main` registers.

## Plan

Done, in this order: `ConnectionManager` with its proofs, `MessageRouting`,
`Mailbox` and `Connection`, `GroupService` with its proofs, `MessageService`,
`StatusManager`, `Conversations`, `LegacyManager` and `OfflineStore`, `MessageAdapter`,
`Framing`; then the proofs of every safety property of the runs.

Next:

1. A clock, for the read deadlines that only control pongs extend.
