# chat-s: TLA+ models, model checking and proofs

This directory holds TLA+ specifications of the chat backends of this
repository, TLC configurations that model-check them and proofs that the TLA+
proof system (TLAPS) checks. `PROJECT.json` maps every definition to the lines
it models and lists the runs, mutants, hazards, findings and theorems.

## 1. The system

The repository builds the same chat service three times, plus a log pipeline.

**proper-scale** (`src/proper-scale`)

| Part | Code | State | Operations |
|---|---|---|---|
| message store | `message_service/infra/postgres/store.go`, `service/ingest.go`, `migrations/` | tables `room_counters`, `messages`, `message_outbox`; one open transaction per call | `Accept`: look up, begin, look up again, allocate `room_seq`, insert, insert outbox row, commit; conflict and error paths |
| outbox relay | `outbox_relay/internal/{relay,postgres,kafka}` | `published_at`; the batch and the attempt of a relay; the Kafka topic | `NextPending`, `Publish` with retries, `MarkPublished` |
| delivery service | `delivery_service/{app,infra}` | consumer group offsets, claims | `ConsumeClaim`, `Handle`: presence lookup, Redis pipeline, mark the offset |
| presence service | `presence_service/app/grpc.go` | a Redis set per client and instance, a Redis hash per room, both with a TTL | `Connect`, `Disconnect`, `Ping`, `IsConnected` |
| websocket server | `message_service/app/transport/ws/{ws,client}.go` | sockets, the `Send` buffer of each, goroutines `ServeWS`, `WritePump`, `runPing` | connect, read loop and acknowledgements, ping, disconnect |
| hub | `message_service/app/transport/ws/hub.go` | rooms and their clients, two levels of `RWMutex` | `Register`, `Unregister`, `Dispatch` |
| Redis consumer | `message_service/infra/redis/consumer.go` | subscription and its buffer | `Run` and its restart |

**single-instance** and **naive-scale** share a design: `chat.Service` stores a
message and an outbox event in one transaction, a relay dispatches the outbox
in id order, and a hub goroutine delivers to the clients; naive-scale runs
three instances with one relay each and Redis between relay and hub.

**log-prop** is a publisher that puts log events on a Kafka topic and a consumer group
that prints them: `ConsumeClaim` passes a record to the channel of its level, and one
worker per level prints it and marks it. `Start` builds the handler without these
channels; `newConsumerGroupHandler`, which makes them, is not called.

How they interact: a client sends on its websocket; `handleMessage` calls
`Accept` and queues an acknowledgement; the relay copies the outbox to Kafka; the
delivery service asks the presence service which instances have clients of the
room and publishes to the Redis channel of each; the instance's Redis consumer
calls `Dispatch`, which puts the message into the `Send` buffer of every client of
the room; `WritePump` writes it to the socket.


### What is hard about it

- Several transactions of `Accept` run at once against READ COMMITTED; the row lock
  of `room_counters` and the unique index are all that orders them.
- Every hop repeats work after a failure: the client sends again, the relay publishes
  again, the consumer group reads again. Order and "at most once" have to survive it.
- Answers get lost after the effect: of a commit, of a Kafka request, of a Ping.
- Two relays, or two members of the consumer group, overlap while a deployment or a
  rebalance goes on, and each works from what it read before.
- Bounded channels with blocking sends couple goroutines, in one case under a mutex.
- Presence is a cache with a TTL that several connections of a client write.

### What it should guarantee

A message is accepted once, at a gapless place in its room, and is acknowledged with
that place only; what is accepted is published; Kafka and the instances see the
messages of a room in order (first copies); nothing handled is skipped; nothing a hub
takes is dropped; a connection that is up can be routed to, and one that is gone
disappears; no goroutine waits for ever.

## 2. Modules

| Module | Models | State | Actions |
|---|---|---|---|
| `MessageStore` | `Store.Accept` | the three tables, per worker the next statement, the request and the open transaction's writes; the acknowledged events | one per SQL statement, the conflict path, `CommitUnknown` (answer lost), `Fail` |
| `RoomLog` | the promise of `Accept`: an append-once log per room | the logs, the acknowledged places | `Accept`, `Acknowledge` |
| `WsClient` | `wsClient` composed with `MessageStore` and `handleMessage` | `requestPending`, connections, frames under way | `Dial`, `Register` in the hub or `RegisterWaits` for ever, `Receive`, the steps of `Accept`, `ReadFrame`, `Break`, `ServerCrash` |
| `Migrations` | `RunMigrations` of message_service (`design` "locked") and goose as the other two programs call it ("goose"), on several servers | schema, recorded versions, the directory and the place of each server | `Lock`, `Check`, `Apply`, `Record`, `Commit`, `Fail`, `Restart`, `Deploy` of a newer build |
| `OutboxRelay` | outbox relay and the topic | outbox rows, published rows, partitions, requests under way, the batch and attempt of each relay | `Poll`, `Publish`, `PublishFails`, `PublishRefused`, `LateAppend`, `Mark`, `MarkFails`, `Crash` |
| `RoomTopic` | the promise of the relay to the readers of the topic | the partitions | `AppendRecord`: any record whose predecessors in the room are there |
| `Delivery` | delivery service and its consumer group, on a topic that `RoomTopic` allows | offsets, claims, presence and subscriptions, what each channel received | `Assign`, `IsConnected`, `PublishMessage`, `PublishError`, `Commit`, `SessionEnds`, instances that come and go |
| `MessagePath` | `RoomLog`, `OutboxRelay` and `Delivery` put together: the history is the relays' outbox, the relays' topic is the consumers' topic | the variables of the three | `AcceptStep` (the commit adds the message and its outbox row), `RelayStep`, `ConsumerStep` |
| `Presence` | the Redis keys of the presence service | TTL of client keys and of room fields | the transactions of `Connect`, `Ping`, `Disconnect`; `IsConnected`; expiry |
| `Sessions` | `ServeWS`, `runPing`, `disconnect`, the hub's registry, over `Presence` | stage and pinger of each connection, hub entries, discrete time; history: connections whose Ping is overdue, rooms of Pings raced by the expiry of their key | `Connect`, `StartPing`, `ConnectFails`, `Register`, `Unregister`, `Disconnect`; `TickerFires`, `WritePing`, `PingRead`, `PingExec`, `PingReturns`, `PingFails`, `PingDropped`; `Crash`, `Tick` |
| `Contracts` | the `Validate` methods, the frames of the server, the decoder of the client | none (operators) | |
| `HubDispatch` | the Redis subscription, `Dispatch`, requests and their answers, `WritePump` | the subscription's bounded channel, hub entries, the mutex (held while `todo` is not empty), `Send` channels | `Run`, `Arrive`, `Dispatch`, `DispatchTo`, `handleMessage`, `enqueue`, `Write`, `WriterExits`, `ReadFails`, `Unregister`, `Close` |
| `Outbox` | rooms, users and the outbox of single-instance and naive-scale (`design`) | ids drawn, committed rows, open transactions, claims, deliveries, whether the hub is stuck | `CreateRoom`, `CreateUser`, `InsertMessage` (with its foreign keys), `EnqueueOutbox`, commit/abort; `Claim`, `Dispatch`, `CommitBatch`, `AbortBatch`; `HubSticks` and `Restart` of single-instance |
| `History` | a reader that joins a room and pages back through its history, composed with `Outbox` | its room, the `before` cursor, what it saw, what is on its way to it or got lost | `Join`, `Leave`, `handleHistory`, `Deliver`, `Lose` (naive-scale); `Receive` with every step of `Outbox`, `Gone` with a restart |
| `HubLoop` | hub and pumps of single-instance and naive-scale (`design`) | rooms, the envelope in hand, send channels | `Register`, `Broadcast`, `Take`, `Send`, `Unregister`, `Write`, `WriterExits`, `ReadFails`, `Shutdown` |
| `LogConsumer` | log-prop, with the handler `Start` makes (`build` "bare") and the one of `newConsumerGroupHandler` ("pooled") | topic, committed offset, the session of each member, channels and workers, what was printed | `Publish`, `Consume`, `Read`, `Send`, `Check`, `printJob`, `Commit`, `Expire`, `Release`, `Crash` |
| `*Proofs` | theorems (section 5) | | |
| `MC*` | instances for TLC: the function-valued constants | | |

Data is reduced to what the properties tell apart. A message is its key, its place or
its number; a payload is a JSON value in `MessageStore`, where a retry may carry another
one; a field of a request in `HubDispatch` is blank or not, which is what `Validate` looks
at. An operator whose comment starts with "Mutant" is a plausible bug of the definition
that follows it; it is not part of the specification and shows that a property can fail.

## 3. Runs

Passing runs take between two seconds and three minutes with two workers. Every module with
state has a type invariant, `TypeOK` (in `Delivery` `DeliveryTypeOK`); it is proved where
section 5 says so, was checked on the instances below for the others, and is not listed with the properties.

| Run | Bounds | Shows |
|---|---|---|
| `store` | 2 workers, 2 rooms, 2 keys, 2 payloads | gapless rooms, one acceptance per key, outbox = history, every returned event is a committed row, conflicts resolve; `Accept` implements `RoomLog`; locks never block each other for ever |
| `client` | 2 clients on 4 connections, 2 failures | a request is stored once, at the place told; every client is answered, or ends on a connection whose handler waits for a stuck hub |
| `migrations` | both designs, 3 servers of any builds, 3 files, 3 failures | every migration once; with the advisory lock no server fails because of another; a server serves only with all files of its build; all come up |
| `relay` | 2 relays, 2 rooms in 1 partition, 2 rows each, two sizes, batches of 2, 2 attempts, 1 failure | the topic is one `RoomTopic` allows, marked only if in Kafka; an event is published in the end unless a refused one precedes it in its room |
| `delivery` | 1 partition, 2 members, 2 instances, 3 records, 1 failure | nothing skipped; an instance connected all along misses nothing and gets a room in the order of `room_seq`, repeats aside; everything is committed in the end |
| `sessions` | 2 connections of a client, 2 rooms, TTL 4, ping every 2, up to 1 for the ping frame and 1 for the caller of the RPC, 1 failure | routable while connected unless the Ping is overdue, hub entries are served, a field outlives its key only by a Ping raced by the expiry; presence vanishes |
| `dispatch` | 2 connections, 1 of them sends, channels of 1, 2 events, 2 requests of any validity | what reached the instance reaches every connection in order, every request is answered once by a frame the client's decoder takes; a closed connection leaves the hub, or a full channel without a write pump is in the way |
| `outbox` | both programs, 2 writers, 2 relays (1 in single-instance), 2 ids, batches of 2, pages of 1, 2 failures | stored = delivered, unpublished stamps and repeats need failures, a connection's messages in order (single-instance), a reader that joins and then pages back misses only what Redis did not get or the subscription lost; nothing stays undispatched unless the hub is stuck |
| `hub` | both programs, 2 clients, channel of 1, 3 messages | no send on a closed channel, nothing dropped or reordered; a dead writer is removed, or the hub waits on one |
| `logs` | both builds, 2 members, 3 records of 3 kinds, channels of 2, 1 failure | a commit passes only what is printed, held or lost with a failure; a level is printed in order; the group catches up and sessions end unless `ConsumeClaim` waits on a nil channel |
| `sessions_reconnect` | as `sessions`, no failure | *violation*: the old connection unregisters the new one |
| `outbox_room_order` | single-instance, 2 writers, no failure | *violation*: a room's messages are delivered in another order than their ids |

**Why these bounds.** The hazards need two actors that overlap, one failure between
two steps of one of them, and a third step that depends on the order: two relays,
members or connections; two or three messages of a room, so that one can be skipped,
doubled or reordered; a channel of one, which is full after one message; a second
room, key or partition wherever locks or order are per room, key or partition. Liveness
rules out symmetry, so the runs are smaller than they could be for safety alone. The
safety properties of `MessageStore` and its refinement were also checked with three workers and
three keys under symmetry, those of `LogConsumer` with two failures and channels of one,
those of `Sessions` with a TTL of 5, a ping every 3 and two failures, and those of `Outbox` and
`History` with three ids, pages of 2 and one failure, with the same results; the proofs of section 5 need no bounds. Counters that grow without
bound in the code are limited by `MaxSeq`, `MaxRecords`, `MaxInserts`, `MaxMessages`, `MaxEvents`,
`MaxRequests`, `MaxFaults` and `MaxFailures`;
`MessageStore` has no such bound, since a key is accepted once.
In `WsClient` a connection is used once, and there is one for every client and every
failure, so no client runs out of them.

**Deadlock** is checked in `store`, `migrations` and the two runs of `Sessions`. In the other
runs it is off, because a run legitimately ends there: when the bound on messages is
used up, every loop waits for input and nothing else is enabled. The waits that must not
happen are stated as liveness properties instead.

## 4. Fairness

| Module | Assumed | Because |
|---|---|---|
| `MessageStore` | workers go on; strong fairness of the two steps that wait for a lock | statements are sent one after the other; PostgreSQL answers, and its lock queues are first come, first served |
| `WsClient` | the client goes on; strong fairness of a connection's server steps, `Register` in the hub included, `RegisterWaits` not: a handler that waits for a stuck hub owes nothing | `runClient` dials until it succeeds; the mutex of a hub that is not stuck is free again after every `Dispatch`; PostgreSQL as above |
| `Migrations` | strong fairness of each server's work, restart included | the same lock queue; a restarted container |
| `OutboxRelay` | a relay goes on with its loop | finite poll interval, bounded retries, timeouts |
| `Outbox` | a relay goes on with its loop, in single-instance while the hub is not stuck: `Broadcast` has no deadline there | finite poll interval; go-redis' timeouts (naive-scale); a hub that is not stuck takes the next envelope |
| `Delivery`, `LogConsumer` | an unread partition is assigned, members and workers go on, marks are committed | group protocol, Go's scheduler, the offset manager's timer |
| `Sessions` | time passes, `runPing` goes on, a Ping is executed or given up; nothing of `Register` and `Unregister` | timers, the deadlines of WriteControl and of the RPC, go-redis' timeouts |
| `HubDispatch` | the consumer, each read loop and each write pump go on when they can; a read of a closed socket returns | Go's scheduler; `sync.RWMutex` does not starve writers, and since events are bounded weak fairness says it |
| `HubLoop` | goroutines that can run do; strong fairness of the hub's `Unregister` | Go's scheduler, a `select` picks among ready cases at random |

No fairness makes a healthy connection fail, a client send, or an error go away; errors
are bounded by `MaxFaults` and `MaxFailures`, so liveness says what happens once they stop.

## 5. Proofs

Eight modules hold theorems, for any number of workers, rooms, keys, servers, relays,
members, instances, connections and failures. The constants carry the named assumptions of
the modules and no others; TLC evaluates them in every run. Every safety property of every
passing run is proved.

| Module | Proves |
|---|---|
| `MessageStoreProofs` | `TypeOK` and every safety property of run `store`; the step property `CommitsInOrder`; `Spec => ImplementsRoomLog`; under clients, connections and crashes the store behaves as `MessageStore` says (`ClientSpec => Spec`), and `ToldIsStored` |
| `MessagePathProofs` | of the relay `TypeOK`, `PublishedInKafka`, `FirstCopiesInOrder`, `PublishedPrefix` and `Spec => ImplementsRoomTopic`; `DeliveryTypeOK` and every safety property of run `delivery`; that the composition is a behaviour of each of its parts, and its properties `OnlyAccepted`, `OnePlacePerKey`, `AckedArrives`, `HistoryInOrder` |
| `MigrationsProofs` | every safety property of run `migrations` |
| `SessionsProofs` | `TypeOK` and every safety property of run `sessions` |
| `OutboxProofs` | every safety property of run `outbox`; no event is in two open batches |
| `HubLoopProofs` | every safety property of run `hub`; the step property `StuckStays` |
| `HubDispatchProofs` | `TypeOK` and every safety property of run `dispatch`; the step property `StuckStays` |
| `LogConsumerProofs` | every safety property of run `logs`; `BareHandlerStops`; the step property `CommitsAdvance` |

*Message store.* No table property is inductive alone. `TransactionsInv` says what the
locks give: at most one transaction is between the upsert and the end of a room, at
most one between the insert and the end of a key, and so the `room_seq` an open
transaction holds is still the next one, its key is still new, and its two inserts agree.
It is preserved by the statements of a transaction (`OwnTxStep`) and by those of
others (`OtherTxStep`), which the locks keep out (`LockStep`). `CommitEffect` then says that
a commit adds one row with the next number and a new key to both tables, from which
`Gapless`, `AcceptedOnce`, `OutboxMatchesHistory` and `AckedIsCommitted` follow together
(`TablesStep`), and `CommitsInOrder` for the step. The refinement maps the rows of a room to
the sequence of their keys; a commit is an append (with or without its
acknowledgement), a return of a found event is an acknowledgement, the rest stutters.

*Client.* Every step of `WsClient` is a step of `MessageStore` or leaves the store alone
(`StoreStep`), so the invariants of the store carry over. `ClientInv` adds what travels: a worker
serves the request of the client that dialled its connection (`RequestInv`), and every
answer under way or received names the place of a row with that client's key (`FrameInv`,
`ToldInv`); with `AcceptedOnce` there is only one such row.

*Outbox relay.* The batch of a relay is old when it is worked off. `WorkInv` says why
that is harmless: for each entry in a batch, and each request a relay has given up on,
every earlier row of its room is published already, and published rows stay so. With
`PublishedInKafka` an append never gets ahead of an earlier row of the room, which is
`FirstCopiesInOrder`. All five facts form the inductive invariant `RelayInv`; the refinement
needs `PublishedInKafka`, `WorkInv` and the bounds of the rows.

*Delivery.* The order at an instance does not follow from the offsets, since two members
may read a partition at once. `ClaimInv` says that everything behind the place of a reader
is handled, and `SteadyMissNothing` that what is handled is in the channel of every steady
instance: a reader's next record has its predecessors there already (`ChannelOrder`), and
the order of first copies that `RoomTopic` gives (`TopicOrder`) becomes the order of the channel.

*The path of a message.* `OutboxRelay` and `Delivery` both extend `RoomTopic`, whose variable `topic`
they share in `MessagePath`; that is why the names of `Delivery`'s specification carry its own.
A step of the composition is a step of `RoomLog` or leaves the history alone, and likewise
for the relays (`PathStore`, `PathRelay`), so every invariant proved for a part holds for it in
the composition. `Delivery` takes for granted that the topic grows as `RoomTopic` allows; here the
relays write it, and `PathDelivery` shows that what they write is allowed, from the facts of
`RelayInv`. What is new in `PathInv`: every record of the topic is a row of the outbox
(`TopicStored`), the rows of a room are exactly the places of its history
(`RowsAreHistory`), a key has one place in all histories and an acknowledgement names it
(`LogInv`). A place in a channel is then a record of the topic, hence a row, hence an
accepted message, which gives `OnlyAccepted` and `OnePlacePerKey`; `AckedArrives` joins
`PublishedInKafka` (marked, so in the topic) with `CommittedIsHandled` and `SteadyMissNothing`
(committed, so in the channel), and `HistoryInOrder` is `FirstCopiesInOrder` of the topic carried
over to the channel by `ChannelOrder`. The
composition uses `RoomLog` in place of the transactions of `MessageStore`; that `Accept` implements
it is `MessageStoreProofs`. It has no run of its own among those of section 3: its parts have,
and its four properties and three refinements were checked with TLC with 2 rooms, 2 keys,
1 relay, 2 members and 1 instance.

*Migrations.* What a server found unrecorded may be recorded when it acts on it. `PlacesInv`
relates the place of a server to what is recorded; `Exclusive` says that a transaction
which has applied a file is alone with it, with or without the lock; `LockInv` says that
with the lock this holds from the lookup on, which is why no server collides.

*Sessions and presence.* Nothing is assumed of how long a Ping takes beyond the two deadlines
of its caller; the constants only have to satisfy that a ping is done before the next tick
(`writeTimeout + pingTimeout <= pingPeriod`) and that the period is below the TTL, as in the
code. `Routable` excepts a connection that is `overdue`, and the proof shows that nothing else
needs an exception. `Disconnect` changes nothing, since nobody writes the key it names
(`UnnamedKey`, `MembersInv`). What can spoil the presence of the latest connection of a key is a
Ping of an older connection that is executed late: a Ping only ever lengthens the life of
a key and its fields, and what it writes belongs to its own rooms, so that it does no
harm. `TimeInv` says that the key and the fields of a latest connection that is not overdue live
as long as its next Ping may take without being overdue (`Left`), `LatestInv` and `HeldInv` that
this Ping finds the connection's rooms there; `ConnInv` relates socket, ticker and call. For
`NoResurrection` it is `RacedInv`: what a Ping holds belongs to a key that exists, or that expired
while it was held. `HubIsServed` is inductive with the types.

*Dispatch.* `EventsInOrder` and `RequestsAnswered` count: the n-th event among the frames of a
connection is the n-th message taken since its registration, and likewise for answers,
where `Rank` is the number of frames of that sort up to a place. (A filtered sequence would
say the same, but what a recursive filter returns needs induction over data.) Events and
answers are followed separately, since either may come before the other: a frame of one
sort leaves the ranks of the other alone (`EventsStay`, `AcksStay`), and one of the same sort has
the next rank (`EventsGrow`, `AcksGrow`). `EventInv` relates the events to how far `Dispatch` has come:
a connection still in `todo` lacks exactly the last message. `AckInv` says that only the
last request may be unanswered, and then its answer is the one in `enqueue`. `QueueInv` keeps
the subscription's channel in the order of publication, `FreshInv` says that a connection
that is not registered yet has nothing. `StuckStays` is about one step: while `Dispatch` waits for
a channel whose write pump is gone nobody else can take the mutex and nothing drains that
channel, so the exception of `LeavesUnlessStuck` is permanent.

*Outbox of the small programs.* The event of an open transaction carries the message of the
same transaction, batches consist of committed rows that no other batch holds (`IInv`).
Everything else rests on ids (`IdInv`): both sequences are drawn before the commit, so ids
appear out of order, but those of one connection do not, and an id in an open transaction is
in no other row. `Passed(e)` says that `e` was handed out in a batch that is stamped or still
open. A relay hands out only what is not `Passed` (`DispatchEffect`) and only a failed batch
takes it back (`BatchEnds`), so the copies of an event are at most the failures, and one more
while it is `Passed` (`Repeats`). The events that are `Passed` and not in the log are counted
in the same way (`LostInv`): a failed PUBLISH adds one, nothing else does. In single-instance
there are none, so when the one relay claims an event every earlier one of its connection is
in the log or ahead of it in the batch (`SenderInv`), which is `SenderOrder`.

*Reader.* `ReaderInv` says that a delivered message of the room is seen, on its way or lost on
the subscription, unless the pages have not come that far. A page holds everything newer than
its oldest message, and everything there is when it is not full (`PageShape`, by taking the
newest message it would miss); what is committed behind the cursor later is handed out later,
while the reader is there (`ReaderGets`). A missed message is then the message of an event of
`Lost`, and `LostInv` counts those. A restart rolls back every open transaction at once
(`RestartEffect`, `RestartAll`) and ends the reader's connection.

*Hub of the small programs.* A registered client has an open channel and a read pump that
was not released (`RoomsInv`), and the envelope in hand goes to registered clients of one room
(`TodoInv`), which is `NoSendOnClosed`. What a client received and what is queued for it count
up from its registration without a gap, and only `Send` adds to them (`StreamInv`). As in
`HubDispatch`, `StuckStays` shows that the exception of the liveness property is permanent.

*Log consumer.* A session marks only what it has read past (`SessionOK`), and what it has read
past is printed, held or lost (`AccountInv`); the committed offset is a mark, so
`PassedIsPrintedOrLost` follows. The order of a level (`Order`) rests on the committed offset,
which never goes back: a session reads again only records behind which nothing of
their level was printed, and a live session has lost none of its own jobs. `CommitsAdvance`
states this for the step. `BareHandlerStops` says what the handler of `Start` amounts to: it
makes no jobs (`BareInv`), so with nothing printed, held or lost the commits stop before
the first record of a known level.

The strengthened invariants were checked with TLC on the instances of the runs, that of the
outbox and its reader with two failures, before they were proved. So were the step properties
and `BareHandlerStops`, which the runs do not list.

*Only model-checked.* The liveness properties of all runs: fairness and ENABLED are beyond
the prover. `TypeOK` of the modules not named above: their proofs use weaker types, without
the bounds of the model. The two violations of section 6 are counterexamples TLC finds.

## 6. Where the code and its documents disagree

1. `sessions_reconnect`: `Unregister` removes by client id; a client that reconnects before
   its old connection is noticed loses its new registration.
2. `outbox_room_order`: ids are drawn before the commit, so ordering by id does not preserve
   the order of a room. `SenderOrder` (run `outbox`) is what does hold.

Met on the way, and visible in how a passing property had to be stated:

- `LeavesUnlessStuck` excepts a goroutine that is stuck: `Dispatch` holds the hub's mutex on a
  full channel whose write pump has returned, and the instance then stops delivering and
  keeps its rooms, though a test of the hub (`ws_test.go:196`) says "rooms should be deleted
  after close". The run shows that this is the only way a closed connection stays.
- `CatchesUpUnlessBlocked` excepts a nil channel: `Start` of log-prop makes its handler without
  channels, so that the first record of a known level blocks `ConsumeClaim` for ever.
- `PassedIsPrintedOrLost` allows a dropped job: a worker drops a job of an expired session with
  the log line "will be redelivered", although another worker may have marked a later
  record, after which it is not.
- `DeadWritersRemoved` excepts a hub that is stuck: the hub goroutine of single-instance and
  naive-scale waits for ever on the full channel of a client whose write pump has returned,
  while the client's read pump waits for the hub.
- `RepeatsNeedFailures` allows a repeat per failure: naive-scale's README says exactly once,
  the relay (and its own comment) is at-least-once.
- `StampedIsDelivered` allows a loss per failure in naive-scale: its `Broadcast` only logs an
  error of PUBLISH, and the event is stamped.
- Payloads are JSON values: on a retry `Accept` returns the payload as `jsonb` prints it, while
  `store_integration_test.go:38` compares its text with the one of the first call.
- `Routable` excepts a connection whose Ping is overdue: with the constants of the code (a ping
  every 54 s, up to 10 s for the control frame, 5 s for the RPC, TTL 60 s) a slow ping lets
  the presence expire, and Ping does not register it again while the connection stays
  open. After an error of SMEMBERS, which Ping drops, the fields of the rooms expire while
  the key is renewed, and are back only with the next Ping.
- `NoResurrection` excepts a Ping whose key expires between its SMEMBERS and its EXEC: it writes
  the fields of the rooms back without the key, and delivery goes to an instance without the
  client until they expire. `grpc_test.go:445` says "Ping must not resurrect room membership",
  and tests it for a Ping that comes after the expiry.
- `NeverStranded` excepts a stuck hub: the relay of single-instance then waits in `Broadcast` with
  its transaction open until the process is restarted, though `ARCHITECTURE.md:116` says "a
  message is never stranded".
- `NothingMissed` excepts, in naive-scale, what a failed PUBLISH or the subscription lost; the
  outbox does not know of either.
- `EveryClientAnswered` excepts a connection to an instance whose hub is stuck: `ServeWS` waits in
  `hub.Register` before its read loop starts, `runPing` keeps the socket open, and the client's
  read has no deadline.

## 7. Not modelled

- Configuration, start-up and wiring; generated gRPC code; deployment files and load tests.
  What start-up decides (one relay, three instances, migrations before the server) is in
  constants and initial states.
- The internals of PostgreSQL, Redis, Kafka, sarama, go-redis and goose: each is modelled
  by what the code relies on. goose is a transaction per file that looks, applies and
  records; the table it makes for itself is left out. The drop of go-redis from a channel
  that stays full is in `HubDispatch` and, for a reader, in `History`, and not in `HubLoop`.
- Records that fail validation behind the store: `Accept` validates an event before it stores
  it, so the relay and the delivery service do not meet one. Directories of migrations with
  invalid names end the process before the first statement.
- The list handlers of the REST API and requests they refuse: they change nothing. `handleWS`
  answers the upgrade before the hub has registered the connection; a reader in `History` has
  joined when broadcasts reach it, and a client that reads its page earlier can miss a
  message.
- Why a hub gets stuck is modelled in `HubDispatch` and `HubLoop`; in `WsClient` and `Outbox` it
  may happen at any time after which the code allows it, and in `Sessions` a `Register` or
  `Unregister` may simply never happen.
- `FetchUndispatched`, `MarkDispatched` and log-prop's `close`, which nothing calls. The "pooled"
  handler of log-prop is modelled though `Start` does not make it, and its levels are those
  of the consumer's switch; the publisher sends "information" only.

## 8. Plan

1. The path of proper-scale up to the sockets: `MessagePath` with one `HubDispatch` per instance,
   whose events are what the instance's channel receives.
2. Two clients with one id on different instances, and the hub entries of both.
