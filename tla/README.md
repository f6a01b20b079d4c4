# Formal models of msgbus

TLA+ specifications of the msgbus message bus, TLC models that check them on
small instances, and TLAPS proofs of what matters most for all instances.
Paths below are relative to the repository root; `PROJECT.json` maps every
definition to the lines it models.

## The system

A daemon (`msgbusd`) keeps, for every pair of a topic and an origin node, an
append-only log whose messages are numbered by `head_id` from 1.

| Part | Source | Role |
| --- | --- | --- |
| store trait | `crates/msgbus-core` | append, replicate, delete a range, list heads, fetch; FIFO queues; sync state rows |
| SQLite backend | `crates/msgbus-store-sqlite` | tables under one connection mutex, one transaction per operation; `u64` head ids in `i64` columns; WAL with `synchronous=NORMAL` |
| redb backend | `crates/msgbus-store-redb` | key-value tables ordered by string keys, walked by prefix; one write transaction per operation |
| handlers | `crates/msgbus-server/src/lib.rs` | publish (store, then broadcast), subscribe (replay, then live), delete (flag, record, append a marker to `$msgbus.delete`), FIFO calls, replay of markers at startup |
| peer sync | `crates/msgbus-server/src/sync.rs` | one task per daemon: pulls, peer by peer and log by log, what the peer's heads show to be missing |
| daemon | `crates/msgbus-server/src/main.rs` | start, sync loop, shutdown |
| SDKs | `crates/msgbus-sdk-rust`, `go-sdk/msgbus` | calls, and subscriptions that reconnect and resume |

How they interact: handlers and the sync task share the store and a broadcast
channel. A delete is applied where it is made and travels to other daemons as a
message of the control topic; a daemon that has stored such a marker applies it
in a second transaction. Subscribers see a replay from the store and then the
broadcast channel. Consumers of a queue see its front until one of them
acknowledges it.

## Modules

| Module | Models | State | Actions |
| --- | --- | --- | --- |
| `SqliteStore` | message tables of the SQLite backend | `heads`, `messages`, `tombstones`, the last `reply` | `AppendMessage`, one action per outcome of `put_replicated_message`, `TombstoneRange`, `TombstoneRangeWithMarker` |
| `FifoQueue` | FIFO tables of the SQLite backend | `sequences`, `fifo` | `EnqueueFifo`, `AckFifo`, `RejectFifo`, `NotFront` |
| `SqliteDatabase` | both, in one database | | the actions of the two |
| `RedbStore` | the redb backend: keys, range scans, message and FIFO tables | tables as functions from keys to rows, the last replies | the same operations, written with look-ups and walks over ordered keys |
| `MsgbusStore` | what the trait promises of the log | one sequence and one set of ranges per log | append, replicate, delete, delete and announce |
| `FifoContract` | what the trait promises of a queue | a sequence per queue | enqueue, acknowledge, reject, ignore |
| `FifoConsumers` | `FifoQueue` with the RPCs and their clients | what each consumer holds; histories of what was enqueued and acknowledged | enqueue, peek, acknowledge, reject, give up, responses lost |
| `Subscription` | publish, subscribe and the reconnecting client | store heads, publish handlers, channel, server task, wire, client | each step between two points where the code may be interrupted; broken streams; daemon restarts |
| `Daemon` | `Subscription` inside the life of `msgbusd` | where `serve` is, the sync loop, signals | signal, timer tick, end of a pass, end of the loop, drained, exit joined or timed out, start, death |
| `LogContract` | values the message operations compute | none | operators |
| `PeerSync` | several daemons: publish, delete, sync tasks, identity checks, crashes | logs and tombstones of every daemon, the position of every sync task, sync state rows per peer address | each RPC and each transaction of the sync task is a step |
| `PowerLoss` | `PeerSync` with machines that lose power | the database as it is on the disk | checkpoint, power failure |

Both backends are shown to implement the same two contracts, `MsgbusStore` and
`FifoContract`, under constants that say where they differ: SQLite refuses
numbers beyond `i64` and a second use of an id, redb does neither.
`LogContract` states the log's view as operators, and `PeerSync` composes
daemons over it.

What is abstracted. A message id stands for UUID, payload, headers and time
together, which is what `same_message_except_deleted` compares. Logs are opaque.
A redb key is the rank of its prefix followed by the padded digits of its
number, in base `Base`; that no prefix begins with another is what `enc`, which
leaves no `/` in a name, is for. Column widths (`I64Max`, `U64Max`, `Width`),
the saturation point of counters (`U32Max`), the ring and channel sizes and
limits are constants. A backend's width appears in `PeerSync` as `HeadLimit`,
the largest head id it stores. `Peers[n]` says who answers at the addresses of
`n`, `Expected[n]` whom each address is pinned to. The `broadcast` channel is
kept whole and a receiver has lagged when it is more than `RingSize` behind. A
subscription is closed on both sides at once: the old server task can only
notice that its client has gone.

## Runs

| Run | Instance | Shows |
| --- | --- | --- |
| `sqlite_tables` | 2 logs, 3 ids, columns 0..2, callers name 0..3, 2 tombstones; 2 queues, 2 ids, 2 sequence numbers | logs gap-free, tombstones applied in any order, `list_heads` and `fetch_messages` complete, nothing altered or revived, sequence numbers continue; every operation and its answer is the contract's |
| `redb_tables` | 2 logs and 2 queues with neighbouring prefixes, numbers up to 3 in 2 digits of base 3, 3 rows, 1 tombstone | pages in order, every head has its message, every operation and its answer is the contract's |
| `fifo_consumers` | 2 queues, 2 consumers, 3 ids, 2 sequence numbers, fair | nothing lost, doubled or overtaken; only a peeked message leaves; every message is acknowledged |
| `subscribe_resume` | 2 topics, 1 publisher, 2 messages per topic, replay covers the backlog, ring 1, wire 1, 2 faults, 1 signal, fair | resume point exact, head ids increase, every message returned unless the daemon has been stopped; the sync loop serves, a drained daemon stops |
| `peer_pull` | b pulls from a and may lose power; 2 messages, 1 delete, 2 faults, batches of 1, fair | markers applied, success means caught up, recorded failures clear, both end up equal |
| `peer_relay` | c pulls from a and from b, which pulls from a and has a narrower backend; 1 message, 1 delete, 1 fault | replicas are prefixes, deletions come from the origin |
| `peer_mutual` | a and b both write, delete and pull; an address of a leads to a itself, one of b to a daemon it is not pinned to; 1 message and 1 delete each, no fault, fair | prefixes, nothing taken back, and both end up equal |
| `subscribe_race` | 2 publishers, 3 messages | **violated**: see findings |
| `subscribe_truncated` | replay limit 1, 3 messages | **violated** |
| `daemon_stop` | 1 publisher, 2 messages, no fault, 1 signal, fair | **violated** |
| `peer_live_flag` | topology of `peer_relay`, wide backends, 1 fault | **violated** |
| `peer_wide_range` | narrow replica, delete range beyond its width, fair | **violated** |

Bounds. In `sqlite_tables` a log fills its columns while an unused id is left,
so the refusal at the width is told apart from the refusal of a taken id, and
two ranges may overlap. Logs there hold two messages; that longer logs behave
alike is what the proofs add, for every property of the two backends' runs. In
`redb_tables` three is the smallest
number whose unpadded digits sort before those of a smaller one, so a log of
three messages shows what the padding is for; two prefixes next to each other
let every scan run into the other log or queue. Message and FIFO operations of a
backend share no table and are explored apart (`Apart`). `MaxTombstones`,
`MaxRows` and `MaxMarkers` are state constraints: a state beyond them is checked
and not continued. Two messages and batches of one need several rounds of
fetching; two faults allow a crash during the recovery from another. A ring of
one message overruns. Ids and logs are symmetric where a run says so: no
definition tells them apart, and no liveness is checked in a run that uses
symmetry.

What the bounds leave out. Convergence is checked for two daemons; with three
only the invariants of `peer_relay` are, which the proofs extend to any number.
In `PeerSync` the refusal of a marker that does not fit (second case of
`StoreRefuses`) happens in `peer_relay`; the refusal of a message by
`put_replicated_message` (first case) needs a log longer than a backend's width
and happens in no run of `PeerSync`. The refusals themselves are checked in
`sqlite_tables`.

Answers name the operation and, of a queue, the queue. The tables are compared
with the contracts through `reply`, which says what was asked: an acknowledgement
and a rejection both answer `true`, and without the name a rejection that drops
its message would pass for an acknowledgement, and a front taken from a
neighbouring queue for an acknowledgement there.

Deadlock checking is off for the FIFO consumers, the subscription and the
daemon: when all messages within the bound are published and consumed, or the
daemon has been stopped, nothing need be left to do.

Fairness.
- `Daemon`: weak fairness of each publish handler past its commit, of the server
  task of a subscription, of a client that keeps calling `next_message`, of the
  interval timer, and of `serve` once it can go on. tokio runs ready tasks.
  Publishing, faults, signals, the end of a sync pass (it may hang on a peer), a
  client that hangs up, and the start of a stopped daemon are not fair.
- `PeerSync`, `PowerLoss`: weak fairness of each sync task (the interval timer
  keeps ticking and each call succeeds or fails) and of the restart of a crashed
  daemon (`Restart=on-failure` in `packaging/systemd/msgbusd.service`).
  A call to a running peer fails at most `MaxFaults` times: "when peers can
  reach each other". Nothing obliges SQLite to checkpoint.
- `FifoConsumers`: strong fairness of peeking and of acknowledging per consumer
  and queue. This is an assumption on clients, not on msgbus: one that rejects
  for ever keeps the front for ever.

## Findings

1. `subscribe_race`: two handlers commit 1 and 2 and broadcast 2 and 1; the
   filter `head_id > last_sent` drops 1 from open streams. A later reconnect
   starts after 2, so 1 is not seen again.
2. `subscribe_truncated`: with a backlog longer than `replay_limit` the stream
   goes from the last replayed message to the next live one, and the client's
   resume point passes over what lies between.
3. `daemon_stop`: after a signal the server waits for open calls, and an open
   Subscribe stream ends only when its client goes or the last broadcast sender
   is dropped, which the service itself holds. With a subscriber that stays, the
   daemon does not stop; the limit of five seconds covers the sync task only.
   `StopsWhenDrained` (run `subscribe_resume`) is what does hold.
4. `peer_live_flag`: a message that a known tombstone covers is stored as
   deleted and broadcast as received. It takes a relay that has the message and
   not yet the marker, and a failed call to the origin. No document speaks of
   this flag on replicated messages; the expectation is taken over from a test
   of `append_message`.
5. `peer_wide_range`: a delete range that redb accepts and SQLite cannot store
   leaves a marker on the replica that is never applied. The run has no crash;
   that such a replica does not start again is the guard of `Restart`, read from
   `replay_control_messages`, and not something a run shows.

## Power loss

SQLite runs in WAL mode with `synchronous=NORMAL`, which keeps the database
consistent and may lose the last committed transactions when the machine loses
power. `PowerLoss` lets the machines in `Lossy` fall back to any earlier
committed state. In `peer_pull` these are the replica's: what it lost it pulls
and applies again, also when the loss falls between storing and applying a
marker. An origin is another matter and is not in `Lossy`: it would give head
ids out again that replicas already hold with other content. Replicas that are
ahead ask for nothing, and later messages are stored behind the old ones;
`ReplicaPrefix` and `Convergence` do not hold there, and no document speaks of
power failures. Nodes that publish need a backend that syncs each
commit, or `synchronous=FULL`. That the replicas' power failures are harmless
is proved for any number of nodes (`MarkerProofs`); `SuccessMeansCaughtUp` needs
in addition that no peer one pulls from loses power, since a peer may lose what
it has just listed.

## Proofs

Eight modules hold theorems; `PROJECT.json` lists the results. Every invariant
and every refinement that a passing run checks is also proved, for all values of
the constants; what remains with TLC is liveness.

`Counting` has the facts about rows and numbers that the proofs of both backends
use: rows are counted through their keys, a nonempty set of naturals has a least
element (which stands in for induction, since the library's induction theorems
take a predicate as parameter and the provers cannot instantiate one), and rows
that carry the newest numbers of a counter stand for a queue.

`SqliteDatabaseProofs` (for all `Log`, `Id`, `Queue`, positive `U32Max` and
widths with `0 < I64Max < U64Max`).
- Messages: `TypeOK`, `GapFree`, `TombstonesApplied`, `ListHeadsComplete`,
  `FetchIsSlice` and `AppendOnly`. The inductive invariant `IInv` joins the first
  three with the finiteness of the messages table, stated over contents of the
  tables (`Consistent(hs, ms, ts)`) so that an operation that deletes and then
  appends is two uses of two lemmas: `DeleteRange` (flagging rows keeps the
  tables consistent) and `InsertNext` (so does a row at the next head id). The
  one place that needs gap-freedom itself is the insertion of a replicated
  message: no row at its head id, and the head id at most one past the head,
  leave only the next position. Finiteness is needed because a delete answers
  with a count.
- `ImplementsStore`: with gap-free tables the rows of a log are a sequence, and
  each operation, each refusal and each answer is that of `MsgbusStore` on it.
- Queues: `WaitingAreNewest` (the rows of a queue carry the newest sequence
  numbers of its counter, each once) is the inductive invariant, and from it
  `ImplementsFifo`: the first row in the order of sequence numbers is the front
  of the contract's queue, a new row its end.
- `DatabaseKeepsLogs`: a behaviour of the database is one of its message tables,
  so what is proved of these alone holds of the whole.

`RedbKeysProofs` and `RedbStoreProofs` (for all logs, queues and ids, every
`Base` of at least 2, every positive `Width` and `U32Max`, and bounds below the
largest number of that width): `TypeOK`, `FetchInOrder`, `HeadsHaveMessages`,
`ImplementsStore` and `ImplementsFifo`.
- Keys: padded numbers are equal only if the numbers are, and sort as the
  numbers do. The digits of a number are quotients by powers of the base; the
  values of the recursive function `Power`, and the most significant digit in
  which two numbers differ, come from least elements instead of induction. A
  walk from a key up to the first one without the prefix therefore reaches
  exactly the rows of that log from there on.
- Tables: `LogInv` says that every message row is filed under the key of its log
  and head id, one for each head id up to the head, and every tombstone under
  the key of its range; `FifoInv` says it of queue rows, which moreover carry
  the newest sequence numbers. An insertion then adds the row that is meant or
  replaces it, and never one of a neighbouring log or queue.

`FifoConsumersProofs` (for all `Queue`, `Id`, `Consumer` and positive `I64Max`
and `U32Max`): `TypeOK`, `Conservation` and `OnlyPeekedLeaves`. `Conservation`
alone is not inductive: two rows might share a sequence number, and removing one
would leave the other. `IInv` adds that they do not. `FrontIsNext` (the row
`ORDER BY` picks is the one after the last acknowledged) is what makes
acknowledging sound.

`DaemonProofs` (for all topics, handlers, positive `ReplayLimit`, `RingSize` and
`WireSize`, and all bounds).
- `StrictlyIncreasing`, `DaemonTypeOK` and `SyncsWhileServing`. That the client's
  head ids increase is not inductive: the invariant says the same of everything
  that is still on its way, from the client's resume point through the wire to
  what the server task has sent last, so that a new connection, which starts at
  the resume point, can neither repeat nor overtake.
- `ResumesAtFirstMissing` and `LiveNotSkipped`, under two conditions: publish
  handlers do not overlap (`OneByOne`), and a replay covers the log
  (`ReplayInFull`). The invariant `NoGap` says of each message the client has
  not been handed where it is: in the outbox or on the wire, ahead of the stream
  in the channel, or with its handler. Neither can be
  dropped: `subscribe_race` is what happens without the first,
  `subscribe_truncated` without the second.

`PeerSyncProofs` (for all nodes, topics, peers and pins, widths, batch sizes and
bounds).
- `ReplicaPrefix`, `DeletedOnlyByOrigin` and `AppendOnly`. Everything rests on
  one order: a log is `Below` another if it is a prefix of it, message for
  message, and not ahead of it in deletions. The invariant says that every copy
  is below the log at its origin, that every recorded range is recorded at the
  origin too, that the origin has applied its ranges and recorded what its
  markers announce, and that whatever a sync task holds agrees with the origin.
  `StoreStep(n)` is what one step has to show about the one store it writes;
  `StoreStepSafe` turns it into the invariant. Relays need no argument of their
  own, because the order is transitive.
- `SuccessMeansCaughtUp`. The invariant `CatchingUp` follows a task through its
  pass: what it listed is at its peer, what it is done with is in its own store,
  and its batch begins right after what it has. The case that has to be excluded
  is a round that brings nothing and ends the head early: the peer had the
  message when it listed it and stores only grow, so a fetch cannot come back
  empty.
- `TypeOK`, with the rows of `peer_sync_states` and their saturating counter.

`MarkerProofs` (the same constants).
- `MarkersApplied`, if every backend stores the ends of the ranges that are
  deleted (`RangesFit`). The invariant `MInv` adds to that of `PeerSyncProofs`
  that a stored marker has its range recorded, but for the one marker the sync
  task is applying and for a daemon that is down, that all recorded ranges are
  applied, and that no marker is ever deleted itself. A crash between the two
  transactions leaves `MInv` through the second exception and comes back with
  `Restart`. `RangesFit` is needed: `peer_wide_range` shows the marker that is
  never applied.
- Power failures (`PowerSpec`), if only nodes that do not publish lose power
  (`ReplicasLose`, see above for why): `ReplicaPrefix`, `DeletedOnlyByOrigin`,
  `TypeOK`; `MarkersApplied` with `RangesFit`; `SuccessMeansCaughtUp` if in
  addition no peer loses power (`PeersKeepPower`). Stores may now take messages
  back, so `AppendOnly` is gone and with it the old argument. The invariant
  `PInv` adds that the database on the disk of such a node is itself below its
  origins, and that a node whose clients do not write has no log of its own: no
  peer and no marker can bring it one. A power failure then changes no log at
  its origin, which is all that the other nodes rely on.

Only model-checked: liveness (`EventuallyAcked`, `ReturnedUnlessStopped`,
`StopsWhenDrained`, `FailuresClear`, `Convergence`), because the prover handles
neither fairness nor `ENABLED`.

## Not modelled

- the `health`, `ready` and other read-only handlers, TLS, command line, protobuf
  encoding, examples: no protocol state;
- the calls of the SDKs other than the reconnecting subscription: single RPCs.
  The Go iterator computes its resume point without saturation and wraps after
  2^64 messages, where the Rust one stays;
- `NodeId::key` and name validation: logs are opaque pairs. The key joins the
  parts of a node with `/`, which nothing keeps out of a part, so nodes have to
  be named without it;
- subscribers of replicated logs: `Subscription` has one origin, and what peer
  sync broadcasts is checked in `peer_live_flag` up to the channel.
