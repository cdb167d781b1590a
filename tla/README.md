# A verification project for reth-remote-exex

TLA+ models of the reth ExEx that pushes chain notifications over gRPC, and of
the Go programs in `examples/` that measure and verify it. The models are
translated from the source. TLC checks them on small instances, and TLAPS
proves theorems about the server, the verifier and its comparison, and the
benches for every value of their constants.

Contents: [inventory](#inventory) · [modules](#modules) · [runs](#runs) ·
[fairness](#fairness) · [theorems](#theorems) · [findings](#findings) ·
[what is not modelled](#what-is-not-modelled) · [plan](#plan)

## Inventory

```
 reth node                        this repository (one process)                    clients
 ---------   canonical_state      ------------------------------------------      --------------
 engine  --> stream (reth's  -->  remote_exex loop --broadcast(16)--> task s --mpsc(16)--> gRPC stream --> bench,
             own channel)             |                                |   notification_to_proto            verifier,
         <-- ctx.events <-- FinishedHeight                             one per Subscribe call               consumer
```

### The server: `src/exex.rs`

* **State.** The loop's place in reth's canonical-state stream, a
  `tokio::sync::broadcast` channel of the last `BROADCAST_CHANNEL_CAPACITY`
  notifications, and for each Subscribe call a task, its cursor in the
  broadcast channel, an mpsc queue of `PER_CLIENT_CHANNEL_CAPACITY` messages
  and the client's end of the stream. Both capacities are 16 (`exex.rs:24`,
  `:27`). Nothing is persisted.
* **Operations.** The loop takes a notification, sends `FinishedHeight` for a
  commit, broadcasts. `subscribe` makes a receiver and spawns the task. The
  task receives, or is told `Lagged(n)`, converts, sends (waiting for room),
  and ends when the client is gone or the channel closed.
* **Interactions.** The broadcast channel is shared by the loop and all tasks;
  a queue by a task and its client; the sender handle by the loop, the server
  and every connection.
* **Hard.** The slowest party of each channel decides who loses what; a task
  notices a departed client only when it next sends; `Closed` is seen only when
  nobody holds the sender; after a relaunch everything in memory is gone.
* **Correct when** a client sees notifications in order and none twice, every
  gap is counted or is reth's own, `FinishedHeight` precedes visibility, the
  loop waits for no client, and tasks do not outlive their purpose.

### The conversion: `src/convert.rs`

* **State.** None, but for the six flags a task holds for its subscription.
* **Operations.** `notification_to_proto` and the functions below it, one per
  message of `proto/exex.proto`.
* **Hard.** proto3 has no absent scalars; traces come in a map by block number
  beside the blocks they belong to; the flags select parts in three functions.
* **Correct when** a message holds exactly the parts asked for, traces match
  their transactions, and a reader of the message gets the node's values back,
  absent ones included.

### The benches: `go-latency-bench`, `go-receipts-bench`, `go-internal-txs-bench`, `go-state-diff-bench`

* **State.** Two subscriber goroutines (WebSocket `newHeads`, gRPC), a channel
  from each to main, an error channel, main's map of pending blocks and its
  counters, a ticker, a context cancelled by a signal.
* **Operations.** Connect, read, optionally fetch by HTTP, hand over; main
  pairs arrivals by block number, evicts what waits too long, stops at the
  target, on an error, or on a signal.
* **Hard.** `select` picks any ready arm; a tick may be read late; a reorg
  announces a number twice on one side and not on the other, and overwrites a
  time; only one side knows what is printed beside the times; each side fails on
  its own. A message of several blocks counts as its last one, whose parts must
  be found in lists that may leave it out.
* **Correct when** no arrival is lost, none is used twice, every entry is
  resolved, neither side stalls the other, and the run ends when it should; when
  a printed delta lies within the matching window, the data beside it is that of
  the same notification, and the summary agrees with the lines.

### The verifier: `go-trace-verifier`

* **State.** `workCh`, a pool of workers, `resultCh`, a WaitGroup, main's
  `failed` flag.
* **Operations.** `streamLoop` queues up to `n` blocks; a worker fetches the
  node's traces (one retry), compares (`compare.go`) and reports; a closer
  closes `resultCh`; main collects and sets the exit code.
* **Hard.** The order of the closes, early ends of the stream, reorgs between
  the notification and the RPC answer; in the comparison, absent, empty and zero
  in two encodings.
* **Correct when** each queued block is reported exactly once, nothing is sent
  on a closed channel, the exit code tells of every failure, and a mismatch is
  reported exactly when the two traces differ.

### The consumer: `go-consumer`

* **State.** One goroutine: its request, made of six flags, and the context.
* **Operations.** Subscribe, receive and print until the stream ends, fails, or a
  signal comes; `printNotification` and the functions below it.
* **Hard.** Whatever was not asked for is a nil pointer; absent, zero and empty
  are told apart by the length of a byte string alone; a call tree is printed
  flat.
* **Correct when** what it prints tells the reader what the node reported.

### The generated package: `proto/gen/exex.pb.go`

Six copies of one file, one in each program. The types are those of
`proto/exex.proto`, with pointers for messages and wrappers for a oneof.

### The rest

`build.rs`, `lib.rs` and the Cargo and Go module files are build matters. See
[what is not modelled](#what-is-not-modelled).

## Modules

| Module | Models | State and actions |
|---|---|---|
| `RemoteExEx` | `src/exex.rs` | the loop (`ExExStart`, `ExExRecv`, `ExExFinish`, `ExExFinishFails`, `ExExBroadcast`, `ExExStreamEnd`), calls (`Subscribe`, `TaskRecv`, `TaskLagged`, `TaskSend`, `TaskSendFails`, `TaskClosed`, `ClientRecv`, `ClientCancel`, `ClientDisconnect`), the process (`ServerStart`, `ServerStop`, `NodeExit`, `NodeLaunch`) and reth (`CanonNotify`) |
| `NotificationFeed` | the promise of a Subscribe call, abstractly | a publisher and one position per call |
| `ProtoConvert` | the functions of `src/convert.rs` on single parts | operators named like the functions |
| `ChainConvert` | chains, notifications and flags | `Subscribe`, `Push`; extends `ProtoConvert` |
| `LatencyStream`, `ReceiptsStream`, `InternalTxsStream`, `StateDiffStream` | each bench's `exex.pb.go` and the request and message handling of its `grpc.go` | operators named like the Go types, `Request`, `SubscribeGRPC` |
| `VerifierStream` | the verifier's `exex.pb.go`, and what `streamLoop` takes from a message | the same, `streamLoop` |
| `ConsumerStream` | go-consumer's `exex.pb.go` and `main.go`'s printing | the same, `hexBytes`, `printNotification`, `printChain`, `printCallFrame` … |
| `StreamReaders` | the composition of `ChainConvert` with the six programs | `Call`, `Recv`, and go-consumer's `CallFails`, `Interrupt`, `StreamEof`, `RecvFails` |
| `LatencyBench` | the control of the four benches | per side a goroutine (`Connect` … `Put`, `Report`), main (`MainArrive`, `MainTick`, `MainErr`, `MainDone`), time (`Elapse`), the node |
| `BenchResults` | main of a bench with times and data | `Start` (the flag), `TimePasses`, `Arrive`, `Take`, `Scan`, `Interrupted`, `SubscriberFails`, `printStats` |
| `WorkPool` | what the verifier promises, abstractly | `Take`, `Report`, `Return` |
| `TraceVerifier` | `main.go`, `rpc.go` of the verifier | `Stream…`, `Worker…`, `CloseResults`, `Collect`, `Summarise` |
| `TraceCompare` | `compare.go` | `Take`, `Fetch`, `CompareBlocks`, `Send`; extends `ProtoConvert` |
| `FrameWalk` | recursion over call frames | the recursive function `Walk`; `ProtoConvert`, `TraceCompare`, the stream modules and `StreamReaders` take an instance for each of their functions that call themselves |
| `MC…` | instances of the above for TLC | |
| `RemoteExExProofs`, `LatencyBenchProofs`, `BenchResultsProofs`, `TraceVerifierProofs`, `FrameWalkProofs`, `TraceCompareProofs` | theorems about the module of that name; `TraceVerifierProofs` also about `WorkPool` | |
| `StreamReadersProofs`, `ConsumerProofs` | theorems about `StreamReaders`: the conversion, the verifier and the benches; go-consumer | |

`ProtoConvert` is shared: `TraceCompare` compares frames that went through the
model of the server's `call_frame_to_proto` with frames in the RPC node's JSON,
so its runs check the server and the verifier together. In the same way
`StreamReaders` puts a program at the other end of the server's conversion: its
`Request` sets the flags of `Subscribe`, the message `Push` makes goes through
the program's generated types and then through its handling, and the
properties compare the outcome with the node's notification.

Beside a definition stand variants marked `\* Bug:`. Each is what a plausible
mistake in the code would make of the definition that follows it; put in its
place, it violates one property. No action uses them.

### Abstractions worth knowing

* **RemoteExEx.** A notification is its index in the history of what reth
  emitted. `log` keeps everything ever broadcast; the channel's ring is its
  last `BroadcastCap` entries, and nothing reads beyond it. The flow-control
  buffers of HTTP/2 are part of the mpsc queue: a longer queue. reth's stream
  to the loop is modelled as tokio's broadcast stream that skips silently on
  lag (`ExExRecv`), as the wrapper in reth does. The canonical stream carries
  commits and reorgs only. A connection is told apart from the stream on it: a
  client may cancel its call and stay connected (`ClientCancel`), and its
  connection then still holds a sender of the broadcast channel (`SendersGone`).
  Each call has a connection of its own; several calls on one connection would
  hold the one sender together.
* **ChainConvert, StreamReaders, TraceCompare.** Numbers are written in few digits of base 4
  instead of 32 bytes, so that leading zeros and zero itself occur. Fields
  copied unchanged are represented by one of them. An Option is a sequence of
  at most one element; so is a Go pointer, none being nil. A Go type is decoded
  with the fields its program looks at, in go-consumer with all that the
  conversion models. A printed line is the record of the values in it, and hex
  text is the digits behind the prefix `0x`.
* **Call frames** are the elements of the constant `Frames`, a set of records that
  contains the calls of its elements; `Depth` says that they are finite trees.
  `call_frame_to_proto` is the `Walk` of `FrameWalk` over them, and `compareFrame`
  the one over pairs of them: what is made of a frame (`frame_to_proto`,
  `compareWith`) is an operator on it and on the results for its calls. So are
  the decoding of frames (`Decode`) and their printing (`Lines`, over frames
  together with their indentation). A loop that passes over some elements of a
  list is `Kept`, the elements at a set of positions. The
  mismatches of the verifier are the set of their paths; their order is left out.
* **What the node reports.** `NodeChain` in `StreamReaders` says what a chain is:
  fields of reth's and revm's types with values of their width, a chain id or a
  field of another transaction type absent or zero, blocks that follow on one
  another, at least one of them, one sender per transaction, and frames whose
  senders are those of the transactions. It is the only assumption on the
  constants `Chains` and `OldChains` (`NodeAssumption`), TLC evaluates it on the
  instance of `readers`, and how many frames a block has, and whether any, is
  left open.
* **StreamReaders** stops after one message: none of the programs carries
  anything from one message to the next at this point. What follows in the
  benches and the verifier is the subject of their own modules.
* **BenchResults.** An arrival is stamped when its goroutine has it and may wait
  `MaxLag` for main; a tick may wait `MaxTickLag`. What the gRPC side takes from a
  message (`txCount` and `gasUsed`, or `accounts`) is represented by the stamp of
  that message, so that a line shows data of the right notification exactly when
  the two are equal.
* **TraceCompare, external.** The node is assumed to send logs with its frames and
  to write their `position` and `index` as JSON numbers, which is what
  `*uint64` (`rpc.go:38`, `:39`) accepts. As it stands the request (`rpc.go:66`) asks
  without `withLog`, so a node that follows it sends none and the log half of the
  comparison is idle. A node that writes the two in hexadecimal, as it does with
  quantities, makes `json.Unmarshal` fail (`rpc.go:98`); that is a failed call
  (`RPC_ERROR`), which is in `TraceVerifier`, and not a mismatch.
* **LatencyBench.** The node's chain is its height. A reorg replaces the last
  blocks by others, by fewer or by none, so a number may be announced again by
  `newHeads` and be committed again on the gRPC stream (`NodeReorg`); nothing in
  main looks at the numbers it has had. The histories `handled`, `got` and
  `timedOut` count per number, and the code decides nothing by them.
  Three constants tell the four programs apart: `Fetches`
  (the WS side makes an HTTP call), `EofIsError` (state-diff), `ChecksAck` (all
  but latency). Time is counted in ticker intervals and kept as ages.
* **TraceVerifier.** Comparing is reduced to whether the RPC answers for the
  block the stream carried; `TraceCompare` models the comparison itself. A call
  succeeds, fails, or hangs for good. `streamLoop` goes
  over the traces of a message: the empty ones before the next block to send are
  passed over in the step before (`PassOverEmpty` of `StreamRecv` and
  `StreamSend`).

## Runs

### Server

| Run | Instance | What it shows |
|---|---|---|
| `server_safety` | 2 calls (symmetric), broadcast 2, queue 1, reth's channel 2, 3 notifications of both kinds, 2 launches | order, gap accounting, `FinishedHeight` first, no unexplained gap, no repetition for a client that reconnects, also across a crash and a relaunch, no stream ended under its client; the refinement of `NotificationFeed` |
| `server_live` | 1 reading and 1 arbitrary client, capacities 1, 3 notifications, 1 launch | the loop never blocks, the reader keeps up, tasks of departed clients end, and all tasks when the last sender is gone |
| `server_oldest_kept` | as `server_safety`, but 4 notifications, commits only, 1 launch | violated: see findings |

Three notifications over a channel of two entries are the least that overrun it,
for one client and not for the other, or for neither with one message waiting for
the queue; two calls are enough for each property, which speaks of one or two of
them. A second launch is what makes a client of the first one reconnect to a
server that has forgotten it. With capacities of 1 the same three notifications
fill every channel and overrun the broadcast channel and reth's; a launch anew
starts the loop and its tasks afresh and has nothing of the old ones left that
could end or wait, so `server_live` does with one. The kinds matter only to
`FinishedHeight`. The theorems below remove the bounds of what they state.

### Conversion and its readers

| Run | Instance | What it shows |
|---|---|---|
| `readers` | the six programs, go-consumer with all 64 sets of flags; up to 2 blocks of 0–2 transactions, with traces absent, partial, shorter or complete; and one block with headers of every combination of optional fields, transactions of the five types, accounts and reverts of every kind, frames with each optional field and trees of them | a client gets what it asked for and no more; traces stay with their transactions; headers, transactions and state diffs can be read back from the decoded message; each bench gets the last block of a commit and its own data; the verifier takes exactly the traced blocks; go-consumer's output tells blocks, accounts and calls as they were |

`StreamReaders` defines two readings. `HeaderOf`, `TxOf` and `BundleOf` follow
the comments of `proto/exex.proto`: what a program with nothing but the message
takes its fields to mean. `ReadAccount`, `ReadRevert` and `ReadFrame` are a
person's, with nothing but go-consumer's output; `ReadFrame` rebuilds a call
tree from its indentation. One message per subscription is enough, since
neither the conversion nor the programs keep anything at this point.

### Benches

| Run | Instance | What it shows |
|---|---|---|
| `bench_match` | go-latency-bench; 1 block number, 2 reorgs that replace its block or take it away, target 2, late ticks, channels of 1 | no arrival is used twice, lost, or kept too long |
| `bench_live` | go-state-diff-bench; 2 blocks, target 1, punctual ticks | entries are resolved, no side is stuck, errors and signals end the run |
| `bench_results` | go-latency-bench and go-state-diff-bench; targets -1 to 2, 2 block numbers, 2 arrivals a side, timeout 1, lags of 1, 7 units of time | deltas within the window, data of the right notification, an honest summary |
| `bench_counts`, `bench_disconnect` | go-receipts-bench; go-latency-bench, 2 blocks, no reorg | violated: see findings |

A channel of one entry is full as soon as main is busy, which the program's 32
make rarer and not different. In `bench_match` one number is announced up to three
times, before and after it was matched or given up on: what main knows of a
number is in its own entry of the map, and the properties speak of one number at
a time. Two numbers, of which one waits while the other is matched, are in
`bench_live`, and the theorems are for any number of them and reorgs of any depth.
Ticks at most `MaxTickLag` intervals late bound how stale a scan may
be; the bound of `NoEntryOverstays` depends on it, which is the point: with
punctual ticks an entry goes at the first scan after the timeout. Likewise the
window of `DeltaInBounds` is `Timeout + 1 + 2 * MaxTickLag + MaxLag`, and one unit
less is already violated in this instance: seven units are enough to go
beyond it. So a pair is matched up to a scan interval after `matchTimeout`, a delay
`docs/design/latency-bench-design.md:150` calls acceptable, and longer when
main is late.

### Verifier

| Run | Instance | What it shows |
|---|---|---|
| `verifier` | 2 workers, n = 3, `workCh` of 1, 4 blocks, a reorg, 4 failing calls, calls that hang | the refinement of `WorkPool`: at most n blocks, each reported once, an exit code that tells of all; the closes, what a mismatch means; a hung call holds up one block, and without one the program ends once the stream is over |
| `verifier_exactly_n` | n = 2 | violated: see findings |
| `compare` | 1–2 transactions, frames that differ in one field at the root, in a child or in a log | mismatch exactly when different, counts complete |

Where deadlock is not checked the system may really stop: a client that does
not read, a node that emits nothing more, a program that has exited.

### Properties by run

* `server_safety` (`MCRemoteExEx_safety.cfg`): `TypeOK`, `DeliveredInOrder`, `EveryGapCounted`, `FinishedBeforeVisible`, `NoUnexplainedGap`, `ReconnectNeverRepeats`, `StreamStaysOpen`, `FeedSpec`.
* `server_live` (`MCRemoteExEx_live.cfg`): `ProducerNeverBlocks`, `ReaderKeepsUp`, `GoneTaskReaped`, `ClosedEndsTasks`.
* `server_oldest_kept` (`MCRemoteExEx_oldest.cfg`): `OldestUnreadKept`.
* `bench_match` (`MCLatencyBench_match.cfg`): `TypeOK`, `ArrivalsUsedOnce`, `NoArrivalDropped`, `NoEntryOverstays`.
* `bench_live` (`MCLatencyBench_live.cfg`): `EntryResolved`, `SubscriberNeverStuck`, `FailureEndsRun`, `CancelEndsRun`.
* `bench_counts` (`MCLatencyBench_counts.cfg`): `CountsAreConsistent`.
* `bench_disconnect` (`MCLatencyBench_disconnect.cfg`): `OtherBlocksContinue`.
* `bench_results` (`MCBenchResults.cfg`): `DeltaInBounds`, `PayloadFromStream`, `SummaryHonest`.
* `verifier` (`MCTraceVerifier.cfg`): `TypeOK`, `NoSendOnClosed`, `MismatchMeansReorg`, `StreamEndEndsRun`, `HungCallHoldsOneBlock`, `PoolSpec`.
* `verifier_exactly_n` (`MCTraceVerifier_exactly_n.cfg`): `ExitsAfterExactlyN`.
* `readers` (`MCStreamReaders.cfg`): `FlagsSelect`, `TracesMatchTxs`, `MessageReadable`, `BenchTakesTip`, `VerifierTakesTraced`, `ConsumerShowsBlocks`, `ConsumerTellsValues`.
* `compare` (`MCTraceCompare.cfg`): `NoFalseAlarm`, `NothingMissed`, `CountsComplete`.

## Fairness

* `RemoteExEx`: weak fairness of the loop and of every task (tokio polls a task
  that can make progress), and of reading for the clients in `Readers` only. No
  fairness of reth, of the server's start and stop, or of any other client:
  `ProducerNeverBlocks` holds without a single client that reads.
* `LatencyBench`: weak fairness of hand-over and error report, of time, and of
  each arm of main's `select`. Go picks among ready arms at random, and here a
  ready arm stays ready until it is picked, so one that is never picked has
  probability zero. Nothing is assumed of the network: a read or a fetch may
  hang for ever.
* `TraceVerifier`: weak fairness of every goroutine, which includes that a call
  that does not hang, or a connection attempt, comes back. `http.DefaultClient`
  has no timeout: `WorkerHangs` is always possible and never forced, and with it
  the program does not end, which `StreamEndEndsRun` excepts.

## Theorems

Each holds for every value of the constants. The assumptions are the `ASSUME`s
of the component's module and nothing else: capacities are positive, bounds are
natural numbers, kinds and programs are those there are. TLC evaluates them in
every run of the component. No theorem uses fairness.

| Component | Theorem | States |
|---|---|---|
| server | `TypeCorrect` | `TypeOK` |
| | `InOrder`, `NoRepeat` | `DeliveredInOrder`, `ReconnectNeverRepeats` |
| | `GapsCounted`, `GapsExplained` | `EveryGapCounted`, `NoUnexplainedGap` |
| | `FinishedFirst` | `FinishedBeforeVisible` |
| | `NeverHungUp` | `StreamStaysOpen` |
| | `ImplementsFeed` | `FeedSpec`, the refinement of `NotificationFeed` |
| verifier | `TypeCorrect` | `TypeOK` |
| | `NoPanic` | `NoSendOnClosed` |
| | `NoFalseMismatch` | `MismatchMeansReorg` |
| | `ImplementsPool` | `PoolSpec`, the refinement of `WorkPool` |
| | `ReportComplete` | `Promise` of `WorkPool`, carried over by the refinement |
| comparison | `NeverFalseAlarm` | `NoFalseAlarm` |
| | `NeverMissed` | `NothingMissed` |
| | `CountedInFull` | `CountsComplete` |
| call frames | `WalkAt` | the recursion of `FrameWalk` has a solution on any finite trees |
| conversion | `FlagsAreKept` | `FlagsSelect` |
| | `TracesAreTheBlocks` | `TracesMatchTxs` |
| its readers | `VerifierTakesTheTraced` | `VerifierTakesTraced` |
| | `BenchTakesTheTip` | `BenchTakesTip` |
| | `ConsumerShowsTheBlocks` | `ConsumerShowsBlocks` |
| | `MessagesAreReadable` | `MessageReadable` |
| | `ConsumerTellsTheValues` | `ConsumerTellsValues` |
| work pool | `KeepsPromise` | `Promise`: what the steps of the pool add up to |
| benches, control | `TypeCorrect` | `TypeOK` |
| | `UsedOnce` | `ArrivalsUsedOnce` |
| | `NothingDropped` | `NoArrivalDropped` |
| | `NoneOverstays` | `NoEntryOverstays` |
| benches, results | `PairsAreClose` | `DeltaInBounds` |
| | `PayloadIsStreams` | `PayloadFromStream` |
| | `HonestSummary` | `SummaryHonest` |

None of these properties is inductive alone. In each proof module `IInv` is the
strengthening: a conjunction of named parts, each with a lemma that every step
preserves it, and `Invariance` is `Spec => []IInv`. Why the parts are needed:

**Server** (`RemoteExExProofs`). That deliveries are in order needs that the
positions a task has sent increase and lie in the channel's history
(`SentOrder`), which needs that cursors never exceed what was broadcast
(`Cursors`), and that the history itself is strictly increasing in reth's order,
all of it taken by the loop (`LogOrder`); that a commit is finished before it is
visible needs that a loop which is past `FinishedHeight` has sent it for the
notification in its hand (`FinishedInHand`, `InHand`). `Unused` says that a call
not made has the initial values. That a stream is not ended under its client needs
that an open stream has its connection (`Connected`), which keeps `Closed` from its
task. It is all that `StreamStaysOpen` says: once the loop has ended, a stream that
stays open is silent. The refinement follows
with one more invariant, `WindowInv`: between two messages a task has consumed
without sending, everything is at least `BroadcastCap` old. `FeedStep` shows that
each step of the server is a step of the feed, or leaves it unchanged.

**Verifier** (`TraceVerifierProofs`). `Closing` orders the ends: `workCh` is
closed exactly when the stream goroutine is done, a worker returns only from a
closed and empty `workCh`, `resultCh` is closed after the last worker. With it no
send meets a closed channel, and main returns after the last report. That a block
is reported once needs that it is in one place (`OnePlace`: in `workCh`, with one
worker, in `resultCh`, or reported), and for that it must not come twice: block
identities rise along the wire (`StreamOrder`), each of a block the node has made
(`BlocksKnown`). `MismatchTells` follows a mismatch from the worker through
`resultCh` into the report: the chain has replaced its block, and never goes back
to it. `FlagTells` says that main's flag remembers every failure. `PoolStep` maps
each step to a step of `WorkPool`.

**Comparison** (`FrameWalkProofs`, `TraceCompareProofs`). The invariant is small
(`ResultOfBoth`: a result is that of the two blocks in hand); the work is in what
`compareFrame` computes for trees of any depth. It is an induction over the
frames, from a counterexample of the lowest rank (`Induction` of
`FrameWalkProofs`, for a rank that falls from a frame to its calls), and `WalkAt`
lets a recursive function be replaced by its body, which needs a proof that the
recursion has a solution. Both are used through `INSTANCE FrameWalkProofs`. The
rank of a pair is the least depth of a frame with that message (`PairRanks`). Below
that, for each encoding a lemma says when the two normal forms are equal
(`BytesAgree`, `AddressAgrees`, `WordAgrees`, `OptBytesAgree`, `OptWordAgrees` …):
for numbers, that trimming zeros (`TrimIs`) leaves the digits from the first
nonzero one or the last, and that these and the width give back the number
(`MinimalSame`, `WordDigits`). `FieldsAgree`, `LogAgrees` and `MismatchesOf` combine them
for a frame, `FramesAgree` and `FramesCounted` are the two inductions.
The theorems are for any set of frames; the width of numbers is the model's.

**Conversion and its readers** (`StreamReadersProofs`, `ConsumerProofs`). `IInv`
says that the server has the flags of the program's request (`Asked`), and that
the message and what was made of it are those of one notification (`Handed`), so
that each property becomes one about `notification_to_proto` and a program's
handling, for any chains. `BlockMessage`, `CallTraces` and `TipMessage` say what
the parts of a message are; `KeptIs` says that the elements kept of a list are in
their order, from `RankRises` on the number of positions up to one, and
`KeptTwice` joins what the server leaves out of a list and what the reader leaves
out of the rest. That the decoded message can be read back is a chain of lemmas
from the digits up: `NumberOfBytes` (the digits of a number give it back, in each
of the three widths, the fold by which they are read being an instance of
`FrameWalk`), `HeaderRead`, `TxRead`, `AccountRead`, `RevertRead`, `BundleRead`.
They hold for lists of any length, every transaction type, account status and
revert kind, and any value; the width of numbers is the model's.

That go-consumer's output tells what the node had (`ConsumerTellsTheValues`) is
the same for the state diff, the digits now read from hexadecimal
(`DiffPrinted`). For call frames it is an induction across the lines printed for a
whole tree. Decoding, printing and what should be read are instances of
`FrameWalk` (`Decode`, `Lines`, `Printed`), and so is reading: a node is a list of
lines with a position in it, its calls are the positions where the calls of the
frame printed there begin (`Begins`). `Flattened` says where each list of a
flattened list of lists begins; `ShapeOf` that a frame's own line comes first, and
the lines of its calls follow, `AllIndented` that all of them are further in.
So the lines two places further in, up to the next that is not further in, are
where the calls begin, however deep the trees between them (`CallsBegin`,
`CallsStand`). `ReadIs` replaces the reader's recursion by its body, and `AllTold`
is the induction over the rank of `LeastRank`: reading the lines of a frame,
wherever they stand, gives the frame.

**Work pool** (`TraceVerifierProofs`). `Promise` is inductive with the types. It is
proved once of the abstract pool, and `ReportComplete` takes it over through the
refinement.

**Benches, control** (`LatencyBenchProofs`). `ArrivalsUsedOnce` is an account per
block number: twice the pairs, the timeouts and the sides in the entry that waits
never exceed the arrivals main has taken, nor the pairs and the entry those of one
side. An arrival pays for the entry it is noted in, a pair uses up an entry that
has both sides, a timeout one that has any. The last needs that an entry is never
empty (`EntryHasSide`). It does not matter how often a number comes, or in which
order of the sides. `TimesAppend` and `TimesTail` say how often a number is in a
list after it has grown or lost its head; the same lemmas carry `NoArrivalDropped`
per number from hand to channel to main, with `ItemInHand`, which ties the program
counters of the subscribers to what they hold.
`AgesBounded` says how old an entry can be while a tick waits to be read.

**Benches, results** (`BenchResultsProofs`). That no line
pairs times further apart than the window combines four ages: of an arrival in
its channel (`ArrivalsFresh`), of a tick that waits (`TickFresh`), of an entry at
the next scan (`EntriesYoung`) and of a time noted in an entry, which may be from
before the entry was made (`MarksRecent`). `PayloadNoted` keeps payload and time
together from the channel into the table. `SummaryHonest` is a conjunction:
`SummaryCounts` is part of the invariant; `SummaryExtremes` is about the folds of
`printStats`. The library's induction theorems cannot be instantiated by the
provers, so the induction is done from a least counterexample: `LeastNumber`,
which is an instance of the first-order theorem `WFMin`, and `SmallestSet`.
`FoldExists` shows that the recursion by which the library defines a fold has a
solution, whatever the order in which it takes the elements; `LeastFold`,
`GreatestFold` and `SumFold` bound what each of the three folds computes, and
`AverageBetween` is the arithmetic of Go's division, which rounds toward zero.

**Model-checked only.** Liveness (`server_live`, `bench_live`, and
`StreamEndEndsRun` and `HungCallHoldsOneBlock` of `verifier`), since fairness and
ENABLED are beyond the prover.

## Findings

| Run | The document says | The code does |
|---|---|---|
| `server_oldest_kept` | a full channel drops new messages for a lagged receiver (`exex-grpc-push-design.md:91`) | the oldest ones are overwritten |
| `bench_counts` | matched + unmatched is the number of blocks seen (`go-receipts-bench-requirement.md:79`) | a block whose sides are more than the timeout apart counts twice |
| `bench_disconnect` | when one side is disconnected its block is marked unmatched and other blocks continue (AC5, `latency-bench-requirement.md:58`; T5, `latency-bench-design.md:166`) | the failed read goes to `errCh`, and main exits with code 1 |
| `verifier_exactly_n` | exits after verifying exactly n blocks (`go-trace-verifier-requirement.md:19`) | exits with fewer when the stream ends, with code 0 |

Also seen, and stated by no run:

* `docs/design/go-state-diff-bench-design.md:57` has EOF of the gRPC stream end the
  goroutine cleanly; `grpc.go:50` reports it as an error, and main exits with code
  1. The other three benches do as that line says, and main then goes on with one
  side and never ends by itself.
* After the loop has ended or failed, an open stream is silent for as long as its
  client stays: `Closed` needs every sender gone, and each connection holds one.
* A number that a reorg announces again after it was paired is paired again, and
  counts twice towards the target; no document says it should not.

## What is not modelled

* Of the generated code, the descriptor tables, reflection and registration, the
  `Signature` message and the client stubs; `build.rs`, `lib.rs`, module files,
  documents.
* Command lines, but for `--blocks` of the benches and go-consumer's flags.
* The wording of what is printed, and JSON bodies.
* The inside of reth, tonic and tokio, except the channels' behaviour the code
  relies on. That old chains carry no traces, and that there is one frame per
  transaction, is decided in the node's fork and taken as it comes.
* Reorgs deeper than the tip in `TraceVerifier`, and what else of the chain's
  shape the programs do not see.

## Plan

Done, in this order: `RemoteExEx` with its runs, `NotificationFeed` and the
refinement, `RemoteExExProofs`; `LatencyBench`; `TraceVerifier`;
`ProtoConvert` with `ChainConvert` and `TraceCompare`; the readers of the
stream and `StreamReaders`; `BenchResults`; `WorkPool` and its refinement; the
theorems about the verifier, the work pool and the benches; call frames as
elements of a constant set, and the theorems about the comparison; the readers'
recursion as instances of `FrameWalk`, and the theorems about the conversion and
its readers.

Next: a composition of `RemoteExEx` with a client that matches by number, to see
what a lag at the server does to the benches' counts and to the verifier.
