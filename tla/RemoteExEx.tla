----------------------------- MODULE RemoteExEx -----------------------------
(***************************************************************************)
(* The gRPC push server of src/exex.rs: the ExEx loop that reads reth's    *)
(* canonical-state stream and publishes every notification on a bounded    *)
(* broadcast channel, and, for every Subscribe call, a spawned task that   *)
(* forwards the channel's entries into a bounded per-client queue.         *)
(*                                                                         *)
(* A notification is its index in `canon', the sequence of kinds that reth *)
(* has emitted; `log' is the sequence of indices ever stored in the        *)
(* broadcast channel, of which the channel retains the last BroadcastCap.  *)
(* `canon', `log', `sent', `lost', `finished', `unseen' and `from' keep    *)
(* their whole history so that properties can speak of it; nothing the     *)
(* code decides depends on more of them than the code itself can see.      *)
(***************************************************************************)
EXTENDS Integers, Sequences

CONSTANTS
  Subs,          \* Subscribe calls; each call is used once, a client that
                 \* reconnects makes another one
  Readers,       \* the calls whose client keeps reading its stream
  BroadcastCap,  \* BROADCAST_CHANNEL_CAPACITY
  ClientCap,     \* PER_CLIENT_CHANNEL_CAPACITY
  CanonCap,      \* capacity of reth's own canonical-state channel
  Kinds,         \* the kinds of notification reth emits in this instance
  MaxCanon,      \* bound: notifications reth emits
  MaxLaunches    \* bound: times the node process is started

ASSUME CapAssumption ==
  /\ BroadcastCap \in Nat \ {0}
  /\ ClientCap \in Nat \ {0}
  /\ CanonCap \in Nat \ {0}
ASSUME BoundAssumption == MaxCanon \in Nat /\ MaxLaunches \in Nat
ASSUME KindsAssumption == Kinds \subseteq {"commit", "reorg"}
ASSUME ReadersAssumption == Readers \subseteq Subs

VARIABLES
  canon,      \* kinds of the canonical notifications reth has emitted
  node,       \* the process: "launching", "serving", "stopping" or "off"
  launches,   \* how many times it has been started
  conn,       \* the calls whose connection is open
  exex,       \* where the remote_exex loop is
  canonPos,   \* last canonical notification the loop has taken
  finished,   \* last FinishedHeight sent, as an index of canon; 0: none
  unseen,     \* canonical notifications the loop's stream never yielded
  log,        \* everything stored in the broadcast channel
  stream,     \* per call, the client's end: "none", "open" or "closed"
  task,       \* per call, the spawned task: "none", "recv", "send", "done"
  start,      \* per call, position of the broadcast channel at subscribe()
  from,       \* per call, notifications the loop had handled at subscribe()
  next,       \* per call, last position of log the task has consumed
  sent,       \* per call, positions the task has put into the mpsc queue
  taken,      \* per call, how many of those the client has received
  lost        \* per call, notifications reported as Lagged(n), summed

nodeVars == <<node, launches, conn>>
exexVars == <<exex, canonPos, finished, unseen, log>>
subVars  == <<stream, task, start, from, next, sent, taken, lost>>
vars     == <<canon, nodeVars, exexVars, subVars>>

-----------------------------------------------------------------------------
(* Channels.                                                               *)

\* Tasks that still own a broadcast receiver.
Receivers == {s \in Subs : task[s] \in {"recv", "send"}}

\* The newest position the broadcast channel has already overwritten.
Overwritten == Len(log) - BroadcastCap

Unread(s) == Len(log) - next[s]
Queued(s) == Len(sent[s]) - taken[s]

\* Senders are held by the loop, by the server, and by every open connection,
\* whether its call still runs or not (tonic clones the service, and with it
\* the Arc, per connection).
SendersGone ==
  /\ exex \in {"ended", "failed"}
  /\ node = "stopping"
  /\ conn = {}

\* Canonical notifications the loop is completely done with; one it was holding
\* when it failed is not.
Handled == IF exex \in {"finish", "bcast", "failed"} THEN canonPos - 1 ELSE canonPos

-----------------------------------------------------------------------------
(* reth and the node process.                                              *)

Init ==
  /\ canon = <<>> /\ node = "launching" /\ launches = 1 /\ conn = {}
  /\ exex = "init" /\ canonPos = 0 /\ finished = 0 /\ unseen = {} /\ log = <<>>
  /\ stream = [s \in Subs |-> "none"]
  /\ task = [s \in Subs |-> "none"]
  /\ start = [s \in Subs |-> 0]
  /\ from = [s \in Subs |-> 0]
  /\ next = [s \in Subs |-> 0]
  /\ sent = [s \in Subs |-> <<>>]
  /\ taken = [s \in Subs |-> 0]
  /\ lost = [s \in Subs |-> 0]

\* reth's engine emits a Commit or a Reorg (there is no Revert on this stream).
CanonNotify ==
  /\ node \in {"launching", "serving"}
  /\ Len(canon) < MaxCanon
  /\ \E kind \in Kinds : canon' = Append(canon, kind)
  /\ UNCHANGED <<nodeVars, exexVars, subVars>>

\* launch().await has returned and the gRPC server task is spawned.  The ExEx
\* future was spawned by the launch but need not have been polled yet.
ServerStart ==
  /\ node = "launching"
  /\ node' = "serving"
  /\ UNCHANGED <<canon, launches, conn, exexVars, subVars>>

\* Graceful shutdown: the server task is dropped, so no Subscribe call is
\* accepted any more; connections that are open stay open.
ServerStop ==
  /\ node = "serving"
  /\ node' = "stopping"
  /\ UNCHANGED <<canon, launches, conn, exexVars, subVars>>

\* The process ends, by a crash or at the end of a shutdown: every task is
\* gone, every connection breaks, both channels disappear.
NodeExit ==
  /\ node # "off"
  /\ node' = "off"
  /\ exex' = "ended"
  /\ conn' = {}
  /\ stream' = [s \in Subs |-> IF stream[s] = "none" THEN "none" ELSE "closed"]
  /\ task' = [s \in Subs |-> IF task[s] = "none" THEN "none" ELSE "done"]
  /\ UNCHANGED <<canon, launches, canonPos, finished, unseen, log,
                 start, from, next, sent, taken, lost>>

NodeLaunch ==
  /\ node = "off"
  /\ launches < MaxLaunches
  /\ launches' = launches + 1
  /\ node' = "launching"
  /\ exex' = "init"
  /\ UNCHANGED <<canon, conn, canonPos, finished, unseen, log, subVars>>

-----------------------------------------------------------------------------
(* The ExEx loop, remote_exex.                                             *)

\* Bug: resume with the last finished notification instead of from the present.
ExExStartReplay ==
  /\ exex = "init"
  /\ exex' = "recv"
  /\ canonPos' = IF finished = 0 THEN 0 ELSE finished - 1
  /\ UNCHANGED <<canon, nodeVars, finished, unseen, log, subVars>>

\* canonical_state_stream(): the subscription starts at the present, whatever
\* reth emitted before the future was first polled.
ExExStart ==
  /\ exex = "init"
  /\ exex' = "recv"
  /\ canonPos' = Len(canon)
  /\ unseen' = unseen \union (canonPos + 1 .. Len(canon))
  /\ UNCHANGED <<canon, nodeVars, finished, log, subVars>>

\* Bug: an off-by-one in the position taken.
ExExRecvOffByOne ==
  /\ exex = "recv"
  /\ canonPos < Len(canon)
  /\ canonPos' = canonPos + 2
  /\ exex' = "finish"
  /\ UNCHANGED <<canon, nodeVars, finished, unseen, log, subVars>>

\* stream.next(): the oldest entry the canonical channel still has; the stream
\* passes over the ones that were overwritten and reports nothing.
ExExRecv ==
  /\ exex = "recv"
  /\ canonPos < Len(canon)
  /\ LET skipTo == IF canonPos < Len(canon) - CanonCap
                   THEN Len(canon) - CanonCap ELSE canonPos
     IN  /\ canonPos' = skipTo + 1
         /\ unseen' = unseen \union (canonPos + 1 .. skipTo)
  /\ exex' = "finish"
  /\ UNCHANGED <<canon, nodeVars, finished, log, subVars>>

\* Bug: `continue' on anything but a Commit.
ExExFinishCommitsOnly ==
  /\ exex = "finish"
  /\ finished' = IF canon[canonPos] = "commit" THEN canonPos ELSE finished
  /\ exex' = IF canon[canonPos] = "commit" THEN "bcast" ELSE "recv"
  /\ UNCHANGED <<canon, nodeVars, canonPos, unseen, log, subVars>>

\* FinishedHeight(new.tip()) for a Commit, nothing for a Reorg.
ExExFinish ==
  /\ exex = "finish"
  /\ finished' = IF canon[canonPos] = "commit" THEN canonPos ELSE finished
  /\ exex' = "bcast"
  /\ UNCHANGED <<canon, nodeVars, canonPos, unseen, log, subVars>>

\* Bug: `let _ =' in place of `?'.
ExExFinishIgnoresError ==
  /\ exex = "finish"
  /\ node = "stopping"
  /\ canon[canonPos] = "commit"
  /\ exex' = "bcast"
  /\ UNCHANGED <<canon, nodeVars, canonPos, finished, unseen, log, subVars>>

\* ctx.events.send(..)? fails once reth has dropped the ExEx manager: the
\* loop returns the error before the notification is broadcast.
ExExFinishFails ==
  /\ exex = "finish"
  /\ node = "stopping"
  /\ canon[canonPos] = "commit"
  /\ exex' = "failed"
  /\ UNCHANGED <<canon, nodeVars, canonPos, finished, unseen, log, subVars>>

\* Bug: wait until every client has taken what it was sent.
ExExBroadcastWaits ==
  /\ exex = "bcast"
  /\ \A s \in Receivers : task[s] = "recv" /\ Unread(s) + Queued(s) = 0
  /\ log' = IF Receivers = {} THEN log ELSE Append(log, canonPos)
  /\ exex' = "recv"
  /\ UNCHANGED <<canon, nodeVars, canonPos, finished, unseen, subVars>>

\* notifications.send(..) never waits; without a receiver it stores nothing.
ExExBroadcast ==
  /\ exex = "bcast"
  /\ log' = IF Receivers = {} THEN log ELSE Append(log, canonPos)
  /\ exex' = "recv"
  /\ UNCHANGED <<canon, nodeVars, canonPos, finished, unseen, subVars>>

\* The canonical stream is drained and its senders are gone.
ExExStreamEnd ==
  /\ exex = "recv"
  /\ node = "stopping"
  /\ canonPos = Len(canon)
  /\ exex' = "ended"
  /\ UNCHANGED <<canon, nodeVars, canonPos, finished, unseen, log, subVars>>

-----------------------------------------------------------------------------
(* A Subscribe call: its handler, its task and its client.                 *)

Subscribe(s) ==
  /\ node = "serving"
  /\ stream[s] = "none"
  /\ conn' = conn \union {s}
  /\ stream' = [stream EXCEPT ![s] = "open"]
  /\ task' = [task EXCEPT ![s] = "recv"]
  /\ start' = [start EXCEPT ![s] = Len(log)]
  /\ from' = [from EXCEPT ![s] = Handled]
  /\ next' = [next EXCEPT ![s] = Len(log)]
  /\ UNCHANGED <<canon, node, launches, exexVars, sent, taken, lost>>

\* recv() = Ok: the next position, still retained.  The converted message is
\* then held by the task until the queue takes it.
TaskRecv(s) ==
  /\ task[s] = "recv"
  /\ Unread(s) > 0
  /\ next[s] >= Overwritten
  /\ next' = [next EXCEPT ![s] = @ + 1]
  /\ task' = [task EXCEPT ![s] = "send"]
  /\ UNCHANGED <<canon, nodeVars, exexVars, stream, start, from, sent, taken, lost>>


\* Bug: break on any Err of recv().
TaskLaggedBreaks(s) ==
  /\ task[s] = "recv"
  /\ next[s] < Overwritten
  /\ task' = [task EXCEPT ![s] = "done"]
  /\ UNCHANGED <<canon, nodeVars, exexVars, stream, start, from, next, sent, taken, lost>>

\* recv() = Err(Lagged(n)): continue from the oldest retained entry.
TaskLagged(s) ==
  /\ task[s] = "recv"
  /\ next[s] < Overwritten
  /\ next' = [next EXCEPT ![s] = Overwritten]
  /\ lost' = [lost EXCEPT ![s] = @ + Overwritten - next[s]]
  /\ UNCHANGED <<canon, nodeVars, exexVars, stream, task, start, from, sent, taken>>

\* Bug: a send that is tried again after it has succeeded.
TaskSendAgain(s) ==
  /\ task[s] = "send"
  /\ stream[s] = "open"
  /\ Queued(s) < ClientCap
  /\ sent' = [sent EXCEPT ![s] = Append(@, next[s])]
  /\ task' \in {task, [task EXCEPT ![s] = "recv"]}
  /\ UNCHANGED <<canon, nodeVars, exexVars, stream, start, from, next, taken, lost>>

\* Bug: try_send, which drops the message when the queue is full.
TaskTrySend(s) ==
  /\ task[s] = "send"
  /\ stream[s] = "open"
  /\ sent' = IF Queued(s) < ClientCap
             THEN [sent EXCEPT ![s] = Append(@, next[s])] ELSE sent
  /\ task' = [task EXCEPT ![s] = "recv"]
  /\ UNCHANGED <<canon, nodeVars, exexVars, stream, start, from, next, taken, lost>>

\* Bug: one forwarding loop for all clients, stuck behind any full queue.
TaskSendShared(s) ==
  /\ task[s] = "send"
  /\ stream[s] = "open"
  /\ \A t \in Subs : Queued(t) < ClientCap
  /\ sent' = [sent EXCEPT ![s] = Append(@, next[s])]
  /\ task' = [task EXCEPT ![s] = "recv"]
  /\ UNCHANGED <<canon, nodeVars, exexVars, stream, start, from, next, taken, lost>>

\* tx.send(..).await waits for room, then queues the message.
TaskSend(s) ==
  /\ task[s] = "send"
  /\ stream[s] = "open"
  /\ Queued(s) < ClientCap
  /\ sent' = [sent EXCEPT ![s] = Append(@, next[s])]
  /\ task' = [task EXCEPT ![s] = "recv"]
  /\ UNCHANGED <<canon, nodeVars, exexVars, stream, start, from, next, taken, lost>>

\* Bug: go on after a failed send.
TaskSendFailsContinues(s) ==
  /\ task[s] = "send"
  /\ stream[s] = "closed"
  /\ task' = [task EXCEPT ![s] = "recv"]
  /\ UNCHANGED <<canon, nodeVars, exexVars, stream, start, from, next, sent, taken, lost>>

\* tx.send(..) = Err: the client is gone, also when it went while we waited.
TaskSendFails(s) ==
  /\ task[s] = "send"
  /\ stream[s] = "closed"
  /\ task' = [task EXCEPT ![s] = "done"]
  /\ UNCHANGED <<canon, nodeVars, exexVars, stream, start, from, next, sent, taken, lost>>

\* Bug: go on after Closed, as after Lagged.
TaskClosedContinues(s) ==
  /\ task[s] = "recv"
  /\ Unread(s) = 0
  /\ SendersGone
  /\ UNCHANGED vars

\* recv() = Err(Closed): every sender is gone and everything has been read.
TaskClosed(s) ==
  /\ task[s] = "recv"
  /\ Unread(s) = 0
  /\ SendersGone
  /\ task' = [task EXCEPT ![s] = "done"]
  /\ UNCHANGED <<canon, nodeVars, exexVars, stream, start, from, next, sent, taken, lost>>

\* The client takes a message off its stream (ReceiverStream, polled by tonic).
ClientRecv(s) ==
  /\ stream[s] = "open"
  /\ Queued(s) > 0
  /\ taken' = [taken EXCEPT ![s] = @ + 1]
  /\ UNCHANGED <<canon, nodeVars, exexVars, stream, task, start, from, next, sent, lost>>

\* The client cancels the call and keeps its connection: its ReceiverStream is
\* dropped with what it holds.
ClientCancel(s) ==
  /\ stream[s] = "open"
  /\ stream' = [stream EXCEPT ![s] = "closed"]
  /\ UNCHANGED <<canon, nodeVars, exexVars, task, start, from, next, sent, taken, lost>>

\* The connection ends, and with it the call if it still runs.
ClientDisconnect(s) ==
  /\ s \in conn
  /\ conn' = conn \ {s}
  /\ stream' = [stream EXCEPT ![s] = "closed"]
  /\ UNCHANGED <<canon, node, launches, exexVars, task, start, from, next, sent, taken, lost>>

-----------------------------------------------------------------------------
ExExStep ==
  \/ ExExStart \/ ExExRecv \/ ExExFinish \/ ExExBroadcast \/ ExExStreamEnd

TaskStep(s) ==
  \/ TaskRecv(s) \/ TaskLagged(s)
  \/ TaskSend(s) \/ TaskSendFails(s) \/ TaskClosed(s)

Next ==
  \/ CanonNotify
  \/ ServerStart \/ ServerStop \/ NodeExit \/ NodeLaunch
  \/ ExExStep \/ ExExFinishFails
  \/ \E s \in Subs : \/ Subscribe(s) \/ TaskStep(s)
                     \/ ClientRecv(s) \/ ClientCancel(s) \/ ClientDisconnect(s)

Spec == Init /\ [][Next]_vars

\* The tokio runtime keeps polling a task that can make progress: the loop and
\* every forwarding task.  Nothing is assumed of reth, of the server's life
\* cycle or of clients, except that a Reader keeps reading.
Fairness ==
  /\ WF_vars(ExExStep)
  /\ \A s \in Subs : WF_vars(TaskStep(s))
  /\ \A s \in Readers : WF_vars(ClientRecv(s))

FairSpec == Spec /\ Fairness

-----------------------------------------------------------------------------
(* Properties.                                                             *)

LoopTypeOK ==
  /\ canon \in Seq({"commit", "reorg"})
  /\ node \in {"launching", "serving", "stopping", "off"}
  /\ launches \in Nat
  /\ conn \subseteq Subs
  /\ exex \in {"init", "recv", "finish", "bcast", "ended", "failed"}
  /\ canonPos \in 0 .. Len(canon)
  /\ finished \in 0 .. canonPos
  /\ unseen \subseteq 1 .. canonPos
  /\ log \in Seq(Nat)

CallTypeOK ==
  /\ stream \in [Subs -> {"none", "open", "closed"}]
  /\ task \in [Subs -> {"none", "recv", "send", "done"}]
  /\ start \in [Subs -> Nat]
  /\ from \in [Subs -> Nat]
  /\ next \in [Subs -> Nat]
  /\ sent \in [Subs -> Seq(Nat)]
  /\ taken \in [Subs -> Nat]
  /\ lost \in [Subs -> Nat]

TypeOK == LoopTypeOK /\ CallTypeOK

\* A client receives notifications in the order reth emitted them and none
\* twice, whatever lag, reorg, retry of the queue or restart lies in between.
DeliveredInOrder ==
  \A s \in Subs : \A j, k \in 1 .. taken[s] :
    j < k => log[sent[s][j]] < log[sent[s][k]]

\* A call never receives what was broadcast before it was made: a client that
\* reconnects, to this process or to the next one, never gets a notification
\* a second time.
ReconnectNeverRepeats ==
  \A r, s \in Subs : \A j \in 1 .. taken[r], k \in 1 .. taken[s] :
    sent[r][j] <= start[s] => log[sent[r][j]] < log[sent[s][k]]

\* While its task runs, what a call was not sent is exactly what the server
\* counted in its Lagged warnings, plus the one message waiting for room: the
\* queue never drops (exex.rs sends with send().await, not try_send).
EveryGapCounted ==
  \A s \in Receivers :
    Len(sent[s]) + lost[s] + (IF task[s] = "send" THEN 1 ELSE 0)
      = next[s] - start[s]

\* A Commit is never visible to a subscriber before its FinishedHeight has
\* gone to reth, also when that send fails.
FinishedBeforeVisible ==
  \A k \in 1 .. Len(log) : canon[log[k]] = "commit" => log[k] <= finished

\* Every canonical notification the loop has dealt with since a running task
\* subscribed was broadcast to it, except those that reth's own channel
\* overwrote or emitted before the loop subscribed (the restart gap).
NoUnexplainedGap ==
  \A s \in Receivers : \A i \in from[s] + 1 .. Handled :
    i \in unseen \/ \E k \in start[s] + 1 .. Len(log) : log[k] = i

\* The server never ends a stream under a client that is still there: the task
\* that holds the sender of its queue outlives a lag, a full queue, the end or
\* the failure of the loop and the server's stop.  It does not follow that the
\* stream is fed: after the loop's end it is silent for as long as the client
\* stays (exex.rs:69 needs every sender gone, and its connection holds one).
StreamStaysOpen ==
  \A s \in Subs : stream[s] = "open" => s \in Receivers

\* The server implements the feed: a client's position is the last message it
\* took, and only what is at least BroadcastCap old is passed over.
Feed == INSTANCE NotificationFeed WITH
  Window <- BroadcastCap,
  published <- Len(log),
  state <- stream,
  last <- [s \in Subs |-> IF taken[s] = 0 THEN start[s] ELSE sent[s][taken[s]]]

FeedSpec == Feed!Spec

\* The loop gets past every notification reth emits, however slow the
\* subscribers: it takes it, or passes over it where reth's own channel has
\* overwritten it.  No fairness of any client is needed.
ProducerNeverBlocks ==
  \A i \in 1 .. MaxCanon :
    Len(canon) >= i ~> canonPos >= i \/ exex \in {"ended", "failed"}

\* A client that keeps reading gets, or is passed over by, every notification
\* broadcast while it is connected, even when other clients never read.
ReaderKeepsUp ==
  \A s \in Readers : \A k \in 1 .. MaxCanon :
    stream[s] = "open" /\ Len(log) >= k ~>
      stream[s] = "closed" \/ (next[s] >= k /\ taken[s] = Len(sent[s]))

\* Once its client is gone, a task with anything left to forward ends.
GoneTaskReaped ==
  \A s \in Subs :
    stream[s] = "closed" /\ Unread(s) > 0 ~> task[s] = "done"

\* Once every sender is gone, every task ends (RecvError::Closed): those too
\* whose client left long before and which nothing has woken since.
ClosedEndsTasks == SendersGone ~> Receivers = {}

\* docs/design/exex-grpc-push-design.md:91 says that a full channel drops new
\* messages for lagged receivers, so that the oldest unread one would be kept.
OldestUnreadKept == \A s \in Receivers : next[s] >= Overwritten

=============================================================================
