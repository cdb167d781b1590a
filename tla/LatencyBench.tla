---------------------------- MODULE LatencyBench ----------------------------
(***************************************************************************)
(* The four latency benches of examples/: go-latency-bench,                *)
(* go-receipts-bench, go-internal-txs-bench and go-state-diff-bench.  Each *)
(* runs two subscriber goroutines, one on eth_subscribe("newHeads") over a *)
(* WebSocket and one on the ExEx gRPC stream, and a main goroutine that    *)
(* pairs their arrivals by block number, gives up on a block whose other   *)
(* side is late, and exits after Target pairs.                             *)
(*                                                                         *)
(* The four programs share this control; they differ in three places, the  *)
(* constants Fetches, EofIsError and ChecksAck.  Line numbers of the map   *)
(* are those of the program that has the whole feature.                    *)
(*                                                                         *)
(* Time passes in ticker intervals (one second).  It is kept as ages: the  *)
(* age of a pending entry is the number of ticks fired since it was made,  *)
(* the age of an unread tick the number fired after it, so that Go's       *)
(* now.Sub(p.since) is the difference of the two.                          *)
(***************************************************************************)
EXTENDS Integers, Sequences, FiniteSets

CONSTANTS
  Fetches,      \* the WS side makes an HTTP call per head (all but go-latency-bench)
  EofIsError,   \* the gRPC side reports EOF on errCh (go-state-diff-bench)
  ChecksAck,    \* the WS side reports a rejected subscription (all but go-latency-bench)
  ChCap,        \* chCapacity
  ErrCap,       \* errChCapacity
  Timeout,      \* matchTimeout, in ticker intervals
  Target,       \* --blocks
  MaxHeight,    \* bound: blocks the node commits
  MaxReorgs,    \* bound: reorgs
  MaxTickLag    \* bound: ticks that fire while main leaves one unread

ASSUME FlagAssumption == {Fetches, EofIsError, ChecksAck} \subseteq BOOLEAN
ASSUME LimitAssumption ==
  /\ {ChCap, ErrCap, Timeout, Target} \subseteq Nat \ {0}
  /\ {MaxHeight, MaxReorgs, MaxTickLag} \subseteq Nat

VARIABLES
  height, reorgs,   \* the node's chain: its height, reorgs so far
  link,             \* per side, the connection: "none", "fed", "idle", "closed"
  wire,             \* per side, block numbers on their way; 0: not a block event
  pc,               \* per side, the subscriber goroutine
  item,             \* per side, the block it is handling
  ch,               \* per side, grpcCh and rpcCh (wsCh)
  errs,             \* errors waiting in errCh
  pending,          \* block number -> [have: sides arrived, age: ticks since made]
  pairs,            \* block numbers matched, in order
  unmatched,        \* blocks counted as unmatched
  tick,             \* age of the tick waiting in ticker.C, or NoTick
  ctx,              \* whether the context is cancelled
  main,             \* "loop", "exit0" or "exit1"
  handled,          \* history: per side and number, block events the goroutine has read
  got,              \* history: per side and number, arrivals main has taken
  timedOut          \* history: per number, timeouts printed

nodeVars == <<height, reorgs>>
netVars  == <<nodeVars, link, wire>>
subVars  == <<pc, item>>
matchVars == <<pending, pairs, unmatched>>
histVars == <<handled, got, timedOut>>
vars == <<netVars, subVars, ch, errs, matchVars, tick, ctx, main, histVars>>

Sides == {"ws", "grpc"}
Other(s) == IF s = "ws" THEN "grpc" ELSE "ws"
NoTick == -1

\* Ages beyond this one are not told apart: an unread tick is at most
\* MaxTickLag old, so an entry this old is evicted by whatever tick is read.
MaxAge == Timeout + 2 * MaxTickLag + 2

Blocks == 1..MaxHeight

\* os.Exit ends every goroutine.
Running == main = "loop"

-----------------------------------------------------------------------------
(* The node, as the benches use it.                                        *)

Init ==
  /\ height = 0 /\ reorgs = 0
  /\ link = [s \in Sides |-> "none"]
  /\ wire = [s \in Sides |-> <<>>]
  /\ pc = [s \in Sides |-> "connect"]
  /\ item = [s \in Sides |-> 0]
  /\ ch = [s \in Sides |-> <<>>]
  /\ errs = 0
  /\ pending = <<>> /\ pairs = <<>> /\ unmatched = 0
  /\ tick = NoTick
  /\ ctx = FALSE
  /\ main = "loop"
  /\ handled = [s \in Sides |-> [b \in Blocks |-> 0]]
  /\ got = [s \in Sides |-> [b \in Blocks |-> 0]]
  /\ timedOut = [b \in Blocks |-> 0]

Feed(s, msgs) == IF link[s] = "fed" THEN wire[s] \o msgs ELSE wire[s]

\* One canonical notification with k new blocks: newHeads carries every
\* header, the gRPC stream one ChainCommitted, of which the bench uses the tip.
NodeCommit ==
  \E k \in {1, 2} :
    /\ Running
    /\ height + k <= MaxHeight
    /\ height' = height + k
    /\ wire' = [s \in Sides |->
         Feed(s, IF s = "ws" THEN [i \in 1..k |-> height + i] ELSE <<height + k>>)]
    /\ UNCHANGED <<reorgs, link, subVars, ch, errs, matchVars, tick, ctx, main, histVars>>

\* The last d blocks give way to m others: newHeads announces the new headers,
\* the gRPC stream a ChainReorged, or a ChainReverted where there are none.
\* The chain may get shorter, and the numbers it has lost are committed again.
NodeReorg ==
  \E d \in 1..height, m \in 0..2 :
    /\ Running
    /\ height - d + m <= MaxHeight
    /\ reorgs < MaxReorgs
    /\ reorgs' = reorgs + 1
    /\ height' = height - d + m
    /\ wire' = [s \in Sides |->
         Feed(s, IF s = "ws" THEN [i \in 1..m |-> height - d + i] ELSE <<0>>)]
    /\ UNCHANGED <<link, subVars, ch, errs, matchVars, tick, ctx, main, histVars>>

\* A subscriber that lags loses notifications in the ExEx server.
NodeSkips ==
  /\ Running
  /\ wire["grpc"] # <<>>
  /\ wire' = [wire EXCEPT !["grpc"] = Tail(@)]
  /\ UNCHANGED <<nodeVars, link, subVars, ch, errs, matchVars, tick, ctx, main, histVars>>

\* The server ends the stream or the connection breaks.
NodeCloses(s) ==
  /\ Running
  /\ link[s] \in {"fed", "idle"}
  /\ link' = [link EXCEPT ![s] = "closed"]
  /\ UNCHANGED <<nodeVars, wire, subVars, ch, errs, matchVars, tick, ctx, main, histVars>>

-----------------------------------------------------------------------------
(* The subscriber goroutines, SubscribeGRPC and SubscribeWS.               *)

Goto(s, l) == pc' = [pc EXCEPT ![s] = l]

\* The goroutine goes to l; what it had in hand is out of scope there.
Leave(s, l) == Goto(s, l) /\ item' = [item EXCEPT ![s] = 0]

Connect(s) ==
  /\ Running
  /\ pc[s] = "connect"
  /\ link' = [link EXCEPT ![s] = "fed"]
  /\ Goto(s, "read")
  /\ UNCHANGED <<nodeVars, wire, item, ch, errs, matchVars, tick, ctx, main, histVars>>

\* Dial, subscribe or acknowledgement fails, or is cut short by the context.
ConnectFails(s) ==
  /\ Running
  /\ pc[s] = "connect"
  /\ Goto(s, "report")
  /\ UNCHANGED <<netVars, item, ch, errs, matchVars, tick, ctx, main, histVars>>

\* go-latency-bench discards the acknowledgement, a rejection too.
RejectionUnseen ==
  /\ Running
  /\ ~ChecksAck
  /\ pc["ws"] = "connect"
  /\ link' = [link EXCEPT !["ws"] = "idle"]
  /\ Goto("ws", "read")
  /\ UNCHANGED <<nodeVars, wire, item, ch, errs, matchVars, tick, ctx, main, histVars>>

\* A message that is no block event (a ChainReorged, no header) is skipped.
Read(s) ==
  /\ Running
  /\ pc[s] = "read"
  /\ wire[s] # <<>>
  /\ wire' = [wire EXCEPT ![s] = Tail(@)]
  /\ IF Head(wire[s]) = 0
       THEN UNCHANGED <<subVars, handled>>
       ELSE /\ item' = [item EXCEPT ![s] = Head(wire[s])]
            /\ Goto(s, IF s = "ws" /\ Fetches THEN "fetch" ELSE "put")
            /\ handled' = [handled EXCEPT ![s][Head(wire[s])] = @ + 1]
  /\ UNCHANGED <<nodeVars, link, ch, errs, matchVars, tick, ctx, main, got, timedOut>>

\* ReadMessage or Recv fails because the context closed the connection.
ReadCancelled(s) ==
  /\ Running
  /\ pc[s] = "read" /\ ctx
  /\ Goto(s, "done")
  /\ UNCHANGED <<netVars, item, ch, errs, matchVars, tick, ctx, main, histVars>>

ReadFails(s) ==
  /\ Running
  /\ pc[s] = "read" /\ ~ctx
  /\ link[s] = "closed" /\ wire[s] = <<>>
  /\ Goto(s, "report")
  /\ UNCHANGED <<netVars, item, ch, errs, matchVars, tick, ctx, main, histVars>>

\* A clean end of the gRPC stream; the context is not consulted.
StreamEof ==
  /\ Running
  /\ pc["grpc"] = "read"
  /\ link["grpc"] = "closed" /\ wire["grpc"] = <<>>
  /\ Goto("grpc", IF EofIsError THEN "report" ELSE "done")
  /\ UNCHANGED <<netVars, item, ch, errs, matchVars, tick, ctx, main, histVars>>

FetchDone(s) ==
  /\ Running
  /\ pc[s] = "fetch"
  /\ Goto(s, "put")
  /\ UNCHANGED <<netVars, item, ch, errs, matchVars, tick, ctx, main, histVars>>

FetchFails(s) ==
  /\ Running
  /\ pc[s] = "fetch"
  /\ Leave(s, IF ctx THEN "done" ELSE "report")
  /\ UNCHANGED <<netVars, ch, errs, matchVars, tick, ctx, main, histVars>>

\* Bug: a non-blocking send that drops the arrival when the channel is full.
PutOrDrop(s) ==
  /\ Running
  /\ pc[s] = "put"
  /\ ch' = [ch EXCEPT ![s] = IF Len(@) < ChCap THEN Append(@, item[s]) ELSE @]
  /\ Leave(s, "read")
  /\ UNCHANGED <<netVars, errs, matchVars, tick, ctx, main, histVars>>

\* Bug: an unbounded channel.
PutUnbounded(s) ==
  /\ Running
  /\ pc[s] = "put"
  /\ ch' = [ch EXCEPT ![s] = Append(@, item[s])]
  /\ Leave(s, "read")
  /\ UNCHANGED <<netVars, errs, matchVars, tick, ctx, main, histVars>>

Put(s) ==
  /\ Running
  /\ pc[s] = "put"
  /\ Len(ch[s]) < ChCap
  /\ ch' = [ch EXCEPT ![s] = Append(@, item[s])]
  /\ Leave(s, "read")
  /\ UNCHANGED <<netVars, errs, matchVars, tick, ctx, main, histVars>>

PutCancelled(s) ==
  /\ Running
  /\ pc[s] = "put" /\ ctx
  /\ Leave(s, "done")
  /\ UNCHANGED <<netVars, ch, errs, matchVars, tick, ctx, main, histVars>>

Report(s) ==
  /\ Running
  /\ pc[s] = "report"
  /\ errs < ErrCap
  /\ errs' = errs + 1
  /\ Goto(s, "done")
  /\ UNCHANGED <<netVars, item, ch, matchVars, tick, ctx, main, histVars>>

-----------------------------------------------------------------------------
(* The main goroutine: one action per arm of its select.                   *)

\* getOrCreate
Entry(b) == IF b \in DOMAIN pending THEN pending[b] ELSE [have |-> {}, age |-> 0]

Marked(b, s) == [Entry(b) EXCEPT !.have = @ \cup {s}]

\* pending without the blocks of B.
Deleting(B) == [x \in DOMAIN pending \ B |-> pending[x]]

\* Bug: the entry of an emitted pair is not deleted.
EmitOnly(b, s) ==
  /\ pairs' = Append(pairs, b)
  /\ pending' = [x \in DOMAIN pending |-> IF x = b THEN Marked(b, s) ELSE pending[x]]
  /\ main' = IF Len(pairs) + 1 = Target THEN "exit0" ELSE main

\* The second side has arrived: one more pair, perhaps the last.
Emit(b, s) ==
  /\ pairs' = Append(pairs, b)
  /\ pending' = Deleting({b})
  /\ main' = IF Len(pairs) + 1 = Target THEN "exit0" ELSE main

\* Bug: main takes an arrival only when the other channel holds one too.
ReadyInStep(s) == ch[s] # <<>> /\ ch[Other(s)] # <<>>

Ready(s) == ch[s] # <<>>

MainArrive(s) ==
  /\ Running
  /\ Ready(s)
  /\ ch' = [ch EXCEPT ![s] = Tail(@)]
  /\ got' = [got EXCEPT ![s][Head(ch[s])] = @ + 1]
  /\ LET b == Head(ch[s]) IN
       \/ /\ Other(s) \in Entry(b).have
          /\ Emit(b, s)
       \/ /\ Other(s) \notin Entry(b).have
          /\ pending' = [x \in DOMAIN pending \cup {b} |->
                           IF x = b THEN Marked(b, s) ELSE pending[x]]
          /\ UNCHANGED <<pairs, main>>
  /\ UNCHANGED <<netVars, subVars, errs, unmatched, tick, ctx, handled, timedOut>>

\* Bug: the scan spares the entries that only the WS side has announced.
ExpiredOnStream(b) == "grpc" \in pending[b].have /\ pending[b].age - tick > Timeout

\* Bug: the scan allows for the tick's lag on the wrong side.
ExpiredLate(b) == pending[b].age - tick > Timeout + 1

\* now.Sub(p.since) > matchTimeout
Expired(b) == pending[b].age - tick > Timeout

\* The scan evicts every expired entry, whichever side it has.
MainTick ==
  /\ Running
  /\ tick # NoTick
  /\ LET late == {b \in DOMAIN pending : Expired(b)} IN
       /\ pending' = Deleting(late)
       /\ unmatched' = unmatched + Cardinality(late)
       /\ timedOut' = [b \in Blocks |-> IF b \in late THEN timedOut[b] + 1 ELSE timedOut[b]]
  /\ tick' = NoTick
  /\ UNCHANGED <<netVars, subVars, ch, errs, pairs, ctx, main, handled, got>>

\* Bug: the error is printed and the loop goes on.
MainErrLogged ==
  /\ Running
  /\ errs > 0
  /\ errs' = errs - 1
  /\ UNCHANGED <<netVars, subVars, ch, matchVars, tick, ctx, main, histVars>>

MainErr ==
  /\ Running
  /\ errs > 0
  /\ errs' = errs - 1
  /\ main' = "exit1"
  /\ UNCHANGED <<netVars, subVars, ch, matchVars, tick, ctx, histVars>>

\* Bug: main waits for both subscribers before it exits.
MainDoneWaits ==
  /\ Running
  /\ ctx
  /\ \A s \in Sides : pc[s] = "done"
  /\ main' = "exit0"
  /\ UNCHANGED <<netVars, subVars, ch, errs, matchVars, tick, ctx, histVars>>

MainDone ==
  /\ Running
  /\ ctx
  /\ main' = "exit0"
  /\ UNCHANGED <<netVars, subVars, ch, errs, matchVars, tick, ctx, histVars>>

\* SIGINT or SIGTERM.
Signal ==
  /\ Running
  /\ ~ctx
  /\ ctx' = TRUE
  /\ UNCHANGED <<netVars, subVars, ch, errs, matchVars, tick, main, histVars>>

\* One ticker interval passes.  ticker.C holds one tick; while main has not
\* read it, further ticks are dropped.
Elapse ==
  /\ Running
  /\ tick < MaxTickLag
  /\ tick' = tick + 1
  /\ pending' = [b \in DOMAIN pending |->
       [pending[b] EXCEPT !.age = IF @ < MaxAge THEN @ + 1 ELSE @]]
  /\ UNCHANGED <<netVars, subVars, ch, errs, pairs, unmatched, ctx, main, histVars>>

-----------------------------------------------------------------------------
(* Behaviours.                                                             *)

NodeStep == NodeCommit \/ NodeReorg \/ NodeSkips \/ \E s \in Sides : NodeCloses(s)

\* A goroutine that is not blocked on the network or on a channel goes on.
OwnStep(s) == Put(s) \/ PutCancelled(s) \/ Report(s)

NetStep(s) ==
  Connect(s) \/ ConnectFails(s) \/ Read(s) \/ ReadCancelled(s) \/ ReadFails(s)
    \/ FetchDone(s) \/ FetchFails(s)

MainStep == (\E s \in Sides : MainArrive(s)) \/ MainTick \/ MainErr \/ MainDone

Next ==
  \/ NodeStep \/ RejectionUnseen \/ StreamEof
  \/ \E s \in Sides : NetStep(s) \/ OwnStep(s)
  \/ MainStep \/ Signal \/ Elapse

Spec == Init /\ [][Next]_vars

\* select picks among its ready arms at random, and a ready arm stays ready
\* until it is picked: an arm that is always ready is picked with probability
\* one, which weak fairness of each arm renders.  Time passes and runnable
\* goroutines run; nothing is assumed of the network.
FairSpec ==
  /\ Spec
  /\ \A s \in Sides : WF_vars(OwnStep(s)) /\ WF_vars(MainArrive(s))
  /\ WF_vars(MainTick) /\ WF_vars(MainErr) /\ WF_vars(MainDone) /\ WF_vars(Elapse)

-----------------------------------------------------------------------------
(* Properties.                                                             *)

\* Type correctness of the bench's state.
TypeOK ==
  /\ height \in 0..MaxHeight /\ reorgs \in 0..MaxReorgs
  /\ link \in [Sides -> {"none", "fed", "idle", "closed"}]
  /\ wire \in [Sides -> Seq(Blocks \cup {0})]
  /\ pc \in [Sides -> {"connect", "read", "fetch", "put", "report", "done"}]
  /\ item \in [Sides -> Blocks \cup {0}]
  /\ ch \in [Sides -> Seq(Blocks)]
  /\ \A s \in Sides : Len(ch[s]) <= ChCap
  /\ errs \in 0..ErrCap
  /\ DOMAIN pending \subseteq Blocks
  /\ \A b \in DOMAIN pending : pending[b] \in [have : SUBSET Sides, age : 0..MaxAge]
  /\ pairs \in Seq(Blocks) /\ unmatched \in Nat
  /\ tick \in NoTick..MaxTickLag
  /\ ctx \in BOOLEAN
  /\ main \in {"loop", "exit0", "exit1"}
  /\ handled \in [Sides -> [Blocks -> Nat]] /\ got \in [Sides -> [Blocks -> Nat]]
  /\ timedOut \in [Blocks -> Nat]

\* How often b is in q.
Times(b, q) == Cardinality({i \in DOMAIN q : q[i] = b})

\* An arrival is used once: in one pair, in one timeout, or in the entry that
\* still waits.  The chain may announce a number again, before or after it was
\* matched or given up on, on either side and in either order: a pair is never
\* made of an arrival that an earlier pair or timeout has had, and a timeout
\* never counts one that was matched (emit and delete in the two arrival arms,
\* the delete of the scan).
ArrivalsUsedOnce ==
  \A b \in Blocks :
    /\ \A s \in Sides :
         Times(b, pairs) + (IF s \in Entry(b).have THEN 1 ELSE 0) <= got[s][b]
    /\ 2 * Times(b, pairs) + timedOut[b] + Cardinality(Entry(b).have)
         <= got["ws"][b] + got["grpc"][b]

\* No block event a subscriber has read is lost on its way to main, and none is
\* taken for another: each is in its hand, in its channel, or taken, unless the
\* context was cancelled.  A full channel makes the subscriber wait (the select
\* around ch <- arrival).
NoArrivalDropped ==
  \A s \in Sides, b \in Blocks : ~ctx /\ pc[s] \notin {"report", "done"} =>
    handled[s][b] = got[s][b] + Times(b, ch[s]) + (IF item[s] = b THEN 1 ELSE 0)

\* An entry is evicted no later than the first scan whose tick is more than
\* matchTimeout after the entry was made.  Late ticks count twice: one read
\* late spares the entry once more, and the next may be read late as well.
NoEntryOverstays ==
  \A b \in DOMAIN pending : pending[b].age <= Timeout + 1 + 2 * MaxTickLag

\* A block that one side has announced is matched or counted as unmatched,
\* unless the program ends first: it is never left waiting for the other side.
EntryResolved ==
  \A b \in Blocks : b \in DOMAIN pending ~> (b \notin DOMAIN pending \/ main # "loop")

\* A subscriber that waits to hand over an arrival gets rid of it, however
\* the other side is doing: neither side's silence stalls the other.
SubscriberNeverStuck ==
  \A s \in Sides : pc[s] = "put" ~> (pc[s] # "put" \/ main # "loop")

\* A failure of a subscriber, of a connection made or of one that breaks later,
\* ends the program, whatever else keeps arriving (the errCh arm and os.Exit).
FailureEndsRun == \A s \in Sides : pc[s] = "report" ~> main # "loop"

\* An interrupt ends the program, whatever the subscribers are doing (the WS
\* handshake is not bound to the context).
CancelEndsRun == ctx ~> main # "loop"

\* docs/requirements/go-receipts-bench-requirement.md:79 says that matched +
\* unmatched is the number of blocks seen; it is then at most the number of
\* blocks there are (checked where the node never reorgs).
CountsAreConsistent == Len(pairs) + unmatched <= height

\* docs/requirements/latency-bench-requirement.md:58 says of go-latency-bench
\* that when one side is disconnected its block is marked unmatched and other
\* blocks continue: only a connection that could not be made (:59 and :60)
\* would then end the program with an error.
OtherBlocksContinue == main = "exit1" => \E s \in Sides : link[s] = "none"
=============================================================================
