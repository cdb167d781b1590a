---------------------------- MODULE TraceVerifier ----------------------------
(***************************************************************************)
(* examples/go-trace-verifier: streamLoop reads committed blocks from the  *)
(* ExEx stream and sends each that has traces to workCh; a pool of workers *)
(* fetches the node's own traces of the block by RPC, compares, and sends  *)
(* a result to resultCh; a goroutine closes resultCh when every worker has *)
(* returned; main reports the results until the channel is closed.         *)
(*                                                                         *)
(* A block is a record of its number, an identity (a reorg gives a number  *)
(* another identity) and whether it has transactions.  Comparing yields    *)
(* "pass" when the RPC answers for the very block the stream carried, and  *)
(* "mismatch" when it answers for another block of that number; what the   *)
(* comparison does to the fields is not part of this module.  The context  *)
(* main makes is never cancelled before it returns, so the arms that wait  *)
(* for it are left out.                                                    *)
(***************************************************************************)
EXTENDS Integers, Sequences, FiniteSets

CONSTANTS
  N,           \* the argument n
  Workers,     \* --workers, as the set of worker goroutines
  WorkCap,     \* workChBuffer
  MaxBlocks,   \* bound: blocks the node makes
  MaxRpcFails  \* bound: RPC calls that fail

ASSUME ArgAssumption == N \in Nat \ {0} /\ Workers # {} /\ IsFiniteSet(Workers)
ASSUME CapAssumption == WorkCap \in Nat \ {0} /\ MaxBlocks \in Nat /\ MaxRpcFails \in Nat

VARIABLES
  chain,        \* the node's canonical chain
  made,         \* blocks the node has made
  rpcFails,     \* RPC calls that failed
  wire,         \* notifications on their way; <<>> for one that is skipped
  wireOpen,     \* whether the server still serves the stream
  stream,       \* streamLoop: "connect", "recv", "send" or "done"
  batch,        \* chain.CallTraces still to go through, the next to send first
  sent,         \* blocks put into workCh, in order
  workCh, workClosed,
  worker,       \* per worker: "take", "call1", "delay", "call2", "put", "done",
                \* or "hung" in a call that does not come back
  job,          \* per worker, the block it works on, or NoBlock
  verdict,      \* per worker, what it is about to report
  resultCh, resultClosed,
  reported,     \* results main has taken, in order
  failed,       \* main's flag
  main          \* "range", "exit0" or "exit1"

nodeVars   == <<chain, made, rpcFails>>
streamVars == <<wire, wireOpen, stream, batch, sent>>
workVars   == <<workCh, workClosed>>
workerVars == <<worker, job, verdict>>
resultVars == <<resultCh, resultClosed>>
mainVars   == <<reported, failed, main>>
vars == <<nodeVars, streamVars, workVars, workerVars, resultVars, mainVars>>

Block == [num : 1..MaxBlocks, id : 1..MaxBlocks, full : BOOLEAN]
NoBlock == [num |-> 0, id |-> 0, full |-> FALSE]
Verdicts == {"pass", "mismatch", "rpc_error"}
ResultCap == 2 * Cardinality(Workers)

\* The process has not exited.
Running == main = "range"

-----------------------------------------------------------------------------
(* The node, as the verifier uses it.                                      *)

Init ==
  /\ chain = <<>> /\ made = 0 /\ rpcFails = 0
  /\ wire = <<>> /\ wireOpen = TRUE
  /\ stream = "connect" /\ batch = <<>> /\ sent = <<>>
  /\ workCh = <<>> /\ workClosed = FALSE
  /\ worker = [w \in Workers |-> "take"]
  /\ job = [w \in Workers |-> NoBlock]
  /\ verdict = [w \in Workers |-> "pass"]
  /\ resultCh = <<>> /\ resultClosed = FALSE
  /\ reported = <<>> /\ failed = FALSE /\ main = "range"

\* Only a stream that is open carries the notification.
Deliver(note) ==
  wire' = IF wireOpen /\ stream \in {"recv", "send"} THEN Append(wire, note) ELSE wire

NodeCommit ==
  /\ Running
  /\ \E fulls \in [{1} -> BOOLEAN] \cup [1..2 -> BOOLEAN] :
       LET k == Len(fulls)
           new == [i \in 1..k |->
                     [num |-> Len(chain) + i, id |-> made + i, full |-> fulls[i]]]
       IN /\ made + k <= MaxBlocks
          /\ made' = made + k
          /\ chain' = chain \o new
          /\ Deliver(new)
  /\ UNCHANGED <<rpcFails, wireOpen, stream, batch, sent, workVars, workerVars,
                 resultVars, mainVars>>

\* The tip is replaced; the stream carries a ChainReorged, which is skipped.
NodeReorg ==
  /\ Running
  /\ chain # <<>> /\ made < MaxBlocks
  /\ made' = made + 1
  /\ chain' = [chain EXCEPT ![Len(chain)].id = made + 1]
  /\ Deliver(<<>>)
  /\ UNCHANGED <<rpcFails, wireOpen, stream, batch, sent, workVars, workerVars,
                 resultVars, mainVars>>

NodeCloses ==
  /\ Running /\ wireOpen
  /\ wireOpen' = FALSE
  /\ UNCHANGED <<nodeVars, wire, stream, batch, sent, workVars, workerVars,
                 resultVars, mainVars>>

-----------------------------------------------------------------------------
(* streamLoop.                                                             *)

StreamConnect ==
  /\ Running
  /\ stream = "connect"
  /\ stream' = "recv"
  /\ UNCHANGED <<nodeVars, wire, wireOpen, batch, sent, workVars, workerVars,
                 resultVars, mainVars>>

\* Bug: workCh is closed only on the way out that has sent everything.
StreamEndsOpen ==
  /\ Running
  /\ \/ stream = "connect"
     \/ stream = "recv" /\ ~wireOpen /\ wire = <<>>
  /\ stream' = "done"
  /\ UNCHANGED <<nodeVars, wire, wireOpen, batch, sent, workVars, workerVars,
                 resultVars, mainVars>>

\* The connection cannot be made, the server ends the stream, or Recv fails:
\* the error is logged, and workCh closed.
StreamEnds ==
  /\ Running
  /\ \/ stream = "connect"
     \/ stream = "recv" /\ ~wireOpen /\ wire = <<>>
  /\ stream' = "done"
  /\ workClosed' = TRUE
  /\ UNCHANGED <<nodeVars, wire, wireOpen, batch, sent, workCh, workerVars,
                 resultVars, mainVars>>

\* The range over traces goes on to the next block that has transactions.
PassOverEmpty(traces) ==
  \E k \in 0..Len(traces) :
    /\ \A i \in 1..k : ~traces[i].full
    /\ k < Len(traces) => traces[k + 1].full
    /\ batch' = SubSeq(traces, k + 1, Len(traces))

\* The next notification.
StreamRecv ==
  /\ Running
  /\ stream = "recv"
  /\ wire # <<>>
  /\ wire' = Tail(wire)
  /\ PassOverEmpty(Head(wire))
  /\ stream' = IF batch' = <<>> THEN "recv" ELSE "send"
  /\ UNCHANGED <<nodeVars, wireOpen, sent, workVars, workerVars, resultVars, mainVars>>

\* workCh <- work; the n-th ends the loop, and closes workCh.
StreamSend ==
  /\ Running
  /\ stream = "send"
  /\ Len(workCh) < WorkCap
  /\ workCh' = Append(workCh, Head(batch))
  /\ sent' = Append(sent, Head(batch))
  /\ PassOverEmpty(Tail(batch))
  /\ stream' = IF Len(sent) + 1 >= N THEN "done"
               ELSE IF batch' = <<>> THEN "recv" ELSE "send"
  /\ workClosed' = (stream' = "done")
  /\ UNCHANGED <<nodeVars, wire, wireOpen, workerVars, resultVars, mainVars>>

-----------------------------------------------------------------------------
(* workerLoop and fetchRPCTraces.                                          *)

\* Bug: a receive that does not notice the channel is closed.
WorkerTakeUnchecked(w) ==
  /\ Running
  /\ worker[w] = "take"
  /\ workCh # <<>> \/ workClosed
  /\ workCh' = IF workCh = <<>> THEN <<>> ELSE Tail(workCh)
  /\ job' = [job EXCEPT ![w] = IF workCh = <<>> THEN NoBlock ELSE Head(workCh)]
  /\ worker' = [worker EXCEPT ![w] = "call1"]
  /\ UNCHANGED <<nodeVars, streamVars, workClosed, verdict, resultVars, mainVars>>

WorkerTake(w) ==
  /\ Running
  /\ worker[w] = "take"
  /\ workCh # <<>>
  /\ workCh' = Tail(workCh)
  /\ job' = [job EXCEPT ![w] = Head(workCh)]
  /\ worker' = [worker EXCEPT ![w] = "call1"]
  /\ UNCHANGED <<nodeVars, streamVars, workClosed, verdict, resultVars, mainVars>>

\* workCh is closed and empty: the range ends, wg.Done.
WorkerEnds(w) ==
  /\ Running
  /\ worker[w] = "take"
  /\ workClosed /\ workCh = <<>>
  /\ worker' = [worker EXCEPT ![w] = "done"]
  /\ UNCHANGED <<nodeVars, streamVars, workVars, job, verdict, resultVars, mainVars>>

\* Bug: the call asks for the latest block.
AnswerLatest(b) == IF chain # <<>> THEN chain[Len(chain)].id ELSE 0

\* debug_traceBlockByNumber: the block that has this number now.
Answer(b) == IF b.num \in DOMAIN chain THEN chain[b.num].id ELSE 0

\* Bug: a lock held for the length of a call.
WorkerFetchedLocked(w) ==
  /\ Running
  /\ worker[w] \in {"call1", "call2"}
  /\ \A v \in Workers : worker[v] # "hung"
  /\ verdict' = [verdict EXCEPT ![w] =
                   IF Answer(job[w]) = job[w].id THEN "pass" ELSE "mismatch"]
  /\ worker' = [worker EXCEPT ![w] = "put"]
  /\ UNCHANGED <<nodeVars, streamVars, workVars, job, resultVars, mainVars>>

\* A call that succeeds, the first or the second, and compareBlock.
WorkerFetched(w) ==
  /\ Running
  /\ worker[w] \in {"call1", "call2"}
  /\ verdict' = [verdict EXCEPT ![w] =
                   IF Answer(job[w]) = job[w].id THEN "pass" ELSE "mismatch"]
  /\ worker' = [worker EXCEPT ![w] = "put"]
  /\ UNCHANGED <<nodeVars, streamVars, workVars, job, resultVars, mainVars>>

\* The first failure waits rpcRetryDelay, the second is the result.
WorkerFetchFails(w) ==
  /\ Running
  /\ worker[w] \in {"call1", "call2"}
  /\ rpcFails < MaxRpcFails
  /\ rpcFails' = rpcFails + 1
  /\ worker' = [worker EXCEPT ![w] = IF @ = "call1" THEN "delay" ELSE "put"]
  /\ verdict' = [verdict EXCEPT ![w] = IF worker[w] = "call2" THEN "rpc_error" ELSE @]
  /\ UNCHANGED <<chain, made, streamVars, workVars, job, resultVars, mainVars>>

\* http.DefaultClient has no timeout: the node need never answer.
WorkerHangs(w) ==
  /\ Running
  /\ worker[w] \in {"call1", "call2"}
  /\ worker' = [worker EXCEPT ![w] = "hung"]
  /\ UNCHANGED <<nodeVars, streamVars, workVars, job, verdict, resultVars, mainVars>>

WorkerRetries(w) ==
  /\ Running
  /\ worker[w] = "delay"
  /\ worker' = [worker EXCEPT ![w] = "call2"]
  /\ UNCHANGED <<nodeVars, streamVars, workVars, job, verdict, resultVars, mainVars>>

\* Bug: the worker returns after an RPC error.
WorkerPutAndQuit(w) ==
  /\ Running
  /\ worker[w] = "put"
  /\ Len(resultCh) < ResultCap
  /\ resultCh' = Append(resultCh, [block |-> job[w], verdict |-> verdict[w]])
  /\ job' = [job EXCEPT ![w] = NoBlock]
  /\ worker' = [worker EXCEPT ![w] = IF verdict[w] = "rpc_error" THEN "done" ELSE "take"]
  /\ verdict' = [verdict EXCEPT ![w] = "pass"]
  /\ UNCHANGED <<nodeVars, streamVars, workVars, resultClosed, mainVars>>

\* resultCh <- result, and the next round.
WorkerPut(w) ==
  /\ Running
  /\ worker[w] = "put"
  /\ Len(resultCh) < ResultCap
  /\ resultCh' = Append(resultCh, [block |-> job[w], verdict |-> verdict[w]])
  /\ job' = [job EXCEPT ![w] = NoBlock]
  /\ worker' = [worker EXCEPT ![w] = "take"]
  /\ verdict' = [verdict EXCEPT ![w] = "pass"]
  /\ UNCHANGED <<nodeVars, streamVars, workVars, resultClosed, mainVars>>

-----------------------------------------------------------------------------
(* The closing goroutine and main's collector.                             *)

\* Bug: results are closed as soon as there is no more work to hand out.
CloseResultsEarly ==
  /\ Running
  /\ workClosed /\ workCh = <<>>
  /\ ~resultClosed
  /\ resultClosed' = TRUE
  /\ UNCHANGED <<nodeVars, streamVars, workVars, workerVars, resultCh, mainVars>>

\* wg.Wait(); close(resultCh)
CloseResults ==
  /\ Running
  /\ \A w \in Workers : worker[w] = "done"
  /\ ~resultClosed
  /\ resultClosed' = TRUE
  /\ UNCHANGED <<nodeVars, streamVars, workVars, workerVars, resultCh, mainVars>>

Collect ==
  /\ Running
  /\ resultCh # <<>>
  /\ resultCh' = Tail(resultCh)
  /\ reported' = Append(reported, Head(resultCh))
  /\ failed' = (failed \/ Head(resultCh).verdict # "pass")
  /\ UNCHANGED <<nodeVars, streamVars, workVars, workerVars, resultClosed, main>>

\* The range over resultCh ends: summary and exit code.
Summarise ==
  /\ Running
  /\ resultClosed /\ resultCh = <<>>
  /\ main' = IF failed THEN "exit1" ELSE "exit0"
  /\ UNCHANGED <<nodeVars, streamVars, workVars, workerVars, resultVars, reported, failed>>

-----------------------------------------------------------------------------
(* Behaviours.                                                             *)

NodeStep == NodeCommit \/ NodeReorg \/ NodeCloses
StreamStep == StreamConnect \/ StreamEnds \/ StreamRecv \/ StreamSend
WorkerStep(w) ==
  \/ WorkerTake(w) \/ WorkerEnds(w)
  \/ WorkerFetched(w) \/ WorkerFetchFails(w) \/ WorkerRetries(w)
  \/ WorkerPut(w)
MainStep == Collect \/ Summarise

Next ==
  \/ NodeStep \/ StreamStep
  \/ \E w \in Workers : WorkerStep(w) \/ WorkerHangs(w)
  \/ CloseResults \/ MainStep

Spec == Init /\ [][Next]_vars

\* Every goroutine that can run does, and a call that does not hang comes back,
\* like a connection attempt; nothing is assumed of the node.
FairSpec ==
  /\ Spec
  /\ WF_vars(StreamStep) /\ WF_vars(CloseResults) /\ WF_vars(MainStep)
  /\ \A w \in Workers : WF_vars(WorkerStep(w))

-----------------------------------------------------------------------------
(* Properties.                                                             *)

Results == [block : Block, verdict : Verdicts]

\* Type correctness of the pipeline's state.
TypeOK ==
  /\ chain \in Seq(Block) /\ made \in 0..MaxBlocks /\ rpcFails \in 0..MaxRpcFails
  /\ wire \in Seq(Seq(Block)) /\ wireOpen \in BOOLEAN
  /\ stream \in {"connect", "recv", "send", "done"}
  /\ batch \in Seq(Block) /\ sent \in Seq(Block)
  /\ workCh \in Seq(Block) /\ Len(workCh) <= WorkCap /\ workClosed \in BOOLEAN
  /\ worker \in [Workers -> {"take", "call1", "delay", "call2", "put", "done", "hung"}]
  /\ job \in [Workers -> Block \cup {NoBlock}]
  /\ verdict \in [Workers -> Verdicts]
  /\ resultCh \in Seq(Results) /\ Len(resultCh) <= ResultCap /\ resultClosed \in BOOLEAN
  /\ reported \in Seq(Results) /\ failed \in BOOLEAN
  /\ main \in {"range", "exit0", "exit1"}

Busy == {w \in Workers : worker[w] \notin {"take", "done"}}

\* No goroutine is about to send on a channel that has been closed, which
\* would panic: workCh is closed by its only sender, resultCh after all senders
\* have returned.
NoSendOnClosed ==
  /\ workClosed => stream # "send"
  /\ resultClosed => Busy = {}

\* A mismatch is only ever reported of a block that a reorg has replaced
\* between its notification and the RPC call: any other mismatch would be a
\* real one.
MismatchMeansReorg ==
  \A i \in DOMAIN reported :
    reported[i].verdict = "mismatch" =>
      chain[reported[i].block.num].id # reported[i].block.id

Hung == {w \in Workers : worker[w] = "hung"}

\* Once the stream is over, by reaching n or by its end, the program ends,
\* unless a call to the RPC node hangs.
StreamEndEndsRun == stream = "done" ~> main # "range" \/ Hung # {}

\* A call that hangs holds up the one block it was made for: as long as one
\* worker is left, every other block that is sent is reported (workerLoop, the
\* capacity of resultCh).
HungCallHoldsOneBlock ==
  \A k \in 1..N :
    Len(sent) >= k ~> Len(reported) + Cardinality(Hung) >= k \/ Hung = Workers

\* The pipeline implements the abstract pool, where a block sent to workCh is
\* a block taken on.  At most n are taken, also when one notification has more;
\* neither the channels, nor the order the workers finish in, nor retries and
\* failed calls lose a block or report one twice, or let main return before
\* the last; and the exit code tells of every failure, whatever came after it
\* (streamLoop, workerLoop, the closing goroutine and main).
Pool == INSTANCE WorkPool WITH taken <- sent, outcome <- main
PoolSpec == Pool!Spec

\* docs/requirements/go-trace-verifier-requirement.md:19 (F5): the program exits
\* after verifying exactly n blocks.
ExitsAfterExactlyN == main # "range" => Len(reported) = N
=============================================================================
