--------------------------- MODULE VerifierStream ---------------------------
(* go-trace-verifier's side of the gRPC stream; see LatencyStream.  The      *)
(* pool that works on what streamLoop takes is TraceVerifier, the            *)
(* comparison TraceCompare.                                                  *)
EXTENDS ProtoConvert

-----------------------------------------------------------------------------
(* proto/gen/exex.pb.go.                                                   *)

SubscribeRequest(named) ==
  [f \in {"headers", "transactions", "receipts", "withdrawals", "state_diff", "call_traces"} |->
     f \in named]

CallLogFrame(p) ==
  [Address |-> p.address, Topics |-> p.topics, Data |-> p.data,
   HasIndex |-> p.has_index, Index |-> p.index]

\* See InternalTxsStream.
CallsIn(p) == p.calls
CallFrameWith(p, calls) ==
  [Typ |-> p.typ, From |-> p.from, To |-> p.to, Value |-> p.value, Gas |-> p.gas,
   GasUsed |-> p.gas_used, Input |-> p.input, Output |-> p.output, Error |-> p.error,
   RevertReason |-> p.revert_reason, Calls |-> calls, Logs |-> Each(p.logs, CallLogFrame)]
Decode == INSTANCE FrameWalk WITH Node <- FrameMessages, Calls <- CallsIn, Visit <- CallFrameWith
CallFrame(p) == CallFrameWith(p, Each(p.calls, LAMBDA c : Decode!Walk[c]))

BlockCallTraces(p) == [BlockNumber |-> p.block_number, Txs |-> Each(p.txs, CallFrame)]
Chain(p) == [CallTraces |-> Each(p.call_traces, BlockCallTraces)]
ChainCommitted(p) == [New |-> Each(p.new, Chain)]
Notification(p) ==
  [ChainCommitted |-> IF p.event = "Committed" THEN Some(ChainCommitted(p)) ELSE None]

-----------------------------------------------------------------------------
(* main.go.                                                                *)

Request == SubscribeRequest({"call_traces"})

\* Bug: a block without transactions ends the walk over the segment.
UntilEmpty(p) ==
  LET committed == Notification(p).ChainCommitted
      new       == OrDefault(committed, LAMBDA c : c.New, None)
      traces    == OrDefault(new, LAMBDA c : c.CallTraces, <<>>)
      full(n)   == \A i \in 1..n : traces[i].Txs # <<>>
      taken     == [i \in {n \in DOMAIN traces : full(n)} |-> traces[i]]
  IN  Each(taken, LAMBDA bct : [blockNumber |-> bct.BlockNumber, grpcFrames |-> bct.Txs])

\* The blocks a message puts to work, as long as fewer than n have been: those
\* of a commit that have a frame.
streamLoop(p) ==
  LET committed == Notification(p).ChainCommitted
      new       == OrDefault(committed, LAMBDA c : c.New, None)
      traces    == OrDefault(new, LAMBDA c : c.CallTraces, <<>>)
      full      == {i \in DOMAIN traces : traces[i].Txs # <<>>}
  IN  Each(Kept(traces, full), LAMBDA bct : [blockNumber |-> bct.BlockNumber, grpcFrames |-> bct.Txs])
=============================================================================
