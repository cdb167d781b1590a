-------------------------- MODULE InternalTxsStream --------------------------
(* go-internal-txs-bench's side of the gRPC stream; see LatencyStream.      *)
EXTENDS ProtoConvert, SequencesExt

-----------------------------------------------------------------------------
(* proto/gen/exex.pb.go.                                                   *)

SubscribeRequest(named) ==
  [f \in {"headers", "transactions", "receipts", "withdrawals", "state_diff", "call_traces"} |->
     f \in named]

\* The gas of a transaction's frame is not that of the frame's own message; the
\* calls in it are messages of frames.
CallsIn(p) == p.calls
CallFrameWith(p, calls) == [From |-> p.from, GasUsed |-> p.gas_used, Calls |-> calls]
Decode == INSTANCE FrameWalk WITH Node <- FrameMessages, Calls <- CallsIn, Visit <- CallFrameWith
CallFrame(p) == CallFrameWith(p, Each(p.calls, LAMBDA c : Decode!Walk[c]))
BlockCallTraces(p) == [BlockNumber |-> p.block_number, Txs |-> Each(p.txs, CallFrame)]
BlockHeader(p) == [Number |-> p.number, GasUsed |-> p.gas_used]
BlockWithReceipts(p) == [Header |-> Each(p.header, BlockHeader)]
Chain(p) ==
  [Blocks     |-> Each(p.blocks, BlockWithReceipts),
   CallTraces |-> Each(p.call_traces, BlockCallTraces)]
ChainCommitted(p) == [New |-> Each(p.new, Chain)]
Notification(p) ==
  [ChainCommitted |-> IF p.event = "Committed" THEN Some(ChainCommitted(p)) ELSE None]

-----------------------------------------------------------------------------
(* grpc.go.                                                                *)

Request == SubscribeRequest({"headers", "call_traces"})

\* Bug: the last entry is taken for the tip's.
TxCountOfLast(traces, number) == IF traces = <<>> THEN 0 ELSE Len(Last(traces).Txs)

\* The first traces of the block itself, among those of its segment; 0 if
\* there are none.
TxCount(traces, number) ==
  LET own == SelectInSeq(traces, LAMBDA ct : ct.BlockNumber = number)
  IN  IF own = 0 THEN 0 ELSE Len(traces[own].Txs)

SubscribeGRPC(p) ==
  LET committed == Notification(p).ChainCommitted
      new       == OrDefault(committed, LAMBDA c : c.New, None)
      blocks    == OrDefault(new, LAMBDA c : c.Blocks, <<>>)
      header    == IF blocks = <<>> THEN None ELSE Last(blocks).Header
  IN  Each(header, LAMBDA h : [blockNumber |-> h.Number, gasUsed |-> h.GasUsed,
                               txCount |-> TxCount(new[1].CallTraces, h.Number)])
=============================================================================
