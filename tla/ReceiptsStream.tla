--------------------------- MODULE ReceiptsStream ---------------------------
(* go-receipts-bench's side of the gRPC stream; see LatencyStream.  The     *)
(* receipts are decoded before the arrival is timed, and not looked at.    *)
EXTENDS ProtoConvert

-----------------------------------------------------------------------------
(* proto/gen/exex.pb.go.                                                   *)

SubscribeRequest(named) ==
  [f \in {"headers", "transactions", "receipts", "withdrawals", "state_diff", "call_traces"} |->
     f \in named]

EventLog(p) == [Address |-> p.address, Topics |-> p.topics, Data |-> p.data]
Receipt(p) == [TxType |-> p.tx_type, Success |-> p.success, Logs |-> Each(p.logs, EventLog)]
BlockHeader(p) == [Number |-> p.number]
BlockWithReceipts(p) ==
  [Header |-> Each(p.header, BlockHeader), Receipts |-> Each(p.receipts, Receipt)]
Chain(p) == [Blocks |-> Each(p.blocks, BlockWithReceipts)]
ChainCommitted(p) == [New |-> Each(p.new, Chain)]
Notification(p) ==
  [ChainCommitted |-> IF p.event = "Committed" THEN Some(ChainCommitted(p)) ELSE None]

-----------------------------------------------------------------------------
(* grpc.go.                                                                *)

Request == SubscribeRequest({"headers", "receipts"})

SubscribeGRPC(p) ==
  LET committed == Notification(p).ChainCommitted
      new       == OrDefault(committed, LAMBDA c : c.New, None)
      blocks    == OrDefault(new, LAMBDA c : c.Blocks, <<>>)
      header    == IF blocks = <<>> THEN None ELSE blocks[Len(blocks)].Header
  IN  Each(header, LAMBDA h : [blockNumber |-> h.Number])
=============================================================================
