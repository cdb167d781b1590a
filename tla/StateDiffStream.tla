--------------------------- MODULE StateDiffStream ---------------------------
(* go-state-diff-bench's side of the gRPC stream; see LatencyStream.  The    *)
(* accounts are decoded before the arrival is timed, and only counted.      *)
EXTENDS ProtoConvert

-----------------------------------------------------------------------------
(* proto/gen/exex.pb.go.                                                   *)

SubscribeRequest(named) ==
  [f \in {"headers", "transactions", "receipts", "withdrawals", "state_diff", "call_traces"} |->
     f \in named]

AccountDiff(p) == [Address |-> p.address, Status |-> p.status]
StateDiff(p) == [Accounts |-> Each(p.accounts, AccountDiff)]
BlockHeader(p) == [Number |-> p.number]
BlockWithReceipts(p) == [Header |-> Each(p.header, BlockHeader)]
Chain(p) ==
  [Blocks    |-> Each(p.blocks, BlockWithReceipts),
   StateDiff |-> Each(p.state_diff, StateDiff)]
ChainCommitted(p) == [New |-> Each(p.new, Chain)]
Notification(p) ==
  [ChainCommitted |-> IF p.event = "Committed" THEN Some(ChainCommitted(p)) ELSE None]

-----------------------------------------------------------------------------
(* grpc.go.                                                                *)

Request == SubscribeRequest({"headers", "state_diff"})

\* The accounts are those of the whole segment, the block is its tip.
SubscribeGRPC(p) ==
  LET committed == Notification(p).ChainCommitted
      new       == OrDefault(committed, LAMBDA c : c.New, None)
      blocks    == OrDefault(new, LAMBDA c : c.Blocks, <<>>)
      header    == IF blocks = <<>> THEN None ELSE blocks[Len(blocks)].Header
  IN  Each(header, LAMBDA h :
        [blockNumber |-> h.Number,
         accounts    |-> OrDefault(new[1].StateDiff, LAMBDA sd : Len(sd.Accounts), 0)])
=============================================================================
