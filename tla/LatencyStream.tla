---------------------------- MODULE LatencyStream ----------------------------
(***************************************************************************)
(* go-latency-bench's side of the gRPC stream: the messages as its copy of *)
(* the generated package decodes them, and SubscribeGRPC of grpc.go.       *)
(*                                                                         *)
(* Each of the programs in examples/ has a module like this one.  An       *)
(* operator named after a Go type makes the value of that type from the    *)
(* message of the server, with the fields this program looks at.  A        *)
(* pointer is an Option, None being nil; the wrapper of a oneof is one     *)
(* too, None when the oneof holds another case.                            *)
(***************************************************************************)
EXTENDS ProtoConvert

-----------------------------------------------------------------------------
(* proto/gen/exex.pb.go.                                                   *)

\* A request is the set of its fields that are true.
\* A composite literal: the Include fields that it does not name are false.
SubscribeRequest(named) ==
  [f \in {"headers", "transactions", "receipts", "withdrawals", "state_diff", "call_traces"} |->
     f \in named]

BlockHeader(p) == [Number |-> p.number]
BlockWithReceipts(p) == [Header |-> Each(p.header, BlockHeader)]
Chain(p) == [Blocks |-> Each(p.blocks, BlockWithReceipts)]
ChainCommitted(p) == [New |-> Each(p.new, Chain)]

\* ev.(*pb.Notification_ChainCommitted) succeeds when ChainCommitted is there.
Notification(p) ==
  [ChainCommitted |-> IF p.event = "Committed" THEN Some(ChainCommitted(p)) ELSE None]

-----------------------------------------------------------------------------
(* grpc.go.                                                                *)

Request == SubscribeRequest({"headers"})

\* The arrival a message gives rise to, if it is a commit whose chain is
\* there, with a block, the last of which has its header.
SubscribeGRPC(p) ==
  LET committed == Notification(p).ChainCommitted
      new       == OrDefault(committed, LAMBDA c : c.New, None)
      blocks    == OrDefault(new, LAMBDA c : c.Blocks, <<>>)
      header    == IF blocks = <<>> THEN None ELSE blocks[Len(blocks)].Header
  IN  Each(header, LAMBDA h : [blockNumber |-> h.Number])
=============================================================================
