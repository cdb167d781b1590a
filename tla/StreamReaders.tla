---------------------------- MODULE StreamReaders ----------------------------
(***************************************************************************)
(* The programs of examples/ at the end of their gRPC stream: one of them  *)
(* is started, sends its request, and makes something of the message that  *)
(* the server (ChainConvert) sends it for a notification of the node.      *)
(*                                                                         *)
(* What the benches and the verifier do with what they take from the       *)
(* stream, and how their streams end, is LatencyBench and TraceVerifier;   *)
(* go-consumer, which has one goroutine, is here as a whole.               *)
(***************************************************************************)
EXTENDS ChainConvert

CONSTANTS Chains,       \* the new segments the node can report
          OldChains     \* the old segments: of a chain that was left

-----------------------------------------------------------------------------
(* What the node reports: reth's and revm's types, of which convert.rs     *)
(* takes these fields.                                                     *)

NodeHeader == [number : Nat, gas_used : Nat, opt : [Scalars \cup Hashes -> Option(Nat)]]

\* One record for the transactions of all types: a field that a type does not
\* have is zero or empty.  A parity is zero or one.
AnyTx ==
  [type : Range(TxTypes), gas_limit : Words, value : Words, to : Option(Nat),
   chain_id : Option(0..Base - 1), price : 0..Base^2 - 1, tip : 0..Base^2 - 1,
   access_list : Seq([address : Nat, storage_keys : Seq(Nat)]),
   blobs : Seq(Nat), blob_fee : 0..Base^2 - 1,
   auths : Seq([chain_id : Words, address : Nat, y_parity : {0, 1}])]
NodeTx ==
  {t \in AnyTx :
     /\ t.type \in {"Legacy", "Eip2930"} => t.tip = 0
     /\ t.type = "Legacy" => t.access_list = <<>>
     /\ t.type # "Eip4844" => t.blobs = <<>> /\ t.blob_fee = 0
     /\ t.type # "Eip7702" => t.auths = <<>>}

NodeLog == [address : Nat, topics : Seq(Nat), data : Digits]
NodeBlock ==
  {b \in [header : NodeHeader, txs : Seq(NodeTx), senders : Seq(Nat),
          receipts : Seq([tx_type : Nat, success : BOOLEAN, logs : Seq(NodeLog)]),
          withdrawals : Option(Seq([index : Nat, address : Nat]))] :
     Len(b.senders) = Len(b.txs)}

NodeInfo == [balance : Words, nonce : Nat, code_hash : Nat]
NodeAccount ==
  [status : Range(AccountStatuses), info : Option(NodeInfo), original_info : Option(NodeInfo),
   storage : Seq([key : Words, previous : Words, present : Words])]
NodeRevert ==
  [kind : Range(RevertKinds), info : Option(NodeInfo),
   storage : Seq({s \in [key : Words, destroyed : BOOLEAN, value : Words] : s.destroyed => s.value = 0}),
   previous_status : Range(AccountStatuses), wipe_storage : BOOLEAN]
NodeBundle ==
  [state : Seq(Nat \X NodeAccount), contracts : Seq(Nat \X Digits), reverts : Seq(Seq(Nat \X NodeRevert))]

\* Blocks follow on one another; the tracer's frames of a block, where it has
\* any, are those of its transactions in order.
NodeChain(c) ==
  /\ c.blocks \in Seq(NodeBlock) /\ c.blocks # <<>>
  /\ \A i, j \in DOMAIN c.blocks : i < j => c.blocks[i].header.number < c.blocks[j].header.number
  /\ c.bundle \in NodeBundle
  /\ IsSome(c.traces) =>
       \A b \in Range(c.blocks) : b.header.number \in DOMAIN c.traces[1] =>
         LET frames == c.traces[1][b.header.number] IN
         /\ frames \in Seq(Frames)
         /\ \A i \in DOMAIN frames \cap DOMAIN b.senders : frames[i].from = b.senders[i]

ASSUME NodeAssumption == \A c \in Chains \cup OldChains : NodeChain(c)

-----------------------------------------------------------------------------

VARIABLES program,      \* the program that runs
          options,      \* go-consumer's command line
          stage,        \* "call", "recv", or "exit0" and "exit1" of go-consumer
          interrupted,  \* go-consumer's context is cancelled
          output        \* what the program made of the message

readerVars == <<program, options, stage, interrupted, output>>
vars == <<subscriptionVars, readerVars>>

Latency     == INSTANCE LatencyStream
Receipts    == INSTANCE ReceiptsStream
InternalTxs == INSTANCE InternalTxsStream
AccountDiffs == INSTANCE StateDiffStream
Verifier    == INSTANCE VerifierStream
Consumer    == INSTANCE ConsumerStream

Benches == {"latency", "receipts", "internal-txs", "state-diff"}
Programs == Benches \cup {"verifier", "consumer"}

Request ==
  CASE program = "latency"      -> Latency!Request
    [] program = "receipts"     -> Receipts!Request
    [] program = "internal-txs" -> InternalTxs!Request
    [] program = "state-diff"   -> AccountDiffs!Request
    [] program = "verifier"     -> Verifier!Request
    [] program = "consumer"     -> Consumer!Request(options)

\* An arrival or none, the blocks to verify, or what is printed.
Handled(m) ==
  CASE program = "latency"      -> Latency!SubscribeGRPC(m)
    [] program = "receipts"     -> Receipts!SubscribeGRPC(m)
    [] program = "internal-txs" -> InternalTxs!SubscribeGRPC(m)
    [] program = "state-diff"   -> AccountDiffs!SubscribeGRPC(m)
    [] program = "verifier"     -> Verifier!streamLoop(m)
    [] program = "consumer"     -> Consumer!printNotification(m)

-----------------------------------------------------------------------------
(* Behaviours.  The bound: one program, one subscription and one message,  *)
(* no reader keeping anything from one message to the next.                *)

Init ==
  /\ Unsubscribed
  /\ program \in Programs
  /\ options \in IF program = "consumer" THEN SUBSET Parts ELSE {{}}
  /\ stage = "call"
  /\ interrupted = FALSE
  /\ output = <<>>

\* client.Subscribe, and the server's side of it.
Call ==
  /\ stage = "call"
  /\ Subscribe({f \in Parts : Request[f]})
  /\ stage' = "recv"
  /\ UNCHANGED <<program, options, interrupted, output>>

\* The call cannot be made, or the context is cancelled already: log.Fatalf.
CallFails ==
  /\ program = "consumer" /\ stage = "call"
  /\ stage' = "exit1"
  /\ UNCHANGED <<subscriptionVars, program, options, interrupted, output>>

Recv(n) ==
  /\ stage = "recv"
  /\ Push(n)
  /\ output' = Handled(msg')
  /\ UNCHANGED <<program, options, stage, interrupted>>

Interrupt ==
  /\ program = "consumer" /\ stage \in {"call", "recv"}
  /\ ~interrupted
  /\ interrupted' = TRUE
  /\ UNCHANGED <<subscriptionVars, program, options, stage, output>>

\* The server ends the stream; whether the context is cancelled is not asked.
StreamEof ==
  /\ program = "consumer" /\ stage = "recv"
  /\ stage' = "exit0"
  /\ UNCHANGED <<subscriptionVars, program, options, interrupted, output>>

RecvFails ==
  /\ program = "consumer" /\ stage = "recv"
  /\ stage' = IF interrupted THEN "exit0" ELSE "exit1"
  /\ UNCHANGED <<subscriptionVars, program, options, interrupted, output>>

Next ==
  \/ Call \/ CallFails
  \/ \E c \in Chains : Recv(Committed(c))
  \/ \E o \in OldChains, c \in Chains : Recv(Reorged(o, c))
  \/ \E o \in OldChains : Recv(Reverted(o))
  \/ notif = NoNotif /\ (Interrupt \/ StreamEof \/ RecvFails)

Spec == Init /\ [][Next]_vars

-----------------------------------------------------------------------------
(* Reading the structs of the generated package: what a program that has   *)
(* only these takes their fields to mean, by the comments in them.         *)

Hash(bytes) == bytes[1]
Optional(bytes, Reading(_)) == IF bytes = <<>> THEN None ELSE Some(Reading(bytes))

HeaderOf(h) ==
  [number |-> h.Number, gas_used |-> h.GasUsed,
   opt |-> [f \in Scalars \cup Hashes |->
              IF ~h.Has[f] THEN None ELSE Some(IF f \in Scalars THEN h.Scalar[f] ELSE Hash(h.Hash[f]))]]

TxOf(t) ==
  LET dynamic == t.TxType >= 2 IN
  [type |-> TxTypes[t.TxType + 1], gas_limit |-> t.GasLimit, value |-> Number(t.Value),
   to |-> Optional(t.To, Hash), chain_id |-> Optional(t.ChainId, Number),
   price |-> Number(IF dynamic THEN t.MaxFeePerGas ELSE t.GasPrice),
   tip   |-> Number(t.MaxPriorityFeePerGas),
   access_list |-> Each(t.AccessList, LAMBDA i : [address |-> Hash(i.Address),
                                                  storage_keys |-> Each(i.StorageKeys, Hash)]),
   blobs |-> Each(t.BlobVersionedHashes, Hash), blob_fee |-> Number(t.MaxFeePerBlobGas),
   auths |-> Each(t.AuthorizationList, LAMBDA a : [chain_id |-> Number(a.ChainId),
                                                   address  |-> Hash(a.Address),
                                                   y_parity |-> IF a.YParity THEN 1 ELSE 0])]

InfoOf(i) == [balance |-> Number(i.Balance), nonce |-> i.Nonce, code_hash |-> Hash(i.CodeHash)]

\* An info without balance is that of an account that is not there.
OptInfoOf(i) == IF i.Balance = <<>> THEN None ELSE Some(InfoOf(i))

StatusOf(name) == AccountStatuses[SelectInSeq(Consumer!AccountStatus, LAMBDA s : s = name)]
KindOf(name) == RevertKinds[SelectInSeq(Consumer!AccountRevertKind, LAMBDA k : k = name)]

AccountOf(a) ==
  <<Hash(a.Address),
    [status |-> StatusOf(a.Status),
     info |-> OptInfoOf(a.Info[1]), original_info |-> OptInfoOf(a.OriginalInfo[1]),
     storage |-> Each(a.Storage, LAMBDA s : [key |-> Number(s.Key), previous |-> Number(s.Previous),
                                             present |-> Number(s.Current)])]>>

SlotRevertOf(s) ==
  [key |-> Number(s.Key), destroyed |-> s.Value = None, value |-> OrDefault(s.Value, Number, 0)]

RevertOf(r) ==
  <<Hash(r.Address),
    [kind |-> KindOf(r.Kind), info |-> Each(r.RevertToInfo, InfoOf),
     storage |-> Each(r.Storage, SlotRevertOf),
     previous_status |-> StatusOf(r.PreviousStatus), wipe_storage |-> r.WipeStorage]>>

BundleOf(d) ==
  [state     |-> Each(d.Accounts, AccountOf),
   contracts |-> Each(d.Contracts, LAMBDA c : <<Hash(c.CodeHash), c.Bytecode>>),
   reverts   |-> Each(d.Reverts, LAMBDA b : Each(b.Accounts, RevertOf))]

\* The chains of the notification with those go-consumer decodes.
Decoded ==
  LET n == Consumer!Notification(msg) IN
  UNION {Range(Each(n.ChainCommitted, LAMBDA e : <<notif.new, e.New[1]>>)),
         Range(Each(n.ChainReorged, LAMBDA e : <<notif.old, e.Old[1]>>)),
         Range(Each(n.ChainReorged, LAMBDA e : <<notif.new, e.New[1]>>)),
         Range(Each(n.ChainReverted, LAMBDA e : <<notif.old, e.Old[1]>>))}
DecodedBlocks ==
  UNION {{<<s[1].blocks[i], s[2].Blocks[i]>> : i \in DOMAIN s[1].blocks} : s \in Decoded}

-----------------------------------------------------------------------------
(* Reading what go-consumer prints.                                        *)

\* The chains it prints, under the labels they are printed with.
Shown ==
  CASE notif.kind = "Committed" -> <<[label |-> "COMMITTED new", chain |-> notif.new]>>
    [] notif.kind = "Reorged"   -> <<[label |-> "REORGED old", chain |-> notif.old],
                                     [label |-> "REORGED new", chain |-> notif.new]>>
    [] notif.kind = "Reverted"  -> <<[label |-> "REVERTED old", chain |-> notif.old]>>
    [] OTHER -> <<>>

Bytes(hex) == IF hex = <<"(empty)">> THEN <<>> ELSE Tail(hex)

ReadInfo(i) ==
  IF Bytes(i.balance) = <<>> THEN None
  ELSE Some([balance |-> Number(Bytes(i.balance)), nonce |-> i.nonce, code_hash |-> Hash(Bytes(i.code_hash))])

ReadAccount(a) ==
  <<Hash(Bytes(a.addr)),
    [status |-> StatusOf(a.status), info |-> ReadInfo(a.current[1]), original_info |-> ReadInfo(a.original[1]),
     storage |-> Each(a.storage, LAMBDA s : [key |-> Number(Bytes(s.key)), previous |-> Number(Bytes(s.from)),
                                             present |-> Number(Bytes(s.to))])]>>

\* A revert's previous status and info are not printed.
ReadSlotRevert(s) ==
  LET gone == s.to = <<"destroyed">> IN
  [key |-> Number(Bytes(s.key)), destroyed |-> gone, value |-> IF gone THEN 0 ELSE Number(Bytes(s.to))]
ReadRevert(r) ==
  [address |-> Hash(Bytes(r.addr)), kind |-> KindOf(r.kind), wipe_storage |-> r.wipe_storage,
   storage |-> Each(r.storage, ReadSlotRevert)]
PrintedOfRevert(p) ==
  [address |-> p[1], kind |-> p[2].kind, wipe_storage |-> p[2].wipe_storage, storage |-> p[2].storage]

ReadLine(line, calls) ==
  [typ |-> line.type, from |-> Hash(Bytes(line.from)), to |-> Optional(Bytes(line.to), Hash),
   value |-> Optional(Bytes(line.value), Number), gas_used |-> Number(Bytes(line.gas_used)),
   error |-> line.error, logs |-> Len(line.logs), calls |-> calls]

\* The tree of a frame's lines: the calls of the frame at a line begin at the
\* lines two columns further in, up to the next line that is not further in.
CallLines(lines, i) ==
  {j \in (i + 1)..Len(lines) : /\ lines[j].indent = lines[i].indent + 2
                               /\ \A k \in (i + 1)..j : lines[k].indent > lines[i].indent}
ReadFrame(lines) ==
  LET read[i \in DOMAIN lines] ==
        LET calls == CallLines(lines, i)
        IN  ReadLine(lines[i], [k \in 1..Cardinality(calls) |-> read[Nth(calls, k)]])
  IN  read[1]

PrintedWith(f, calls) ==
  [typ |-> f.typ, from |-> f.from, to |-> f.to, value |-> f.value, gas_used |-> f.gas_used,
   error |-> OrDefault(f.error, Id, ""), logs |-> Len(f.logs), calls |-> calls]
Printed == INSTANCE FrameWalk WITH Node <- Frames, Calls <- CallsOf, Visit <- PrintedWith
PrintedOfFrame(f) == Printed!Walk[f]

-----------------------------------------------------------------------------
(* Properties.                                                             *)

\* With nothing but the decoded message a program can tell what the node had:
\* of a header, each post-merge field, absent or zero, by its Has flag; of
\* every transaction the fields of its type, a creation from a call of the
\* zero address, a chain id from none; of the state diff, which accounts
\* there were before and after, the slots' old and new values, and a revert to
\* zero from one to nothing (header_to_proto, tx_to_proto, state_diff_to_proto,
\* and the types of exex.pb.go).
MessageReadable ==
  program = "consumer" =>
    /\ "headers" \in options =>
         \A p \in DecodedBlocks : HeaderOf(p[2].Header[1]) = p[1].header
    /\ "transactions" \in options =>
         \A p \in DecodedBlocks :
           Each(p[2].Txs, TxOf) = p[1].txs /\ Each(p[2].Senders, Hash) = p[1].senders
    /\ "state_diff" \in options =>
         \A s \in Decoded : BundleOf(s[2].StateDiff[1]) = s[1].bundle

\* From every commit a bench takes its last block, and from reorgs and reverts
\* nothing: its request has the header in it without which the nil check
\* would pass over every block in silence.  What it takes beside the number
\* is the node's: the frames of that block and not of another one of the
\* segment, 0 where the node has no traces of it; the gas of its header; the
\* changed accounts of the segment; and the message go-receipts-bench times
\* has all receipts of the block in it, with their logs (SubscribeGRPC).
BenchTakesTip ==
  program \in Benches /\ notif.kind # "none" =>
    IF notif.kind # "Committed" THEN output = None
    ELSE LET tip    == Last(notif.new.blocks)
             traces == OrDefault(notif.new.traces, Id, <<>>)
             n      == tip.header.number
         IN /\ IsSome(output) /\ output[1].blockNumber = n
            /\ program = "internal-txs" =>
                 /\ output[1].gasUsed = tip.header.gas_used
                 /\ output[1].txCount =
                      IF n \in DOMAIN traces THEN Min({Len(traces[n]), Len(tip.txs)}) ELSE 0
            /\ program = "state-diff" => output[1].accounts = Len(notif.new.bundle.state)
            /\ program = "receipts" =>
                 Each(Last(Receipts!Notification(msg).ChainCommitted[1].New[1].Blocks).Receipts,
                      LAMBDA r : Len(r.Logs)) = Each(tip.receipts, LAMBDA r : Len(r.logs))

\* The verifier takes every block of a commit that has a trace, whatever
\* blocks without one stand between them, each with its own frames in the
\* order of its transactions, and takes nothing from a reorg or revert
\* (streamLoop, call_traces_to_proto).
VerifierTakesTraced ==
  program = "verifier" /\ notif.kind # "none" =>
    IF notif.kind # "Committed" THEN output = <<>>
    ELSE LET traces    == OrDefault(notif.new.traces, Id, <<>>)
             frames(b) == Min({Len(traces[b.header.number]), Len(b.txs)})
             traced    == Kept(notif.new.blocks, {i \in DOMAIN notif.new.blocks :
                            /\ notif.new.blocks[i].header.number \in DOMAIN traces
                            /\ frames(notif.new.blocks[i]) > 0})
         IN  /\ Len(output) = Len(traced)
             /\ \A i \in DOMAIN traced :
                  /\ output[i].blockNumber = traced[i].header.number
                  /\ Len(output[i].grpcFrames) = frames(traced[i])
                  /\ \A j \in DOMAIN output[i].grpcFrames :
                       LET f == output[i].grpcFrames[j] IN
                       /\ Hash(f.From) = traces[traced[i].header.number][j].from
                       /\ Number(f.Gas) = traced[i].txs[j].gas_limit

\* go-consumer prints each chain of the notification under its label, old
\* before new, with a line for every block that has the counts of the parts
\* asked for, zeros for the others, and number 0 unless headers were asked for
\* (printNotification, printChain).
ConsumerShowsBlocks ==
  program = "consumer" =>
    /\ Each(output, LAMBDA c : c.label) = Each(Shown, LAMBDA c : c.label)
    /\ \A i \in DOMAIN output :
         LET chain == Shown[i].chain
             count(part, s) == IF part \in options THEN Len(s) ELSE 0
         IN /\ output[i].blocks =
                 Each(chain.blocks, LAMBDA b :
                   [number |-> IF "headers" \in options THEN b.header.number ELSE 0,
                    txs |-> count("transactions", b.txs), receipts |-> count("receipts", b.receipts),
                    withdrawals |-> count("withdrawals", OrDefault(b.withdrawals, Id, <<>>))])
            /\ IsSome(output[i].state_diff) <=> "state_diff" \in options

\* From the printed state diff alone one can tell an account that is absent
\* from one whose balance is zero, before and after, a slot that was zero, and
\* a revert to zero from a revert to nothing; from the printed frames alone, by
\* their order and indentation, the call tree of every transaction can be
\* rebuilt, calls without value told from calls of value zero (hexBytes,
\* printChain, printCallFrame, call_frame_to_proto).
ConsumerTellsValues ==
  program = "consumer" =>
    \A i \in DOMAIN output :
      LET chain == Shown[i].chain IN
      /\ "state_diff" \in options =>
           LET shown == output[i].state_diff[1] IN
           /\ Each(shown.accounts, ReadAccount) = chain.bundle.state
           /\ Each(shown.contracts, LAMBDA c : <<Hash(Bytes(c.code_hash)), c.bytecode_len>>)
                = Each(chain.bundle.contracts, LAMBDA p : <<p[1], Len(p[2])>>)
           /\ Each(shown.reverts, LAMBDA b : Each(b, ReadRevert))
                = Each(chain.bundle.reverts, LAMBDA b : Each(b, PrintedOfRevert))
      /\ "call_traces" \in options =>
           \A t \in Range(output[i].call_traces) : \A j \in DOMAIN t.txs :
             ReadFrame(t.txs[j]) = PrintedOfFrame(chain.traces[1][t.number][j])
=============================================================================
