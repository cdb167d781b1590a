--------------------------- MODULE ConsumerStream ---------------------------
(***************************************************************************)
(* go-consumer: its copy of the generated package, which decodes all of a  *)
(* message, and what main.go prints of it.  See LatencyStream for the      *)
(* representation.                                                         *)
(*                                                                         *)
(* A printed line is the record of the values in it; wording, and the      *)
(* indentation of all but the call frames, are left out.                   *)
(***************************************************************************)
EXTENDS ProtoConvert, SequencesExt

-----------------------------------------------------------------------------
(* proto/gen/exex.pb.go: block parts.                                      *)

SubscribeRequest(named) ==
  [f \in {"headers", "transactions", "receipts", "withdrawals", "state_diff", "call_traces"} |->
     f \in named]

\* The post-merge fields and their Has flags are kept as functions.
BlockHeader(p) ==
  [Number |-> p.number, GasUsed |-> p.gas_used, Has |-> p.has, Scalar |-> p.scalar, Hash |-> p.hash]

Withdrawal(p) == [Index |-> p.index, Address |-> p.address]

AccessListItem(p) == [Address |-> p.address, StorageKeys |-> p.storage_keys]

SignedAuthorization(p) ==
  [ChainId |-> p.chain_id, Address |-> p.address, YParity |-> p.y_parity]

Transaction(p) ==
  [TxType |-> p.tx_type, GasLimit |-> p.gas_limit, To |-> p.to, Value |-> p.value,
   ChainId |-> p.chain_id, GasPrice |-> p.gas_price, MaxFeePerGas |-> p.max_fee_per_gas,
   MaxPriorityFeePerGas |-> p.max_priority_fee_per_gas,
   AccessList           |-> Each(p.access_list, AccessListItem),
   BlobVersionedHashes  |-> p.blob_versioned_hashes, MaxFeePerBlobGas |-> p.max_fee_per_blob_gas,
   AuthorizationList    |-> Each(p.authorization_list, SignedAuthorization)]

EventLog(p) == [Address |-> p.address, Topics |-> p.topics, Data |-> p.data]
Receipt(p) == [TxType |-> p.tx_type, Success |-> p.success, Logs |-> Each(p.logs, EventLog)]

BlockWithReceipts(p) ==
  [Header |-> Each(p.header, BlockHeader), Txs |-> Each(p.txs, Transaction), Senders |-> p.senders,
   Receipts |-> Each(p.receipts, Receipt), Withdrawals |-> Each(p.withdrawals, Withdrawal)]

-----------------------------------------------------------------------------
(* exex.pb.go: the state diff.                                             *)

\* AccountStatus_name and AccountRevertKind_name; the numbers begin at 0.
AccountStatus ==
  <<"LOADED_NOT_EXISTING", "LOADED", "LOADED_EMPTY_EIP161", "IN_MEMORY_CHANGE", "CHANGED",
    "DESTROYED", "DESTROYED_CHANGED", "DESTROYED_AGAIN">>
AccountRevertKind == <<"DO_NOTHING", "DELETE_IT", "REVERT_TO">>

AccountInfo(p) == [Balance |-> p.balance, Nonce |-> p.nonce, CodeHash |-> p.code_hash]

StorageSlotDiff(p) == [Key |-> p.key, Previous |-> p.previous, Current |-> p.current]

\* The server sets both infos of an account.
AccountDiff(p) ==
  [Address |-> p.address, Status |-> AccountStatus[p.status + 1],
   Info |-> Some(AccountInfo(p.info)), OriginalInfo |-> Some(AccountInfo(p.original_info)),
   Storage |-> Each(p.storage, StorageSlotDiff)]

ContractDiff(p) == [CodeHash |-> p.code_hash, Bytecode |-> p.bytecode]

\* RevertTo is a *StorageRevert_Value or a *StorageRevert_Destroyed.
StorageRevert(p) ==
  [Key   |-> p.key,
   Value |-> IF "value" \in DOMAIN p.revert_to THEN Some(p.revert_to.value) ELSE None,
   Destroyed |-> IF "destroyed" \in DOMAIN p.revert_to THEN Some(p.revert_to.destroyed) ELSE None]

AccountRevert(p) ==
  [Address |-> p.address, Kind |-> AccountRevertKind[p.kind + 1],
   RevertToInfo |-> Each(p.revert_to_info, AccountInfo),
   Storage |-> Each(p.storage, StorageRevert),
   PreviousStatus |-> AccountStatus[p.previous_status + 1], WipeStorage |-> p.wipe_storage]

BlockReverts(p) == [Accounts |-> Each(p.accounts, AccountRevert)]

StateDiff(p) ==
  [Accounts |-> Each(p.accounts, AccountDiff), Contracts |-> Each(p.contracts, ContractDiff),
   Reverts |-> Each(p.reverts, BlockReverts)]

-----------------------------------------------------------------------------
(* exex.pb.go: call traces, chains and notifications.                      *)

CallLogFrame(p) ==
  [Address |-> p.address, Topics |-> p.topics, Data |-> p.data,
   HasIndex |-> p.has_index, Index |-> p.index]

\* See InternalTxsStream.
CallsIn(p) == p.calls
CallFrameWith(p, calls) ==
  [Typ |-> p.typ, From |-> p.from, To |-> p.to, Value |-> p.value, Gas |-> p.gas,
   GasUsed |-> p.gas_used, Error |-> p.error, RevertReason |-> p.revert_reason,
   Calls |-> calls, Logs |-> Each(p.logs, CallLogFrame)]
Decode == INSTANCE FrameWalk WITH Node <- FrameMessages, Calls <- CallsIn, Visit <- CallFrameWith
CallFrame(p) == CallFrameWith(p, Each(p.calls, LAMBDA c : Decode!Walk[c]))

BlockCallTraces(p) == [BlockNumber |-> p.block_number, Txs |-> Each(p.txs, CallFrame)]

Chain(p) ==
  [Blocks |-> Each(p.blocks, BlockWithReceipts), StateDiff |-> Each(p.state_diff, StateDiff),
   CallTraces |-> Each(p.call_traces, BlockCallTraces)]

ChainCommitted(p) == [New |-> Each(p.new, Chain)]
ChainReorged(p) == [Old |-> Each(p.old, Chain), New |-> Each(p.new, Chain)]
ChainReverted(p) == [Old |-> Each(p.old, Chain)]

\* One case of the oneof is set.
Notification(p) ==
  [ChainCommitted |-> IF p.event = "Committed" THEN Some(ChainCommitted(p)) ELSE None,
   ChainReorged   |-> IF p.event = "Reorged" THEN Some(ChainReorged(p)) ELSE None,
   ChainReverted  |-> IF p.event = "Reverted" THEN Some(ChainReverted(p)) ELSE None]

-----------------------------------------------------------------------------
(* main.go.                                                                *)

\* One flag of the command line for each field.
Request(options) == SubscribeRequest(options)

hexBytes(b) == IF b = <<>> THEN <<"(empty)">> ELSE <<"0x">> \o b

printBlock(bwr) ==
  [number |-> OrDefault(bwr.Header, LAMBDA hdr : hdr.Number, 0),
   txs |-> Len(bwr.Txs), receipts |-> Len(bwr.Receipts), withdrawals |-> Len(bwr.Withdrawals)]

printInfo(info) ==
  [balance |-> hexBytes(info.Balance), nonce |-> info.Nonce, code_hash |-> hexBytes(info.CodeHash)]

printAccount(acc) ==
  [addr |-> hexBytes(acc.Address), status |-> acc.Status,
   original |-> Each(acc.OriginalInfo, printInfo), current |-> Each(acc.Info, printInfo),
   storage  |-> Each(acc.Storage, LAMBDA slot : [key |-> hexBytes(slot.Key),
                  from |-> hexBytes(slot.Previous), to |-> hexBytes(slot.Current)])]

printAccountRevert(ar) ==
  [addr |-> hexBytes(ar.Address), kind |-> ar.Kind, wipe_storage |-> ar.WipeStorage,
   storage |-> Each(ar.Storage, LAMBDA sr : [key |-> hexBytes(sr.Key),
                 to |-> OrDefault(sr.Value, hexBytes, <<"destroyed">>)])]

printStateDiff(sd) ==
  [accounts  |-> Each(sd.Accounts, printAccount),
   contracts |-> Each(sd.Contracts, LAMBDA c : [code_hash |-> hexBytes(c.CodeHash),
                                                bytecode_len |-> Len(c.Bytecode)]),
   reverts   |-> Each(sd.Reverts, LAMBDA br : Each(br.Accounts, printAccountRevert))]

printLine(f, indent) ==
  [indent |-> indent, type |-> f.Typ, from |-> hexBytes(f.From), to |-> hexBytes(f.To),
   value |-> hexBytes(f.Value), gas_used |-> hexBytes(f.GasUsed), error |-> f.Error,
   revert_reason |-> f.RevertReason,
   logs |-> Each(f.Logs, LAMBDA l : [addr |-> hexBytes(l.Address), topics |-> Len(l.Topics)])]

\* Bug: a call is printed in its caller's column.
ChildrenLevel(at) == Each(at[1].Calls, LAMBDA child : <<child, at[2]>>)

\* The line of a frame, then those of its children, two columns deeper: the
\* recursion is over frames together with their columns.
Children(at) == Each(at[1].Calls, LAMBDA child : <<child, at[2] + 2>>)
printWith(at, children) == <<printLine(at[1], at[2])>> \o FlattenSeq(children)
Lines == INSTANCE FrameWalk WITH Node <- {Decode!Walk[p] : p \in FrameMessages} \X Nat,
                                 Calls <- Children, Visit <- printWith
printCallFrame(f, indent) ==
  printWith(<<f, indent>>, Each(Children(<<f, indent>>), LAMBDA at : Lines!Walk[at]))

printTraces(bct) ==
  [number |-> bct.BlockNumber, txs |-> Each(bct.Txs, LAMBDA frame : printCallFrame(frame, 8))]

\* Nothing for a chain that is nil; no state diff prints "(nil)".
printChain(label, chain) ==
  Each(chain, LAMBDA c :
    [label |-> label, blocks |-> Each(c.Blocks, printBlock),
     state_diff |-> Each(c.StateDiff, printStateDiff),
     call_traces |-> Each(c.CallTraces, printTraces)])

\* Bug: of a reorg only the new segment is shown.
printNewest(p) ==
  LET n == Notification(p) IN
  FlattenSeq(
    Each(n.ChainCommitted, LAMBDA ev : printChain("COMMITTED new", ev.New))
    \o Each(n.ChainReorged, LAMBDA ev : printChain("REORGED new", ev.New))
    \o Each(n.ChainReverted, LAMBDA ev : printChain("REVERTED old", ev.Old)))

printNotification(p) ==
  LET n == Notification(p) IN
  FlattenSeq(
    Each(n.ChainCommitted, LAMBDA ev : printChain("COMMITTED new", ev.New))
    \o Each(n.ChainReorged, LAMBDA ev :
              printChain("REORGED old", ev.Old) \o printChain("REORGED new", ev.New))
    \o Each(n.ChainReverted, LAMBDA ev : printChain("REVERTED old", ev.Old)))
=============================================================================
