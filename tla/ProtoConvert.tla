---------------------------- MODULE ProtoConvert ----------------------------
(***************************************************************************)
(* src/convert.rs: the conversion of reth's data into the messages of      *)
(* proto/exex.proto, as operators with the names of the functions.         *)
(*                                                                         *)
(* An Option is a sequence of at most one element, as are the values that  *)
(* proto3 can leave empty.  A number is written in big-endian digits of    *)
(* base 4, in fewer of them than the program uses; an address or a hash is *)
(* a single digit string of its own, so that it is never empty.  Fields    *)
(* that are copied one to one and never interpreted (hashes, nonces,       *)
(* signatures, the fixed fields of a header) are represented by one of     *)
(* them.                                                                   *)
(***************************************************************************)
EXTENDS Integers, Sequences, FiniteSets

CONSTANTS Frames,       \* the call frames of the tracer, with all they call
          Depth         \* of each of them, how deep its calls go

None == <<>>
Some(x) == <<x>>
IsSome(o) == o # None

\* Option::map(F).unwrap_or_default(), and iter().map(F).collect().
OrDefault(o, F(_), d) == IF IsSome(o) THEN F(o[1]) ELSE d
Each(s, F(_)) == [i \in DOMAIN s |-> F(s[i])]
Id(x) == x

\* iter().filter().collect(), and a loop that passes over some: the elements of
\* s at the positions of a set, in their order.
Nth(positions, k) == CHOOSE i \in positions : Cardinality({j \in positions : j <= i}) = k
Kept(s, positions) == [k \in 1..Cardinality(positions) |-> s[Nth(positions, k)]]

Base == 4
Digits == Seq(0..Base - 1)
Words == 0..Base^3 - 1
Option(S) == {o \in Seq(S) : Len(o) <= 1}

ToBytes(v, width) == [i \in 1..width |-> (v \div Base^(width - i)) % Base]

\* 32, 16 and 8 bytes in the program.
u256_to_bytes(v) == ToBytes(v, 3)
u128_to_bytes(v) == ToBytes(v, 2)
u64_to_bytes(v) == ToBytes(v, 1)
b256_to_bytes(v) == <<v>>
addr_to_bytes(v) == <<v>>

-----------------------------------------------------------------------------
(* Block parts.                                                            *)

\* The post-merge fields of a header, each an Option.
Scalars == {"base_fee_per_gas", "blob_gas_used", "excess_blob_gas"}
Hashes == {"withdrawals_root", "parent_beacon_block_root", "requests_hash"}

\* Bug: a field is marked as present when its value is not zero.
header_to_proto_by_value(h) ==
  [number |-> h.number, gas_used |-> h.gas_used,
   has    |-> [f \in Scalars \cup Hashes |->
                 IF f \in Scalars THEN OrDefault(h.opt[f], Id, 0) # 0 ELSE IsSome(h.opt[f])],
   scalar |-> [f \in Scalars |-> OrDefault(h.opt[f], Id, 0)],
   hash   |-> [f \in Hashes |-> OrDefault(h.opt[f], b256_to_bytes, <<>>)]]

header_to_proto(h) ==
  [number |-> h.number, gas_used |-> h.gas_used,
   has    |-> [f \in Scalars \cup Hashes |-> IsSome(h.opt[f])],
   scalar |-> [f \in Scalars |-> OrDefault(h.opt[f], Id, 0)],
   hash   |-> [f \in Hashes |-> OrDefault(h.opt[f], b256_to_bytes, <<>>)]]

withdrawal_to_proto(w) == [index |-> w.index, address |-> addr_to_bytes(w.address)]

log_to_proto(l) ==
  [address |-> addr_to_bytes(l.address), topics |-> Each(l.topics, b256_to_bytes), data |-> l.data]

receipt_to_proto(r) ==
  [tx_type |-> r.tx_type, success |-> r.success, logs |-> Each(r.logs, log_to_proto)]

-----------------------------------------------------------------------------
(* Transactions.  The fields a type does not have keep the default.        *)

TxTypes == <<"Legacy", "Eip2930", "Eip1559", "Eip4844", "Eip7702">>

access_list_to_proto(al) ==
  Each(al, LAMBDA item : [address |-> addr_to_bytes(item.address),
                          storage_keys |-> Each(item.storage_keys, b256_to_bytes)])

auth_to_proto(a) ==
  [chain_id |-> u256_to_bytes(a.chain_id), address |-> addr_to_bytes(a.address),
   y_parity |-> a.y_parity # 0]

\* TxKind: None is Create.
txkind_to_bytes(kind) == OrDefault(kind, addr_to_bytes, <<>>)

tx_common_fields(n, t) ==
  [tx_type |-> n, gas_limit |-> t.gas_limit, value |-> u256_to_bytes(t.value),
   to |-> txkind_to_bytes(t.to),
   chain_id |-> <<>>, gas_price |-> <<>>, max_fee_per_gas |-> <<>>,
   max_priority_fee_per_gas |-> <<>>, access_list |-> <<>>,
   blob_versioned_hashes |-> <<>>, max_fee_per_blob_gas |-> <<>>, authorization_list |-> <<>>]

\* The arms of the match, by the number of the type.
tx_to_proto(t) ==
  LET n == CHOOSE i \in 0..4 : TxTypes[i + 1] = t.type IN
  [tx_common_fields(n, t) EXCEPT
     !.chain_id              = OrDefault(t.chain_id, u64_to_bytes, <<>>),
     !.gas_price             = IF n \in {0, 1} THEN u128_to_bytes(t.price) ELSE @,
     !.max_fee_per_gas       = IF n \in {2, 3, 4} THEN u128_to_bytes(t.price) ELSE @,
     !.max_priority_fee_per_gas = IF n \in {2, 3, 4} THEN u128_to_bytes(t.tip) ELSE @,
     !.access_list           = IF n # 0 THEN access_list_to_proto(t.access_list) ELSE @,
     !.blob_versioned_hashes = IF n = 3 THEN Each(t.blobs, b256_to_bytes) ELSE @,
     !.max_fee_per_blob_gas  = IF n = 3 THEN u128_to_bytes(t.blob_fee) ELSE @,
     !.authorization_list    = IF n = 4 THEN Each(t.auths, auth_to_proto) ELSE @]

-----------------------------------------------------------------------------
(* State diff.                                                             *)

account_info_to_proto(info) ==
  [balance |-> u256_to_bytes(info.balance), nonce |-> info.nonce,
   code_hash |-> b256_to_bytes(info.code_hash)]

\* AccountInfo::default() of the message.
NoInfo == [balance |-> <<>>, nonce |-> 0, code_hash |-> <<>>]

\* revm's statuses, numbered as in the enum of the message.
AccountStatuses ==
  <<"LoadedNotExisting", "Loaded", "LoadedEmptyEIP161", "InMemoryChange", "Changed",
    "Destroyed", "DestroyedChanged", "DestroyedAgain">>

account_status_to_proto(status) == (CHOOSE i \in 1..8 : AccountStatuses[i] = status) - 1

slot_diff(slot) ==
  [key |-> u256_to_bytes(slot.key), previous |-> u256_to_bytes(slot.previous),
   current |-> u256_to_bytes(slot.present)]

account_diff_to_proto(addr, acc) ==
  [address |-> addr_to_bytes(addr), status |-> account_status_to_proto(acc.status),
   info |-> OrDefault(acc.info, account_info_to_proto, NoInfo),
   original_info |-> OrDefault(acc.original_info, account_info_to_proto, NoInfo),
   storage |-> Each(acc.storage, slot_diff)]

\* oneof revert_to: a value, or destroyed.
slot_revert(slot) ==
  [key |-> u256_to_bytes(slot.key),
   revert_to |-> IF slot.destroyed THEN [destroyed |-> TRUE]
                                   ELSE [value |-> u256_to_bytes(slot.value)]]

\* AccountInfoRevert is a kind and, for RevertTo, an info.
RevertKinds == <<"DoNothing", "DeleteIt", "RevertTo">>

account_revert_to_proto(addr, revert) ==
  [address |-> addr_to_bytes(addr),
   kind |-> (CHOOSE i \in 1..3 : RevertKinds[i] = revert.kind) - 1,
   revert_to_info |-> Each(revert.info, account_info_to_proto),
   storage |-> Each(revert.storage, slot_revert),
   previous_status |-> account_status_to_proto(revert.previous_status),
   wipe_storage |-> revert.wipe_storage]

\* The bundle's accounts, contracts and per-block reverts, as sequences of
\* pairs in the order the maps are walked.
state_diff_to_proto(bundle) ==
  [accounts  |-> Each(bundle.state, LAMBDA p : account_diff_to_proto(p[1], p[2])),
   contracts |-> Each(bundle.contracts, LAMBDA p : [code_hash |-> b256_to_bytes(p[1]),
                                                    bytecode |-> p[2]]),
   reverts   |-> Each(bundle.reverts, LAMBDA block :
                   [accounts |-> Each(block, LAMBDA p : account_revert_to_proto(p[1], p[2]))])]

-----------------------------------------------------------------------------
(* Call frames.                                                            *)

TracerLog ==
  [address : Option(Nat), topics : Option(Seq(Nat)), data : Option(Digits),
   position : Option(Nat), index : Option(Nat)]
TracerFrame ==
  [typ : STRING, from : Nat, to : Option(Nat), value : Option(Words), gas : Words,
   gas_used : Words, input : Digits, output : Option(Digits), error : Option(STRING),
   revert_reason : Option(STRING), calls : Seq(Frames), logs : Seq(TracerLog)]

\* Frames are finite trees.
ASSUME FrameAssumption ==
  /\ Frames \subseteq TracerFrame
  /\ Depth \in [Frames -> Nat]
  /\ \A f \in Frames : \A i \in DOMAIN f.calls : Depth[f.calls[i]] < Depth[f]

call_log_frame_to_proto(l) ==
  [address |-> OrDefault(l.address, addr_to_bytes, <<>>),
   topics  |-> OrDefault(l.topics, LAMBDA ts : Each(ts, b256_to_bytes), <<>>),
   data    |-> OrDefault(l.data, Id, <<>>),
   has_position |-> IsSome(l.position), position |-> OrDefault(l.position, Id, 0),
   has_index |-> IsSome(l.index), index |-> OrDefault(l.index, Id, 0)]

\* Bug: a missing value is sent as zero.
value_or_zero(v) == OrDefault(v, u256_to_bytes, u256_to_bytes(0))

value_to_bytes(v) == OrDefault(v, u256_to_bytes, <<>>)

\* The message of a frame, given those of its calls.
frame_to_proto(f, calls) ==
  [typ |-> f.typ, from |-> addr_to_bytes(f.from),
   to  |-> OrDefault(f.to, addr_to_bytes, <<>>),
   value |-> value_to_bytes(f.value),
   gas |-> u256_to_bytes(f.gas), gas_used |-> u256_to_bytes(f.gas_used),
   input |-> f.input, output |-> OrDefault(f.output, Id, <<>>),
   error |-> OrDefault(f.error, Id, ""), revert_reason |-> OrDefault(f.revert_reason, Id, ""),
   calls |-> calls, logs |-> Each(f.logs, call_log_frame_to_proto)]

CallsOf(f) == f.calls
Convert == INSTANCE FrameWalk WITH Node <- Frames, Calls <- CallsOf, Visit <- frame_to_proto
call_frame_to_proto(f) == Convert!Walk[f]
FrameMessages == {call_frame_to_proto(f) : f \in Frames}
=============================================================================
