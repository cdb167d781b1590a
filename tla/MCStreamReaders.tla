--------------------------- MODULE MCStreamReaders ---------------------------
(* Inputs of StreamReaders: chains that differ in shape, and chains of one *)
(* block that differ in the contents of one part.                          *)
EXTENDS StreamReaders

Post == [f \in Scalars \cup Hashes |-> Some(1)]
Pre == [f \in Scalars \cup Hashes |-> None]
Header(n, opt) == [number |-> n, gas_used |-> n + 1, opt |-> opt]

Legacy(gas) ==
  [type |-> "Legacy", gas_limit |-> gas, value |-> 0, to |-> Some(0), chain_id |-> None,
   price |-> 1, tip |-> 0, access_list |-> <<>>, blobs |-> <<>>, blob_fee |-> 0, auths |-> <<>>]
Frame(sender, calls) ==
  [typ |-> "CALL", from |-> sender, to |-> Some(0), value |-> Some(0), gas |-> 1, gas_used |-> 1,
   input |-> <<>>, output |-> None, error |-> None, revert_reason |-> None, calls |-> calls,
   logs |-> <<>>]
Log == [address |-> 1, topics |-> <<2>>, data |-> <<>>]
NoBundle == [state |-> <<>>, contracts |-> <<>>, reverts |-> <<>>]

-----------------------------------------------------------------------------
(* Shapes: up to two blocks of up to two transactions, each block with or  *)
(* without withdrawals, and with its traces, fewer of them, or none.       *)

Sender(n, i) == 2 * n + i
Block(n, k, ws) ==
  [header |-> Header(n, Post), withdrawals |-> ws,
   txs |-> [i \in 1..k |-> Legacy(2 + i + n)], senders |-> [i \in 1..k |-> Sender(n, i)],
   receipts |-> [i \in 1..k |-> [tx_type |-> 0, success |-> i = 1, logs |-> <<Log>>]]]
Traces(n, k) == [i \in 1..k |-> Frame(Sender(n, i), <<Frame(0, <<>>)>>)]

Withdrawals == {None, Some(<<>>), Some(<<[index |-> 1, address |-> 2]>>)}
Blocks(n) == {Block(n, k, ws) : k \in 0..2, ws \in IF n = 1 THEN Withdrawals ELSE {Some(<<>>)}}
Segments == {<<b>> : b \in Blocks(1)} \cup {<<a, b>> : a \in Blocks(1), b \in Blocks(2)}

TraceMaps(seg) ==
  {None} \cup UNION {{Some([n \in dom |-> Traces(n, Len(seg[n].txs))]),
                      Some([n \in dom |-> Traces(n, Min({1, Len(seg[n].txs)}))])}
                       : dom \in SUBSET (1..Len(seg))}
Shapes ==
  UNION {{[blocks |-> seg, bundle |-> NoBundle, traces |-> t] : t \in TraceMaps(seg)} : seg \in Segments}
OldShapes == {[blocks |-> <<Block(1, 1, None)>>, bundle |-> NoBundle, traces |-> None]}

-----------------------------------------------------------------------------
(* Contents: headers of every fork, transactions of every type, accounts   *)
(* and reverts of every kind, zero wherever a value is optional.           *)

Headers ==
  {Header(1, [Pre EXCEPT !.base_fee_per_gas = a, !.blob_gas_used = b, !.excess_blob_gas = c,
                         !.withdrawals_root = d, !.parent_beacon_block_root = e, !.requests_hash = f])
     : a, b \in {None, Some(0), Some(5)}, c, d, e, f \in {None, Some(0)}}

ToAccount == {Some(0), Some(3)}
Lists == {<<>>, <<[address |-> 0, storage_keys |-> <<0, 5>>], [address |-> 3, storage_keys |-> <<>>]>>}
Authorizations == {<<[chain_id |-> c, address |-> 1, y_parity |-> y]>> : c \in {0, 5}, y \in {0, 1}}
Txs ==
  LET base == Legacy(7) IN
  {[base EXCEPT !.to = to, !.chain_id = c, !.value = v]
     : to \in ToAccount \cup {None}, c \in {None, Some(0), Some(1)}, v \in {0, 27}}
  \cup {[base EXCEPT !.type = "Eip2930", !.to = to, !.chain_id = Some(1), !.access_list = l]
          : to \in ToAccount \cup {None}, l \in Lists}
  \cup {[base EXCEPT !.type = "Eip1559", !.to = to, !.chain_id = Some(1), !.access_list = l,
                     !.price = p, !.tip = t]
          : to \in ToAccount \cup {None}, l \in Lists, p \in {0, 9}, t \in {0, 6}}
  \cup {[base EXCEPT !.type = "Eip4844", !.to = to, !.chain_id = Some(1), !.tip = t, !.access_list = l,
                     !.blobs = <<0, 4>>, !.blob_fee = f]
          : to \in ToAccount, l \in Lists, t \in {0, 6}, f \in {0, 11}}
  \cup {[base EXCEPT !.type = "Eip7702", !.to = to, !.chain_id = Some(1), !.tip = t, !.auths = a]
          : to \in ToAccount, t \in {0, 6}, a \in Authorizations}

Infos == {[balance |-> v, nonce |-> n, code_hash |-> 0] : v \in {0, 27}, n \in {0, 1}}
OptInfos == {None} \cup {Some(i) : i \in Infos}
Slot(p, c) == [key |-> 5, previous |-> p, present |-> c]
Accounts ==
  {[status |-> st, info |-> i, original_info |-> o, storage |-> <<Slot(p, 27)>>]
     : st \in {"Changed", "Destroyed"}, i, o \in OptInfos, p \in {0, 6}}
  \cup {[status |-> st, info |-> None, original_info |-> None, storage |-> <<>>]
          : st \in Range(AccountStatuses)}
RevertSlots == {[key |-> 5, destroyed |-> TRUE, value |-> 0]}
               \cup {[key |-> 5, destroyed |-> FALSE, value |-> v] : v \in {0, 27}}
Reverts ==
  {[kind |-> k, info |-> None, storage |-> <<s>>, previous_status |-> "Loaded", wipe_storage |-> w]
     : k \in {"DoNothing", "DeleteIt"}, s \in RevertSlots, w \in BOOLEAN}
  \cup {[kind |-> "DeleteIt", info |-> None, storage |-> <<>>, previous_status |-> st,
          wipe_storage |-> TRUE] : st \in Range(AccountStatuses)}
  \cup {[kind |-> "RevertTo", info |-> Some(i), storage |-> <<s>>, previous_status |-> "Changed",
         wipe_storage |-> FALSE] : i \in Infos, s \in RevertSlots}
Bundles ==
  {[state |-> <<<<1, a>>>>, contracts |-> <<<<2, <<1, 0>>>>>>, reverts |-> <<>>] : a \in Accounts}
  \cup {[state |-> <<>>, contracts |-> <<>>, reverts |-> <<<<>>, <<<<1, r>>>>>>] : r \in Reverts}

\* Frames with and without recipient, value, error and log, and trees of them.
FrameLog == [address |-> Some(1), topics |-> Some(<<2>>), data |-> None, position |-> None, index |-> None]
Leaves ==
  {[Frame(0, <<>>) EXCEPT !.to = to, !.value = v, !.error = e, !.logs = l]
     : to \in {None, Some(3)}, v \in {None, Some(0), Some(27)}, e \in {None, Some("reverted")},
       l \in {<<>>, <<FrameLog>>}}
Trees ==
  LET f(i) == Frame(i, <<>>) IN
  {Frame(0, calls) : calls \in {<<f(1), f(2)>>, <<Frame(1, <<f(2)>>)>>, <<Frame(1, <<f(2), f(3)>>), f(1)>>,
                              <<f(1), Frame(2, <<Frame(3, <<f(1)>>), f(2)>>), f(3)>>}}

One(header, tx, bundle, frame) ==
  [blocks |-> <<[header |-> header, withdrawals |-> None, txs |-> <<tx>>, senders |-> <<0>>,
                 receipts |-> <<>>]>>,
   bundle |-> bundle, traces |-> Some(1 :> <<frame>>)]
Plain == Frame(0, <<>>)
Contents ==
  {One(h, Legacy(1), NoBundle, Plain) : h \in Headers}
    \cup {One(Header(1, Post), t, NoBundle, Plain) : t \in Txs}
    \cup {One(Header(1, Post), Legacy(1), b, Plain) : b \in Bundles}
    \cup {One(Header(1, Post), Legacy(1), NoBundle, f) : f \in Leaves \cup Trees}
OldContents == {One(Header(1, Pre), Legacy(1), NoBundle, Plain)}

AllChains == Shapes \cup Contents
AllOldChains == OldShapes \cup OldContents

\* The frames of their traces, and the calls in them.
RECURSIVE Within(_)
Within(f) == {f} \cup UNION {Within(c) : c \in Range(f.calls)}
RECURSIVE Height(_)
Height(f) == IF f.calls = <<>> THEN 0 ELSE 1 + Max({Height(c) : c \in Range(f.calls)})

TracedFrames ==
  Leaves \cup Trees \cup {Plain} \cup UNION {Range(Traces(n, 2)) : n \in 1..2}
AllFrames == UNION {Within(f) : f \in TracedFrames}
AllDepths == [f \in AllFrames |-> Height(f)]
=============================================================================
