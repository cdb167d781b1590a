---------------------------- MODULE ChainConvert ----------------------------
(***************************************************************************)
(* One subscription and the messages made for it: exex.rs copies the       *)
(* request's six flags, and convert.rs turns every notification of the     *)
(* broadcast channel into a message that holds the parts asked for.        *)
(*                                                                         *)
(* A chain is a record of blocks (a sequence), the bundle of its execution *)
(* outcome, and traces: an Option of a map from block number to the call   *)
(* frames of the block's transactions.  Parts and flags are sets of names. *)
(***************************************************************************)
EXTENDS ProtoConvert, SequencesExt

VARIABLES request,      \* the parts the client asked for
          flags,        \* SubscribeFlags of its task
          notif,        \* the last notification it was handed
          msg           \* the message made of it

subscriptionVars == <<request, flags, notif, msg>>

Parts == {"headers", "transactions", "receipts", "withdrawals", "state_diff", "call_traces"}

-----------------------------------------------------------------------------
(* convert.rs: chains.                                                     *)

block_with_receipts_to_proto(b, fs) ==
  [header      |-> IF "headers" \in fs THEN Some(header_to_proto(b.header)) ELSE None,
   txs         |-> IF "transactions" \in fs THEN Each(b.txs, tx_to_proto) ELSE <<>>,
   senders     |-> IF "transactions" \in fs THEN Each(b.senders, addr_to_bytes) ELSE <<>>,
   receipts    |-> IF "receipts" \in fs THEN Each(b.receipts, receipt_to_proto) ELSE <<>>,
   withdrawals |-> IF "withdrawals" \in fs
                      THEN OrDefault(b.withdrawals, LAMBDA ws : Each(ws, withdrawal_to_proto), <<>>)
                      ELSE <<>>]

\* Frame i of a block is that of transaction i, with the gas limit of the
\* transaction put back; zip stops at the shorter of the two.
block_traces(b, frames) ==
  [block_number |-> b.header.number,
   txs |-> [i \in 1..Min({Len(b.txs), Len(frames)}) |->
              [call_frame_to_proto(frames[i]) EXCEPT !.gas = u256_to_bytes(b.txs[i].gas_limit)]]]

\* Bug: the traces are taken by position, not by block number.
call_traces_by_position(chain) ==
  IF ~IsSome(chain.traces) THEN <<>>
  ELSE LET traces == chain.traces[1]
           inOrder == SetToSortSeq(DOMAIN traces, <)
       IN  [i \in DOMAIN inOrder |-> block_traces(chain.blocks[i], traces[inOrder[i]])]

\* A block the map has no entry for is left out.
call_traces_to_proto(chain) ==
  IF ~IsSome(chain.traces) THEN <<>>
  ELSE LET traces == chain.traces[1]
           number(i) == chain.blocks[i].header.number
           traced == {i \in DOMAIN chain.blocks : number(i) \in DOMAIN traces}
       IN  Each(Kept(chain.blocks, traced), LAMBDA b : block_traces(b, traces[b.header.number]))

chain_to_proto(chain, fs) ==
  [blocks      |-> Each(chain.blocks, LAMBDA b : block_with_receipts_to_proto(b, fs)),
   state_diff  |-> IF "state_diff" \in fs THEN Some(state_diff_to_proto(chain.bundle)) ELSE None,
   call_traces |-> IF "call_traces" \in fs THEN call_traces_to_proto(chain) ELSE <<>>]

notification_to_proto(n, fs) ==
  [event |-> n.kind,
   old   |-> IF n.kind # "Committed" THEN Some(chain_to_proto(n.old, fs)) ELSE None,
   new   |-> IF n.kind # "Reverted" THEN Some(chain_to_proto(n.new, fs)) ELSE None]

-----------------------------------------------------------------------------
(* exex.rs: the subscription.                                              *)

NoMsg == [event |-> "none", old |-> None, new |-> None]
NoNotif == [kind |-> "none", old |-> None, new |-> None]

Unsubscribed ==
  /\ request = {} /\ flags = {}
  /\ notif = NoNotif /\ msg = NoMsg

\* Bug: two of the six flags are exchanged where they are copied.
SubscribeMixedUp(r) ==
  /\ request' = r
  /\ flags' = {IF f = "receipts" THEN "withdrawals" ELSE IF f = "withdrawals" THEN "receipts" ELSE f
                 : f \in r}
  /\ notif' = NoNotif /\ msg' = NoMsg

\* A new connection has a task and flags of its own.
Subscribe(r) ==
  /\ request' = r
  /\ flags' = {f \in Parts : f \in r}
  /\ notif' = NoNotif /\ msg' = NoMsg

\* The bound: one message per subscription, the conversion keeping no state.
Push(n) ==
  /\ notif = NoNotif
  /\ notif' = n
  /\ msg' = notification_to_proto(n, flags)
  /\ UNCHANGED <<request, flags>>

Committed(c) == [kind |-> "Committed", old |-> None, new |-> c]
Reorged(o, c) == [kind |-> "Reorged", old |-> o, new |-> c]
Reverted(o) == [kind |-> "Reverted", old |-> o, new |-> None]

-----------------------------------------------------------------------------
(* Properties.                                                             *)

\* What a reader takes a big-endian byte string to mean.
Number(bytes) == FoldLeft(LAMBDA acc, digit : acc * Base + digit, 0, bytes)

\* The chains of the notification with the chains of the message.
Sides ==
  {<<notif.old, msg.old[1]>> : x \in 1..Len(msg.old)}
    \cup {<<notif.new, msg.new[1]>> : x \in 1..Len(msg.new)}

\* The part of a message for all six flags that a client asked for.
SelectedBlock(b) ==
  [header      |-> IF "headers" \in request THEN b.header ELSE None,
   txs         |-> IF "transactions" \in request THEN b.txs ELSE <<>>,
   senders     |-> IF "transactions" \in request THEN b.senders ELSE <<>>,
   receipts    |-> IF "receipts" \in request THEN b.receipts ELSE <<>>,
   withdrawals |-> IF "withdrawals" \in request THEN b.withdrawals ELSE <<>>]

SelectedChain(c) ==
  [blocks      |-> Each(c.blocks, SelectedBlock),
   state_diff  |-> IF "state_diff" \in request THEN c.state_diff ELSE None,
   call_traces |-> IF "call_traces" \in request THEN c.call_traces ELSE <<>>]

\* A client's message is that of a full subscriber without the parts it did
\* not ask for, senders going with the transactions, and the flags change
\* nothing in a part that is sent (chain_to_proto, the flags of subscribe).
FlagsSelect ==
  notif.kind # "none" =>
    LET full == notification_to_proto(notif, Parts) IN
    /\ msg.old = Each(full.old, SelectedChain)
    /\ msg.new = Each(full.new, SelectedChain)

\* Each entry of call_traces is of a block of the same message, in block
\* order and at most one per block; its frame i was sent by sender i and
\* shows the gas limit of transaction i (call_traces_to_proto).
TracesMatchTxs ==
  "transactions" \in flags /\ "headers" \in flags =>
    \A s \in Sides :
      LET c == s[2] IN
      /\ \A j, k \in DOMAIN c.call_traces :
           j < k => c.call_traces[j].block_number < c.call_traces[k].block_number
      /\ \A t \in Range(c.call_traces) :
           \E b \in Range(c.blocks) :
             /\ b.header[1].number = t.block_number
             /\ Len(t.txs) <= Len(b.txs)
             /\ \A i \in DOMAIN t.txs :
                  /\ t.txs[i].from = b.senders[i]
                  /\ Number(t.txs[i].gas) = b.txs[i].gas_limit
=============================================================================
