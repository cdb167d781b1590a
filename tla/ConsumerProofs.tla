------------------------------ MODULE ConsumerProofs ------------------------
(***************************************************************************)
(* Theorems about StreamReaders: what go-consumer prints of a message, and *)
(* that the message and the print can be read back, for any chains the     *)
(* node can report.                                                        *)
(***************************************************************************)
EXTENDS StreamReadersProofs

-----------------------------------------------------------------------------
(* What go-consumer prints.                                                *)

\* What go-consumer prints of a chain of a message.
BlocksOf(m) == [i \in DOMAIN m.blocks |-> Consumer!printBlock(Consumer!BlockWithReceipts(m.blocks[i]))]
DiffOf(m) == [i \in DOMAIN m.state_diff |-> Consumer!printStateDiff(Consumer!StateDiff(m.state_diff[i]))]
TracesOf(m) ==
  [i \in DOMAIN m.call_traces |-> Consumer!printTraces(Consumer!BlockCallTraces(m.call_traces[i]))]
ChainShown(label, m) ==
  [label |-> label, blocks |-> BlocksOf(m), state_diff |-> DiffOf(m), call_traces |-> TracesOf(m)]

LEMMA ChainIsShown ==
  ASSUME NEW label, NEW m
  PROVE  Consumer!printChain(label, Some(Consumer!Chain(m))) = <<ChainShown(label, m)>>
<1> DEFINE C == Consumer!Chain(m)
           bs == [i \in DOMAIN m.blocks |-> Consumer!BlockWithReceipts(m.blocks[i])]
           ds == [i \in DOMAIN m.state_diff |-> Consumer!StateDiff(m.state_diff[i])]
           ts == [i \in DOMAIN m.call_traces |-> Consumer!BlockCallTraces(m.call_traces[i])]
           made(c) == [label |-> label,
                       blocks |-> [i \in DOMAIN c.Blocks |-> Consumer!printBlock(c.Blocks[i])],
                       state_diff |-> [i \in DOMAIN c.StateDiff |-> Consumer!printStateDiff(c.StateDiff[i])],
                       call_traces |-> [i \in DOMAIN c.CallTraces |-> Consumer!printTraces(c.CallTraces[i])]]
<1>1. C = [Blocks |-> bs, StateDiff |-> ds, CallTraces |-> ts]
  BY DEF Consumer!Chain, Consumer!Each
<1>2. C.Blocks = bs /\ C.StateDiff = ds /\ C.CallTraces = ts
  <2> HIDE DEF bs, ds, ts, C
  <2> QED
    BY <1>1
<1>3. \A chain : Consumer!printChain(label, chain) = [i \in DOMAIN chain |-> made(chain[i])]
  BY DEF Consumer!printChain, Consumer!Each
<1>4. Consumer!printChain(label, Some(C)) = <<made(C)>>
  <2> HIDE DEF made, C
  <2> QED
    BY <1>3 DEF Some
<1>5. made(C) = ChainShown(label, m)
  <2>1. [i \in DOMAIN bs |-> Consumer!printBlock(bs[i])]
          = [i \in DOMAIN m.blocks |-> Consumer!printBlock(Consumer!BlockWithReceipts(m.blocks[i]))]
    OBVIOUS
  <2>2. [i \in DOMAIN ds |-> Consumer!printStateDiff(ds[i])]
          = [i \in DOMAIN m.state_diff |-> Consumer!printStateDiff(Consumer!StateDiff(m.state_diff[i]))]
    OBVIOUS
  <2>3. [i \in DOMAIN ts |-> Consumer!printTraces(ts[i])]
          = [i \in DOMAIN m.call_traces |-> Consumer!printTraces(Consumer!BlockCallTraces(m.call_traces[i]))]
    OBVIOUS
  <2> HIDE DEF bs, ds, ts, C
  <2> QED
    BY <1>2, <2>1, <2>2, <2>3 DEF ChainShown, BlocksOf, DiffOf, TracesOf
<1> QED
  BY <1>4, <1>5

\* One sequence, and one after another.
LEMMA FlattenOne ==
  ASSUME NEW s
  PROVE  Consumer!FlattenSeq(<<s>>) = s
<1> DEFINE seqs == <<s>>
           step(f) == [i \in 1..Len(seqs) |-> IF i = 1 THEN seqs[i] ELSE f[i - 1] \o seqs[i]]
           flatten == CHOOSE f : f = step(f)
<1>1. Consumer!FlattenSeq(seqs) = flatten[Len(seqs)]
  BY DEF Consumer!FlattenSeq
<1>2. \E f : f = step(f)
  <2>1. [i \in 1..1 |-> s] = step([i \in 1..1 |-> s])
    OBVIOUS
  <2> QED
    BY <2>1
<1>3. flatten = step(flatten)
  BY <1>2
<1> HIDE DEF flatten
<1> QED
  BY <1>1, <1>3

LEMMA PairOf == ASSUME NEW a, NEW b PROVE <<a>> \o <<b>> = <<a, b>>
<1> DEFINE S == {a, b}
           s == <<a>>
           t == <<b>>
           u == s \o t
           v == <<a, b>>
<1>1. s \in Seq(S) /\ t \in Seq(S) /\ v \in Seq(S) /\ Len(s) = 1 /\ Len(t) = 1 /\ Len(v) = 2
      /\ s[1] = a /\ t[1] = b /\ v[1] = a /\ v[2] = b
  OBVIOUS
<1> HIDE DEF S, s, t, v
<1>2. u \in Seq(S) /\ Len(u) = 2 /\ \A i \in 1..2 : u[i] = IF i <= 1 THEN s[i] ELSE t[i - 1]
  BY <1>1, ConcatProperties
<1>3. u[1] = a /\ u[2] = b
  BY <1>1, <1>2
<1> HIDE DEF u
<1>4. \A i \in 1..2 : u[i] = v[i]
  BY <1>1, <1>3
<1>5. u = v
  BY <1>1, <1>2, <1>4, SeqEqual
<1> QED
  BY <1>5 DEF u, s, t, v

LEMMA ConsumerShows ==
  ASSUME NEW p
  PROVE  /\ \A m : p.event = "Committed" /\ p.new = Some(m)
                    => Consumer!printNotification(p) = <<ChainShown("COMMITTED new", m)>>
         /\ \A o, m : p.event = "Reorged" /\ p.old = Some(o) /\ p.new = Some(m)
                    => Consumer!printNotification(p)
                         = <<ChainShown("REORGED old", o), ChainShown("REORGED new", m)>>
         /\ \A o : p.event = "Reverted" /\ p.old = Some(o)
                    => Consumer!printNotification(p) = <<ChainShown("REVERTED old", o)>>
<1> DEFINE n == Consumer!Notification(p)
           shownC(ev) == Consumer!printChain("COMMITTED new", ev.New)
           shownR(ev) == Consumer!printChain("REORGED old", ev.Old) \o Consumer!printChain("REORGED new", ev.New)
           shownV(ev) == Consumer!printChain("REVERTED old", ev.Old)
           C == n.ChainCommitted
           R == n.ChainReorged
           V == n.ChainReverted
<1>1. Consumer!printNotification(p)
        = Consumer!FlattenSeq([i \in DOMAIN C |-> shownC(C[i])] \o [i \in DOMAIN R |-> shownR(R[i])]
                              \o [i \in DOMAIN V |-> shownV(V[i])])
  BY DEF Consumer!printNotification, Consumer!Each
<1>2. /\ C = IF p.event = "Committed" THEN <<[New |-> Consumer!Each(p.new, Consumer!Chain)]>> ELSE <<>>
      /\ R = IF p.event = "Reorged" THEN <<[Old |-> Consumer!Each(p.old, Consumer!Chain),
                                            New |-> Consumer!Each(p.new, Consumer!Chain)]>> ELSE <<>>
      /\ V = IF p.event = "Reverted" THEN <<[Old |-> Consumer!Each(p.old, Consumer!Chain)]>> ELSE <<>>
  BY DEF Consumer!Notification, Consumer!Some, Consumer!None, Consumer!ChainCommitted, Consumer!ChainReorged,
         Consumer!ChainReverted
<1>3. \A m, o : o = Some(m) => Consumer!Each(o, Consumer!Chain) = Some(Consumer!Chain(m))
  BY DEF Consumer!Each, Some
<1> HIDE DEF C, R, V
<1>4. ASSUME NEW m, p.event = "Committed", p.new = Some(m)
      PROVE  Consumer!printNotification(p) = <<ChainShown("COMMITTED new", m)>>
  <2>1. C = <<[New |-> Some(Consumer!Chain(m))]>> /\ R = <<>> /\ V = <<>>
    BY <1>2, <1>3, <1>4
  <2>2. shownC(C[1]) = <<ChainShown("COMMITTED new", m)>>
    BY <2>1, ChainIsShown, Zenon
  <2> HIDE DEF shownC, shownR, shownV
  <2>3. /\ [i \in DOMAIN C |-> shownC(C[i])] = <<shownC(C[1])>>
        /\ [i \in DOMAIN R |-> shownR(R[i])] = <<>> /\ [i \in DOMAIN V |-> shownV(V[i])] = <<>>
    BY <2>1
  <2>4. Consumer!printNotification(p) = Consumer!FlattenSeq(<<shownC(C[1])>>)
    BY <1>1, <2>3
  <2> QED
    BY <2>2, <2>4, FlattenOne, Zenon
<1>5. ASSUME NEW o, NEW m, p.event = "Reorged", p.old = Some(o), p.new = Some(m)
      PROVE  Consumer!printNotification(p) = <<ChainShown("REORGED old", o), ChainShown("REORGED new", m)>>
  <2>1. R = <<[Old |-> Some(Consumer!Chain(o)), New |-> Some(Consumer!Chain(m))]>> /\ C = <<>> /\ V = <<>>
    BY <1>2, <1>3, <1>5
  <2>2. shownR(R[1]) = <<ChainShown("REORGED old", o), ChainShown("REORGED new", m)>>
    <3>1. R[1].Old = Some(Consumer!Chain(o)) /\ R[1].New = Some(Consumer!Chain(m))
      BY <2>1
    <3>2. shownR(R[1]) = <<ChainShown("REORGED old", o)>> \o <<ChainShown("REORGED new", m)>>
      BY <3>1, ChainIsShown, Zenon
    <3> HIDE DEF shownR
    <3> QED
      BY <3>2, PairOf, Zenon
  <2> HIDE DEF shownC, shownR, shownV
  <2>3. /\ [i \in DOMAIN R |-> shownR(R[i])] = <<shownR(R[1])>>
        /\ [i \in DOMAIN C |-> shownC(C[i])] = <<>> /\ [i \in DOMAIN V |-> shownV(V[i])] = <<>>
    BY <2>1
  <2>4. Consumer!printNotification(p) = Consumer!FlattenSeq(<<shownR(R[1])>>)
    BY <1>1, <2>3
  <2> QED
    BY <2>2, <2>4, FlattenOne, Zenon
<1>6. ASSUME NEW o, p.event = "Reverted", p.old = Some(o)
      PROVE  Consumer!printNotification(p) = <<ChainShown("REVERTED old", o)>>
  <2>1. V = <<[Old |-> Some(Consumer!Chain(o))]>> /\ R = <<>> /\ C = <<>>
    BY <1>2, <1>3, <1>6
  <2>2. shownV(V[1]) = <<ChainShown("REVERTED old", o)>>
    BY <2>1, ChainIsShown, Zenon
  <2> HIDE DEF shownC, shownR, shownV
  <2>3. /\ [i \in DOMAIN V |-> shownV(V[i])] = <<shownV(V[1])>>
        /\ [i \in DOMAIN R |-> shownR(R[i])] = <<>> /\ [i \in DOMAIN C |-> shownC(C[i])] = <<>>
    BY <2>1
  <2>4. Consumer!printNotification(p) = Consumer!FlattenSeq(<<shownV(V[1])>>)
    BY <1>1, <2>3
  <2> QED
    BY <2>2, <2>4, FlattenOne, Zenon
<1> QED
  BY <1>4, <1>5, <1>6, Zenon

LEMMA OneShown ==
  ASSUME NEW x
  PROVE  Len(<<x>>) = 1 /\ DOMAIN <<x>> = 1..1 /\ <<x>>[1] = x
OBVIOUS

LEMMA TwoShown ==
  ASSUME NEW x, NEW y
  PROVE  Len(<<x, y>>) = 2 /\ DOMAIN <<x, y>> = 1..2 /\ <<x, y>>[1] = x /\ <<x, y>>[2] = y
OBVIOUS

\* All of what go-consumer prints.
LEMMA OutputShown ==
  ASSUME IInv, program = "consumer"
  PROVE  /\ Len(output) = Len(Shown) /\ DOMAIN output = DOMAIN Shown
         /\ DOMAIN output = 1..Len(output) /\ Len(output) \in Nat
         /\ DOMAIN output # {} => flags = options
         /\ \A i \in DOMAIN output :
              /\ NodeChain(Shown[i].chain)
              /\ output[i] = ChainShown(Shown[i].label, chain_to_proto(Shown[i].chain, flags))
<1> DEFINE m(c) == chain_to_proto(c, flags)
<1>1. CASE notif.kind = "none"
  <2>1. output = <<>>
    BY <1>1, Kinds DEF IInv, Handed
  <2>2. Shown = <<>>
    BY <1>1 DEF Shown
  <2> QED
    BY <2>1, <2>2
<1>2. CASE notif.kind # "none"
  <2>1. /\ output = Consumer!printNotification(msg) /\ Request = Consumer!Request(options)
        /\ msg.event = notif.kind /\ notif.kind \in {"Committed", "Reorged", "Reverted"}
        /\ flags = {f \in Parts : Request[f]}
        /\ notif.kind # "Committed" => NodeChain(notif.old) /\ msg.old = Some(m(notif.old))
        /\ notif.kind # "Reverted" => NodeChain(notif.new) /\ msg.new = Some(m(notif.new))
    BY <1>2, Delivered DEF Handled, Request
  <2>2. flags = options
    <3>1. options \in SUBSET Parts
      BY DEF IInv, Started
    <3>2. \A f \in Parts : Request[f] <=> f \in options
      BY <2>1 DEF Consumer!Request, Consumer!SubscribeRequest, Parts
    <3> QED
      BY <2>1, <3>1, <3>2
  <2> HIDE DEF m
  <2>3. CASE notif.kind = "Committed"
    <3> DEFINE X == ChainShown("COMMITTED new", m(notif.new))
               E == [label |-> "COMMITTED new", chain |-> notif.new]
    <3>1. output = <<X>>
      BY <2>1, <2>3, ConsumerShows, Zenon
    <3>2. Shown = <<E>>
      BY <2>3, Zenon DEF Shown
    <3>3. E.label = "COMMITTED new" /\ E.chain = notif.new
      OBVIOUS
    <3> HIDE DEF X, E
    <3>4. /\ Len(output) = 1 /\ Len(Shown) = 1 /\ DOMAIN output = 1..1 /\ DOMAIN Shown = 1..1
          /\ output[1] = X /\ Shown[1] = E
      BY <3>1, <3>2, OneShown
    <3>5. output[1] = ChainShown(Shown[1].label, m(Shown[1].chain)) /\ NodeChain(Shown[1].chain)
      BY <2>1, <2>3, <3>3, <3>4, Zenon DEF X
    <3>6. \A i \in 1..1 : i = 1
      OBVIOUS
    <3>7. \A i \in 1..1 : output[i] = ChainShown(Shown[i].label, m(Shown[i].chain)) /\ NodeChain(Shown[i].chain)
      BY <3>5, <3>6
    <3> QED
      BY <2>2, <3>4, <3>7 DEF m
  <2>4. CASE notif.kind = "Reorged"
    <3> DEFINE X == ChainShown("REORGED old", m(notif.old))
               Y == ChainShown("REORGED new", m(notif.new))
               D == [label |-> "REORGED old", chain |-> notif.old]
               E == [label |-> "REORGED new", chain |-> notif.new]
    <3>1. output = <<X, Y>>
      BY <2>1, <2>4, ConsumerShows, Zenon
    <3>2. Shown = <<D, E>>
      BY <2>4, Zenon DEF Shown
    <3>3. D.label = "REORGED old" /\ D.chain = notif.old /\ E.label = "REORGED new" /\ E.chain = notif.new
      OBVIOUS
    <3> HIDE DEF X, Y, D, E
    <3>4. /\ Len(output) = 2 /\ Len(Shown) = 2 /\ DOMAIN output = 1..2 /\ DOMAIN Shown = 1..2
          /\ output[1] = X /\ output[2] = Y /\ Shown[1] = D /\ Shown[2] = E
      BY <3>1, <3>2, TwoShown
    <3>5. /\ output[1] = ChainShown(Shown[1].label, m(Shown[1].chain)) /\ NodeChain(Shown[1].chain)
          /\ output[2] = ChainShown(Shown[2].label, m(Shown[2].chain)) /\ NodeChain(Shown[2].chain)
      BY <2>1, <2>4, <3>3, <3>4, Zenon DEF X, Y
    <3>6. \A i \in 1..2 : i = 1 \/ i = 2
      OBVIOUS
    <3>7. \A i \in 1..2 : output[i] = ChainShown(Shown[i].label, m(Shown[i].chain)) /\ NodeChain(Shown[i].chain)
      BY <3>5, <3>6
    <3> QED
      BY <2>2, <3>4, <3>7 DEF m
  <2>5. CASE notif.kind = "Reverted"
    <3> DEFINE X == ChainShown("REVERTED old", m(notif.old))
               E == [label |-> "REVERTED old", chain |-> notif.old]
    <3>1. output = <<X>>
      BY <2>1, <2>5, ConsumerShows, Zenon
    <3>2. Shown = <<E>>
      BY <2>5, Zenon DEF Shown
    <3>3. E.label = "REVERTED old" /\ E.chain = notif.old
      OBVIOUS
    <3> HIDE DEF X, E
    <3>4. /\ Len(output) = 1 /\ Len(Shown) = 1 /\ DOMAIN output = 1..1 /\ DOMAIN Shown = 1..1
          /\ output[1] = X /\ Shown[1] = E
      BY <3>1, <3>2, OneShown
    <3>5. output[1] = ChainShown(Shown[1].label, m(Shown[1].chain)) /\ NodeChain(Shown[1].chain)
      BY <2>1, <2>5, <3>3, <3>4, Zenon DEF X
    <3>6. \A i \in 1..1 : i = 1
      OBVIOUS
    <3>7. \A i \in 1..1 : output[i] = ChainShown(Shown[i].label, m(Shown[i].chain)) /\ NodeChain(Shown[i].chain)
      BY <3>5, <3>6
    <3> QED
      BY <2>2, <3>4, <3>7 DEF m
  <2> QED
    BY <2>1, <2>3, <2>4, <2>5
<1> QED
  BY <1>1, <1>2

LEMMA BlockShown ==
  ASSUME NEW b \in NodeBlock, flags = options
  PROVE  Consumer!printBlock(Consumer!BlockWithReceipts(block_with_receipts_to_proto(b, flags)))
           = [number |-> IF "headers" \in options THEN b.header.number ELSE 0,
              txs |-> IF "transactions" \in options THEN Len(b.txs) ELSE 0,
              receipts |-> IF "receipts" \in options THEN Len(b.receipts) ELSE 0,
              withdrawals |-> IF "withdrawals" \in options THEN Len(OrDefault(b.withdrawals, Id, <<>>)) ELSE 0]
<1> DEFINE m == block_with_receipts_to_proto(b, flags)
           B == Consumer!BlockWithReceipts(m)
           ws == OrDefault(b.withdrawals, Id, <<>>)
           H == header_to_proto(b.header)
           txs == [i \in DOMAIN b.txs |-> tx_to_proto(b.txs[i])]
           rs == [i \in DOMAIN b.receipts |-> receipt_to_proto(b.receipts[i])]
           sent == [i \in DOMAIN ws |-> withdrawal_to_proto(ws[i])]
<1>1. /\ Len(b.txs) \in Nat /\ DOMAIN b.txs = 1..Len(b.txs)
      /\ Len(b.receipts) \in Nat /\ DOMAIN b.receipts = 1..Len(b.receipts)
  <2>1. b.txs \in Seq(NodeTx) /\ b.receipts \in Seq([tx_type : Nat, success : BOOLEAN, logs : Seq(NodeLog)])
    BY DEF NodeBlock
  <2> QED
    BY <2>1, LenProperties
<1>2. Len(ws) \in Nat /\ DOMAIN ws = 1..Len(ws)
  <2> DEFINE W == Seq([index : Nat, address : Nat])
             o == b.withdrawals
  <2>1. o \in Seq(W)
    BY DEF NodeBlock, Option
  <2>2. ws = IF o # <<>> THEN o[1] ELSE <<>>
    BY DEF OrDefault, IsSome, None, Id
  <2> HIDE DEF W, ws, o
  <2>3. ws \in W \/ ws = <<>>
    <3>1. o # <<>> => Len(o) \in Nat /\ Len(o) # 0
      BY <2>1, EmptySeq
    <3>2. o # <<>> => 1 \in 1..Len(o)
      BY <3>1
    <3> QED
      BY <2>1, <2>2, <3>2, ElementOfSeq
  <2>4. ws \in Seq([index : Nat, address : Nat])
    <3>1. <<>> \in Seq([index : Nat, address : Nat])
      BY EmptySeq
    <3> QED
      BY <2>3, <3>1 DEF W
  <2> QED
    BY <2>4, LenProperties
<1> DEFINE header == IF "headers" \in flags THEN <<H>> ELSE <<>>
           sentTxs == IF "transactions" \in flags THEN txs ELSE <<>>
           senders == IF "transactions" \in flags THEN Each(b.senders, addr_to_bytes) ELSE <<>>
           sentReceipts == IF "receipts" \in flags THEN rs ELSE <<>>
           withdrawals == IF "withdrawals" \in flags THEN sent ELSE <<>>
<1>3. m.header = header /\ m.txs = sentTxs /\ m.receipts = sentReceipts /\ m.withdrawals = withdrawals
  <2>1. OrDefault(b.withdrawals, LAMBDA w : Each(w, withdrawal_to_proto), <<>>) = sent
    BY DEF OrDefault, Each, Id, IsSome, None
  <2>2. m = [header |-> header, txs |-> sentTxs, senders |-> senders, receipts |-> sentReceipts,
             withdrawals |-> withdrawals]
    <3> HIDE DEF sent, H
    <3> QED
      BY <2>1, Zenon DEF block_with_receipts_to_proto, Each, Some, None, H
  <2> HIDE DEF m, header, sentTxs, sentReceipts, withdrawals, senders
  <2> QED
    BY <2>2
<1>4. /\ B.Header = [i \in DOMAIN m.header |-> Consumer!BlockHeader(m.header[i])]
      /\ B.Txs = [i \in DOMAIN m.txs |-> Consumer!Transaction(m.txs[i])]
      /\ B.Receipts = [i \in DOMAIN m.receipts |-> Consumer!Receipt(m.receipts[i])]
      /\ B.Withdrawals = [i \in DOMAIN m.withdrawals |-> Consumer!Withdrawal(m.withdrawals[i])]
  BY DEF Consumer!BlockWithReceipts, Consumer!Each
<1>5. Consumer!printBlock(B) =
        [number |-> IF B.Header # <<>> THEN B.Header[1].Number ELSE 0,
         txs |-> Len(B.Txs), receipts |-> Len(B.Receipts), withdrawals |-> Len(B.Withdrawals)]
  BY DEF Consumer!printBlock, Consumer!OrDefault, Consumer!IsSome, Consumer!None
<1>6. H.number = b.header.number
  BY DEF header_to_proto
<1> HIDE DEF m, B, H, ws
<1>7. (IF B.Header # <<>> THEN B.Header[1].Number ELSE 0) = IF "headers" \in options THEN b.header.number ELSE 0
  <2>1. "headers" \in flags => B.Header[1] = Consumer!BlockHeader(H) /\ B.Header # <<>>
    BY <1>3, <1>4
  <2>2. "headers" \notin flags => B.Header = <<>>
    BY <1>3, <1>4
  <2>3. Consumer!BlockHeader(H).Number = H.number
    BY DEF Consumer!BlockHeader
  <2> QED
    BY <1>6, <2>1, <2>2, <2>3
<1>9. Len(B.Txs) = IF "transactions" \in options THEN Len(b.txs) ELSE 0
  <2> DEFINE t == B.Txs
             n == IF "transactions" \in options THEN Len(b.txs) ELSE 0
  <2>1. DOMAIN m.txs = 1..n /\ n \in Nat
    BY <1>1, <1>3
  <2> HIDE DEF t, n
  <2>2. t = [i \in 1..n |-> t[i]]
    BY <1>4, <2>1 DEF t
  <2> QED
    BY <2>1, <2>2, LenIs DEF t, n
<1>10. Len(B.Receipts) = IF "receipts" \in options THEN Len(b.receipts) ELSE 0
  <2> DEFINE t == B.Receipts
             n == IF "receipts" \in options THEN Len(b.receipts) ELSE 0
  <2>1. DOMAIN m.receipts = 1..n /\ n \in Nat
    BY <1>1, <1>3
  <2> HIDE DEF t, n
  <2>2. t = [i \in 1..n |-> t[i]]
    BY <1>4, <2>1 DEF t
  <2> QED
    BY <2>1, <2>2, LenIs DEF t, n
<1>11. Len(B.Withdrawals) = IF "withdrawals" \in options THEN Len(ws) ELSE 0
  <2> DEFINE t == B.Withdrawals
             n == IF "withdrawals" \in options THEN Len(ws) ELSE 0
  <2>1. DOMAIN m.withdrawals = 1..n /\ n \in Nat
    BY <1>2, <1>3
  <2> HIDE DEF t, n
  <2>2. t = [i \in 1..n |-> t[i]]
    BY <1>4, <2>1 DEF t
  <2> QED
    BY <2>1, <2>2, LenIs DEF t, n
<1> QED
  BY <1>5, <1>7, <1>9, <1>10, <1>11, Zenon DEF B, m, ws

\* The fields of what is printed of a chain.
LEMMA ChainFields ==
  ASSUME NEW label, NEW m
  PROVE  /\ ChainShown(label, m).label = label /\ ChainShown(label, m).blocks = BlocksOf(m)
         /\ ChainShown(label, m).state_diff = DiffOf(m) /\ ChainShown(label, m).call_traces = TracesOf(m)
BY DEF ChainShown

LEMMA BlocksShown == IInv => ConsumerShowsBlocks
<1> SUFFICES ASSUME IInv, program = "consumer" PROVE ConsumerShowsBlocks
  BY Zenon DEF ConsumerShowsBlocks
<1> DEFINE row(b) ==
             [number |-> IF "headers" \in options THEN b.header.number ELSE 0,
              txs |-> IF "transactions" \in options THEN Len(b.txs) ELSE 0,
              receipts |-> IF "receipts" \in options THEN Len(b.receipts) ELSE 0,
              withdrawals |-> IF "withdrawals" \in options THEN Len(OrDefault(b.withdrawals, Id, <<>>)) ELSE 0]
           m(i) == chain_to_proto(Shown[i].chain, flags)
<1>1. /\ DOMAIN output = DOMAIN Shown
      /\ DOMAIN output # {} => flags = options
      /\ \A i \in DOMAIN output : NodeChain(Shown[i].chain) /\ output[i] = ChainShown(Shown[i].label, m(i))
  BY OutputShown
<1>2. [i \in DOMAIN output |-> output[i].label] = [i \in DOMAIN Shown |-> Shown[i].label]
  <2> HIDE DEF m
  <2>1. ASSUME NEW i \in DOMAIN output PROVE output[i].label = Shown[i].label
    <3>1. ChainShown(Shown[i].label, m(i)).label = Shown[i].label
      BY ChainFields
    <3> QED
      BY <1>1, <3>1
  <2>2. DOMAIN output = DOMAIN Shown
    BY <1>1
  <2> QED
    BY <2>1, <2>2
<1>3. ASSUME NEW i \in DOMAIN output
      PROVE  /\ output[i].blocks = [j \in DOMAIN Shown[i].chain.blocks |-> row(Shown[i].chain.blocks[j])]
             /\ output[i].state_diff # None <=> "state_diff" \in options
  <2> DEFINE c == Shown[i].chain
             M == m(i)
  <2>1. NodeChain(c) /\ output[i] = ChainShown(Shown[i].label, M) /\ flags = options
    <3> HIDE DEF m
    <3>1. i \in DOMAIN output
      OBVIOUS
    <3> QED
      BY <1>1, <3>1
  <2>2. /\ M.blocks = [j \in DOMAIN c.blocks |-> block_with_receipts_to_proto(c.blocks[j], flags)]
        /\ M.state_diff = IF "state_diff" \in flags THEN Some(state_diff_to_proto(c.bundle)) ELSE None
    BY ChainMessage
  <2>3. \A j \in DOMAIN c.blocks : c.blocks[j] \in NodeBlock
    <3>1. c.blocks \in Seq(NodeBlock)
      BY <2>1 DEF NodeChain
    <3> QED
      BY <3>1, ElementOfSeq, LenProperties
  <2>4. \A j \in DOMAIN c.blocks :
          Consumer!printBlock(Consumer!BlockWithReceipts(block_with_receipts_to_proto(c.blocks[j], flags)))
            = row(c.blocks[j])
    <3> SUFFICES ASSUME NEW j \in DOMAIN c.blocks
                 PROVE Consumer!printBlock(Consumer!BlockWithReceipts(block_with_receipts_to_proto(c.blocks[j], flags)))
                         = row(c.blocks[j])
      OBVIOUS
    <3> DEFINE b == c.blocks[j]
    <3>1. b \in NodeBlock /\ flags = options
      BY <2>1, <2>3
    <3> HIDE DEF b
    <3>2. Consumer!printBlock(Consumer!BlockWithReceipts(block_with_receipts_to_proto(b, flags))) = row(b)
      BY <3>1, BlockShown
    <3> QED
      BY <3>2 DEF b
  <2> HIDE DEF c, M, row
  <2>5. output[i].blocks = BlocksOf(M) /\ output[i].state_diff = DiffOf(M)
    BY <2>1, ChainFields
  <2>6. output[i].blocks = [j \in DOMAIN c.blocks |-> row(c.blocks[j])]
    BY <2>2, <2>4, <2>5 DEF BlocksOf
  <2>7. output[i].state_diff
          = [j \in DOMAIN M.state_diff |-> Consumer!printStateDiff(Consumer!StateDiff(M.state_diff[j]))]
    BY <2>5 DEF DiffOf
  <2>8. output[i].state_diff # None <=> "state_diff" \in options
    <3> DEFINE s == output[i].state_diff
    <3>1. DOMAIN s = DOMAIN M.state_diff
      BY <2>7
    <3>2. DOMAIN None = {} /\ \A x : 1 \in DOMAIN Some(x)
      BY DEF Some, None
    <3>3. "state_diff" \in options => s # None
      <4> HIDE DEF s
      <4> QED
        BY <2>1, <2>2, <3>1, <3>2
    <3>4. "state_diff" \notin options => s = None
      <4>1. "state_diff" \notin options => M.state_diff = None
        BY <2>1, <2>2
      <4> QED
        BY <2>7, <3>2, <4>1 DEF None
    <3> QED
      BY <3>3, <3>4
  <2> QED
    BY <2>6, <2>8 DEF c
<1> QED
  BY <1>2, <1>3 DEF ConsumerShowsBlocks, Each, IsSome

\* go-consumer shows every chain of the notification under its label, with the
\* counts of the parts asked for (printNotification, printChain).
THEOREM ConsumerShowsTheBlocks == Spec => []ConsumerShowsBlocks
BY Invariance, BlocksShown, PTL

-----------------------------------------------------------------------------
(* Reading what was sent.                                                  *)

LEMMA OptionValue ==
  ASSUME NEW S, NEW o \in Option(S)
  PROVE  o = <<>> \/ (o[1] \in S /\ o = <<o[1]>> /\ o # <<>>)
<1>1. o \in Seq(S) /\ Len(o) <= 1
  BY DEF Option
<1>2. CASE o = <<>>
  BY <1>2
<1>3. CASE o # <<>>
  <2>1. Len(o) = 1
    <3>1. Len(o) # 0
      BY <1>1, <1>3, EmptySeq
    <3>2. Len(o) \in Nat
      BY <1>1, LenProperties
    <3> DEFINE n == Len(o)
    <3>3. n # 0 /\ n \in Nat /\ n <= 1
      BY <1>1, <3>1, <3>2
    <3> HIDE DEF n
    <3>4. n = 1
      BY <3>3
    <3> QED
      BY <3>4 DEF n
  <2>2. o[1] \in S
    BY <1>1, <2>1, ElementOfSeq
  <2>3. <<o[1]>> \in Seq(S) /\ Len(<<o[1]>>) = 1 /\ <<o[1]>>[1] = o[1]
    BY <2>2
  <2>4. \A i \in 1..1 : i = 1
    OBVIOUS
  <2>5. o = <<o[1]>>
    BY <1>1, <2>1, <2>3, <2>4, SeqEqual
  <2> QED
    BY <1>3, <2>2, <2>5
<1> QED
  BY <1>2, <1>3

\* A sequence that is read back element by element.
LEMMA SameSeq ==
  ASSUME NEW S, NEW s \in Seq(S), NEW t, t = [i \in DOMAIN s |-> t[i]],
         \A i \in DOMAIN s : s[i] \in S => t[i] = s[i]
  PROVE  t = s
<1>1. s = [i \in DOMAIN s |-> s[i]] /\ \A i \in DOMAIN s : s[i] \in S
  BY LenProperties, ElementOfSeq
<1>2. \A i \in DOMAIN s : t[i] = s[i]
  BY <1>1
<1> QED
  BY <1>1, <1>2

LEMMA HeaderRead ==
  ASSUME NEW h \in NodeHeader
  PROVE  HeaderOf(Consumer!BlockHeader(header_to_proto(h))) = h
<1> DEFINE names == Scalars \cup Hashes
           has == [f \in names |-> IsSome(h.opt[f])]
           scalar == [f \in Scalars |-> OrDefault(h.opt[f], Id, 0)]
           hash == [f \in Hashes |-> OrDefault(h.opt[f], b256_to_bytes, <<>>)]
           m == header_to_proto(h)
           B == Consumer!BlockHeader(m)
           opt == [f \in names |->
                     IF ~has[f] THEN None ELSE Some(IF f \in Scalars THEN scalar[f] ELSE Hash(hash[f]))]
<1>1. h = [number |-> h.number, gas_used |-> h.gas_used, opt |-> h.opt] /\ h.opt \in [names -> Option(Nat)]
  BY DEF NodeHeader
<1>2. m = [number |-> h.number, gas_used |-> h.gas_used, has |-> has, scalar |-> scalar, hash |-> hash]
  BY DEF header_to_proto
<1> HIDE DEF has, scalar, hash, m
<1>3. m.number = h.number /\ m.gas_used = h.gas_used /\ m.has = has /\ m.scalar = scalar /\ m.hash = hash
  BY <1>2
<1>4. B.Number = h.number /\ B.GasUsed = h.gas_used /\ B.Has = has /\ B.Scalar = scalar /\ B.Hash = hash
  BY <1>3 DEF Consumer!BlockHeader
<1> HIDE DEF B
<1>5. HeaderOf(B) = [number |-> h.number, gas_used |-> h.gas_used, opt |-> opt]
  BY <1>4 DEF HeaderOf
<1>6. opt = h.opt
  <2>1. ASSUME NEW f \in names PROVE opt[f] = h.opt[f]
    <3> DEFINE o == h.opt[f]
    <3>1. o \in Option(Nat)
      BY <1>1
    <3>2. /\ has[f] <=> o # <<>>
          /\ f \in Scalars => scalar[f] = IF o # <<>> THEN o[1] ELSE 0
          /\ f \notin Scalars => hash[f] = IF o # <<>> THEN <<o[1]>> ELSE <<>>
      BY DEF has, scalar, hash, IsSome, None, OrDefault, Id, b256_to_bytes
    <3>3. opt[f] = IF ~has[f] THEN <<>> ELSE <<IF f \in Scalars THEN scalar[f] ELSE hash[f][1]>>
      BY DEF None, Some, Hash
    <3> HIDE DEF o, opt
    <3>4. o = <<>> \/ (o = <<o[1]>> /\ o # <<>>)
      BY <3>1, OptionValue
    <3>5. opt[f] = o
      BY <3>2, <3>3, <3>4
    <3> QED
      BY <3>5 DEF o
  <2> HIDE DEF has, scalar, hash
  <2> QED
    BY <1>1, <2>1
<1> HIDE DEF opt
<1> QED
  BY <1>1, <1>5, <1>6 DEF B, m

-----------------------------------------------------------------------------
(* Reading a transaction.                                                  *)

LEMMA TypeNumbers ==
  /\ TxTypes[1] = "Legacy" /\ TxTypes[2] = "Eip2930" /\ TxTypes[3] = "Eip1559"
  /\ TxTypes[4] = "Eip4844" /\ TxTypes[5] = "Eip7702"
  /\ Range(TxTypes) = {TxTypes[i + 1] : i \in 0..4}
<1>1. /\ TxTypes[1] = "Legacy" /\ TxTypes[2] = "Eip2930" /\ TxTypes[3] = "Eip1559"
      /\ TxTypes[4] = "Eip4844" /\ TxTypes[5] = "Eip7702" /\ DOMAIN TxTypes = 1..5
  BY DEF TxTypes
<1>2. Range(TxTypes) = {TxTypes[i] : i \in 1..5}
  BY <1>1 DEF Range
<1>3. \A i \in 1..5 : i - 1 \in 0..4 /\ i = (i - 1) + 1
  OBVIOUS
<1>4. \A i \in 0..4 : i + 1 \in 1..5
  OBVIOUS
<1> QED
  BY <1>1, <1>2, <1>3, <1>4

TypeNumber(t) == CHOOSE i \in 0..4 : TxTypes[i + 1] = t.type

LEMMA TypeNumberIs ==
  ASSUME NEW t \in AnyTx
  PROVE  /\ TypeNumber(t) \in 0..4 /\ TxTypes[TypeNumber(t) + 1] = t.type
         /\ t.type = "Legacy" <=> TypeNumber(t) = 0
         /\ t.type = "Eip4844" <=> TypeNumber(t) = 3
         /\ t.type = "Eip7702" <=> TypeNumber(t) = 4
         /\ t.type \in {"Legacy", "Eip2930"} <=> TypeNumber(t) \in {0, 1}
<1> DEFINE n == TypeNumber(t)
<1>1. t.type \in Range(TxTypes)
  BY DEF AnyTx
<1>2. \E i \in 0..4 : TxTypes[i + 1] = t.type
  <2> HIDE DEF n
  <2> QED
    BY <1>1, TypeNumbers
<1>3. n \in 0..4 /\ TxTypes[n + 1] = t.type
  BY <1>2 DEF TypeNumber
<1> HIDE DEF n
<1>4. n = 0 \/ n = 1 \/ n = 2 \/ n = 3 \/ n = 4
  BY <1>3
<1>5. t.type = TxTypes[n + 1]
  BY <1>3
<1>6. /\ n = 0 => t.type = "Legacy"
      /\ n = 1 => t.type = "Eip2930"
      /\ n = 2 => t.type = "Eip1559"
      /\ n = 3 => t.type = "Eip4844"
      /\ n = 4 => t.type = "Eip7702"
  BY <1>5, TypeNumbers
<1> QED
  BY <1>3, <1>4, <1>6 DEF n

\* The message of a transaction.
LEMMA TxMessage ==
  ASSUME NEW t
  PROVE  LET p == tx_to_proto(t)
             n == TypeNumber(t)
         IN /\ p.tx_type = n /\ p.gas_limit = t.gas_limit /\ p.value = u256_to_bytes(t.value)
            /\ p.to = OrDefault(t.to, addr_to_bytes, <<>>)
            /\ p.chain_id = OrDefault(t.chain_id, u64_to_bytes, <<>>)
            /\ n \in {0, 1} => p.gas_price = u128_to_bytes(t.price)
            /\ n \in {2, 3, 4} => /\ p.max_fee_per_gas = u128_to_bytes(t.price)
                                  /\ p.max_priority_fee_per_gas = u128_to_bytes(t.tip)
            /\ n \notin {2, 3, 4} => p.max_priority_fee_per_gas = <<>>
            /\ p.access_list = IF n # 0 THEN access_list_to_proto(t.access_list) ELSE <<>>
            /\ p.blob_versioned_hashes = IF n = 3 THEN Each(t.blobs, b256_to_bytes) ELSE <<>>
            /\ p.max_fee_per_blob_gas = IF n = 3 THEN u128_to_bytes(t.blob_fee) ELSE <<>>
            /\ p.authorization_list = IF n = 4 THEN Each(t.auths, auth_to_proto) ELSE <<>>
<1> DEFINE p == tx_to_proto(t)
           n == TypeNumber(t)
           value == u256_to_bytes(t.value)
           to == OrDefault(t.to, addr_to_bytes, <<>>)
           chain == OrDefault(t.chain_id, u64_to_bytes, <<>>)
           price == u128_to_bytes(t.price)
           tip == u128_to_bytes(t.tip)
           access == access_list_to_proto(t.access_list)
           blobs == [i \in DOMAIN t.blobs |-> b256_to_bytes(t.blobs[i])]
           fee == u128_to_bytes(t.blob_fee)
           auths == [i \in DOMAIN t.auths |-> auth_to_proto(t.auths[i])]
           common == [tx_type |-> n, gas_limit |-> t.gas_limit, value |-> value, to |-> to,
                      chain_id |-> <<>>, gas_price |-> <<>>, max_fee_per_gas |-> <<>>,
                      max_priority_fee_per_gas |-> <<>>, access_list |-> <<>>,
                      blob_versioned_hashes |-> <<>>, max_fee_per_blob_gas |-> <<>>,
                      authorization_list |-> <<>>]
<1>1. p = [common EXCEPT
             !.chain_id = chain,
             !.gas_price = IF n \in {0, 1} THEN price ELSE @,
             !.max_fee_per_gas = IF n \in {2, 3, 4} THEN price ELSE @,
             !.max_priority_fee_per_gas = IF n \in {2, 3, 4} THEN tip ELSE @,
             !.access_list = IF n # 0 THEN access ELSE @,
             !.blob_versioned_hashes = IF n = 3 THEN blobs ELSE @,
             !.max_fee_per_blob_gas = IF n = 3 THEN fee ELSE @,
             !.authorization_list = IF n = 4 THEN auths ELSE @]
  BY DEF tx_to_proto, tx_common_fields, txkind_to_bytes, TypeNumber, Each
<1>2. Each(t.blobs, b256_to_bytes) = blobs /\ Each(t.auths, auth_to_proto) = auths
  BY DEF Each
<1> HIDE DEF p, n, value, to, chain, price, tip, access, blobs, fee, auths
<1>3. p = [tx_type |-> n, gas_limit |-> t.gas_limit, value |-> value, to |-> to, chain_id |-> chain,
           gas_price |-> IF n \in {0, 1} THEN price ELSE <<>>,
           max_fee_per_gas |-> IF n \in {2, 3, 4} THEN price ELSE <<>>,
           max_priority_fee_per_gas |-> IF n \in {2, 3, 4} THEN tip ELSE <<>>,
           access_list |-> IF n # 0 THEN access ELSE <<>>,
           blob_versioned_hashes |-> IF n = 3 THEN blobs ELSE <<>>,
           max_fee_per_blob_gas |-> IF n = 3 THEN fee ELSE <<>>,
           authorization_list |-> IF n = 4 THEN auths ELSE <<>>]
  BY <1>1, Zenon
<1>4. /\ p.tx_type = n /\ p.gas_limit = t.gas_limit /\ p.value = value
      /\ p.to = to
      /\ p.chain_id = chain
      /\ p.gas_price = IF n \in {0, 1} THEN price ELSE <<>>
      /\ p.max_fee_per_gas = IF n \in {2, 3, 4} THEN price ELSE <<>>
      /\ p.max_priority_fee_per_gas = IF n \in {2, 3, 4} THEN tip ELSE <<>>
      /\ p.access_list = IF n # 0 THEN access ELSE <<>>
      /\ p.blob_versioned_hashes = IF n = 3 THEN blobs ELSE <<>>
      /\ p.max_fee_per_blob_gas = IF n = 3 THEN fee ELSE <<>>
      /\ p.authorization_list = IF n = 4 THEN auths ELSE <<>>
  BY <1>3
<1>5. (n \in {0, 1} => p.gas_price = price) /\ (n \in {2, 3, 4} => p.max_fee_per_gas = price /\ p.max_priority_fee_per_gas = tip)
      /\ (n \notin {2, 3, 4} => p.max_priority_fee_per_gas = <<>>)
  BY <1>4
<1> QED
  BY <1>2, <1>4, <1>5 DEF p, n, value, to, chain, price, tip, access, fee

\* The sequences of a transaction, as they are read back.
ReadAccess(al) ==
  [i \in DOMAIN al |-> [address |-> Hash(al[i].Address),
                        storage_keys |-> [k \in DOMAIN al[i].StorageKeys |-> Hash(al[i].StorageKeys[k])]]]
ReadHashes(bs) == [i \in DOMAIN bs |-> Hash(bs[i])]
ReadAuths(as) ==
  [i \in DOMAIN as |-> [chain_id |-> Number(as[i].ChainId), address |-> Hash(as[i].Address),
                        y_parity |-> IF as[i].YParity THEN 1 ELSE 0]]

LEMMA HashesRead ==
  ASSUME NEW s \in Seq(Nat)
  PROVE  ReadHashes([i \in DOMAIN s |-> b256_to_bytes(s[i])]) = s
<1> DEFINE t == ReadHashes([i \in DOMAIN s |-> b256_to_bytes(s[i])])
<1>1. t = [i \in DOMAIN s |-> s[i]]
  BY DEF ReadHashes, Hash, b256_to_bytes
<1>2. s = [i \in DOMAIN s |-> s[i]]
  BY LenProperties
<1> QED
  BY <1>1, <1>2

LEMMA AccessRead ==
  ASSUME NEW s \in Seq([address : Nat, storage_keys : Seq(Nat)])
  PROVE  ReadAccess(Each(access_list_to_proto(s), Consumer!AccessListItem)) = s
<1> DEFINE S == [address : Nat, storage_keys : Seq(Nat)]
           item(x) == [address |-> <<x.address>>,
                       storage_keys |-> [k \in DOMAIN x.storage_keys |-> b256_to_bytes(x.storage_keys[k])]]
           sent == [i \in DOMAIN s |-> Consumer!AccessListItem(item(s[i]))]
           t == ReadAccess(sent)
<1>1. Each(access_list_to_proto(s), Consumer!AccessListItem) = sent
  BY DEF Each, access_list_to_proto, addr_to_bytes
<1>2. ASSUME NEW i \in DOMAIN s
      PROVE  [address |-> Hash(sent[i].Address),
              storage_keys |-> [k \in DOMAIN sent[i].StorageKeys |-> Hash(sent[i].StorageKeys[k])]] = s[i]
  <2> DEFINE x == s[i]
             keys == x.storage_keys
             bytes == [k \in DOMAIN keys |-> b256_to_bytes(keys[k])]
  <2>1. x \in S
    BY LenProperties, ElementOfSeq
  <2>2. keys \in Seq(Nat) /\ x = [address |-> x.address, storage_keys |-> keys]
    BY <2>1
  <2>3. sent[i].Address = <<x.address>> /\ sent[i].StorageKeys = bytes
    <3>1. sent[i] = Consumer!AccessListItem([address |-> <<x.address>>, storage_keys |-> bytes])
      OBVIOUS
    <3> HIDE DEF x, bytes, sent
    <3> QED
      BY <3>1 DEF Consumer!AccessListItem
  <2>4. ReadHashes(bytes) = keys
    <3> HIDE DEF keys
    <3> QED
      BY <2>2, HashesRead
  <2>5. [k \in DOMAIN bytes |-> Hash(bytes[k])] = keys
    BY <2>4 DEF ReadHashes
  <2> HIDE DEF x, keys, bytes, sent
  <2> QED
    BY <2>2, <2>3, <2>5 DEF Hash, x
<1>3. DOMAIN sent = DOMAIN s
  OBVIOUS
<1>4. s = [i \in DOMAIN s |-> s[i]]
  BY LenProperties
<1> HIDE DEF sent
<1>5. t = [i \in DOMAIN s |-> s[i]]
  BY <1>2, <1>3 DEF ReadAccess
<1> QED
  BY <1>1, <1>4, <1>5

LEMMA AuthsRead ==
  ASSUME NEW s \in Seq([chain_id : Words, address : Nat, y_parity : {0, 1}])
  PROVE  ReadAuths(Each(Each(s, auth_to_proto), Consumer!SignedAuthorization)) = s
<1> DEFINE S == [chain_id : Words, address : Nat, y_parity : {0, 1}]
           sent == [i \in DOMAIN s |-> Consumer!SignedAuthorization(auth_to_proto(s[i]))]
           t == ReadAuths(sent)
<1>1. Each(Each(s, auth_to_proto), Consumer!SignedAuthorization) = sent
  BY DEF Each
<1>2. ASSUME NEW i \in DOMAIN s
      PROVE  [chain_id |-> Number(sent[i].ChainId), address |-> Hash(sent[i].Address),
              y_parity |-> IF sent[i].YParity THEN 1 ELSE 0] = s[i]
  <2> DEFINE x == s[i]
             bytes == u256_to_bytes(x.chain_id)
  <2>1. x \in S
    BY LenProperties, ElementOfSeq
  <2>2. /\ x.chain_id \in Words /\ x.y_parity \in {0, 1}
        /\ x = [chain_id |-> x.chain_id, address |-> x.address, y_parity |-> x.y_parity]
    BY <2>1
  <2>3. sent[i].ChainId = bytes /\ sent[i].Address = <<x.address>> /\ sent[i].YParity = (x.y_parity # 0)
    <3>1. sent[i] = Consumer!SignedAuthorization(auth_to_proto(x))
      OBVIOUS
    <3>2. /\ auth_to_proto(x).chain_id = bytes /\ auth_to_proto(x).address = <<x.address>>
          /\ auth_to_proto(x).y_parity = (x.y_parity # 0)
      <4> HIDE DEF x, bytes
      <4>1. auth_to_proto(x) = [chain_id |-> bytes, address |-> <<x.address>>, y_parity |-> x.y_parity # 0]
        BY DEF auth_to_proto, addr_to_bytes, bytes
      <4> QED
        BY <4>1
    <3> HIDE DEF x, bytes, sent
    <3> QED
      BY <3>1, <3>2 DEF Consumer!SignedAuthorization
  <2>4. Number(bytes) = x.chain_id
    BY <2>2, NumberOfBytes
  <2>5. (IF sent[i].YParity THEN 1 ELSE 0) = x.y_parity
    <3> HIDE DEF x, sent
    <3> QED
      BY <2>2, <2>3
  <2> HIDE DEF x, bytes, sent
  <2> QED
    BY <2>2, <2>3, <2>4, <2>5 DEF Hash, x
<1>3. DOMAIN sent = DOMAIN s
  OBVIOUS
<1>4. s = [i \in DOMAIN s |-> s[i]]
  BY LenProperties
<1> HIDE DEF sent
<1>5. t = [i \in DOMAIN s |-> s[i]]
  BY <1>2, <1>3 DEF ReadAuths
<1> QED
  BY <1>1, <1>4, <1>5

LEMMA TxFields ==
  ASSUME NEW T
  PROVE  TxOf(T) =
           [type |-> TxTypes[T.TxType + 1], gas_limit |-> T.GasLimit, value |-> Number(T.Value),
            to |-> IF T.To = <<>> THEN <<>> ELSE <<Hash(T.To)>>,
            chain_id |-> IF T.ChainId = <<>> THEN <<>> ELSE <<Number(T.ChainId)>>,
            price |-> Number(IF T.TxType >= 2 THEN T.MaxFeePerGas ELSE T.GasPrice),
            tip |-> Number(T.MaxPriorityFeePerGas),
            access_list |-> ReadAccess(T.AccessList),
            blobs |-> ReadHashes(T.BlobVersionedHashes), blob_fee |-> Number(T.MaxFeePerBlobGas),
            auths |-> ReadAuths(T.AuthorizationList)]
BY DEF TxOf, Optional, None, Some, Each, ReadAccess, ReadHashes, ReadAuths

LEMMA TxStruct ==
  ASSUME NEW p
  PROVE  LET T == Consumer!Transaction(p) IN
         /\ T.TxType = p.tx_type /\ T.GasLimit = p.gas_limit /\ T.To = p.to /\ T.Value = p.value
         /\ T.ChainId = p.chain_id /\ T.GasPrice = p.gas_price /\ T.MaxFeePerGas = p.max_fee_per_gas
         /\ T.MaxPriorityFeePerGas = p.max_priority_fee_per_gas
         /\ T.AccessList = Each(p.access_list, Consumer!AccessListItem)
         /\ T.BlobVersionedHashes = p.blob_versioned_hashes
         /\ T.MaxFeePerBlobGas = p.max_fee_per_blob_gas
         /\ T.AuthorizationList = Each(p.authorization_list, Consumer!SignedAuthorization)
<1> DEFINE T == Consumer!Transaction(p)
           access == [i \in DOMAIN p.access_list |-> Consumer!AccessListItem(p.access_list[i])]
           auths == [i \in DOMAIN p.authorization_list |-> Consumer!SignedAuthorization(p.authorization_list[i])]
<1>1. T = [TxType |-> p.tx_type, GasLimit |-> p.gas_limit, To |-> p.to, Value |-> p.value,
           ChainId |-> p.chain_id, GasPrice |-> p.gas_price, MaxFeePerGas |-> p.max_fee_per_gas,
           MaxPriorityFeePerGas |-> p.max_priority_fee_per_gas, AccessList |-> access,
           BlobVersionedHashes |-> p.blob_versioned_hashes, MaxFeePerBlobGas |-> p.max_fee_per_blob_gas,
           AuthorizationList |-> auths]
  BY DEF Consumer!Transaction, Consumer!Each
<1>2. /\ access = Each(p.access_list, Consumer!AccessListItem)
      /\ auths = Each(p.authorization_list, Consumer!SignedAuthorization)
  BY DEF Each
<1> HIDE DEF T, access, auths
<1> QED
  BY <1>1, <1>2 DEF T

LEMMA NumberOfNothing == Number(<<>>) = 0
<1> DEFINE At(h, s) == IF s = {} THEN 0 ELSE h[s \ {Max(s)}] * Base + <<>>[Max(s)]
           Solved(h) == h = [s \in SUBSET (DOMAIN <<>>) |-> At(h, s)]
           fold == CHOOSE h : Solved(h)
           w == [s \in SUBSET (DOMAIN <<>>) |-> 0]
<1>1. Number(<<>>) = fold[DOMAIN <<>>]
  BY DEF Number, FoldLeft, MapThenFoldSet
<1>2. DOMAIN <<>> = {}
  OBVIOUS
<1>3. \A h : \A s \in SUBSET (DOMAIN <<>>) : At(h, s) = 0
  BY <1>2
<1>4. Solved(w)
  <2> HIDE DEF At
  <2> QED
    BY <1>3
<1>5. Solved(fold)
  <2> HIDE DEF w, Solved
  <2> QED
    BY <1>4
<1>6. fold[{}] = At(fold, {})
  <2>1. {} \in SUBSET (DOMAIN <<>>)
    OBVIOUS
  <2> HIDE DEF At, fold
  <2> QED
    BY <1>5, <2>1
<1> HIDE DEF fold
<1> QED
  BY <1>1, <1>2, <1>6

\* Nothing is read of nothing.
LEMMA NothingRead ==
  /\ ReadAccess(Each(<<>>, Consumer!AccessListItem)) = <<>>
  /\ ReadHashes(<<>>) = <<>> /\ ReadAuths(Each(<<>>, Consumer!SignedAuthorization)) = <<>>
<1>1. Each(<<>>, Consumer!AccessListItem) = <<>> /\ Each(<<>>, Consumer!SignedAuthorization) = <<>>
  BY DEF Each
<1> QED
  BY <1>1 DEF ReadAccess, ReadHashes, ReadAuths

\* An Option that is sent as bytes which are never empty.
LEMMA RecipientRead ==
  ASSUME NEW o \in Option(Nat)
  PROVE  LET m == OrDefault(o, addr_to_bytes, <<>>)
         IN (IF m = <<>> THEN <<>> ELSE <<Hash(m)>>) = o
<1>1. o = <<>> \/ (o = <<o[1]>> /\ o # <<>>)
  BY OptionValue
<1> QED
  BY <1>1 DEF OrDefault, IsSome, None, addr_to_bytes, Hash

LEMMA ChainIdRead ==
  ASSUME NEW o \in Option(0..Base - 1)
  PROVE  LET m == OrDefault(o, u64_to_bytes, <<>>)
         IN (IF m = <<>> THEN <<>> ELSE <<Number(m)>>) = o
<1> DEFINE m == OrDefault(o, u64_to_bytes, <<>>)
<1>1. o = <<>> \/ (o[1] \in 0..Base - 1 /\ o = <<o[1]>> /\ o # <<>>)
  BY OptionValue
<1>2. m = IF o # <<>> THEN u64_to_bytes(o[1]) ELSE <<>>
  BY DEF OrDefault, IsSome, None
<1>3. o # <<>> => Number(u64_to_bytes(o[1])) = o[1] /\ u64_to_bytes(o[1]) # <<>>
  BY <1>1, NumberOfBytes
<1> HIDE DEF m
<1>4. (IF m = <<>> THEN <<>> ELSE <<Number(m)>>) = o
  BY <1>1, <1>2, <1>3
<1> QED
  BY <1>4 DEF m

LEMMA TxRead ==
  ASSUME NEW t \in NodeTx
  PROVE  TxOf(Consumer!Transaction(tx_to_proto(t))) = t
<1> DEFINE p == tx_to_proto(t)
           T == Consumer!Transaction(p)
           n == TypeNumber(t)
<1>1. t \in AnyTx
  BY DEF NodeTx
<1>2. /\ t.type \in {"Legacy", "Eip2930"} => t.tip = 0
      /\ t.type = "Legacy" => t.access_list = <<>>
      /\ t.type # "Eip4844" => t.blobs = <<>> /\ t.blob_fee = 0
      /\ t.type # "Eip7702" => t.auths = <<>>
  BY DEF NodeTx
<1>3. /\ t.value \in Words /\ t.to \in Option(Nat) /\ t.chain_id \in Option(0..Base - 1)
      /\ t.price \in 0..Base^2 - 1 /\ t.tip \in 0..Base^2 - 1 /\ t.blob_fee \in 0..Base^2 - 1
      /\ t.access_list \in Seq([address : Nat, storage_keys : Seq(Nat)])
      /\ t.blobs \in Seq(Nat) /\ t.auths \in Seq([chain_id : Words, address : Nat, y_parity : {0, 1}])
      /\ t = [type |-> t.type, gas_limit |-> t.gas_limit, value |-> t.value, to |-> t.to,
              chain_id |-> t.chain_id, price |-> t.price, tip |-> t.tip, access_list |-> t.access_list,
              blobs |-> t.blobs, blob_fee |-> t.blob_fee, auths |-> t.auths]
  <2> HIDE DEF p, T, n
  <2> QED
    BY <1>1 DEF AnyTx
<1>4. /\ n \in 0..4 /\ TxTypes[n + 1] = t.type
      /\ t.type = "Legacy" <=> n = 0
      /\ t.type = "Eip4844" <=> n = 3
      /\ t.type = "Eip7702" <=> n = 4
      /\ t.type \in {"Legacy", "Eip2930"} <=> n \in {0, 1}
  BY <1>1, TypeNumberIs
<1>5. /\ p.tx_type = n /\ p.gas_limit = t.gas_limit /\ p.value = u256_to_bytes(t.value)
      /\ p.to = OrDefault(t.to, addr_to_bytes, <<>>)
      /\ p.chain_id = OrDefault(t.chain_id, u64_to_bytes, <<>>)
      /\ n \in {0, 1} => p.gas_price = u128_to_bytes(t.price)
      /\ n \in {2, 3, 4} => /\ p.max_fee_per_gas = u128_to_bytes(t.price)
                            /\ p.max_priority_fee_per_gas = u128_to_bytes(t.tip)
      /\ n \notin {2, 3, 4} => p.max_priority_fee_per_gas = <<>>
      /\ p.access_list = IF n # 0 THEN access_list_to_proto(t.access_list) ELSE <<>>
      /\ p.blob_versioned_hashes = IF n = 3 THEN Each(t.blobs, b256_to_bytes) ELSE <<>>
      /\ p.max_fee_per_blob_gas = IF n = 3 THEN u128_to_bytes(t.blob_fee) ELSE <<>>
      /\ p.authorization_list = IF n = 4 THEN Each(t.auths, auth_to_proto) ELSE <<>>
  BY TxMessage
<1>6. /\ T.TxType = p.tx_type /\ T.GasLimit = p.gas_limit /\ T.To = p.to /\ T.Value = p.value
      /\ T.ChainId = p.chain_id /\ T.GasPrice = p.gas_price /\ T.MaxFeePerGas = p.max_fee_per_gas
      /\ T.MaxPriorityFeePerGas = p.max_priority_fee_per_gas
      /\ T.AccessList = Each(p.access_list, Consumer!AccessListItem)
      /\ T.BlobVersionedHashes = p.blob_versioned_hashes
      /\ T.MaxFeePerBlobGas = p.max_fee_per_blob_gas
      /\ T.AuthorizationList = Each(p.authorization_list, Consumer!SignedAuthorization)
  BY TxStruct
<1>7. TxOf(T) =
        [type |-> TxTypes[T.TxType + 1], gas_limit |-> T.GasLimit, value |-> Number(T.Value),
         to |-> IF T.To = <<>> THEN <<>> ELSE <<Hash(T.To)>>,
         chain_id |-> IF T.ChainId = <<>> THEN <<>> ELSE <<Number(T.ChainId)>>,
         price |-> Number(IF T.TxType >= 2 THEN T.MaxFeePerGas ELSE T.GasPrice),
         tip |-> Number(T.MaxPriorityFeePerGas),
         access_list |-> ReadAccess(T.AccessList),
         blobs |-> ReadHashes(T.BlobVersionedHashes), blob_fee |-> Number(T.MaxFeePerBlobGas),
         auths |-> ReadAuths(T.AuthorizationList)]
  BY TxFields
<1> HIDE DEF p, T, n
<1>8. TxTypes[T.TxType + 1] = t.type /\ T.GasLimit = t.gas_limit
  BY <1>4, <1>5, <1>6
<1>9. Number(T.Value) = t.value
  BY <1>3, <1>5, <1>6, NumberOfBytes
<1>10. (IF T.To = <<>> THEN <<>> ELSE <<Hash(T.To)>>) = t.to
  <2>1. T.To = OrDefault(t.to, addr_to_bytes, <<>>)
    BY <1>5, <1>6
  <2> QED
    BY <1>3, <2>1, RecipientRead
<1>11. (IF T.ChainId = <<>> THEN <<>> ELSE <<Number(T.ChainId)>>) = t.chain_id
  <2>1. T.ChainId = OrDefault(t.chain_id, u64_to_bytes, <<>>)
    BY <1>5, <1>6
  <2> QED
    BY <1>3, <2>1, ChainIdRead
<1>12. Number(IF T.TxType >= 2 THEN T.MaxFeePerGas ELSE T.GasPrice) = t.price
  <2>1. n >= 2 => n \in {2, 3, 4}
    BY <1>4
  <2>2. ~(n >= 2) => n \in {0, 1}
    BY <1>4
  <2>3. (IF T.TxType >= 2 THEN T.MaxFeePerGas ELSE T.GasPrice) = u128_to_bytes(t.price)
    BY <1>5, <1>6, <2>1, <2>2
  <2> QED
    BY <1>3, <2>3, NumberOfBytes
<1>13. Number(T.MaxPriorityFeePerGas) = t.tip
  <2>1. CASE n \in {2, 3, 4}
    BY <1>3, <1>5, <1>6, <2>1, NumberOfBytes
  <2>2. CASE n \notin {2, 3, 4}
    <3>1. n \in {0, 1}
      BY <1>4, <2>2
    <3>2. t.tip = 0
      BY <1>2, <1>4, <3>1
    <3>3. T.MaxPriorityFeePerGas = <<>>
      BY <1>5, <1>6, <2>2
    <3> QED
      BY <3>2, <3>3, NumberOfNothing
  <2> QED
    BY <2>1, <2>2
<1>14. ReadAccess(T.AccessList) = t.access_list
  <2>1. CASE n # 0
    <3>1. T.AccessList = Each(access_list_to_proto(t.access_list), Consumer!AccessListItem)
      <4>1. p.access_list = access_list_to_proto(t.access_list)
        BY <1>5, <2>1
      <4> QED
        BY <1>6, <4>1 DEF Each
    <3> QED
      BY <1>3, <3>1, AccessRead
  <2>2. CASE n = 0
    <3>1. t.access_list = <<>> /\ p.access_list = <<>>
      BY <1>2, <1>4, <1>5, <2>2
    <3>2. T.AccessList = Each(<<>>, Consumer!AccessListItem)
      BY <1>6, <3>1 DEF Each
    <3> QED
      BY <3>1, <3>2, NothingRead
  <2> QED
    BY <2>1, <2>2
<1>15. ReadHashes(T.BlobVersionedHashes) = t.blobs /\ Number(T.MaxFeePerBlobGas) = t.blob_fee
  <2>1. CASE n = 3
    <3>1. T.BlobVersionedHashes = [i \in DOMAIN t.blobs |-> b256_to_bytes(t.blobs[i])]
      BY <1>5, <1>6, <2>1 DEF Each
    <3>2. T.MaxFeePerBlobGas = u128_to_bytes(t.blob_fee)
      BY <1>5, <1>6, <2>1
    <3>3. ReadHashes([i \in DOMAIN t.blobs |-> b256_to_bytes(t.blobs[i])]) = t.blobs
      BY <1>3, HashesRead
    <3> QED
      BY <1>3, <3>1, <3>2, <3>3, NumberOfBytes
  <2>2. CASE n # 3
    <3>1. t.blobs = <<>> /\ t.blob_fee = 0 /\ T.BlobVersionedHashes = <<>> /\ T.MaxFeePerBlobGas = <<>>
      BY <1>2, <1>4, <1>5, <1>6, <2>2
    <3> QED
      BY <3>1, NothingRead, NumberOfNothing
  <2> QED
    BY <2>1, <2>2
<1>16. ReadAuths(T.AuthorizationList) = t.auths
  <2>1. CASE n = 4
    <3>1. p.authorization_list = Each(t.auths, auth_to_proto)
      BY <1>5, <2>1
    <3>2. T.AuthorizationList = Each(Each(t.auths, auth_to_proto), Consumer!SignedAuthorization)
      BY <1>6, <3>1 DEF Each
    <3> QED
      BY <1>3, <3>2, AuthsRead
  <2>2. CASE n # 4
    <3>1. t.auths = <<>> /\ p.authorization_list = <<>>
      BY <1>2, <1>4, <1>5, <2>2
    <3>2. T.AuthorizationList = Each(<<>>, Consumer!SignedAuthorization)
      BY <1>6, <3>1 DEF Each
    <3> QED
      BY <3>1, <3>2, NothingRead
  <2> QED
    BY <2>1, <2>2
<1> QED
  BY <1>3, <1>7, <1>8, <1>9, <1>10, <1>11, <1>12, <1>13, <1>14, <1>15, <1>16 DEF T, p

-----------------------------------------------------------------------------
(* Reading a state diff.                                                   *)

LEMMA LeastOfOne == ASSUME NEW i \in Nat PROVE Min({i}) = i
BY DEF Min

\* The names of an enum tell its values apart.
LEMMA StatusNumber ==
  /\ DOMAIN AccountStatuses = 1..8
  /\ \A i, j \in 1..8 : AccountStatuses[i] = AccountStatuses[j] => i = j
<1>1. /\ AccountStatuses[1] = "LoadedNotExisting" /\ AccountStatuses[2] = "Loaded"
      /\ AccountStatuses[3] = "LoadedEmptyEIP161" /\ AccountStatuses[4] = "InMemoryChange"
      /\ AccountStatuses[5] = "Changed" /\ AccountStatuses[6] = "Destroyed"
      /\ AccountStatuses[7] = "DestroyedChanged" /\ AccountStatuses[8] = "DestroyedAgain"
      /\ DOMAIN AccountStatuses = 1..8
  BY DEF AccountStatuses
<1>2. \A i \in 1..8 : i = 1 \/ i = 2 \/ i = 3 \/ i = 4 \/ i = 5 \/ i = 6 \/ i = 7 \/ i = 8
  OBVIOUS
<1> QED
  BY <1>1, <1>2

LEMMA StatusNames ==
  /\ Len(Consumer!AccountStatus) = 8
  /\ \A i, j \in 1..8 : Consumer!AccountStatus[i] = Consumer!AccountStatus[j] => i = j
<1> DEFINE names == Consumer!AccountStatus
<1>1. /\ names[1] = "LOADED_NOT_EXISTING" /\ names[2] = "LOADED" /\ names[3] = "LOADED_EMPTY_EIP161"
      /\ names[4] = "IN_MEMORY_CHANGE" /\ names[5] = "CHANGED" /\ names[6] = "DESTROYED"
      /\ names[7] = "DESTROYED_CHANGED" /\ names[8] = "DESTROYED_AGAIN" /\ Len(names) = 8
  BY DEF Consumer!AccountStatus
<1>2. \A i \in 1..8 : i = 1 \/ i = 2 \/ i = 3 \/ i = 4 \/ i = 5 \/ i = 6 \/ i = 7 \/ i = 8
  OBVIOUS
<1> HIDE DEF names
<1>3. \A i, j \in 1..8 : names[i] = names[j] => i = j
  BY <1>1, <1>2
<1> QED
  BY <1>1, <1>3 DEF names

LEMMA StatusRead ==
  ASSUME NEW s \in Range(AccountStatuses)
  PROVE  StatusOf(Consumer!AccountStatus[account_status_to_proto(s) + 1]) = s
<1> DEFINE n == account_status_to_proto(s) + 1
           i == CHOOSE k \in 1..8 : AccountStatuses[k] = s
           names == Consumer!AccountStatus
           named == {k \in 1..Len(names) : names[k] = names[n]}
<1>1. i \in 1..8 /\ AccountStatuses[i] = s
  <2>1. \E k \in 1..8 : AccountStatuses[k] = s
    <3>1. PICK k \in DOMAIN AccountStatuses : AccountStatuses[k] = s
      BY DEF Range
    <3> QED
      BY <3>1, StatusNumber
  <2> QED
    BY <2>1
<1>2. n = i
  <2>1. n = (i - 1) + 1
    BY DEF account_status_to_proto
  <2> HIDE DEF i, n
  <2> QED
    BY <1>1, <2>1
<1>3. named = {n}
  <2> HIDE DEF n, names, i
  <2>1. n \in 1..8
    BY <1>1, <1>2
  <2> QED
    BY <2>1, StatusNames DEF names
<1>4. StatusOf(names[n]) = AccountStatuses[IF named # {} THEN Min(named) ELSE 0]
  <2> HIDE DEF n
  <2> QED
    BY DEF StatusOf, SelectInSeq
<1> HIDE DEF n, i, named, names
<1>5. Min(named) = n /\ named # {}
  BY <1>1, <1>2, <1>3, LeastOfOne
<1> QED
  BY <1>1, <1>2, <1>4, <1>5 DEF n, names

LEMMA KindRead ==
  ASSUME NEW s \in Range(RevertKinds)
  PROVE  KindOf(Consumer!AccountRevertKind[((CHOOSE k \in 1..3 : RevertKinds[k] = s) - 1) + 1]) = s
<1> DEFINE i == CHOOSE k \in 1..3 : RevertKinds[k] = s
           n == (i - 1) + 1
           names == Consumer!AccountRevertKind
           named == {k \in 1..Len(names) : names[k] = names[n]}
<1>1. i \in 1..3 /\ RevertKinds[i] = s
  <2>1. \E k \in 1..3 : RevertKinds[k] = s
    <3>1. PICK k \in DOMAIN RevertKinds : RevertKinds[k] = s
      BY DEF Range
    <3>2. DOMAIN RevertKinds = 1..3
      BY DEF RevertKinds
    <3> QED
      BY <3>1, <3>2
  <2> QED
    BY <2>1
<1>2. n = i
  <2> HIDE DEF i
  <2> QED
    BY <1>1
<1>3. named = {n}
  <2>1. names[1] = "DO_NOTHING" /\ names[2] = "DELETE_IT" /\ names[3] = "REVERT_TO" /\ Len(names) = 3
    BY DEF Consumer!AccountRevertKind
  <2>2. \A k \in 1..3 : k = 1 \/ k = 2 \/ k = 3
    OBVIOUS
  <2> HIDE DEF n, names, i
  <2>3. n \in 1..3
    BY <1>1, <1>2
  <2>4. \A k, m \in 1..3 : names[k] = names[m] => k = m
    BY <2>1, <2>2
  <2> QED
    BY <2>1, <2>3, <2>4
<1>4. KindOf(names[n]) = RevertKinds[IF named # {} THEN Min(named) ELSE 0]
  <2> HIDE DEF n
  <2> QED
    BY DEF KindOf, SelectInSeq
<1> HIDE DEF i, named, names
<1>5. Min(named) = n /\ named # {}
  BY <1>1, <1>2, <1>3, LeastOfOne
<1> QED
  BY <1>1, <1>2, <1>4, <1>5 DEF names, i

LEMMA InfoRead ==
  ASSUME NEW x \in NodeInfo
  PROVE  LET I == Consumer!AccountInfo(account_info_to_proto(x))
         IN InfoOf(I) = x /\ I.Balance # <<>>
<1> DEFINE I == Consumer!AccountInfo(account_info_to_proto(x))
           bytes == u256_to_bytes(x.balance)
<1>1. x.balance \in Words /\ x = [balance |-> x.balance, nonce |-> x.nonce, code_hash |-> x.code_hash]
  BY DEF NodeInfo
<1>2. I.Balance = bytes /\ I.Nonce = x.nonce /\ I.CodeHash = <<x.code_hash>>
  <2> HIDE DEF bytes
  <2>1. account_info_to_proto(x) = [balance |-> bytes, nonce |-> x.nonce, code_hash |-> <<x.code_hash>>]
    BY DEF account_info_to_proto, bytes, b256_to_bytes
  <2> QED
    BY <2>1 DEF Consumer!AccountInfo
<1>3. Number(bytes) = x.balance /\ bytes # <<>>
  BY <1>1, NumberOfBytes
<1> HIDE DEF I, bytes
<1>4. InfoOf(I) = x
  BY <1>1, <1>2, <1>3 DEF InfoOf, Hash
<1> QED
  BY <1>2, <1>3, <1>4 DEF I

LEMMA OptInfoRead ==
  ASSUME NEW o \in Option(NodeInfo)
  PROVE  OptInfoOf(Consumer!AccountInfo(OrDefault(o, account_info_to_proto, NoInfo))) = o
<1> DEFINE m == OrDefault(o, account_info_to_proto, NoInfo)
<1>1. o = <<>> \/ (o[1] \in NodeInfo /\ o = <<o[1]>> /\ o # <<>>)
  BY OptionValue
<1>2. m = IF o # <<>> THEN account_info_to_proto(o[1]) ELSE NoInfo
  BY DEF OrDefault, IsSome, None
<1> HIDE DEF m
<1>3. CASE o = <<>>
  <2>1. m = NoInfo
    BY <1>2, <1>3
  <2>2. Consumer!AccountInfo(NoInfo).Balance = <<>>
    BY DEF Consumer!AccountInfo, NoInfo
  <2> QED
    BY <1>3, <2>1, <2>2 DEF OptInfoOf, None, m
<1>4. CASE o # <<>>
  <2> DEFINE I == Consumer!AccountInfo(account_info_to_proto(o[1]))
  <2>1. InfoOf(I) = o[1] /\ I.Balance # <<>>
    BY <1>1, <1>4, InfoRead
  <2>2. Consumer!AccountInfo(m) = I
    BY <1>2, <1>4
  <2> HIDE DEF I
  <2>3. OptInfoOf(I) = <<o[1]>>
    BY <2>1 DEF OptInfoOf, Some
  <2> QED
    BY <1>1, <1>4, <2>2, <2>3 DEF m
<1> QED
  BY <1>3, <1>4

\* A slot with its old and new value.
ReadSlot(s) == [key |-> Number(s.Key), previous |-> Number(s.Previous), present |-> Number(s.Current)]

LEMMA SlotRead ==
  ASSUME NEW x \in [key : Words, previous : Words, present : Words]
  PROVE  ReadSlot(Consumer!StorageSlotDiff(slot_diff(x))) = x
<1> DEFINE k == u256_to_bytes(x.key)
           o == u256_to_bytes(x.previous)
           n == u256_to_bytes(x.present)
           S == Consumer!StorageSlotDiff(slot_diff(x))
<1>1. /\ x.key \in Words /\ x.previous \in Words /\ x.present \in Words
      /\ x = [key |-> x.key, previous |-> x.previous, present |-> x.present]
  OBVIOUS
<1>2. S.Key = k /\ S.Previous = o /\ S.Current = n
  <2>1. slot_diff(x) = [key |-> k, previous |-> o, current |-> n]
    BY DEF slot_diff
  <2> HIDE DEF k, o, n
  <2> QED
    BY <2>1 DEF Consumer!StorageSlotDiff
<1>3. Number(k) = x.key /\ Number(o) = x.previous /\ Number(n) = x.present
  BY <1>1, NumberOfBytes
<1> HIDE DEF S, k, o, n
<1>4. ReadSlot(S) = x
  BY <1>1, <1>2, <1>3 DEF ReadSlot
<1> QED
  BY <1>4 DEF S

LEMMA AccountRead ==
  ASSUME NEW p \in Nat \X NodeAccount
  PROVE  AccountOf(Consumer!AccountDiff(account_diff_to_proto(p[1], p[2]))) = p
<1> DEFINE addr == p[1]
           acc == p[2]
           m == account_diff_to_proto(addr, acc)
           A == Consumer!AccountDiff(m)
           status == account_status_to_proto(acc.status)
           info == OrDefault(acc.info, account_info_to_proto, NoInfo)
           original == OrDefault(acc.original_info, account_info_to_proto, NoInfo)
           slots == [i \in DOMAIN acc.storage |-> slot_diff(acc.storage[i])]
           sent == [i \in DOMAIN slots |-> Consumer!StorageSlotDiff(slots[i])]
           back == [i \in DOMAIN sent |-> ReadSlot(sent[i])]
           Slots == [key : Words, previous : Words, present : Words]
<1>1. acc \in NodeAccount /\ p = <<addr, acc>>
  OBVIOUS
<1> HIDE DEF acc, addr
<1>2. /\ acc.status \in Range(AccountStatuses) /\ acc.info \in Option(NodeInfo)
      /\ acc.original_info \in Option(NodeInfo) /\ acc.storage \in Seq(Slots)
      /\ acc = [status |-> acc.status, info |-> acc.info, original_info |-> acc.original_info,
                storage |-> acc.storage]
  BY <1>1 DEF NodeAccount
<1>3. m = [address |-> <<addr>>, status |-> status, info |-> info, original_info |-> original,
           storage |-> slots]
  BY DEF account_diff_to_proto, addr_to_bytes, Each
<1> HIDE DEF m, status, info, original
<1>4. /\ A.Address = <<addr>> /\ A.Status = Consumer!AccountStatus[status + 1]
      /\ A.Info = <<Consumer!AccountInfo(info)>> /\ A.OriginalInfo = <<Consumer!AccountInfo(original)>>
      /\ A.Storage = sent
  <2>1. m.address = <<addr>> /\ m.status = status /\ m.info = info /\ m.original_info = original /\ m.storage = slots
    <3> HIDE DEF slots
    <3> QED
      BY <1>3
  <2>2. A = [Address |-> m.address, Status |-> Consumer!AccountStatus[m.status + 1],
             Info |-> <<Consumer!AccountInfo(m.info)>>, OriginalInfo |-> <<Consumer!AccountInfo(m.original_info)>>,
             Storage |-> [i \in DOMAIN m.storage |-> Consumer!StorageSlotDiff(m.storage[i])]]
    BY DEF Consumer!AccountDiff, Consumer!Some, Consumer!Each
  <2>3. [i \in DOMAIN m.storage |-> Consumer!StorageSlotDiff(m.storage[i])] = sent
    <3> HIDE DEF slots
    <3> QED
      BY <2>1 DEF sent
  <2> HIDE DEF A, sent, slots
  <2> QED
    BY <2>1, <2>2, <2>3
<1>5. AccountOf(A) = <<Hash(A.Address),
                       [status |-> StatusOf(A.Status), info |-> OptInfoOf(A.Info[1]),
                        original_info |-> OptInfoOf(A.OriginalInfo[1]),
                        storage |-> [i \in DOMAIN A.Storage |-> ReadSlot(A.Storage[i])]]>>
  <2> HIDE DEF A
  <2> QED
    BY DEF AccountOf, Each, ReadSlot
<1> HIDE DEF A
<1>6. StatusOf(A.Status) = acc.status
  BY <1>2, <1>4, StatusRead DEF status
<1>7. OptInfoOf(A.Info[1]) = acc.info /\ OptInfoOf(A.OriginalInfo[1]) = acc.original_info
  <2>1. A.Info[1] = Consumer!AccountInfo(info) /\ A.OriginalInfo[1] = Consumer!AccountInfo(original)
    BY <1>4
  <2>2. OptInfoOf(Consumer!AccountInfo(info)) = acc.info
    BY <1>2, OptInfoRead DEF info
  <2>3. OptInfoOf(Consumer!AccountInfo(original)) = acc.original_info
    BY <1>2, OptInfoRead DEF original
  <2> QED
    BY <2>1, <2>2, <2>3
<1>8. [i \in DOMAIN A.Storage |-> ReadSlot(A.Storage[i])] = acc.storage
  <2>1. ASSUME NEW i \in DOMAIN acc.storage, acc.storage[i] \in Slots PROVE back[i] = acc.storage[i]
    <3>1. back[i] = ReadSlot(Consumer!StorageSlotDiff(slot_diff(acc.storage[i])))
      OBVIOUS
    <3> QED
      BY <2>1, <3>1, SlotRead
  <2>2. back = [i \in DOMAIN acc.storage |-> back[i]]
    OBVIOUS
  <2> HIDE DEF back, sent, Slots
  <2>3. back = acc.storage
    BY <1>2, <2>1, <2>2, SameSeq
  <2> QED
    BY <1>4, <2>3 DEF back
<1> HIDE DEF sent, slots
<1>9. Hash(A.Address) = addr
  BY <1>4 DEF Hash
<1> QED
  BY <1>1, <1>2, <1>5, <1>6, <1>7, <1>8, <1>9 DEF A, m, addr, acc

SlotReverts == {s \in [key : Words, destroyed : BOOLEAN, value : Words] : s.destroyed => s.value = 0}

\* A revert to a value, zero included, or to nothing.
LEMMA SlotRevertSent ==
  ASSUME NEW x \in SlotReverts
  PROVE  LET S == Consumer!StorageRevert(slot_revert(x)) IN
         /\ S.Key = u256_to_bytes(x.key)
         /\ S.Value = IF x.destroyed THEN <<>> ELSE <<u256_to_bytes(x.value)>>
<1> DEFINE k == u256_to_bytes(x.key)
           v == u256_to_bytes(x.value)
           to == IF x.destroyed THEN [destroyed |-> TRUE] ELSE [value |-> v]
           m == slot_revert(x)
           S == Consumer!StorageRevert(m)
<1>1. m.key = k /\ m.revert_to = to
  <2>1. m = [key |-> k, revert_to |-> to]
    BY DEF slot_revert
  <2> HIDE DEF m, k, to
  <2> QED
    BY <2>1
<1>2. S.Key = m.key /\ S.Value = IF "value" \in DOMAIN m.revert_to THEN <<m.revert_to.value>> ELSE <<>>
  <2> HIDE DEF m
  <2> QED
    BY DEF Consumer!StorageRevert, Consumer!Some, Consumer!None
<1>3. x.destroyed => "value" \notin DOMAIN to
  <2> HIDE DEF v
  <2>1. x.destroyed => to = [destroyed |-> TRUE]
    OBVIOUS
  <2>2. DOMAIN [destroyed |-> TRUE] = {"destroyed"}
    OBVIOUS
  <2> HIDE DEF to
  <2> QED
    BY <2>1, <2>2
<1>4. ~x.destroyed => "value" \in DOMAIN to /\ to.value = v
  <2> HIDE DEF v
  <2>1. ~x.destroyed => to = [value |-> v]
    OBVIOUS
  <2>2. DOMAIN [value |-> v] = {"value"} /\ [value |-> v].value = v
    OBVIOUS
  <2> HIDE DEF to
  <2> QED
    BY <2>1, <2>2
<1> HIDE DEF S, m, k, v, to
<1>5. S.Value = IF x.destroyed THEN <<>> ELSE <<v>>
  BY <1>1, <1>2, <1>3, <1>4
<1> QED
  BY <1>1, <1>2, <1>5 DEF S, m, k, v

LEMMA SlotRevertRead ==
  ASSUME NEW x \in SlotReverts
  PROVE  SlotRevertOf(Consumer!StorageRevert(slot_revert(x))) = x
<1> DEFINE k == u256_to_bytes(x.key)
           v == u256_to_bytes(x.value)
           S == Consumer!StorageRevert(slot_revert(x))
<1>1. /\ x.key \in Words /\ x.value \in Words /\ x.destroyed \in BOOLEAN /\ (x.destroyed => x.value = 0)
      /\ x = [key |-> x.key, destroyed |-> x.destroyed, value |-> x.value]
  BY DEF SlotReverts
<1>2. S.Key = k /\ S.Value = IF x.destroyed THEN <<>> ELSE <<v>>
  BY SlotRevertSent
<1>3. Number(k) = x.key /\ Number(v) = x.value
  BY <1>1, NumberOfBytes
<1>4. SlotRevertOf(S) = [key |-> Number(S.Key), destroyed |-> S.Value = <<>>,
                         value |-> IF S.Value # <<>> THEN Number(S.Value[1]) ELSE 0]
  <2> HIDE DEF S
  <2> QED
    BY DEF SlotRevertOf, OrDefault, IsSome, None
<1> HIDE DEF S, k, v
<1>5. x.destroyed => S.Value = <<>>
  BY <1>2
<1>6. ~x.destroyed => S.Value # <<>> /\ S.Value[1] = v
  BY <1>2
<1>7. (S.Value = <<>>) = x.destroyed
  BY <1>1, <1>5, <1>6
<1>8. (IF S.Value # <<>> THEN Number(S.Value[1]) ELSE 0) = x.value
  BY <1>1, <1>3, <1>5, <1>6
<1> QED
  BY <1>1, <1>2, <1>3, <1>4, <1>7, <1>8 DEF S

LEMMA RevertRead ==
  ASSUME NEW p \in Nat \X NodeRevert
  PROVE  RevertOf(Consumer!AccountRevert(account_revert_to_proto(p[1], p[2]))) = p
<1> DEFINE addr == p[1]
           rev == p[2]
           m == account_revert_to_proto(addr, rev)
           R == Consumer!AccountRevert(m)
           number == (CHOOSE i \in 1..3 : RevertKinds[i] = rev.kind) - 1
           previous == account_status_to_proto(rev.previous_status)
           infos == [i \in DOMAIN rev.info |-> account_info_to_proto(rev.info[i])]
           slots == [i \in DOMAIN rev.storage |-> slot_revert(rev.storage[i])]
           sentInfos == [i \in DOMAIN infos |-> Consumer!AccountInfo(infos[i])]
           sentSlots == [i \in DOMAIN slots |-> Consumer!StorageRevert(slots[i])]
           readInfos == [i \in DOMAIN sentInfos |-> InfoOf(sentInfos[i])]
           readSlots == [i \in DOMAIN sentSlots |-> SlotRevertOf(sentSlots[i])]
<1>1. rev \in NodeRevert /\ p = <<addr, rev>>
  OBVIOUS
<1> HIDE DEF rev, addr
<1>2. /\ rev.kind \in Range(RevertKinds) /\ rev.info \in Option(NodeInfo)
      /\ rev.storage \in Seq(SlotReverts) /\ rev.previous_status \in Range(AccountStatuses)
      /\ rev = [kind |-> rev.kind, info |-> rev.info, storage |-> rev.storage,
                previous_status |-> rev.previous_status, wipe_storage |-> rev.wipe_storage]
  BY <1>1 DEF NodeRevert, SlotReverts
<1>3. m = [address |-> <<addr>>, kind |-> number, revert_to_info |-> infos, storage |-> slots,
           previous_status |-> previous, wipe_storage |-> rev.wipe_storage]
  BY DEF account_revert_to_proto, addr_to_bytes, Each
<1> HIDE DEF m, number, previous
<1>4. /\ R.Address = <<addr>> /\ R.Kind = Consumer!AccountRevertKind[number + 1]
      /\ R.RevertToInfo = sentInfos /\ R.Storage = sentSlots
      /\ R.PreviousStatus = Consumer!AccountStatus[previous + 1] /\ R.WipeStorage = rev.wipe_storage
  <2>1. /\ m.address = <<addr>> /\ m.kind = number /\ m.revert_to_info = infos /\ m.storage = slots
        /\ m.previous_status = previous /\ m.wipe_storage = rev.wipe_storage
    <3> HIDE DEF infos, slots
    <3> QED
      BY <1>3
  <2>2. R = [Address |-> m.address, Kind |-> Consumer!AccountRevertKind[m.kind + 1],
             RevertToInfo |-> [i \in DOMAIN m.revert_to_info |-> Consumer!AccountInfo(m.revert_to_info[i])],
             Storage |-> [i \in DOMAIN m.storage |-> Consumer!StorageRevert(m.storage[i])],
             PreviousStatus |-> Consumer!AccountStatus[m.previous_status + 1], WipeStorage |-> m.wipe_storage]
    BY DEF Consumer!AccountRevert, Consumer!Each
  <2>3. /\ [i \in DOMAIN m.revert_to_info |-> Consumer!AccountInfo(m.revert_to_info[i])] = sentInfos
        /\ [i \in DOMAIN m.storage |-> Consumer!StorageRevert(m.storage[i])] = sentSlots
    <3> HIDE DEF slots, infos
    <3> QED
      BY <2>1
  <2> HIDE DEF R, sentInfos, sentSlots, infos, slots
  <2> QED
    BY <2>1, <2>2, <2>3
<1>5. RevertOf(R) = <<Hash(R.Address),
                      [kind |-> KindOf(R.Kind),
                       info |-> [i \in DOMAIN R.RevertToInfo |-> InfoOf(R.RevertToInfo[i])],
                       storage |-> [i \in DOMAIN R.Storage |-> SlotRevertOf(R.Storage[i])],
                       previous_status |-> StatusOf(R.PreviousStatus), wipe_storage |-> R.WipeStorage]>>
  <2> HIDE DEF R
  <2> QED
    BY DEF RevertOf, Each
<1> HIDE DEF R
<1>6. KindOf(R.Kind) = rev.kind /\ StatusOf(R.PreviousStatus) = rev.previous_status
  <2>1. KindOf(R.Kind) = rev.kind
    BY <1>2, <1>4, KindRead DEF number
  <2>2. StatusOf(R.PreviousStatus) = rev.previous_status
    BY <1>2, <1>4, StatusRead DEF previous
  <2> QED
    BY <2>1, <2>2
<1>7. [i \in DOMAIN R.RevertToInfo |-> InfoOf(R.RevertToInfo[i])] = rev.info
  <2>1. ASSUME NEW i \in DOMAIN rev.info, rev.info[i] \in NodeInfo PROVE readInfos[i] = rev.info[i]
    <3>1. readInfos[i] = InfoOf(Consumer!AccountInfo(account_info_to_proto(rev.info[i])))
      OBVIOUS
    <3> QED
      BY <2>1, <3>1, InfoRead
  <2>2. readInfos = [i \in DOMAIN rev.info |-> readInfos[i]]
    OBVIOUS
  <2>3. rev.info \in Seq(NodeInfo)
    BY <1>2 DEF Option
  <2> HIDE DEF readInfos, sentInfos
  <2> DEFINE o == rev.info
  <2> HIDE DEF o
  <2>4. readInfos = o
    <3>1. \A i \in DOMAIN o : o[i] \in NodeInfo => readInfos[i] = o[i]
      BY <2>1 DEF o
    <3>2. o \in Seq(NodeInfo) /\ readInfos = [i \in DOMAIN o |-> readInfos[i]]
      BY <2>2, <2>3 DEF o
    <3> QED
      BY <3>1, <3>2, SameSeq
  <2> QED
    BY <1>4, <2>4 DEF readInfos, o
<1>8. [i \in DOMAIN R.Storage |-> SlotRevertOf(R.Storage[i])] = rev.storage
  <2>1. ASSUME NEW i \in DOMAIN rev.storage, rev.storage[i] \in SlotReverts PROVE readSlots[i] = rev.storage[i]
    <3>1. readSlots[i] = SlotRevertOf(Consumer!StorageRevert(slot_revert(rev.storage[i])))
      OBVIOUS
    <3> QED
      BY <2>1, <3>1, SlotRevertRead
  <2>2. readSlots = [i \in DOMAIN rev.storage |-> readSlots[i]]
    OBVIOUS
  <2> HIDE DEF readSlots, sentSlots
  <2>3. readSlots = rev.storage
    BY <1>2, <2>1, <2>2, SameSeq
  <2> QED
    BY <1>4, <2>3 DEF readSlots
<1> HIDE DEF sentInfos, sentSlots, infos, slots, readInfos, readSlots
<1>9. Hash(R.Address) = addr
  BY <1>4 DEF Hash
<1> QED
  BY <1>1, <1>2, <1>4, <1>5, <1>6, <1>7, <1>8, <1>9 DEF R, m, addr, rev

\* The three parts of a state diff, in the order of the maps.
AccountsOf(b) == [i \in DOMAIN b.state |-> Consumer!AccountDiff(account_diff_to_proto(b.state[i][1], b.state[i][2]))]
ContractsOf(b) ==
  [i \in DOMAIN b.contracts |->
     Consumer!ContractDiff([code_hash |-> b256_to_bytes(b.contracts[i][1]), bytecode |-> b.contracts[i][2]])]
BlockRevertsOf(s) ==
  [i \in DOMAIN s |-> Consumer!AccountRevert(account_revert_to_proto(s[i][1], s[i][2]))]
RevertsOf(b) == [i \in DOMAIN b.reverts |-> [Accounts |-> BlockRevertsOf(b.reverts[i])]]

LEMMA DiffStruct ==
  ASSUME NEW b
  PROVE  LET D == Consumer!StateDiff(state_diff_to_proto(b)) IN
         D.Accounts = AccountsOf(b) /\ D.Contracts = ContractsOf(b) /\ D.Reverts = RevertsOf(b)
<1> DEFINE m == state_diff_to_proto(b)
           D == Consumer!StateDiff(m)
           accounts == [i \in DOMAIN b.state |-> account_diff_to_proto(b.state[i][1], b.state[i][2])]
           contracts == [i \in DOMAIN b.contracts |->
                           [code_hash |-> b256_to_bytes(b.contracts[i][1]), bytecode |-> b.contracts[i][2]]]
           block(s) == [i \in DOMAIN s |-> account_revert_to_proto(s[i][1], s[i][2])]
           reverts == [i \in DOMAIN b.reverts |-> [accounts |-> block(b.reverts[i])]]
<1>1. m = [accounts |-> accounts, contracts |-> contracts, reverts |-> reverts]
  BY DEF state_diff_to_proto, Each
<1>2. m.accounts = accounts /\ m.contracts = contracts /\ m.reverts = reverts
  <2> HIDE DEF m, accounts, contracts, reverts
  <2> QED
    BY <1>1
<1>3. /\ D.Accounts = [i \in DOMAIN m.accounts |-> Consumer!AccountDiff(m.accounts[i])]
      /\ D.Contracts = [i \in DOMAIN m.contracts |-> Consumer!ContractDiff(m.contracts[i])]
      /\ D.Reverts = [i \in DOMAIN m.reverts |-> Consumer!BlockReverts(m.reverts[i])]
  <2> HIDE DEF m
  <2> QED
    BY DEF Consumer!StateDiff, Consumer!Each
<1> HIDE DEF m, D
<1>4. [i \in DOMAIN accounts |-> Consumer!AccountDiff(accounts[i])] = AccountsOf(b)
  BY DEF AccountsOf
<1>5. [i \in DOMAIN contracts |-> Consumer!ContractDiff(contracts[i])] = ContractsOf(b)
  BY DEF ContractsOf
<1>6. [i \in DOMAIN reverts |-> Consumer!BlockReverts(reverts[i])] = RevertsOf(b)
  <2>1. ASSUME NEW s PROVE Consumer!BlockReverts([accounts |-> block(s)]) = [Accounts |-> BlockRevertsOf(s)]
    <3> DEFINE r == [accounts |-> block(s)]
    <3>1. Consumer!BlockReverts(r) = [Accounts |-> [i \in DOMAIN r.accounts |-> Consumer!AccountRevert(r.accounts[i])]]
      <4> HIDE DEF r
      <4> QED
        BY DEF Consumer!BlockReverts, Consumer!Each
    <3>2. r.accounts = block(s)
      <4> HIDE DEF block
      <4> QED
        OBVIOUS
    <3>3. [i \in DOMAIN block(s) |-> Consumer!AccountRevert(block(s)[i])] = BlockRevertsOf(s)
      BY DEF BlockRevertsOf
    <3> HIDE DEF r
    <3>4. [i \in DOMAIN r.accounts |-> Consumer!AccountRevert(r.accounts[i])] = BlockRevertsOf(s)
      <4> HIDE DEF block
      <4> QED
        BY <3>2, <3>3
    <3> HIDE DEF block
    <3> QED
      BY <3>1, <3>4 DEF r
  <2> HIDE DEF block
  <2> QED
    BY <2>1 DEF RevertsOf
<1> HIDE DEF accounts, contracts, reverts
<1>7. D.Accounts = AccountsOf(b) /\ D.Contracts = ContractsOf(b) /\ D.Reverts = RevertsOf(b)
  BY <1>2, <1>3, <1>4, <1>5, <1>6
<1> QED
  BY <1>7 DEF D, m

LEMMA ContractRead ==
  ASSUME NEW p \in Nat \X Digits
  PROVE  LET C == Consumer!ContractDiff([code_hash |-> b256_to_bytes(p[1]), bytecode |-> p[2]])
         IN  <<Hash(C.CodeHash), C.Bytecode>> = p /\ C.CodeHash = <<p[1]>> /\ C.Bytecode = p[2]
<1> DEFINE C == Consumer!ContractDiff([code_hash |-> b256_to_bytes(p[1]), bytecode |-> p[2]])
<1>1. C.CodeHash = <<p[1]>> /\ C.Bytecode = p[2]
  BY DEF Consumer!ContractDiff, b256_to_bytes
<1>2. p = <<p[1], p[2]>>
  OBVIOUS
<1> HIDE DEF C
<1> QED
  BY <1>1, <1>2 DEF Hash, C

LEMMA BlockRevertsRead ==
  ASSUME NEW s \in Seq(Nat \X NodeRevert)
  PROVE  [i \in DOMAIN BlockRevertsOf(s) |-> RevertOf(BlockRevertsOf(s)[i])] = s
<1> DEFINE S == Nat \X NodeRevert
           t == [i \in DOMAIN BlockRevertsOf(s) |-> RevertOf(BlockRevertsOf(s)[i])]
<1>1. ASSUME NEW i \in DOMAIN s, s[i] \in S PROVE t[i] = s[i]
  <2>1. t[i] = RevertOf(Consumer!AccountRevert(account_revert_to_proto(s[i][1], s[i][2])))
    BY DEF BlockRevertsOf
  <2> QED
    BY <1>1, <2>1, RevertRead
<1>2. t = [i \in DOMAIN s |-> t[i]]
  BY DEF BlockRevertsOf
<1>3. s \in Seq(S)
  OBVIOUS
<1> HIDE DEF t, S
<1>4. t = s
  BY <1>1, <1>2, <1>3, SameSeq
<1> QED
  BY <1>4 DEF t

LEMMA BundleRead ==
  ASSUME NEW b \in NodeBundle
  PROVE  BundleOf(Consumer!StateDiff(state_diff_to_proto(b))) = b
<1> DEFINE D == Consumer!StateDiff(state_diff_to_proto(b))
           contract(c) == <<Hash(c.CodeHash), c.Bytecode>>
           reverts(r) == [i \in DOMAIN r.Accounts |-> RevertOf(r.Accounts[i])]
           readState == [i \in DOMAIN D.Accounts |-> AccountOf(D.Accounts[i])]
           readContracts == [i \in DOMAIN D.Contracts |-> contract(D.Contracts[i])]
           readReverts == [i \in DOMAIN D.Reverts |-> reverts(D.Reverts[i])]
           Accounts == Nat \X NodeAccount
           Codes == Nat \X Digits
           Blocks == Seq(Nat \X NodeRevert)
<1>1. /\ b.state \in Seq(Accounts) /\ b.contracts \in Seq(Codes) /\ b.reverts \in Seq(Blocks)
      /\ b = [state |-> b.state, contracts |-> b.contracts, reverts |-> b.reverts]
  BY DEF NodeBundle
<1>2. D.Accounts = AccountsOf(b) /\ D.Contracts = ContractsOf(b) /\ D.Reverts = RevertsOf(b)
  BY DiffStruct
<1>3. BundleOf(D) = [state |-> readState, contracts |-> readContracts, reverts |-> readReverts]
  <2> HIDE DEF D
  <2> QED
    BY DEF BundleOf, Each
<1> HIDE DEF D
<1>4. readState = b.state
  <2>1. ASSUME NEW i \in DOMAIN b.state, b.state[i] \in Accounts PROVE readState[i] = b.state[i]
    <3>1. readState[i] = AccountOf(Consumer!AccountDiff(account_diff_to_proto(b.state[i][1], b.state[i][2])))
      BY <1>2 DEF AccountsOf
    <3> QED
      BY <2>1, <3>1, AccountRead
  <2>2. readState = [i \in DOMAIN b.state |-> readState[i]]
    BY <1>2 DEF AccountsOf
  <2> HIDE DEF readState, Accounts
  <2> QED
    BY <1>1, <2>1, <2>2, SameSeq
<1>5. readContracts = b.contracts
  <2>1. ASSUME NEW i \in DOMAIN b.contracts, b.contracts[i] \in Codes PROVE readContracts[i] = b.contracts[i]
    <3> DEFINE C == Consumer!ContractDiff([code_hash |-> b256_to_bytes(b.contracts[i][1]),
                                           bytecode |-> b.contracts[i][2]])
    <3>1. readContracts[i] = contract(C)
      <4> HIDE DEF contract
      <4> QED
        BY <1>2 DEF ContractsOf
    <3>2. contract(C) = b.contracts[i]
      BY <2>1, ContractRead
    <3> HIDE DEF readContracts, contract, C
    <3> QED
      BY <3>1, <3>2
  <2>2. readContracts = [i \in DOMAIN b.contracts |-> readContracts[i]]
    BY <1>2 DEF ContractsOf
  <2> HIDE DEF readContracts, Codes
  <2> QED
    BY <1>1, <2>1, <2>2, SameSeq
<1>6. readReverts = b.reverts
  <2>1. ASSUME NEW i \in DOMAIN b.reverts, b.reverts[i] \in Blocks PROVE readReverts[i] = b.reverts[i]
    <3> DEFINE s == b.reverts[i]
               r == [Accounts |-> BlockRevertsOf(s)]
    <3>1. readReverts[i] = reverts(r)
      <4> HIDE DEF reverts
      <4> QED
        BY <1>2 DEF RevertsOf
    <3>2. r.Accounts = BlockRevertsOf(s)
      OBVIOUS
    <3> HIDE DEF r, s
    <3>3. reverts(r) = [k \in DOMAIN BlockRevertsOf(s) |-> RevertOf(BlockRevertsOf(s)[k])]
      BY <3>2
    <3>4. [k \in DOMAIN BlockRevertsOf(s) |-> RevertOf(BlockRevertsOf(s)[k])] = s
      BY <2>1, BlockRevertsRead DEF s
    <3> HIDE DEF reverts, readReverts
    <3> QED
      BY <3>1, <3>3, <3>4 DEF s
  <2>2. readReverts = [i \in DOMAIN b.reverts |-> readReverts[i]]
    BY <1>2 DEF RevertsOf
  <2> HIDE DEF readReverts, Blocks
  <2> QED
    BY <1>1, <2>1, <2>2, SameSeq
<1> HIDE DEF readState, readContracts, readReverts
<1> QED
  BY <1>1, <1>3, <1>4, <1>5, <1>6 DEF D

-----------------------------------------------------------------------------
(* Reading a message.                                                      *)

\* The chains go-consumer decodes are those sent for its options.
LEMMA DecodedAre ==
  ASSUME IInv, program = "consumer", NEW s \in Decoded
  PROVE  /\ NodeChain(s[1]) /\ s[2] = Consumer!Chain(chain_to_proto(s[1], flags))
         /\ flags = options
<1> DEFINE m(c) == chain_to_proto(c, flags)
           n == Consumer!Notification(msg)
           C == n.ChainCommitted
           R == n.ChainReorged
           V == n.ChainReverted
           cNew == [i \in DOMAIN C |-> <<notif.new, C[i].New[1]>>]
           rOld == [i \in DOMAIN R |-> <<notif.old, R[i].Old[1]>>]
           rNew == [i \in DOMAIN R |-> <<notif.new, R[i].New[1]>>]
           vOld == [i \in DOMAIN V |-> <<notif.old, V[i].Old[1]>>]
<1>1. \/ \E i \in DOMAIN C : s = <<notif.new, C[i].New[1]>>
      \/ \E i \in DOMAIN R : s = <<notif.old, R[i].Old[1]>>
      \/ \E i \in DOMAIN R : s = <<notif.new, R[i].New[1]>>
      \/ \E i \in DOMAIN V : s = <<notif.old, V[i].Old[1]>>
  <2>1. Decoded = UNION {Range(cNew), Range(rOld), Range(rNew), Range(vOld)}
    <3> HIDE DEF n
    <3> QED
      BY DEF Decoded, Each, n
  <2>2. s \in Range(cNew) \/ s \in Range(rOld) \/ s \in Range(rNew) \/ s \in Range(vOld)
    <3> HIDE DEF cNew, rOld, rNew, vOld
    <3> QED
      BY <2>1
  <2> HIDE DEF C, R, V
  <2> QED
    BY <2>2 DEF Range
<1>2. /\ C = IF msg.event = "Committed" THEN <<[New |-> Consumer!Each(msg.new, Consumer!Chain)]>> ELSE <<>>
      /\ R = IF msg.event = "Reorged" THEN <<[Old |-> Consumer!Each(msg.old, Consumer!Chain),
                                              New |-> Consumer!Each(msg.new, Consumer!Chain)]>> ELSE <<>>
      /\ V = IF msg.event = "Reverted" THEN <<[Old |-> Consumer!Each(msg.old, Consumer!Chain)]>> ELSE <<>>
  BY DEF Consumer!Notification, Consumer!Some, Consumer!None, Consumer!ChainCommitted, Consumer!ChainReorged,
         Consumer!ChainReverted
<1>3. \A c, o : o = Some(c) => Consumer!Each(o, Consumer!Chain)[1] = Consumer!Chain(c)
  BY DEF Consumer!Each, Some
<1> HIDE DEF C, R, V
<1>4. /\ \A i \in DOMAIN C : msg.event = "Committed" /\ C[i].New = Consumer!Each(msg.new, Consumer!Chain)
      /\ \A i \in DOMAIN R : /\ msg.event = "Reorged" /\ R[i].New = Consumer!Each(msg.new, Consumer!Chain)
                             /\ R[i].Old = Consumer!Each(msg.old, Consumer!Chain)
      /\ \A i \in DOMAIN V : msg.event = "Reverted" /\ V[i].Old = Consumer!Each(msg.old, Consumer!Chain)
  BY <1>2
<1>5. msg.event \in {"Committed", "Reorged", "Reverted"}
  BY <1>1, <1>4
<1>6. notif.kind # "none"
  BY <1>5, Kinds DEF IInv, Handed, NoMsg, NoNotif
<1>7. /\ Request = Consumer!Request(options)
      /\ msg.event = notif.kind /\ flags = {f \in Parts : Request[f]}
      /\ notif.kind # "Committed" => NodeChain(notif.old) /\ msg.old = Some(m(notif.old))
      /\ notif.kind # "Reverted" => NodeChain(notif.new) /\ msg.new = Some(m(notif.new))
  BY <1>6, Delivered DEF Request
<1>8. flags = options
  <2>1. options \in SUBSET Parts
    BY DEF IInv, Started
  <2>2. \A f \in Parts : Request[f] <=> f \in options
    BY <1>7 DEF Consumer!Request, Consumer!SubscribeRequest, Parts
  <2> QED
    BY <1>7, <2>1, <2>2
<1> HIDE DEF m
<1>9. /\ notif.kind # "Committed" => Consumer!Each(msg.old, Consumer!Chain)[1] = Consumer!Chain(m(notif.old))
      /\ notif.kind # "Reverted" => Consumer!Each(msg.new, Consumer!Chain)[1] = Consumer!Chain(m(notif.new))
  BY <1>3, <1>7
<1>10. CASE \E i \in DOMAIN C : s = <<notif.new, C[i].New[1]>>
  <2>1. notif.kind # "Reverted" /\ s = <<notif.new, Consumer!Chain(m(notif.new))>>
    BY <1>4, <1>7, <1>9, <1>10
  <2> QED
    BY <1>7, <1>8, <2>1 DEF m
<1>11. CASE \E i \in DOMAIN R : s = <<notif.old, R[i].Old[1]>>
  <2>1. notif.kind # "Committed" /\ s = <<notif.old, Consumer!Chain(m(notif.old))>>
    BY <1>4, <1>7, <1>9, <1>11
  <2> QED
    BY <1>7, <1>8, <2>1 DEF m
<1>12. CASE \E i \in DOMAIN R : s = <<notif.new, R[i].New[1]>>
  <2>1. notif.kind # "Reverted" /\ s = <<notif.new, Consumer!Chain(m(notif.new))>>
    BY <1>4, <1>7, <1>9, <1>12
  <2> QED
    BY <1>7, <1>8, <2>1 DEF m
<1>13. CASE \E i \in DOMAIN V : s = <<notif.old, V[i].Old[1]>>
  <2>1. notif.kind # "Committed" /\ s = <<notif.old, Consumer!Chain(m(notif.old))>>
    BY <1>4, <1>7, <1>9, <1>13
  <2> QED
    BY <1>7, <1>8, <2>1 DEF m
<1> QED
  BY <1>1, <1>10, <1>11, <1>12, <1>13

\* A block as it is decoded, and as it is read.
LEMMA BlockRead ==
  ASSUME NEW b \in NodeBlock
  PROVE  LET B == Consumer!BlockWithReceipts(block_with_receipts_to_proto(b, flags)) IN
         /\ "headers" \in flags => HeaderOf(B.Header[1]) = b.header
         /\ "transactions" \in flags => Each(B.Txs, TxOf) = b.txs /\ Each(B.Senders, Hash) = b.senders
<1> DEFINE m == block_with_receipts_to_proto(b, flags)
           B == Consumer!BlockWithReceipts(m)
           H == header_to_proto(b.header)
           txs == [i \in DOMAIN b.txs |-> tx_to_proto(b.txs[i])]
           sent == [i \in DOMAIN b.senders |-> addr_to_bytes(b.senders[i])]
           header == IF "headers" \in flags THEN <<H>> ELSE <<>>
           sentTxs == IF "transactions" \in flags THEN txs ELSE <<>>
           senders == IF "transactions" \in flags THEN sent ELSE <<>>
           receipts == IF "receipts" \in flags THEN Each(b.receipts, receipt_to_proto) ELSE <<>>
           withdrawals == IF "withdrawals" \in flags
                             THEN OrDefault(b.withdrawals, LAMBDA ws : Each(ws, withdrawal_to_proto), <<>>) ELSE <<>>
<1>1. m.header = header /\ m.txs = sentTxs /\ m.senders = senders
  <2>1. m = [header |-> header, txs |-> sentTxs, senders |-> senders, receipts |-> receipts,
             withdrawals |-> withdrawals]
    <3> HIDE DEF H
    <3> QED
      BY Zenon DEF block_with_receipts_to_proto, Each, Some, None, H
  <2> HIDE DEF m, header, sentTxs, senders, receipts, withdrawals
  <2> QED
    BY <2>1
<1>2. /\ B.Header = [i \in DOMAIN m.header |-> Consumer!BlockHeader(m.header[i])]
      /\ B.Txs = [i \in DOMAIN m.txs |-> Consumer!Transaction(m.txs[i])]
      /\ B.Senders = m.senders
  <2> HIDE DEF m
  <2> QED
    BY DEF Consumer!BlockWithReceipts, Consumer!Each
<1>3. b.header \in NodeHeader /\ b.txs \in Seq(NodeTx) /\ b.senders \in Seq(Nat)
  BY DEF NodeBlock
<1> HIDE DEF m, B, H
<1>4. ASSUME "headers" \in flags PROVE HeaderOf(B.Header[1]) = b.header
  <2>1. B.Header[1] = Consumer!BlockHeader(H)
    BY <1>1, <1>2, <1>4
  <2> QED
    BY <1>3, <2>1, HeaderRead DEF H
<1>5. ASSUME "transactions" \in flags PROVE Each(B.Txs, TxOf) = b.txs
  <2> DEFINE t == [i \in DOMAIN b.txs |-> TxOf(Consumer!Transaction(tx_to_proto(b.txs[i])))]
  <2>1. Each(B.Txs, TxOf) = t
    BY <1>1, <1>2, <1>5 DEF Each
  <2>2. ASSUME NEW i \in DOMAIN b.txs, b.txs[i] \in NodeTx PROVE t[i] = b.txs[i]
    BY <2>2, TxRead
  <2>3. t = [i \in DOMAIN b.txs |-> t[i]]
    OBVIOUS
  <2> HIDE DEF t
  <2> DEFINE o == b.txs
  <2> HIDE DEF o
  <2>4. t = o
    <3>1. \A i \in DOMAIN o : o[i] \in NodeTx => t[i] = o[i]
      BY <2>2 DEF o
    <3>2. o \in Seq(NodeTx) /\ t = [i \in DOMAIN o |-> t[i]]
      BY <1>3, <2>3 DEF o
    <3> QED
      BY <3>1, <3>2, SameSeq
  <2> QED
    BY <2>1, <2>4 DEF o
<1>6. ASSUME "transactions" \in flags PROVE Each(B.Senders, Hash) = b.senders
  <2>1. Each(B.Senders, Hash) = [i \in DOMAIN b.senders |-> b.senders[i]]
    BY <1>1, <1>2, <1>6 DEF Each, Hash, addr_to_bytes
  <2>2. b.senders = [i \in DOMAIN b.senders |-> b.senders[i]]
    BY <1>3, LenProperties
  <2> QED
    BY <2>1, <2>2
<1> QED
  BY <1>4, <1>5, <1>6 DEF B, m

LEMMA MessageRead == IInv => MessageReadable
<1> SUFFICES ASSUME IInv, program = "consumer" PROVE MessageReadable
  BY DEF MessageReadable
<1> DEFINE C(c) == Consumer!Chain(chain_to_proto(c, flags))
<1>1. ASSUME NEW s \in Decoded
      PROVE  /\ NodeChain(s[1]) /\ flags = options
             /\ s[2].Blocks = [i \in DOMAIN s[1].blocks |->
                                 Consumer!BlockWithReceipts(block_with_receipts_to_proto(s[1].blocks[i], flags))]
             /\ "state_diff" \in flags =>
                  s[2].StateDiff[1] = Consumer!StateDiff(state_diff_to_proto(s[1].bundle))
  <2> DEFINE c == s[1]
             m == chain_to_proto(c, flags)
             bs == [i \in DOMAIN m.blocks |-> Consumer!BlockWithReceipts(m.blocks[i])]
             ds == [i \in DOMAIN m.state_diff |-> Consumer!StateDiff(m.state_diff[i])]
             ts == [i \in DOMAIN m.call_traces |-> Consumer!BlockCallTraces(m.call_traces[i])]
             D == state_diff_to_proto(c.bundle)
  <2>1. NodeChain(c) /\ s[2] = Consumer!Chain(m) /\ flags = options
    BY DecodedAre
  <2>2. /\ m.blocks = [i \in DOMAIN c.blocks |-> block_with_receipts_to_proto(c.blocks[i], flags)]
        /\ m.state_diff = IF "state_diff" \in flags THEN Some(D) ELSE None
    BY ChainMessage
  <2>3. s[2].Blocks = bs /\ s[2].StateDiff = ds
    <3> HIDE DEF m, c
    <3>1. Consumer!Chain(m) = [Blocks |-> bs, StateDiff |-> ds, CallTraces |-> ts]
      BY DEF Consumer!Chain, Consumer!Each
    <3> HIDE DEF bs, ds, ts
    <3>2. Consumer!Chain(m).Blocks = bs /\ Consumer!Chain(m).StateDiff = ds
      BY <3>1
    <3> QED
      BY <2>1, <3>2
  <2> HIDE DEF m, c, D
  <2>4. bs = [i \in DOMAIN c.blocks |-> Consumer!BlockWithReceipts(block_with_receipts_to_proto(c.blocks[i], flags))]
    BY <2>2
  <2>5. "state_diff" \in flags => ds[1] = Consumer!StateDiff(D)
    BY <2>2 DEF Some
  <2> HIDE DEF bs, ds
  <2> QED
    BY <2>1, <2>3, <2>4, <2>5 DEF c, D
<1>2. ASSUME NEW p \in DecodedBlocks
      PROVE  /\ "headers" \in options => HeaderOf(p[2].Header[1]) = p[1].header
             /\ "transactions" \in options =>
                  Each(p[2].Txs, TxOf) = p[1].txs /\ Each(p[2].Senders, Hash) = p[1].senders
  <2>1. PICK s \in Decoded : \E i \in DOMAIN s[1].blocks : p = <<s[1].blocks[i], s[2].Blocks[i]>>
    BY DEF DecodedBlocks
  <2>2. PICK i \in DOMAIN s[1].blocks : p = <<s[1].blocks[i], s[2].Blocks[i]>>
    BY <2>1
  <2> DEFINE b == s[1].blocks[i]
             B == Consumer!BlockWithReceipts(block_with_receipts_to_proto(b, flags))
  <2>3. p[1] = b /\ p[2] = B /\ flags = options
    BY <1>1, <2>2
  <2>4. b \in NodeBlock
    <3>1. s[1].blocks \in Seq(NodeBlock)
      BY <1>1 DEF NodeChain
    <3> QED
      BY <3>1, LenProperties, ElementOfSeq
  <2>5. /\ "headers" \in flags => HeaderOf(B.Header[1]) = b.header
        /\ "transactions" \in flags => Each(B.Txs, TxOf) = b.txs /\ Each(B.Senders, Hash) = b.senders
    BY <2>4, BlockRead
  <2> HIDE DEF b, B
  <2>6. Each(p[2].Txs, TxOf) = Each(B.Txs, TxOf) /\ Each(p[2].Senders, Hash) = Each(B.Senders, Hash)
    BY <2>3 DEF Each
  <2> QED
    BY <2>3, <2>5, <2>6
<1>3. ASSUME NEW s \in Decoded, "state_diff" \in options
      PROVE  BundleOf(s[2].StateDiff[1]) = s[1].bundle
  <2>1. s[2].StateDiff[1] = Consumer!StateDiff(state_diff_to_proto(s[1].bundle)) /\ s[1].bundle \in NodeBundle
    BY <1>1, <1>3 DEF NodeChain
  <2> QED
    BY <2>1, BundleRead
<1>4. ASSUME NEW p \in DecodedBlocks, "transactions" \in options
      PROVE  Each(p[2].Txs, TxOf) = p[1].txs /\ Each(p[2].Senders, Hash) = p[1].senders
  BY <1>2, <1>4 DEF Each
<1> QED
  BY <1>2, <1>3, <1>4 DEF MessageReadable, Each

\* A program that has nothing but the decoded message can tell what the node
\* had: see MessageReadable.
THEOREM MessagesAreReadable == Spec => []MessageReadable
BY Invariance, MessageRead, PTL

-----------------------------------------------------------------------------
(* Reading the printed state diff.                                         *)

\* What is printed of a byte string gives it back.
IsBytes(b) == \E n \in Nat : b = [i \in 1..n |-> b[i]]

LEMMA HexRead ==
  ASSUME NEW b, IsBytes(b)
  PROVE  Bytes(Consumer!hexBytes(b)) = b
<1>1. PICK n \in Nat : b = [i \in 1..n |-> b[i]]
  BY DEF IsBytes
<1>2. CASE b = <<>>
  <2>1. Consumer!hexBytes(b) = <<"(empty)">>
    BY <1>2 DEF Consumer!hexBytes
  <2> QED
    BY <1>2, <2>1 DEF Bytes
<1>3. CASE b # <<>>
  <2> DEFINE S == {b[i] : i \in 1..n} \cup {"0x"}
             mark == <<"0x">>
             h == mark \o b
             none == <<"(empty)">>
  <2>1. Consumer!hexBytes(b) = h
    BY <1>3 DEF Consumer!hexBytes
  <2>2. mark \in Seq(S) /\ Len(mark) = 1 /\ mark[1] = "0x" /\ none[1] = "(empty)"
    OBVIOUS
  <2>3. b \in Seq(S) /\ Len(b) = n
    <3>1. Len(b) = n
      BY <1>1, LenIs
    <3>2. [i \in 1..n |-> b[i]] \in Seq(S)
      BY IsASeq
    <3> HIDE DEF S
    <3> QED
      BY <1>1, <3>1, <3>2
  <2> HIDE DEF S, mark, none
  <2>4. h \in Seq(S) /\ Len(h) = 1 + n /\ \A i \in 1..1 + n : h[i] = IF i <= 1 THEN mark[i] ELSE b[i - 1]
    BY <2>2, <2>3, ConcatProperties
  <2>5. h[1] = "0x" /\ \A i \in 1..n : h[i + 1] = b[i]
    BY <2>2, <2>4
  <2> HIDE DEF h
  <2>6. h # none /\ h # <<>>
    <3>1. Len(<<>>) = 0
      OBVIOUS
    <3>2. "0x" # "(empty)"
      OBVIOUS
    <3> QED
      BY <2>2, <2>4, <2>5, <3>1, <3>2
  <2>7. Tail(h) \in Seq(S) /\ Len(Tail(h)) = n /\ \A i \in 1..n : Tail(h)[i] = b[i]
    BY <2>4, <2>5, <2>6, HeadTailProperties
  <2>8. Tail(h) = b
    BY <2>3, <2>7, SeqEqual
  <2> QED
    BY <2>1, <2>6, <2>8 DEF Bytes, none
<1> QED
  BY <1>2, <1>3

LEMMA BytesSent ==
  /\ \A x : IsBytes(<<x>>)
  /\ IsBytes(<<>>)
  /\ \A v : IsBytes(u256_to_bytes(v))
<1>1. ASSUME NEW x PROVE IsBytes(<<x>>)
  <2>1. <<x>> = [i \in 1..1 |-> <<x>>[i]]
    OBVIOUS
  <2> QED
    BY <2>1 DEF IsBytes
<1>2. IsBytes(<<>>)
  <2>1. <<>> = [i \in 1..0 |-> <<>>[i]]
    OBVIOUS
  <2> QED
    BY <2>1 DEF IsBytes
<1>3. ASSUME NEW v PROVE IsBytes(u256_to_bytes(v))
  <2> DEFINE b == u256_to_bytes(v)
  <2>1. b = [i \in 1..3 |-> (v \div Base^(3 - i)) % Base]
    BY DEF u256_to_bytes, ToBytes
  <2> HIDE DEF b
  <2>2. b = [i \in 1..3 |-> b[i]]
    BY <2>1
  <2> QED
    BY <2>2 DEF IsBytes, b
<1> QED
  BY <1>1, <1>2, <1>3

LEMMA InfoPrinted ==
  ASSUME NEW I, IsBytes(I.Balance), IsBytes(I.CodeHash)
  PROVE  ReadInfo(Consumer!printInfo(I)) = OptInfoOf(I)
<1> DEFINE p == Consumer!printInfo(I)
<1>1. p = [balance |-> Consumer!hexBytes(I.Balance), nonce |-> I.Nonce, code_hash |-> Consumer!hexBytes(I.CodeHash)]
  BY DEF Consumer!printInfo
<1> HIDE DEF p
<1>2. Bytes(p.balance) = I.Balance /\ p.nonce = I.Nonce /\ Bytes(p.code_hash) = I.CodeHash
  BY <1>1, HexRead
<1>3. ReadInfo(p) = OptInfoOf(I)
  BY <1>2 DEF ReadInfo, OptInfoOf, InfoOf
<1> QED
  BY <1>3 DEF p

\* An account as it is decoded, and what its infos are made of.
LEMMA InfoSent ==
  ASSUME NEW o \in Option(NodeInfo)
  PROVE  LET I == Consumer!AccountInfo(OrDefault(o, account_info_to_proto, NoInfo))
         IN  IsBytes(I.Balance) /\ IsBytes(I.CodeHash)
<1> DEFINE m == OrDefault(o, account_info_to_proto, NoInfo)
<1>1. m = IF o # <<>> THEN account_info_to_proto(o[1]) ELSE NoInfo
  BY DEF OrDefault, IsSome, None
<1>2. IsBytes(m.balance) /\ IsBytes(m.code_hash)
  <2>1. CASE o = <<>>
    <3>1. NoInfo.balance = <<>> /\ NoInfo.code_hash = <<>>
      BY DEF NoInfo
    <3> HIDE DEF m
    <3> QED
      BY <1>1, <2>1, <3>1, BytesSent
  <2>2. CASE o # <<>>
    <3> DEFINE b == u256_to_bytes(o[1].balance)
    <3>1. account_info_to_proto(o[1]) = [balance |-> b, nonce |-> o[1].nonce, code_hash |-> <<o[1].code_hash>>]
      BY DEF account_info_to_proto, b256_to_bytes
    <3>2. IsBytes(b) /\ IsBytes(<<o[1].code_hash>>)
      BY BytesSent, Zenon
    <3> HIDE DEF b, m
    <3> QED
      BY <1>1, <2>2, <3>1, <3>2
  <2> QED
    BY <2>1, <2>2
<1> HIDE DEF m
<1>3. Consumer!AccountInfo(m).Balance = m.balance /\ Consumer!AccountInfo(m).CodeHash = m.code_hash
  BY DEF Consumer!AccountInfo
<1> QED
  BY <1>2, <1>3 DEF m

LEMMA AccountSent ==
  ASSUME NEW addr, NEW acc
  PROVE  LET A == Consumer!AccountDiff(account_diff_to_proto(addr, acc)) IN
         /\ A.Address = <<addr>>
         /\ A.Status = Consumer!AccountStatus[account_status_to_proto(acc.status) + 1]
         /\ A.Info = <<Consumer!AccountInfo(OrDefault(acc.info, account_info_to_proto, NoInfo))>>
         /\ A.OriginalInfo = <<Consumer!AccountInfo(OrDefault(acc.original_info, account_info_to_proto, NoInfo))>>
         /\ A.Storage = [i \in DOMAIN acc.storage |-> Consumer!StorageSlotDiff(slot_diff(acc.storage[i]))]
<1> DEFINE m == account_diff_to_proto(addr, acc)
           A == Consumer!AccountDiff(m)
           status == account_status_to_proto(acc.status)
           info == OrDefault(acc.info, account_info_to_proto, NoInfo)
           original == OrDefault(acc.original_info, account_info_to_proto, NoInfo)
           slots == [i \in DOMAIN acc.storage |-> slot_diff(acc.storage[i])]
           sent == [i \in DOMAIN acc.storage |-> Consumer!StorageSlotDiff(slot_diff(acc.storage[i]))]
<1>1. m = [address |-> <<addr>>, status |-> status, info |-> info, original_info |-> original,
           storage |-> slots]
  BY DEF account_diff_to_proto, addr_to_bytes, Each
<1> HIDE DEF m, status, info, original
<1>2. m.address = <<addr>> /\ m.status = status /\ m.info = info /\ m.original_info = original /\ m.storage = slots
  <2> HIDE DEF slots
  <2> QED
    BY <1>1
<1>3. A = [Address |-> m.address, Status |-> Consumer!AccountStatus[m.status + 1],
           Info |-> <<Consumer!AccountInfo(m.info)>>, OriginalInfo |-> <<Consumer!AccountInfo(m.original_info)>>,
           Storage |-> [i \in DOMAIN m.storage |-> Consumer!StorageSlotDiff(m.storage[i])]]
  BY DEF Consumer!AccountDiff, Consumer!Some, Consumer!Each
<1>4. [i \in DOMAIN m.storage |-> Consumer!StorageSlotDiff(m.storage[i])] = sent
  BY <1>2
<1> HIDE DEF A, sent, slots
<1>5. /\ A.Address = <<addr>> /\ A.Status = Consumer!AccountStatus[status + 1]
      /\ A.Info = <<Consumer!AccountInfo(info)>> /\ A.OriginalInfo = <<Consumer!AccountInfo(original)>>
      /\ A.Storage = sent
  BY <1>2, <1>3, <1>4
<1> QED
  BY <1>5 DEF A, m, sent, status, info, original

\* What is printed of a slot gives it back.
PrintedSlot(s) == [key |-> Consumer!hexBytes(s.Key), from |-> Consumer!hexBytes(s.Previous),
                   to |-> Consumer!hexBytes(s.Current)]
ReadPrintedSlot(s) == [key |-> Number(Bytes(s.key)), previous |-> Number(Bytes(s.from)),
                       present |-> Number(Bytes(s.to))]

LEMMA SlotPrinted ==
  ASSUME NEW x
  PROVE  LET s == Consumer!StorageSlotDiff(slot_diff(x)) IN ReadPrintedSlot(PrintedSlot(s)) = ReadSlot(s)
<1> DEFINE s == Consumer!StorageSlotDiff(slot_diff(x))
           p == PrintedSlot(s)
           k == u256_to_bytes(x.key)
           o == u256_to_bytes(x.previous)
           n == u256_to_bytes(x.present)
<1>1. s.Key = k /\ s.Previous = o /\ s.Current = n
  <2>1. slot_diff(x) = [key |-> k, previous |-> o, current |-> n]
    BY DEF slot_diff
  <2> HIDE DEF k, o, n
  <2> QED
    BY <2>1 DEF Consumer!StorageSlotDiff
<1>2. IsBytes(k) /\ IsBytes(o) /\ IsBytes(n)
  BY BytesSent, Zenon
<1> HIDE DEF s, k, o, n
<1>3. Bytes(p.key) = s.Key /\ Bytes(p.from) = s.Previous /\ Bytes(p.to) = s.Current
  BY <1>1, <1>2, HexRead DEF PrintedSlot
<1> HIDE DEF p
<1>4. ReadPrintedSlot(p) = ReadSlot(s)
  BY <1>3 DEF ReadPrintedSlot, ReadSlot
<1> QED
  BY <1>4 DEF p, s

LEMMA AccountPrinted ==
  ASSUME NEW p \in Nat \X NodeAccount
  PROVE  ReadAccount(Consumer!printAccount(Consumer!AccountDiff(account_diff_to_proto(p[1], p[2])))) = p
<1> DEFINE acc == p[2]
           A == Consumer!AccountDiff(account_diff_to_proto(p[1], acc))
           P == Consumer!printAccount(A)
           info == Consumer!AccountInfo(OrDefault(acc.info, account_info_to_proto, NoInfo))
           original == Consumer!AccountInfo(OrDefault(acc.original_info, account_info_to_proto, NoInfo))
<1>1. acc.info \in Option(NodeInfo) /\ acc.original_info \in Option(NodeInfo)
  BY DEF NodeAccount
<1>2. /\ A.Address = <<p[1]>> /\ A.Info = <<info>> /\ A.OriginalInfo = <<original>>
      /\ A.Storage = [i \in DOMAIN acc.storage |-> Consumer!StorageSlotDiff(slot_diff(acc.storage[i]))]
  <2>1. \A addr, a :
          LET B == Consumer!AccountDiff(account_diff_to_proto(addr, a)) IN
          /\ B.Address = <<addr>>
          /\ B.Info = <<Consumer!AccountInfo(OrDefault(a.info, account_info_to_proto, NoInfo))>>
          /\ B.OriginalInfo = <<Consumer!AccountInfo(OrDefault(a.original_info, account_info_to_proto, NoInfo))>>
          /\ B.Storage = [i \in DOMAIN a.storage |-> Consumer!StorageSlotDiff(slot_diff(a.storage[i]))]
    BY AccountSent
  <2> HIDE DEF acc
  <2> QED
    BY <2>1
<1>3. IsBytes(info.Balance) /\ IsBytes(info.CodeHash) /\ IsBytes(original.Balance) /\ IsBytes(original.CodeHash)
  BY <1>1, InfoSent
<1>4. /\ AccountOf(A) = <<Hash(A.Address),
                          [status |-> StatusOf(A.Status), info |-> OptInfoOf(A.Info[1]),
                           original_info |-> OptInfoOf(A.OriginalInfo[1]),
                           storage |-> [i \in DOMAIN A.Storage |-> ReadSlot(A.Storage[i])]]>>
      /\ AccountOf(A) = p
  <2>1. AccountOf(A) = p
    BY AccountRead
  <2> HIDE DEF A
  <2> QED
    BY <2>1 DEF AccountOf, Each, ReadSlot
<1>5. ReadAccount(P) = <<Hash(Bytes(P.addr)),
                         [status |-> StatusOf(P.status), info |-> ReadInfo(P.current[1]),
                          original_info |-> ReadInfo(P.original[1]),
                          storage |-> [i \in DOMAIN P.storage |-> ReadPrintedSlot(P.storage[i])]]>>
  <2> HIDE DEF P
  <2> QED
    BY DEF ReadAccount, Each, ReadPrintedSlot
<1> HIDE DEF A, info, original
<1>6. P = [addr |-> Consumer!hexBytes(A.Address), status |-> A.Status,
           original |-> [i \in DOMAIN A.OriginalInfo |-> Consumer!printInfo(A.OriginalInfo[i])],
           current |-> [i \in DOMAIN A.Info |-> Consumer!printInfo(A.Info[i])],
           storage |-> [i \in DOMAIN A.Storage |-> PrintedSlot(A.Storage[i])]]
  BY DEF Consumer!printAccount, Consumer!Each, PrintedSlot
<1> HIDE DEF P
<1>7. Hash(Bytes(P.addr)) = Hash(A.Address) /\ StatusOf(P.status) = StatusOf(A.Status)
  <2>1. IsBytes(<<p[1]>>)
    BY BytesSent, Zenon
  <2>2. Bytes(Consumer!hexBytes(A.Address)) = A.Address
    BY <1>2, <2>1, HexRead
  <2> QED
    BY <1>6, <2>2
<1>8. ReadInfo(P.current[1]) = OptInfoOf(A.Info[1]) /\ ReadInfo(P.original[1]) = OptInfoOf(A.OriginalInfo[1])
  <2>1. P.current[1] = Consumer!printInfo(info) /\ P.original[1] = Consumer!printInfo(original)
        /\ A.Info[1] = info /\ A.OriginalInfo[1] = original
    BY <1>2, <1>6
  <2> QED
    BY <1>3, <2>1, InfoPrinted
<1>9. [i \in DOMAIN P.storage |-> ReadPrintedSlot(P.storage[i])] = [i \in DOMAIN A.Storage |-> ReadSlot(A.Storage[i])]
  <2> DEFINE s(i) == Consumer!StorageSlotDiff(slot_diff(acc.storage[i]))
  <2>1. \A i \in DOMAIN A.Storage : A.Storage[i] = s(i)
    BY <1>2
  <2>2. \A i : ReadPrintedSlot(PrintedSlot(s(i))) = ReadSlot(s(i))
    BY SlotPrinted
  <2> HIDE DEF s, acc
  <2>3. \A i \in DOMAIN A.Storage : ReadPrintedSlot(PrintedSlot(A.Storage[i])) = ReadSlot(A.Storage[i])
    BY <2>1, <2>2
  <2>4. P.storage = [i \in DOMAIN A.Storage |-> PrintedSlot(A.Storage[i])]
    BY <1>6
  <2> QED
    BY <2>3, <2>4
<1> QED
  BY <1>4, <1>5, <1>7, <1>8, <1>9 DEF P, A

\* The reverts: what of them is printed.
PrintedRevertSlot(s) ==
  [key |-> Consumer!hexBytes(s.Key), to |-> IF s.Value # <<>> THEN Consumer!hexBytes(s.Value[1]) ELSE <<"destroyed">>]

LEMMA RevertSlotPrinted ==
  ASSUME NEW x \in SlotReverts
  PROVE  ReadSlotRevert(PrintedRevertSlot(Consumer!StorageRevert(slot_revert(x)))) = x
<1> DEFINE k == u256_to_bytes(x.key)
           v == u256_to_bytes(x.value)
           S == Consumer!StorageRevert(slot_revert(x))
           P == PrintedRevertSlot(S)
<1>1. /\ x.key \in Words /\ x.value \in Words /\ x.destroyed \in BOOLEAN /\ (x.destroyed => x.value = 0)
      /\ x = [key |-> x.key, destroyed |-> x.destroyed, value |-> x.value]
  BY DEF SlotReverts
<1>2. S.Key = k /\ S.Value = IF x.destroyed THEN <<>> ELSE <<v>>
  BY SlotRevertSent
<1>3. Number(k) = x.key /\ Number(v) = x.value /\ v # <<>>
  BY <1>1, NumberOfBytes
<1>4. Bytes(Consumer!hexBytes(k)) = k /\ Bytes(Consumer!hexBytes(v)) = v
  BY BytesSent, HexRead
<1>5. Consumer!hexBytes(v) # <<"destroyed">>
  <2>1. Consumer!hexBytes(v) = <<"0x">> \o v
    BY <1>3 DEF Consumer!hexBytes
  <2>2. v = [i \in 1..3 |-> (v[i])]
    <3>1. v = [i \in 1..3 |-> (x.value \div Base^(3 - i)) % Base]
      BY DEF u256_to_bytes, ToBytes
    <3> HIDE DEF v
    <3> QED
      BY <3>1
  <2> HIDE DEF v
  <2> DEFINE T == {v[i] : i \in 1..3} \cup {"0x"}
             mark == <<"0x">>
             gone == <<"destroyed">>
  <2>3. v \in Seq(T)
    <3>1. [i \in 1..3 |-> v[i]] \in Seq(T)
      BY IsASeq
    <3> HIDE DEF T
    <3> QED
      BY <2>2, <3>1
  <2>4. mark \in Seq(T) /\ Len(mark) = 1 /\ mark[1] = "0x" /\ gone[1] = "destroyed" /\ Len(v) \in Nat
    BY <2>3, LenProperties
  <2> HIDE DEF T, mark, gone
  <2>5. (mark \o v)[1] = mark[1]
    <3>1. \A i \in 1..Len(mark) + Len(v) : (mark \o v)[i] = IF i <= Len(mark) THEN mark[i] ELSE v[i - Len(mark)]
      BY <2>3, <2>4, ConcatProperties
    <3> QED
      BY <2>4, <3>1
  <2>6. "0x" # "destroyed"
    OBVIOUS
  <2> QED
    BY <2>1, <2>4, <2>5, <2>6 DEF mark, gone
<1>6. P.key = Consumer!hexBytes(k) /\ P.to = IF x.destroyed THEN <<"destroyed">> ELSE Consumer!hexBytes(v)
  <2> HIDE DEF S, k, v
  <2>1. P.key = Consumer!hexBytes(S.Key)
        /\ P.to = IF S.Value # <<>> THEN Consumer!hexBytes(S.Value[1]) ELSE <<"destroyed">>
    BY DEF PrintedRevertSlot
  <2>2. x.destroyed => S.Value = <<>>
    BY <1>2
  <2>3. ~x.destroyed => S.Value # <<>> /\ S.Value[1] = v
    BY <1>2
  <2> HIDE DEF P
  <2> QED
    BY <1>2, <2>1, <2>2, <2>3
<1> HIDE DEF P, S, k, v
<1>7. (P.to = <<"destroyed">>) = x.destroyed
  BY <1>1, <1>5, <1>6
<1>8. ReadSlotRevert(P) = [key |-> Number(Bytes(P.key)), destroyed |-> P.to = <<"destroyed">>,
                           value |-> IF P.to = <<"destroyed">> THEN 0 ELSE Number(Bytes(P.to))]
  BY DEF ReadSlotRevert
<1>9. (IF P.to = <<"destroyed">> THEN 0 ELSE Number(Bytes(P.to))) = x.value
  BY <1>1, <1>3, <1>4, <1>5, <1>6
<1> QED
  BY <1>1, <1>3, <1>4, <1>6, <1>7, <1>8, <1>9 DEF P, S

LEMMA RevertSent ==
  ASSUME NEW addr, NEW rev
  PROVE  LET R == Consumer!AccountRevert(account_revert_to_proto(addr, rev)) IN
         /\ R.Address = <<addr>> /\ R.WipeStorage = rev.wipe_storage
         /\ R.Kind = Consumer!AccountRevertKind[((CHOOSE k \in 1..3 : RevertKinds[k] = rev.kind) - 1) + 1]
         /\ R.Storage = [i \in DOMAIN rev.storage |-> Consumer!StorageRevert(slot_revert(rev.storage[i]))]
<1> DEFINE m == account_revert_to_proto(addr, rev)
           R == Consumer!AccountRevert(m)
           number == (CHOOSE k \in 1..3 : RevertKinds[k] = rev.kind) - 1
           previous == account_status_to_proto(rev.previous_status)
           infos == [i \in DOMAIN rev.info |-> account_info_to_proto(rev.info[i])]
           slots == [i \in DOMAIN rev.storage |-> slot_revert(rev.storage[i])]
           sent == [i \in DOMAIN rev.storage |-> Consumer!StorageRevert(slot_revert(rev.storage[i]))]
<1>1. m = [address |-> <<addr>>, kind |-> number, revert_to_info |-> infos, storage |-> slots,
           previous_status |-> previous, wipe_storage |-> rev.wipe_storage]
  BY DEF account_revert_to_proto, addr_to_bytes, Each
<1> HIDE DEF m, number, previous, infos
<1>2. m.address = <<addr>> /\ m.kind = number /\ m.storage = slots /\ m.wipe_storage = rev.wipe_storage
  <2> HIDE DEF slots
  <2> QED
    BY <1>1
<1>3. R = [Address |-> m.address, Kind |-> Consumer!AccountRevertKind[m.kind + 1],
           RevertToInfo |-> [i \in DOMAIN m.revert_to_info |-> Consumer!AccountInfo(m.revert_to_info[i])],
           Storage |-> [i \in DOMAIN m.storage |-> Consumer!StorageRevert(m.storage[i])],
           PreviousStatus |-> Consumer!AccountStatus[m.previous_status + 1], WipeStorage |-> m.wipe_storage]
  BY DEF Consumer!AccountRevert, Consumer!Each
<1>4. [i \in DOMAIN m.storage |-> Consumer!StorageRevert(m.storage[i])] = sent
  BY <1>2
<1> HIDE DEF R, sent, slots
<1>5. /\ R.Address = <<addr>> /\ R.WipeStorage = rev.wipe_storage
      /\ R.Kind = Consumer!AccountRevertKind[number + 1] /\ R.Storage = sent
  BY <1>2, <1>3, <1>4
<1> QED
  BY <1>5 DEF R, m, sent, number

LEMMA RevertPrinted ==
  ASSUME NEW p \in Nat \X NodeRevert
  PROVE  ReadRevert(Consumer!printAccountRevert(Consumer!AccountRevert(account_revert_to_proto(p[1], p[2]))))
           = PrintedOfRevert(p)
<1> DEFINE rev == p[2]
           addr == p[1]
           R == Consumer!AccountRevert(account_revert_to_proto(addr, rev))
           P == Consumer!printAccountRevert(R)
           back == [i \in DOMAIN P.storage |-> ReadSlotRevert(P.storage[i])]
<1>1. rev.kind \in Range(RevertKinds) /\ rev.storage \in Seq(SlotReverts)
  BY DEF NodeRevert, SlotReverts
<1>2. /\ R.Address = <<addr>> /\ R.WipeStorage = rev.wipe_storage
      /\ R.Kind = Consumer!AccountRevertKind[((CHOOSE k \in 1..3 : RevertKinds[k] = rev.kind) - 1) + 1]
      /\ R.Storage = [i \in DOMAIN rev.storage |-> Consumer!StorageRevert(slot_revert(rev.storage[i]))]
  <2> HIDE DEF rev, addr
  <2> QED
    BY RevertSent
<1> HIDE DEF R
<1>3. P = [addr |-> Consumer!hexBytes(R.Address), kind |-> R.Kind, wipe_storage |-> R.WipeStorage,
           storage |-> [i \in DOMAIN R.Storage |-> PrintedRevertSlot(R.Storage[i])]]
  BY DEF Consumer!printAccountRevert, Consumer!Each, Consumer!OrDefault, Consumer!IsSome, Consumer!None,
         PrintedRevertSlot
<1>4. ReadRevert(P) = [address |-> Hash(Bytes(P.addr)), kind |-> KindOf(P.kind), wipe_storage |-> P.wipe_storage,
                       storage |-> back]
  <2> HIDE DEF P
  <2> QED
    BY DEF ReadRevert, Each
<1> HIDE DEF P, rev, addr
<1>5. Hash(Bytes(P.addr)) = addr
  <2>1. IsBytes(<<addr>>)
    BY BytesSent, Zenon
  <2>2. Bytes(Consumer!hexBytes(R.Address)) = <<addr>>
    BY <1>2, <2>1, HexRead
  <2> QED
    BY <1>3, <2>2 DEF Hash
<1>6. KindOf(P.kind) = rev.kind
  BY <1>1, <1>2, <1>3, KindRead
<1>7. P.storage = [i \in DOMAIN rev.storage |-> PrintedRevertSlot(Consumer!StorageRevert(slot_revert(rev.storage[i])))]
  <2>1. P.storage = [i \in DOMAIN R.Storage |-> PrintedRevertSlot(R.Storage[i])]
    BY <1>3
  <2> QED
    BY <1>2, <2>1
<1>8. back = rev.storage
  <2> DEFINE o == rev.storage
             S == SlotReverts
  <2>1. ASSUME NEW i \in DOMAIN o, o[i] \in S PROVE back[i] = o[i]
    <3>1. back[i] = ReadSlotRevert(PrintedRevertSlot(Consumer!StorageRevert(slot_revert(o[i]))))
      BY <1>7
    <3> QED
      BY <2>1, <3>1, RevertSlotPrinted
  <2>2. back = [i \in DOMAIN o |-> back[i]]
    BY <1>7
  <2>3. o \in Seq(S)
    BY <1>1
  <2> HIDE DEF back, o, S
  <2>4. back = o
    BY <2>1, <2>2, <2>3, SameSeq
  <2> QED
    BY <2>4 DEF o
<1>9. P.wipe_storage = rev.wipe_storage
  BY <1>2, <1>3
<1> HIDE DEF back
<1> QED
  BY <1>4, <1>5, <1>6, <1>8, <1>9 DEF PrintedOfRevert, P, R, rev, addr

LEMMA BlockRevertsPrinted ==
  ASSUME NEW s \in Seq(Nat \X NodeRevert)
  PROVE  [i \in DOMAIN BlockRevertsOf(s) |-> ReadRevert(Consumer!printAccountRevert(BlockRevertsOf(s)[i]))]
           = [i \in DOMAIN s |-> PrintedOfRevert(s[i])]
<1>1. \A i \in DOMAIN s : s[i] \in Nat \X NodeRevert
  BY LenProperties, ElementOfSeq
<1>2. ASSUME NEW i \in DOMAIN s
      PROVE  ReadRevert(Consumer!printAccountRevert(BlockRevertsOf(s)[i])) = PrintedOfRevert(s[i])
  <2>1. BlockRevertsOf(s)[i] = Consumer!AccountRevert(account_revert_to_proto(s[i][1], s[i][2]))
    BY DEF BlockRevertsOf
  <2> QED
    BY <1>1, <2>1, RevertPrinted
<1>3. DOMAIN BlockRevertsOf(s) = DOMAIN s
  BY DEF BlockRevertsOf
<1> QED
  BY <1>2, <1>3

\* The printed state diff of a bundle.
LEMMA DiffPrinted ==
  ASSUME NEW b \in NodeBundle
  PROVE  LET P == Consumer!printStateDiff(Consumer!StateDiff(state_diff_to_proto(b))) IN
         /\ Each(P.accounts, ReadAccount) = b.state
         /\ Each(P.contracts, LAMBDA c : <<Hash(Bytes(c.code_hash)), c.bytecode_len>>)
              = Each(b.contracts, LAMBDA p : <<p[1], Len(p[2])>>)
         /\ Each(P.reverts, LAMBDA r : Each(r, ReadRevert))
              = Each(b.reverts, LAMBDA r : Each(r, PrintedOfRevert))
<1> DEFINE D == Consumer!StateDiff(state_diff_to_proto(b))
           P == Consumer!printStateDiff(D)
           code(c) == [code_hash |-> Consumer!hexBytes(c.CodeHash), bytecode_len |-> Len(c.Bytecode)]
           readCode(c) == <<Hash(Bytes(c.code_hash)), c.bytecode_len>>
           Accounts == Nat \X NodeAccount
           Codes == Nat \X Digits
           Blocks == Seq(Nat \X NodeRevert)
           accounts == [i \in DOMAIN P.accounts |-> ReadAccount(P.accounts[i])]
           contracts == [i \in DOMAIN P.contracts |-> readCode(P.contracts[i])]
           reverts == [i \in DOMAIN P.reverts |-> [k \in DOMAIN P.reverts[i] |-> ReadRevert(P.reverts[i][k])]]
<1>1. b.state \in Seq(Accounts) /\ b.contracts \in Seq(Codes) /\ b.reverts \in Seq(Blocks)
  BY DEF NodeBundle
<1>2. D.Accounts = AccountsOf(b) /\ D.Contracts = ContractsOf(b) /\ D.Reverts = RevertsOf(b)
  BY DiffStruct
<1> HIDE DEF D
<1>3. P = [accounts |-> [i \in DOMAIN D.Accounts |-> Consumer!printAccount(D.Accounts[i])],
           contracts |-> [i \in DOMAIN D.Contracts |-> code(D.Contracts[i])],
           reverts |-> [i \in DOMAIN D.Reverts |->
                          [k \in DOMAIN D.Reverts[i].Accounts |->
                             Consumer!printAccountRevert(D.Reverts[i].Accounts[k])]]]
  BY DEF Consumer!printStateDiff, Consumer!Each
<1> HIDE DEF P, code
<1>4. /\ P.accounts = [i \in DOMAIN D.Accounts |-> Consumer!printAccount(D.Accounts[i])]
      /\ P.contracts = [i \in DOMAIN D.Contracts |-> code(D.Contracts[i])]
      /\ P.reverts = [i \in DOMAIN D.Reverts |-> [k \in DOMAIN D.Reverts[i].Accounts |->
                             Consumer!printAccountRevert(D.Reverts[i].Accounts[k])]]
  BY <1>3
<1>5. accounts = b.state
  <2> DEFINE o == b.state
  <2>1. P.accounts = [i \in DOMAIN o |-> Consumer!printAccount(
                        Consumer!AccountDiff(account_diff_to_proto(o[i][1], o[i][2])))]
    BY <1>2, <1>4 DEF AccountsOf
  <2>2. ASSUME NEW i \in DOMAIN o, o[i] \in Accounts PROVE accounts[i] = o[i]
    <3>1. accounts[i] = ReadAccount(Consumer!printAccount(
                          Consumer!AccountDiff(account_diff_to_proto(o[i][1], o[i][2]))))
      BY <2>1
    <3> QED
      BY <2>2, <3>1, AccountPrinted
  <2>3. accounts = [i \in DOMAIN o |-> accounts[i]]
    BY <2>1
  <2>4. o \in Seq(Accounts)
    BY <1>1
  <2> HIDE DEF accounts, o, Accounts
  <2>5. accounts = o
    BY <2>2, <2>3, <2>4, SameSeq
  <2> QED
    BY <2>5 DEF o
<1>6. contracts = [i \in DOMAIN b.contracts |-> <<b.contracts[i][1], Len(b.contracts[i][2])>>]
  <2> DEFINE o == b.contracts
             C(i) == Consumer!ContractDiff([code_hash |-> b256_to_bytes(o[i][1]), bytecode |-> o[i][2]])
  <2>1. P.contracts = [i \in DOMAIN o |-> code(C(i))]
    BY <1>2, <1>4 DEF ContractsOf
  <2>2. \A i \in DOMAIN o : o[i] \in Codes
    BY <1>1, LenProperties, ElementOfSeq
  <2>3. ASSUME NEW i \in DOMAIN o PROVE readCode(code(C(i))) = <<o[i][1], Len(o[i][2])>>
    <3>1. C(i).CodeHash = <<o[i][1]>> /\ C(i).Bytecode = o[i][2]
      BY <2>2, ContractRead
    <3> HIDE DEF C
    <3>2. IsBytes(<<o[i][1]>>)
      BY BytesSent, Zenon
    <3>3. Bytes(Consumer!hexBytes(C(i).CodeHash)) = <<o[i][1]>>
      BY <3>1, <3>2, HexRead
    <3>4. code(C(i)).code_hash = Consumer!hexBytes(C(i).CodeHash) /\ code(C(i)).bytecode_len = Len(C(i).Bytecode)
      BY DEF code
    <3> QED
      BY <3>1, <3>3, <3>4 DEF Hash
  <2> HIDE DEF C, readCode, o
  <2>4. contracts = [i \in DOMAIN o |-> <<o[i][1], Len(o[i][2])>>]
    BY <2>1, <2>3
  <2> QED
    BY <2>4 DEF o
<1>7. reverts = [i \in DOMAIN b.reverts |-> [k \in DOMAIN b.reverts[i] |-> PrintedOfRevert(b.reverts[i][k])]]
  <2> DEFINE o == b.reverts
             B(i) == BlockRevertsOf(o[i])
             printed(s) == [k \in DOMAIN s |-> Consumer!printAccountRevert(s[k])]
             readAll(s) == [k \in DOMAIN s |-> ReadRevert(s[k])]
             short(s) == [k \in DOMAIN s |-> PrintedOfRevert(s[k])]
  <2>1. P.reverts = [i \in DOMAIN o |-> printed(B(i))]
    <3>1. D.Reverts = [i \in DOMAIN o |-> [Accounts |-> B(i)]]
      BY <1>2 DEF RevertsOf
    <3>2. P.reverts = [i \in DOMAIN D.Reverts |-> printed(D.Reverts[i].Accounts)]
      BY <1>4
    <3> HIDE DEF printed, B, o
    <3> QED
      BY <3>1, <3>2
  <2>2. \A i \in DOMAIN o : o[i] \in Blocks
    BY <1>1, LenProperties, ElementOfSeq
  <2>3. ASSUME NEW i \in DOMAIN o PROVE readAll(printed(B(i))) = short(o[i])
    <3>1. [k \in DOMAIN B(i) |-> ReadRevert(Consumer!printAccountRevert(B(i)[k]))] = short(o[i])
      BY <2>2, BlockRevertsPrinted
    <3> HIDE DEF B, short
    <3> QED
      BY <3>1
  <2>4. reverts = [i \in DOMAIN P.reverts |-> readAll(P.reverts[i])]
    OBVIOUS
  <2> HIDE DEF reverts, readAll, printed, B
  <2>5. reverts = [i \in DOMAIN o |-> short(o[i])]
    <3> HIDE DEF short, o
    <3> QED
      BY <2>1, <2>3, <2>4
  <2> QED
    BY <2>5
<1>8. Each(P.accounts, ReadAccount) = accounts
  BY DEF Each
<1>9. Each(P.contracts, LAMBDA c : <<Hash(Bytes(c.code_hash)), c.bytecode_len>>) = contracts
  BY DEF Each
<1>10. Each(P.reverts, LAMBDA r : Each(r, ReadRevert)) = reverts
  BY DEF Each
<1> HIDE DEF accounts, contracts, reverts
<1> QED
  BY <1>5, <1>6, <1>7, <1>8, <1>9, <1>10 DEF Each, P, D

-----------------------------------------------------------------------------
(* The lines of frames, and where those of their calls begin.              *)

\* The elements of sequences that are put one after another.
Laid(all, S, ss, n) ==
  \E pos \in [0..n -> Nat] :
    /\ pos[0] = 0 /\ \A k \in 1..n : pos[k] = pos[k - 1] + Len(ss[k])
    /\ all \in Seq(S) /\ Len(all) = pos[n]
    /\ \A k \in 1..n : \A m \in 1..Len(ss[k]) : all[pos[k - 1] + m] = ss[k][m]

LEMMA Flattened ==
  ASSUME NEW S, NEW n \in Nat, NEW ss, ss = [i \in 1..n |-> ss[i]], \A i \in 1..n : ss[i] \in Seq(S)
  PROVE  Laid(Consumer!FlattenSeq(ss), S, ss, n)
<1> SUFFICES \E pos \in [0..n -> Nat] :
           /\ pos[0] = 0 /\ \A k \in 1..n : pos[k] = pos[k - 1] + Len(ss[k])
           /\ Consumer!FlattenSeq(ss) \in Seq(S) /\ Len(Consumer!FlattenSeq(ss)) = pos[n]
           /\ \A k \in 1..n : \A m \in 1..Len(ss[k]) : Consumer!FlattenSeq(ss)[pos[k - 1] + m] = ss[k][m]
  BY Zenon DEF Laid
<1> DEFINE step(f, k) == [i \in 1..k |-> IF i = 1 THEN ss[i] ELSE f[i - 1] \o ss[i]]
           F == CHOOSE f : f = step(f, n)
           all == Consumer!FlattenSeq(ss)
<1>1. Len(ss) = n /\ DOMAIN ss = 1..n
  BY LenIs
<1>2. CASE n = 0
  <2>1. all = ss
    BY <1>1, <1>2 DEF Consumer!FlattenSeq
  <2>2. ss \in Seq(S)
    <3>1. ss = <<>>
      <4>1. ss = [i \in 1..0 |-> ss[i]]
        BY <1>2
      <4> QED
        BY <4>1
    <3> QED
      BY <3>1, EmptySeq
  <2> DEFINE pos == [k \in 0..n |-> 0]
  <2>3. pos \in [0..n -> Nat] /\ pos[0] = 0 /\ pos[n] = 0 /\ 1..n = {}
    BY <1>2
  <2> HIDE DEF pos, all
  <2> QED
    BY <1>1, <1>2, <2>1, <2>2, <2>3 DEF all
<1>3. CASE n # 0
  <2>1. all = F[n]
    <3>1. Consumer!FlattenSeq(ss) = (CHOOSE f : f = step(f, Len(ss)))[Len(ss)]
      BY <1>1, <1>3 DEF Consumer!FlattenSeq
    <3> HIDE DEF step
    <3> QED
      BY <1>1, <3>1
  <2>2. \E f : f = step(f, n)
    <3> DEFINE Bad == {k \in 1..n : ~ \E f : f = step(f, k)}
    <3>1. Bad = {}
      <4> SUFFICES ASSUME Bad # {} PROVE FALSE
        OBVIOUS
      <4>1. PICK k \in Bad : \A l \in Bad : ~(l < k)
        <5>1. Bad \in SUBSET Nat
          <6> HIDE DEF step
          <6>1. \A j \in 1..n : j \in Nat
            OBVIOUS
          <6> QED
            BY <6>1, Zenon
        <5> HIDE DEF Bad
        <5> QED
          BY <5>1, ConvertLaws!LeastNumber
      <4>2. k \in 1..n /\ ~ \E f : f = step(f, k)
        OBVIOUS
      <4>3. CASE k = 1
        <5>1. [i \in 1..1 |-> ss[i]] = step([i \in 1..1 |-> ss[i]], 1)
          OBVIOUS
        <5> HIDE DEF step, Bad
        <5> QED
          BY <4>2, <4>3, <5>1
      <4>4. CASE k # 1
        <5>1. PICK h : h = step(h, k - 1)
          <6>1. k - 1 \in 1..n /\ k - 1 < k
            BY <4>2, <4>4
          <6>2. k - 1 \notin Bad
            <7> HIDE DEF Bad
            <7> QED
              BY <4>1, <6>1
          <6> HIDE DEF step
          <6> QED
            BY <6>1, <6>2
        <5> DEFINE g == [i \in 1..k |-> IF i = k THEN h[k - 1] \o ss[k] ELSE h[i]]
        <5>2. g = [i \in 1..k |-> g[i]]
          OBVIOUS
        <5>3. \A i \in 1..k : g[i] = IF i = k THEN h[k - 1] \o ss[k] ELSE h[i]
          OBVIOUS
        <5>4. \A i \in 1..k - 1 : h[i] = IF i = 1 THEN ss[i] ELSE h[i - 1] \o ss[i]
          BY <5>1
        <5> HIDE DEF g, step, Bad
        <5>5. ASSUME NEW i \in 1..k PROVE g[i] = IF i = 1 THEN ss[i] ELSE g[i - 1] \o ss[i]
          <6>1. i = k => i # 1 /\ k - 1 \in 1..k /\ k - 1 # k
            BY <4>2, <4>4
          <6>2. i # k => i \in 1..k - 1
            BY <4>2
          <6>3. i # k /\ i # 1 => i - 1 \in 1..k /\ i - 1 # k
            BY <4>2
          <6>4. CASE i = k
            BY <5>3, <6>1, <6>4, Zenon
          <6>5. CASE i # k
            BY <5>3, <5>4, <6>2, <6>3, <6>5, Zenon
          <6> QED
            BY <6>4, <6>5
        <5>6. g = step(g, k)
          BY <5>2, <5>5 DEF step
        <5> QED
          BY <4>2, <5>6
      <4> QED
        BY <4>3, <4>4
    <3>2. n \in 1..n
      BY <1>3
    <3> HIDE DEF step
    <3> QED
      BY <3>1, <3>2
  <2>3. F = step(F, n)
    <3> HIDE DEF step
    <3> QED
      BY <2>2
  <2> HIDE DEF F
  <2>4. F[1] = ss[1] /\ \A i \in 1..n : i # 1 => F[i] = F[i - 1] \o ss[i]
    <3>1. F = [i \in 1..n |-> IF i = 1 THEN ss[i] ELSE F[i - 1] \o ss[i]]
      BY <2>3, Zenon
    <3>2. \A i \in 1..n : F[i] = IF i = 1 THEN ss[i] ELSE F[i - 1] \o ss[i]
      BY <3>1, Zenon
    <3>3. 1 \in 1..n
      BY <1>3
    <3> QED
      BY <3>2, <3>3, Zenon
  <2> HIDE DEF step
  <2>5. \A i \in 1..n : F[i] \in Seq(S)
    <3> DEFINE Bad == {k \in 1..n : F[k] \notin Seq(S)}
    <3> SUFFICES ASSUME Bad # {} PROVE FALSE
      OBVIOUS
    <3>1. PICK k \in Bad : \A l \in Bad : ~(l < k)
      <4>1. Bad \in SUBSET Nat
        OBVIOUS
      <4> HIDE DEF Bad
      <4> QED
        BY <4>1, ConvertLaws!LeastNumber
    <3>2. k \in 1..n /\ F[k] \notin Seq(S) /\ ss[k] \in Seq(S)
      OBVIOUS
    <3>3. CASE k = 1
      BY <2>4, <3>2, <3>3
    <3>4. CASE k # 1
      <4>1. k - 1 \in 1..n /\ k - 1 < k
        BY <3>2, <3>4
      <4>2. F[k - 1] \in Seq(S)
        BY <3>1, <4>1
      <4>3. F[k] = F[k - 1] \o ss[k]
        BY <2>4, <3>2, <3>4
      <4> QED
        BY <3>2, <4>2, <4>3, ConcatProperties
    <3> QED
      BY <3>3, <3>4
  <2> DEFINE pos == [k \in 0..n |-> IF k = 0 THEN 0 ELSE Len(F[k])]
  <2>6. \A k \in 1..n : Len(F[k]) \in Nat /\ Len(ss[k]) \in Nat
    BY <2>5, LenProperties
  <2>7. /\ pos \in [0..n -> Nat] /\ pos[0] = 0
        /\ \A k \in 1..n : pos[k] = Len(F[k])
    BY <2>6
  <2> HIDE DEF pos
  <2>8. ASSUME NEW k \in 1..n, k # 1
        PROVE  /\ k - 1 \in 1..n /\ F[k] = F[k - 1] \o ss[k] /\ Len(F[k]) = Len(F[k - 1]) + Len(ss[k])
               /\ \A i \in 1..Len(F[k - 1]) : F[k][i] = F[k - 1][i]
               /\ \A i \in 1..Len(ss[k]) : F[k][Len(F[k - 1]) + i] = ss[k][i]
    <3> DEFINE a == F[k - 1]
               b == ss[k]
               c == F[k]
    <3>1. k - 1 \in 1..n
      BY <2>8
    <3>2. a \in Seq(S) /\ b \in Seq(S) /\ c = a \o b /\ Len(a) \in Nat /\ Len(b) \in Nat
      BY <2>4, <2>5, <2>6, <2>8, <3>1
    <3> HIDE DEF a, b, c
    <3>3. Len(c) = Len(a) + Len(b) /\ \A i \in 1..Len(a) + Len(b) : c[i] = IF i <= Len(a) THEN a[i] ELSE b[i - Len(a)]
      BY <3>2, ConcatProperties
    <3>4. \A i \in 1..Len(a) : c[i] = a[i]
      BY <3>2, <3>3
    <3>5. \A i \in 1..Len(b) : c[Len(a) + i] = b[i]
      <4> SUFFICES ASSUME NEW i \in 1..Len(b) PROVE c[Len(a) + i] = b[i]
        OBVIOUS
      <4> DEFINE j == Len(a) + i
      <4>1. j \in 1..Len(a) + Len(b) /\ ~(j <= Len(a)) /\ j - Len(a) = i
        BY <3>2
      <4> HIDE DEF j
      <4> QED
        BY <3>3, <4>1 DEF j
    <3> QED
      BY <3>1, <3>2, <3>3, <3>4, <3>5 DEF a, b, c
  <2>9. \A k \in 1..n : pos[k] = pos[k - 1] + Len(ss[k])
    <3> SUFFICES ASSUME NEW k \in 1..n PROVE pos[k] = pos[k - 1] + Len(ss[k])
      OBVIOUS
    <3>1. CASE k = 1
      BY <2>4, <2>6, <2>7, <3>1
    <3>2. CASE k # 1
      BY <2>7, <2>8, <3>2
    <3> QED
      BY <3>1, <3>2
  <2>10. ASSUME NEW k \in 1..n, NEW m \in 1..Len(ss[k])
         PROVE  F[n][pos[k - 1] + m] = ss[k][m]
    <3> DEFINE x == pos[k - 1] + m
               Bad == {l \in k..n : ~(pos[k] <= pos[l] /\ F[l][x] = ss[k][m])}
    <3>1. x \in 1..pos[k] /\ pos[k - 1] \in Nat
      <4>1. pos[k - 1] \in Nat /\ pos[k] = pos[k - 1] + Len(ss[k]) /\ Len(ss[k]) \in Nat
        BY <2>6, <2>7, <2>9
      <4> QED
        BY <4>1
    <3>2. F[k][x] = ss[k][m]
      <4>1. CASE k = 1
        <5>1. x = m
          BY <2>7, <4>1
        <5> QED
          BY <2>4, <4>1, <5>1
      <4>2. CASE k # 1
        <5>1. pos[k - 1] = Len(F[k - 1])
          BY <2>7, <2>8, <4>2
        <5> QED
          BY <2>8, <4>2, <5>1
      <4> QED
        BY <4>1, <4>2
    <3> HIDE DEF x
    <3>3. Bad = {}
      <4> SUFFICES ASSUME Bad # {} PROVE FALSE
        OBVIOUS
      <4>1. PICK l \in Bad : \A j \in Bad : ~(j < l)
        <5>1. Bad \in SUBSET Nat
          OBVIOUS
        <5> HIDE DEF Bad
        <5> QED
          BY <5>1, ConvertLaws!LeastNumber
      <4>2. l \in k..n /\ l \in 1..n /\ ~(pos[k] <= pos[l] /\ F[l][x] = ss[k][m])
        OBVIOUS
      <4>3. l # k
        BY <2>7, <3>2, <4>2
      <4>4. l - 1 \in k..n /\ l - 1 < l /\ l # 1 /\ l - 1 \in 1..n
        BY <4>2, <4>3
      <4>5. pos[k] <= pos[l - 1] /\ F[l - 1][x] = ss[k][m]
        BY <4>1, <4>4
      <4> HIDE DEF Bad
      <4>6. x \in 1..Len(F[l - 1]) /\ pos[k] <= pos[l]
        <5> DEFINE a == pos[l - 1]
                   b == pos[l]
                   c == pos[k]
                   d == Len(ss[l])
        <5>1. a = Len(F[l - 1]) /\ b = a + d /\ d \in Nat /\ a \in Nat /\ c \in Nat
          BY <2>6, <2>7, <2>9, <4>2, <4>4
        <5>2. x \in 1..c /\ c <= a
          BY <3>1, <4>5
        <5> HIDE DEF a, b, c, d
        <5>3. x \in 1..a /\ c <= b
          BY <5>1, <5>2
        <5> QED
          BY <5>1, <5>3 DEF b, c
      <4>7. F[l][x] = F[l - 1][x]
        BY <2>8, <4>2, <4>4, <4>6
      <4> QED
        BY <4>2, <4>5, <4>6, <4>7
    <3>4. n \in k..n
      BY <1>3
    <3> QED
      BY <3>3, <3>4 DEF x
  <2>11. n \in 1..n
    BY <1>3
  <2> HIDE DEF all
  <2>12. all \in Seq(S) /\ Len(all) = pos[n]
    BY <2>1, <2>5, <2>7, <2>11
  <2> QED
    BY <2>1, <2>7, <2>9, <2>10, <2>12 DEF all
<1> QED
  BY <1>2, <1>3

\* Positions that rise at every step, and the interval that a position is in.
Rising(pos, n) == pos \in [0..n -> Nat] /\ pos[0] = 0 /\ \A k \in 1..n : pos[k - 1] < pos[k]

LEMMA Rises ==
  ASSUME NEW n \in Nat, NEW pos, Rising(pos, n)
  PROVE  \A a, b \in 0..n : a < b => pos[a] < pos[b]
<1> SUFFICES ASSUME NEW a \in 0..n, \E b \in 0..n : a < b /\ ~(pos[a] < pos[b]) PROVE FALSE
  OBVIOUS
<1> DEFINE Bad == {b \in 0..n : a < b /\ ~(pos[a] < pos[b])}
<1>1. PICK b \in Bad : \A c \in Bad : ~(c < b)
  <2>1. Bad \in SUBSET Nat /\ Bad # {}
    OBVIOUS
  <2> HIDE DEF Bad
  <2> QED
    BY <2>1, ConvertLaws!LeastNumber
<1>2. b \in 1..n /\ b - 1 \in 0..n /\ a < b /\ ~(pos[a] < pos[b]) /\ (a = b - 1 \/ a < b - 1) /\ b - 1 < b
  OBVIOUS
<1>3. pos[b - 1] < pos[b] /\ pos[a] \in Nat /\ pos[b] \in Nat /\ pos[b - 1] \in Nat
  BY <1>2 DEF Rising
<1>4. a # b - 1
  BY <1>2, <1>3
<1>5. b - 1 \notin Bad
  <2> HIDE DEF Bad
  <2> QED
    BY <1>1, <1>2
<1>6. pos[a] < pos[b - 1]
  BY <1>2, <1>4, <1>5
<1> QED
  BY <1>2, <1>3, <1>6

LEMMA Covered ==
  ASSUME NEW n \in Nat, NEW pos, Rising(pos, n), NEW j \in 1..pos[n]
  PROVE  \E k \in 1..n : pos[k - 1] < j /\ j <= pos[k]
<1> DEFINE T == {k \in 0..n : j <= pos[k]}
<1>1. \A k \in 0..n : pos[k] \in Nat
  BY DEF Rising
<1>2. n \in T /\ j \in Nat /\ j # 0
  BY <1>1
<1>3. PICK k \in T : \A l \in T : ~(l < k)
  <2>1. T \in SUBSET Nat /\ T # {}
    BY <1>2
  <2> HIDE DEF T
  <2> QED
    BY <2>1, ConvertLaws!LeastNumber
<1>4. k # 0
  <2>1. pos[0] = 0
    BY DEF Rising
  <2> QED
    BY <1>2, <1>3, <2>1
<1>5. k \in 1..n /\ k - 1 \in 0..n /\ k - 1 < k /\ j <= pos[k]
  BY <1>3, <1>4
<1>6. k - 1 \notin T
  <2> HIDE DEF T
  <2> QED
    BY <1>3, <1>5
<1>7. pos[k - 1] < j
  BY <1>1, <1>2, <1>5, <1>6
<1> QED
  BY <1>5, <1>7

\* The members of a set that are given in rising order.
LEMMA NthOf ==
  ASSUME NEW n \in Nat, NEW g \in [1..n -> Nat], \A k, m \in 1..n : k < m => g[k] < g[m]
  PROVE  /\ Cardinality({g[k] : k \in 1..n}) = n
         /\ \A k \in 1..n : Nth({g[j] : j \in 1..n}, k) = g[k]
<1> DEFINE K == {g[k] : k \in 1..n}
<1>1. \A k, m \in 1..n : (k <= m <=> g[k] <= g[m]) /\ (g[k] = g[m] => k = m)
  OBVIOUS
<1>2. ASSUME NEW m \in 0..n
      PROVE  IsFiniteSet({g[k] : k \in 1..m}) /\ Cardinality({g[k] : k \in 1..m}) = m
  <2> DEFINE f == [k \in 1..m |-> g[k]]
             Q == {g[k] : k \in 1..m}
  <2>1. f \in Bijection(1..m, Q)
    <3>1. \A k \in 1..m : k \in 1..n
      OBVIOUS
    <3> QED
      BY <1>1, <3>1 DEF Bijection, Injection, Surjection, IsInjective
  <2>2. IsFiniteSet(1..m) /\ Cardinality(1..m) = m
    BY FS_Interval
  <2>3. ExistsBijection(1..m, Q)
    BY <2>1 DEF ExistsBijection
  <2> HIDE DEF Q, f
  <2>4. IsFiniteSet(Q) /\ Cardinality(Q) = Cardinality(1..m)
    BY <2>2, <2>3, FS_Bijection
  <2> QED
    BY <2>2, <2>4 DEF Q
<1>3. IsFiniteSet(K) /\ Cardinality(K) = n /\ K \in SUBSET Nat
  <2>1. n \in 0..n
    OBVIOUS
  <2> QED
    BY <1>2, <2>1
<1>4. ASSUME NEW m \in 1..n PROVE Rank(K, g[m]) = m /\ g[m] \in K
  <2>1. {j \in K : j <= g[m]} = {g[k] : k \in 1..m}
    <3>1. \A k \in 1..n : g[k] <= g[m] <=> k \in 1..m
      BY <1>1
    <3>2. \A k \in 1..m : k \in 1..n
      OBVIOUS
    <3> QED
      BY <3>1, <3>2
  <2>2. m \in 0..n
    OBVIOUS
  <2> QED
    BY <1>2, <2>1, <2>2 DEF Rank
<1>5. \A i \in K : Nth(K, Rank(K, i)) = i
  <2> HIDE DEF K
  <2> QED
    BY <1>3, NthIs
<1> HIDE DEF K
<1>6. \A m \in 1..n : Nth(K, m) = g[m]
  BY <1>4, <1>5
<1> QED
  BY <1>3, <1>6 DEF K

\* Where the lines of n calls follow line i, and none of another: pos tells
\* where each of them ends.
Follow(lines, i, ind, pos, n) ==
  /\ Len(lines) \in Nat /\ \A j \in 1..Len(lines) : lines[j].indent \in Nat
  /\ i # 0 /\ i + pos[n] <= Len(lines) /\ lines[i].indent = ind
  /\ \A k \in 1..n : /\ lines[i + pos[k - 1] + 1].indent = ind + 2
                     /\ \A m \in (pos[k - 1] + 2)..pos[k] : lines[i + m].indent >= ind + 4
  /\ i + pos[n] + 1 <= Len(lines) => lines[i + pos[n] + 1].indent <= ind

LEMMA CallsBegin ==
  ASSUME NEW lines, NEW n \in Nat, NEW pos, Rising(pos, n), NEW ind \in Nat, NEW i \in Nat,
         Follow(lines, i, ind, pos, n)
  PROVE  /\ Cardinality(CallLines(lines, i)) = n
         /\ \A k \in 1..n : Nth(CallLines(lines, i), k) = i + pos[k - 1] + 1
<1>0. /\ Len(lines) \in Nat /\ \A j \in 1..Len(lines) : lines[j].indent \in Nat
      /\ i # 0 /\ i + pos[n] <= Len(lines) /\ lines[i].indent = ind
      /\ \A k \in 1..n : /\ lines[i + pos[k - 1] + 1].indent = ind + 2
                         /\ \A m \in (pos[k - 1] + 2)..pos[k] : lines[i + m].indent >= ind + 4
      /\ i + pos[n] + 1 <= Len(lines) => lines[i + pos[n] + 1].indent <= ind
  BY DEF Follow
<1> USE <1>0
<1> DEFINE g == [k \in 1..n |-> i + pos[k - 1] + 1]
           N == Len(lines)
           C == CallLines(lines, i)
<1>1. /\ pos \in [0..n -> Nat] /\ pos[n] \in Nat /\ \A k \in 1..n : pos[k - 1] \in Nat /\ pos[k] \in Nat
      /\ \A k \in 1..n : pos[k - 1] < pos[k]
  <2>1. n \in 0..n /\ \A k \in 1..n : k - 1 \in 0..n /\ k \in 0..n
    OBVIOUS
  <2> QED
    BY <2>1, Zenon DEF Rising
<1>2. \A a, b \in 0..n : a < b => pos[a] < pos[b]
  BY Rises
<1>3. \A k \in 1..n : pos[k] <= pos[n]
  <2> SUFFICES ASSUME NEW k \in 1..n PROVE pos[k] <= pos[n]
    OBVIOUS
  <2>1. k = n \/ k < n
    OBVIOUS
  <2> QED
    BY <1>1, <1>2, <2>1
<1>4. ASSUME NEW m \in 1..pos[n] PROVE lines[i + m].indent > ind
  <2>1. PICK k \in 1..n : pos[k - 1] < m /\ m <= pos[k]
    BY Covered
  <2>2. CASE m = pos[k - 1] + 1
    <3>1. i + m = i + pos[k - 1] + 1
      BY <1>1, <2>2
    <3>2. lines[i + m].indent = ind + 2
      BY <3>1
    <3> QED
      BY <3>2
  <2>3. CASE m # pos[k - 1] + 1
    <3>1. m \in (pos[k - 1] + 2)..pos[k]
      <4> DEFINE p == pos[k - 1]
                 q == pos[k]
      <4>1. p \in Nat /\ q \in Nat /\ m \in Nat /\ p < m /\ m <= q /\ m # p + 1
        BY <1>1, <2>1, <2>3
      <4> HIDE DEF p, q
      <4>2. m \in (p + 2)..q
        BY <4>1
      <4> QED
        BY <4>2 DEF p, q
    <3>2. lines[i + m].indent >= ind + 4
      BY <3>1
    <3>3. i + m \in 1..N
      BY <1>1
    <3> HIDE DEF N
    <3>4. lines[i + m].indent \in Nat
      BY <3>3 DEF N
    <3> QED
      BY <3>2, <3>4
  <2> QED
    BY <2>2, <2>3
<1>5. ASSUME NEW k \in 1..n PROVE g[k] \in C
  <2> DEFINE j == i + pos[k - 1] + 1
  <2>0. /\ pos[k - 1] \in Nat /\ pos[k] \in Nat /\ pos[n] \in Nat /\ pos[k - 1] < pos[k] /\ pos[k] <= pos[n]
        /\ lines[j].indent = ind + 2
    BY <1>1, <1>3, Zenon
  <2>1. j \in (i + 1)..N /\ lines[j].indent = ind + 2
    <3> DEFINE p == pos[k - 1]
               q == pos[k]
               r == pos[n]
    <3>1. p \in Nat /\ q \in Nat /\ r \in Nat /\ p < q /\ q <= r /\ i + r <= N /\ N \in Nat /\ j = i + p + 1
      BY <2>0
    <3> HIDE DEF p, q, r, N, j
    <3>2. j \in (i + 1)..N
      BY <3>1
    <3> QED
      BY <2>0, <3>2
  <2>2. ASSUME NEW l \in (i + 1)..j PROVE lines[l].indent > ind
    <3>1. l - i \in 1..pos[n] /\ i + (l - i) = l
      <4> DEFINE p == pos[k - 1]
                 q == pos[k]
                 r == pos[n]
      <4>1. p \in Nat /\ q \in Nat /\ r \in Nat /\ p < q /\ q <= r /\ l \in (i + 1)..(i + p + 1)
        BY <2>0, <2>2
      <4> HIDE DEF p, q, r
      <4>2. l - i \in 1..r /\ i + (l - i) = l
        BY <4>1
      <4> QED
        BY <4>2 DEF r
    <3> QED
      BY <1>4, <3>1
  <2>3. g[k] = j
    OBVIOUS
  <2> HIDE DEF j, g
  <2> QED
    BY <2>1, <2>2, <2>3 DEF CallLines
<1>6. ASSUME NEW j \in C PROVE \E k \in 1..n : j = g[k]
  <2>1. j \in (i + 1)..N /\ lines[j].indent = ind + 2 /\ \A l \in (i + 1)..j : lines[l].indent > ind
    BY DEF CallLines
  <2>2. j \in 1..N /\ j \in Nat /\ j - i \in Nat /\ j - i # 0 /\ i + (j - i) = j
    BY <2>1
  <2>3. j - i <= pos[n]
    <3> SUFFICES ASSUME j - i > pos[n] PROVE FALSE
      BY <1>1, <2>2
    <3>1. i + pos[n] + 1 \in (i + 1)..j /\ i + pos[n] + 1 <= N
      BY <1>1, <2>1, <2>2
    <3>2. lines[i + pos[n] + 1].indent > ind /\ lines[i + pos[n] + 1].indent <= ind
      BY <2>1, <3>1
    <3>3. i + pos[n] + 1 \in 1..N
      BY <1>1, <3>1
    <3>4. lines[i + pos[n] + 1].indent \in Nat
      BY <3>3
    <3> QED
      BY <3>2, <3>4
  <2>4. PICK k \in 1..n : pos[k - 1] < j - i /\ j - i <= pos[k]
    <3>1. j - i \in 1..pos[n]
      BY <1>1, <2>2, <2>3
    <3> QED
      BY <3>1, Covered
  <2>5. j - i = pos[k - 1] + 1
    <3> SUFFICES ASSUME j - i # pos[k - 1] + 1 PROVE FALSE
      OBVIOUS
    <3>1. j - i \in (pos[k - 1] + 2)..pos[k]
      <4> DEFINE p == pos[k - 1]
                 q == pos[k]
                 m == j - i
      <4>1. p \in Nat /\ q \in Nat /\ m \in Nat /\ p < m /\ m <= q /\ m # p + 1
        BY <1>1, <2>2, <2>4
      <4> HIDE DEF p, q, m
      <4>2. m \in (p + 2)..q
        BY <4>1
      <4> QED
        BY <4>2 DEF p, q, m
    <3>2. lines[j].indent >= ind + 4
      BY <2>2, <3>1
    <3> QED
      BY <2>1, <3>2
  <2>6. j = i + pos[k - 1] + 1
    <3> DEFINE p == pos[k - 1]
    <3>1. p \in Nat /\ j \in Nat /\ i \in Nat /\ j - i = p + 1
      BY <1>1, <2>2, <2>5, Zenon
    <3> HIDE DEF p, C, g, N
    <3>2. j = i + p + 1
      BY <3>1
    <3> QED
      BY <3>2 DEF p
  <2> QED
    BY <2>6
<1>7. C = {g[k] : k \in 1..n}
  <2> HIDE DEF C, g
  <2> QED
    BY <1>5, <1>6
<1>8. g \in [1..n -> Nat] /\ \A k, m \in 1..n : k < m => g[k] < g[m]
  <2>1. \A k \in 1..n : g[k] \in Nat
    <3> SUFFICES ASSUME NEW k \in 1..n PROVE g[k] \in Nat
      OBVIOUS
    <3>1. pos[k - 1] \in Nat
      BY <1>1, Zenon
    <3> QED
      BY <3>1
  <2>2. ASSUME NEW k \in 1..n, NEW m \in 1..n, k < m PROVE g[k] < g[m]
    <3>1. k - 1 \in 0..n /\ m - 1 \in 0..n /\ k - 1 < m - 1
      BY <2>2
    <3>2. pos[k - 1] < pos[m - 1]
      BY <1>2, <3>1
    <3> QED
      BY <1>1, <3>2
  <2> QED
    BY <2>1, <2>2
<1> HIDE DEF C, g
<1>9. Cardinality(C) = n /\ \A k \in 1..n : Nth(C, k) = g[k]
  BY <1>7, <1>8, NthOf
<1> QED
  BY <1>9 DEF g, C

-----------------------------------------------------------------------------
(* The frames go-consumer decodes.                                         *)

\* Its messages are those of convert.rs.
LEMMA SameMessages == Consumer!FrameMessages = FrameMessages
<1> DEFINE A(W) == W = [x \in Frames |-> frame_to_proto(x, [i \in DOMAIN CallsOf(x) |-> W[CallsOf(x)[i]]])]
           B(W) == W = [x \in Frames |-> Consumer!frame_to_proto(x, [i \in DOMAIN Consumer!CallsOf(x) |-> W[Consumer!CallsOf(x)[i]]])]
<1>1. Convert!Walk = CHOOSE W : A(W)
  BY DEF Convert!Walk
<1>2. Consumer!Convert!Walk = CHOOSE W : B(W)
  BY DEF Consumer!Convert!Walk
<1>3. \A W : A(W) <=> B(W)
  <2>1. \A x, c : frame_to_proto(x, c) = Consumer!frame_to_proto(x, c)
    BY Zenon DEF frame_to_proto, Consumer!frame_to_proto, addr_to_bytes, Consumer!addr_to_bytes, OrDefault, Consumer!OrDefault,
       value_to_bytes, Consumer!value_to_bytes, u256_to_bytes, Consumer!u256_to_bytes, ToBytes, Consumer!ToBytes,
       Base, Consumer!Base, Id, Consumer!Id, IsSome, Consumer!IsSome, None, Consumer!None, Each, Consumer!Each,
       call_log_frame_to_proto, Consumer!call_log_frame_to_proto, b256_to_bytes, Consumer!b256_to_bytes
  <2>2. \A x : CallsOf(x) = Consumer!CallsOf(x)
    BY DEF CallsOf, Consumer!CallsOf
  <2> QED
    BY <2>1, <2>2
<1>4. Convert!Walk = Consumer!Convert!Walk
  <2> HIDE DEF A, B
  <2> QED
    BY <1>1, <1>2, <1>3
<1> QED
  BY <1>4 DEF FrameMessages, Consumer!FrameMessages, call_frame_to_proto, Consumer!call_frame_to_proto

\* What is made of frames, each with what is made of its calls, is made of
\* finite trees.
Made(M, kids, h) ==
  /\ M = {h[f] : f \in Frames}
  /\ \A f \in Frames : /\ DOMAIN kids[h[f]] = DOMAIN f.calls
                       /\ \A i \in DOMAIN f.calls : kids[h[f]][i] = h[f.calls[i]]
Ranked(M, kids) ==
  \E rank \in [M -> Nat] :
    \A x \in M : \A i \in DOMAIN kids[x] : kids[x][i] \in M /\ rank[kids[x][i]] < rank[x]

LEMMA LeastRank ==
  ASSUME NEW h, NEW kids, NEW M, Made(M, kids, h)
  PROVE  Ranked(M, kids)
<1> DEFINE depths(x) == {Depth[f] : f \in {g \in Frames : h[g] = x}}
           least(x) == CHOOSE n \in depths(x) : \A m \in depths(x) : ~(m < n)
           rank == [x \in M |-> least(x)]
<1>0. /\ M = {h[f] : f \in Frames}
      /\ \A f \in Frames : /\ DOMAIN kids[h[f]] = DOMAIN f.calls
                           /\ \A i \in DOMAIN f.calls : kids[h[f]][i] = h[f.calls[i]]
  BY DEF Made
<1>1. ASSUME NEW x \in M
      PROVE  least(x) \in Nat /\ least(x) \in depths(x) /\ \A m \in depths(x) : ~(m < least(x))
  <2>1. depths(x) \in SUBSET Nat /\ depths(x) # {}
    BY <1>0, FrameAssumption
  <2>2. \E n \in depths(x) : \A m \in depths(x) : ~(m < n)
    <3> HIDE DEF depths
    <3> QED
      BY <2>1, ConvertLaws!LeastNumber
  <2> HIDE DEF depths
  <2> QED
    BY <2>1, <2>2
<1>2. rank \in [M -> Nat]
  <2> HIDE DEF least
  <2> QED
    BY <1>1
<1>3. ASSUME NEW x \in M, NEW i \in DOMAIN kids[x]
      PROVE  kids[x][i] \in M /\ rank[kids[x][i]] < rank[x]
  <2> HIDE DEF least
  <2>1. PICK f \in Frames : h[f] = x /\ Depth[f] = least(x)
    BY <1>1
  <2> USE <1>0
  <2> DEFINE c == f.calls[i]
             y == kids[x][i]
  <2>2. i \in DOMAIN f.calls /\ y = h[c]
    BY <2>1
  <2>3. c \in Frames /\ Depth[c] < Depth[f] /\ Depth[c] \in Nat /\ Depth[f] \in Nat
    BY <2>2, FrameCalls, FrameAssumption
  <2> HIDE DEF c, y
  <2>4. y \in M /\ Depth[c] \in depths(y)
    BY <2>2, <2>3
  <2>5. ~(Depth[c] < least(y)) /\ least(y) \in Nat
    BY <1>1, <2>4
  <2>6. least(y) < least(x)
    BY <2>1, <2>3, <2>5
  <2>7. rank[y] = least(y) /\ rank[x] = least(x)
    BY <2>4
  <2> QED
    BY <2>4, <2>6, <2>7 DEF y
<1> HIDE DEF rank
<1> QED
  BY <1>2, <1>3 DEF Ranked

DecodeLaws == INSTANCE FrameWalkProofs WITH Node <- FrameMessages, Calls <- Consumer!CallsIn,
                                            Visit <- Consumer!CallFrameWith

\* A frame as go-consumer has it.
Struct(f) == Consumer!Decode!Walk[call_frame_to_proto(f)]

LEMMA MessageFields ==
  ASSUME NEW f \in Frames, NEW gas
  PROVE  LET m == call_frame_to_proto(f)
             q == [m EXCEPT !.gas = gas]
         IN /\ m.calls = [i \in DOMAIN f.calls |-> call_frame_to_proto(f.calls[i])]
            /\ m.typ = f.typ /\ m.from = <<f.from>> /\ m.to = OrDefault(f.to, addr_to_bytes, <<>>)
            /\ m.value = OrDefault(f.value, u256_to_bytes, <<>>) /\ m.gas_used = u256_to_bytes(f.gas_used)
            /\ m.error = OrDefault(f.error, Id, "") /\ m.logs = Each(f.logs, call_log_frame_to_proto)
            /\ q.calls = m.calls /\ q.typ = m.typ /\ q.from = m.from /\ q.to = m.to /\ q.value = m.value
            /\ q.gas_used = m.gas_used /\ q.error = m.error /\ q.revert_reason = m.revert_reason
            /\ q.logs = m.logs
<1> DEFINE calls == [i \in DOMAIN f.calls |-> call_frame_to_proto(f.calls[i])]
           M == frame_to_proto(f, calls)
           from == <<f.from>>
           to == OrDefault(f.to, addr_to_bytes, <<>>)
           value == OrDefault(f.value, u256_to_bytes, <<>>)
           limit == u256_to_bytes(f.gas)
           used == u256_to_bytes(f.gas_used)
           out == OrDefault(f.output, Id, <<>>)
           err == OrDefault(f.error, Id, "")
           reason == OrDefault(f.revert_reason, Id, "")
           logs == Each(f.logs, call_log_frame_to_proto)
           q == [M EXCEPT !.gas = gas]
<1>1. M = [typ |-> f.typ, from |-> from, to |-> to, value |-> value, gas |-> limit,
           gas_used |-> used, input |-> f.input, output |-> out, error |-> err,
           revert_reason |-> reason, calls |-> calls, logs |-> logs]
  BY Zenon DEF frame_to_proto, addr_to_bytes, value_to_bytes
<1>2. call_frame_to_proto(f) = M
  BY ConvertAt
<1> HIDE DEF M, calls, from, to, value, limit, used, out, err, reason, logs
<1>3. /\ M.calls = calls /\ M.typ = f.typ /\ M.from = from /\ M.to = to /\ M.value = value /\ M.gas_used = used
      /\ M.error = err /\ M.logs = logs
  BY <1>1
<1>4. /\ q.calls = M.calls /\ q.typ = M.typ /\ q.from = M.from /\ q.to = M.to /\ q.value = M.value
      /\ q.gas_used = M.gas_used /\ q.error = M.error /\ q.revert_reason = M.revert_reason /\ q.logs = M.logs
  BY <1>1
<1> QED
  BY <1>2, <1>3, <1>4, Zenon DEF calls, from, to, value, used, err, logs

\* Of a message as of a struct, the calls are those of the frame.
LEMMA StructAt ==
  ASSUME NEW f \in Frames
  PROVE  Struct(f) = Consumer!CallFrameWith(call_frame_to_proto(f), [i \in DOMAIN f.calls |-> Struct(f.calls[i])])
<1> DEFINE h == [g \in Frames |-> call_frame_to_proto(g)]
           kids == [x \in FrameMessages |-> x.calls]
           m == call_frame_to_proto(f)
<1>1. FrameMessages = {h[g] : g \in Frames}
  BY DEF FrameMessages
<1>2. ASSUME NEW g \in Frames
      PROVE  /\ DOMAIN kids[h[g]] = DOMAIN g.calls
             /\ \A i \in DOMAIN g.calls : kids[h[g]][i] = h[g.calls[i]]
  <2>1. kids[h[g]] = call_frame_to_proto(g).calls
    BY <1>1
  <2>2. kids[h[g]] = [i \in DOMAIN g.calls |-> call_frame_to_proto(g.calls[i])]
    BY <2>1, MessageFields
  <2>3. \A i \in DOMAIN g.calls : g.calls[i] \in Frames
    BY FrameCalls
  <2> HIDE DEF kids
  <2> QED
    BY <2>2, <2>3
<1>3. PICK rank \in [FrameMessages -> Nat] :
        \A x \in FrameMessages : \A i \in DOMAIN kids[x] : kids[x][i] \in FrameMessages /\ rank[kids[x][i]] < rank[x]
  <2>1. Made(FrameMessages, kids, h)
    <3> HIDE DEF kids, h
    <3> QED
      BY <1>1, <1>2 DEF Made
  <2> HIDE DEF kids, h
  <2>2. Ranked(FrameMessages, kids)
    BY <2>1, LeastRank, Zenon
  <2> QED
    BY <2>2 DEF Ranked
<1>4. DecodeLaws!IsRank(rank)
  BY <1>3 DEF DecodeLaws!IsRank, Consumer!CallsIn
<1>5. DecodeLaws!Walk = Consumer!Decode!Walk
  BY SameMessages DEF DecodeLaws!Walk, Consumer!Decode!Walk
<1>6. m \in FrameMessages
  BY DEF FrameMessages
<1>7. Consumer!Decode!Walk[m]
        = Consumer!CallFrameWith(m, [i \in DOMAIN Consumer!CallsIn(m) |-> Consumer!Decode!Walk[Consumer!CallsIn(m)[i]]])
  BY <1>4, <1>5, <1>6, DecodeLaws!WalkAt
<1>8. m.calls = [i \in DOMAIN f.calls |-> call_frame_to_proto(f.calls[i])]
  BY MessageFields
<1> HIDE DEF m
<1>9. [i \in DOMAIN Consumer!CallsIn(m) |-> Consumer!Decode!Walk[Consumer!CallsIn(m)[i]]]
        = [i \in DOMAIN f.calls |-> Struct(f.calls[i])]
  BY <1>8 DEF Struct, Consumer!CallsIn
<1> QED
  BY <1>7, <1>9 DEF Struct, m

\* A struct and that of the root of a transaction, which has the gas limit of
\* the transaction instead: go-consumer prints the same of both.
LEMMA StructFields ==
  ASSUME NEW f \in Frames, NEW gas
  PROVE  LET s == Struct(f)
             root == Consumer!CallFrame([call_frame_to_proto(f) EXCEPT !.gas = gas])
         IN /\ s.Calls = [i \in DOMAIN f.calls |-> Struct(f.calls[i])] /\ root.Calls = s.Calls
            /\ s.Typ = f.typ /\ s.From = <<f.from>> /\ s.To = OrDefault(f.to, addr_to_bytes, <<>>)
            /\ s.Value = OrDefault(f.value, u256_to_bytes, <<>>) /\ s.GasUsed = u256_to_bytes(f.gas_used)
            /\ s.Error = OrDefault(f.error, Id, "")
            /\ s.Logs = [i \in DOMAIN f.logs |-> Consumer!CallLogFrame(call_log_frame_to_proto(f.logs[i]))]
            /\ \A ind : Consumer!printLine(root, ind) = Consumer!printLine(s, ind)
<1> DEFINE m == call_frame_to_proto(f)
           q == [m EXCEPT !.gas = gas]
           calls == [i \in DOMAIN f.calls |-> Struct(f.calls[i])]
           logs(p) == [i \in DOMAIN p.logs |-> Consumer!CallLogFrame(p.logs[i])]
           made(p) == [Typ |-> p.typ, From |-> p.from, To |-> p.to, Value |-> p.value, Gas |-> p.gas,
                       GasUsed |-> p.gas_used, Error |-> p.error, RevertReason |-> p.revert_reason,
                       Calls |-> calls, Logs |-> logs(p)]
           s == Struct(f)
           root == Consumer!CallFrame(q)
<1>1. \A p : Consumer!CallFrameWith(p, calls) = made(p)
  <2> HIDE DEF calls
  <2> QED
    BY DEF Consumer!CallFrameWith, Consumer!Each
<1>2. s = made(m)
  <2>1. s = Consumer!CallFrameWith(m, calls)
    BY StructAt
  <2> HIDE DEF s, m, calls, made
  <2> QED
    BY <1>1, <2>1
<1>3. /\ m.calls = [i \in DOMAIN f.calls |-> call_frame_to_proto(f.calls[i])]
      /\ m.typ = f.typ /\ m.from = <<f.from>> /\ m.to = OrDefault(f.to, addr_to_bytes, <<>>)
      /\ m.value = OrDefault(f.value, u256_to_bytes, <<>>) /\ m.gas_used = u256_to_bytes(f.gas_used)
      /\ m.error = OrDefault(f.error, Id, "") /\ m.logs = Each(f.logs, call_log_frame_to_proto)
  BY MessageFields, Zenon
<1>4. /\ q.calls = m.calls /\ q.typ = m.typ /\ q.from = m.from /\ q.to = m.to /\ q.value = m.value
      /\ q.gas_used = m.gas_used /\ q.error = m.error /\ q.revert_reason = m.revert_reason
      /\ q.logs = m.logs
  BY MessageFields, Zenon
<1> HIDE DEF m, q
<1>5. root = made(q)
  <2>1. root = Consumer!CallFrameWith(q, [i \in DOMAIN q.calls |-> Consumer!Decode!Walk[q.calls[i]]])
    BY DEF Consumer!CallFrame, Consumer!Each
  <2>2. [i \in DOMAIN q.calls |-> Consumer!Decode!Walk[q.calls[i]]] = calls
    <3>1. q.calls = [i \in DOMAIN f.calls |-> call_frame_to_proto(f.calls[i])]
      BY <1>3, <1>4, Zenon
    <3> QED
      BY <3>1 DEF Struct
  <2> HIDE DEF root, calls, made
  <2> QED
    BY <1>1, <2>1, <2>2
<1> DEFINE fields(p, x) ==
             /\ x.Typ = p.typ /\ x.From = p.from /\ x.To = p.to /\ x.Value = p.value
             /\ x.GasUsed = p.gas_used /\ x.Error = p.error /\ x.RevertReason = p.revert_reason
             /\ x.Calls = calls /\ x.Logs = logs(p)
<1>6. \A p : fields(p, made(p))
  <2> HIDE DEF calls, logs
  <2> QED
    OBVIOUS
<1>7. fields(m, s) /\ fields(q, root)
  <2> HIDE DEF fields, made, s, root
  <2> QED
    BY <1>2, <1>5, <1>6
<1>8. logs(q) = logs(m)
  BY <1>4
<1>9. logs(m) = [i \in DOMAIN f.logs |-> Consumer!CallLogFrame(call_log_frame_to_proto(f.logs[i]))]
  BY <1>3 DEF Each
<1> HIDE DEF s, root, calls, logs, made
<1>10. root.Calls = s.Calls /\ \A ind : Consumer!printLine(root, ind) = Consumer!printLine(s, ind)
  <2>1. /\ root.Typ = s.Typ /\ root.From = s.From /\ root.To = s.To /\ root.Value = s.Value
        /\ root.GasUsed = s.GasUsed /\ root.Error = s.Error /\ root.RevertReason = s.RevertReason
        /\ root.Calls = s.Calls /\ root.Logs = s.Logs
    BY <1>4, <1>7, <1>8
  <2> QED
    BY <2>1, Zenon DEF Consumer!printLine, Consumer!Each
<1> QED
  BY <1>3, <1>7, <1>9, <1>10, Zenon DEF s, root, calls, m, q

\* The lines printed of a frame.
Structs == {Consumer!Decode!Walk[p] : p \in Consumer!FrameMessages}
LinesLaws == INSTANCE FrameWalkProofs WITH Node <- Structs \X Nat, Calls <- Consumer!Children,
                                           Visit <- Consumer!printWith
Line(f, ind) == Consumer!printLine(Struct(f), ind)
LinesOf(f, ind) == Consumer!Lines!Walk[<<Struct(f), ind>>]

LEMMA StructsAre == Structs = {Struct(f) : f \in Frames}
BY SameMessages DEF Structs, Struct, FrameMessages

LEMMA ChildrenAre ==
  ASSUME NEW f \in Frames, NEW ind \in Nat
  PROVE  Consumer!Children(<<Struct(f), ind>>) = [i \in DOMAIN f.calls |-> <<Struct(f.calls[i]), ind + 2>>]
<1> DEFINE s == Struct(f)
<1>1. s.Calls = [i \in DOMAIN f.calls |-> Struct(f.calls[i])]
  BY StructFields
<1> HIDE DEF s
<1>2. Consumer!Children(<<s, ind>>) = [i \in DOMAIN s.Calls |-> <<s.Calls[i], ind + 2>>]
  BY DEF Consumer!Children, Consumer!Each
<1> QED
  BY <1>1, <1>2 DEF s

LEMMA LinesAt ==
  ASSUME NEW f \in Frames, NEW ind \in Nat
  PROVE  LinesOf(f, ind)
           = <<Line(f, ind)>> \o Consumer!FlattenSeq([i \in 1..Len(f.calls) |-> LinesOf(f.calls[i], ind + 2)])
<1> DEFINE h == [g \in Frames |-> Struct(g)]
           kids == [x \in Structs |-> x.Calls]
           at == <<Struct(f), ind>>
<1>1. Structs = {h[g] : g \in Frames}
  BY StructsAre
<1>2. ASSUME NEW g \in Frames
      PROVE  /\ DOMAIN kids[h[g]] = DOMAIN g.calls
             /\ \A i \in DOMAIN g.calls : kids[h[g]][i] = h[g.calls[i]]
  <2>1. kids[h[g]] = Struct(g).Calls
    BY <1>1
  <2>2. kids[h[g]] = [i \in DOMAIN g.calls |-> Struct(g.calls[i])]
    BY <2>1, StructFields
  <2>3. \A i \in DOMAIN g.calls : g.calls[i] \in Frames
    BY FrameCalls
  <2> HIDE DEF kids
  <2> QED
    BY <2>2, <2>3
<1>3. PICK rank \in [Structs -> Nat] :
        \A x \in Structs : \A i \in DOMAIN kids[x] : kids[x][i] \in Structs /\ rank[kids[x][i]] < rank[x]
  <2>1. Made(Structs, kids, h)
    <3> HIDE DEF kids, h
    <3> QED
      BY <1>1, <1>2 DEF Made
  <2> HIDE DEF kids, h
  <2>2. Ranked(Structs, kids)
    BY <2>1, LeastRank, Zenon
  <2> QED
    BY <2>2 DEF Ranked
<1> DEFINE deep == [x \in Structs \X Nat |-> rank[x[1]]]
<1>4. LinesLaws!IsRank(deep)
  <2>1. ASSUME NEW x \in Structs \X Nat, NEW i \in DOMAIN Consumer!Children(x)
        PROVE  Consumer!Children(x)[i] \in Structs \X Nat /\ deep[Consumer!Children(x)[i]] < deep[x]
    <3> DEFINE s == x[1]
               n == x[2]
    <3>1. s \in Structs /\ n \in Nat
      OBVIOUS
    <3>2. Consumer!Children(x) = [k \in DOMAIN s.Calls |-> <<s.Calls[k], n + 2>>]
      BY DEF Consumer!Children, Consumer!Each
    <3>3. i \in DOMAIN s.Calls /\ Consumer!Children(x)[i] = <<s.Calls[i], n + 2>>
      BY <3>2
    <3>4. s.Calls[i] \in Structs /\ rank[s.Calls[i]] < rank[s]
      BY <1>3, <3>1, <3>3
    <3> HIDE DEF s, n
    <3>5. <<s.Calls[i], n + 2>> \in Structs \X Nat
      BY <3>1, <3>4
    <3>6. deep[<<s.Calls[i], n + 2>>] = rank[s.Calls[i]] /\ deep[x] = rank[s]
      BY <3>5 DEF s
    <3> QED
      BY <3>3, <3>4, <3>5, <3>6
  <2>2. deep \in [Structs \X Nat -> Nat]
    OBVIOUS
  <2> HIDE DEF deep
  <2> QED
    BY <2>1, <2>2 DEF LinesLaws!IsRank
<1>5. LinesLaws!Walk = Consumer!Lines!Walk
  BY Zenon DEF LinesLaws!Walk, Consumer!Lines!Walk, Structs
<1>6. at \in Structs \X Nat
  BY <1>1
<1>7. Consumer!Lines!Walk[at]
        = Consumer!printWith(at, [i \in DOMAIN Consumer!Children(at) |-> Consumer!Lines!Walk[Consumer!Children(at)[i]]])
  <2> HIDE DEF at, deep
  <2> QED
    BY <1>4, <1>5, <1>6, LinesLaws!WalkAt
<1>8. [i \in DOMAIN Consumer!Children(at) |-> Consumer!Lines!Walk[Consumer!Children(at)[i]]]
        = [i \in 1..Len(f.calls) |-> LinesOf(f.calls[i], ind + 2)]
  <2>1. Consumer!Children(at) = [i \in DOMAIN f.calls |-> <<Struct(f.calls[i]), ind + 2>>] /\ DOMAIN f.calls = 1..Len(f.calls)
    BY ChildrenAre, FrameCalls
  <2> HIDE DEF at
  <2> QED
    BY <2>1 DEF LinesOf
<1>9. \A children : Consumer!printWith(at, children) = <<Line(f, ind)>> \o Consumer!FlattenSeq(children)
  BY DEF Consumer!printWith, Line
<1> QED
  BY <1>7, <1>8, <1>9 DEF LinesOf

\* The lines of the root of a transaction.
LEMMA RootLines ==
  ASSUME NEW f \in Frames, NEW gas, NEW ind \in Nat
  PROVE  Consumer!printCallFrame(Consumer!CallFrame([call_frame_to_proto(f) EXCEPT !.gas = gas]), ind) = LinesOf(f, ind)
<1> DEFINE r == Consumer!CallFrame([call_frame_to_proto(f) EXCEPT !.gas = gas])
           at == <<r, ind>>
           kids == [i \in DOMAIN Consumer!Children(at) |-> Consumer!Lines!Walk[Consumer!Children(at)[i]]]
<1>1. r.Calls = [i \in DOMAIN f.calls |-> Struct(f.calls[i])] /\ Consumer!printLine(r, ind) = Line(f, ind)
  BY StructFields, Zenon DEF Line
<1> HIDE DEF r
<1>2. Consumer!Children(at) = [i \in DOMAIN r.Calls |-> <<r.Calls[i], ind + 2>>]
  BY DEF Consumer!Children, Consumer!Each
<1>3. DOMAIN f.calls = 1..Len(f.calls)
  BY FrameCalls
<1>4. kids = [i \in 1..Len(f.calls) |-> LinesOf(f.calls[i], ind + 2)]
  <2>1. Consumer!Children(at) = [i \in 1..Len(f.calls) |-> <<Struct(f.calls[i]), ind + 2>>]
    <3> HIDE DEF at
    <3> QED
      BY <1>1, <1>2, <1>3
  <2> HIDE DEF at
  <2> QED
    BY <2>1 DEF LinesOf
<1>5. Consumer!printCallFrame(r, ind) = <<Consumer!printLine(r, ind)>> \o Consumer!FlattenSeq(kids)
  BY DEF Consumer!printCallFrame, Consumer!printWith, Consumer!Each
<1> HIDE DEF kids
<1> QED
  BY <1>1, <1>4, <1>5, LinesAt DEF r

AllLines == {Line(f, ind) : f \in Frames, ind \in Nat}

LEMMA LineIndent ==
  /\ \A f \in Frames : \A ind \in Nat : Line(f, ind).indent = ind /\ Line(f, ind) \in AllLines
  /\ \A x \in AllLines : x.indent \in Nat
<1>1. \A f, ind : Line(f, ind).indent = ind
  <2> SUFFICES ASSUME NEW f, NEW ind PROVE Line(f, ind).indent = ind
    OBVIOUS
  <2> DEFINE s == Struct(f)
  <2>1. Consumer!printLine(s, ind).indent = ind
    <3> HIDE DEF s
    <3> QED
      BY DEF Consumer!printLine
  <2> QED
    BY <2>1 DEF Line
<1> QED
  BY <1>1 DEF AllLines

\* The lines of a frame are its own and those of its calls, one call after
\* another; pos tells where these end.
Shape(f, ind, pos) ==
  /\ Rising(pos, Len(f.calls))
  /\ LinesOf(f, ind) \in Seq(AllLines) /\ Len(LinesOf(f, ind)) = pos[Len(f.calls)] + 1
  /\ LinesOf(f, ind)[1] = Line(f, ind)
  /\ \A k \in 1..Len(f.calls) :
       /\ pos[k] = pos[k - 1] + Len(LinesOf(f.calls[k], ind + 2))
       /\ \A m \in 1..Len(LinesOf(f.calls[k], ind + 2)) :
            LinesOf(f, ind)[pos[k - 1] + m + 1] = LinesOf(f.calls[k], ind + 2)[m]

\* The frame's own line comes first; all others are further in.
Indented(f) ==
  \A ind \in Nat :
    /\ LinesOf(f, ind) \in Seq(AllLines) /\ Len(LinesOf(f, ind)) # 0
    /\ LinesOf(f, ind)[1] = Line(f, ind)
    /\ \A m \in 2..Len(LinesOf(f, ind)) : LinesOf(f, ind)[m].indent >= ind + 2

LEMMA ShapeOf ==
  ASSUME NEW f \in Frames, NEW ind \in Nat, \A i \in DOMAIN f.calls : Indented(f.calls[i])
  PROVE  \E pos : Shape(f, ind, pos)
<1> DEFINE n == Len(f.calls)
           ss == [i \in 1..n |-> LinesOf(f.calls[i], ind + 2)]
           all == Consumer!FlattenSeq(ss)
           L == LinesOf(f, ind)
           own == <<Line(f, ind)>>
<1>1. n \in Nat /\ DOMAIN f.calls = 1..n
  BY FrameCalls
<1> HIDE DEF n
<1>2. \A i \in 1..n : ss[i] = LinesOf(f.calls[i], ind + 2)
  OBVIOUS
<1>3. \A i \in 1..n : ss[i] \in Seq(AllLines) /\ Len(ss[i]) # 0 /\ Len(ss[i]) \in Nat
  <2>1. \A i \in 1..n : ss[i] \in Seq(AllLines) /\ Len(ss[i]) # 0
    BY <1>1 DEF Indented
  <2> QED
    BY <2>1, LenProperties
<1>4. ss = [i \in 1..n |-> ss[i]]
  OBVIOUS
<1>5. L = own \o all
  BY LinesAt DEF n
<1> HIDE DEF ss, L
<1>6. PICK pos \in [0..n -> Nat] :
        /\ pos[0] = 0 /\ \A k \in 1..n : pos[k] = pos[k - 1] + Len(ss[k])
        /\ all \in Seq(AllLines) /\ Len(all) = pos[n]
        /\ \A k \in 1..n : \A m \in 1..Len(ss[k]) : all[pos[k - 1] + m] = ss[k][m]
  <2>1. \A i \in 1..n : ss[i] \in Seq(AllLines)
    BY <1>3
  <2> QED
    <3>1. Laid(all, AllLines, ss, n)
      BY <1>1, <1>4, <2>1, Flattened
    <3> HIDE DEF all
    <3> QED
      BY <3>1, Zenon DEF Laid
<1> HIDE DEF all
<1>7. n \in 0..n /\ \A k \in 1..n : k \in 0..n /\ k - 1 \in 0..n
  BY <1>1
<1>8. pos[n] \in Nat /\ \A k \in 1..n : pos[k] \in Nat /\ pos[k - 1] \in Nat
  BY <1>6, <1>7, Zenon
<1>9. \A k \in 1..n : pos[k - 1] < pos[k]
  BY <1>3, <1>6, <1>8
<1>10. Rising(pos, n)
  BY <1>6, <1>9 DEF Rising
<1>11. own \in Seq(AllLines) /\ Len(own) = 1 /\ own[1] = Line(f, ind)
  BY LineIndent
<1> HIDE DEF own
<1>12. /\ L \in Seq(AllLines) /\ Len(L) = 1 + pos[n]
       /\ \A i \in 1..1 + pos[n] : L[i] = IF i <= 1 THEN own[i] ELSE all[i - 1]
  BY <1>5, <1>6, <1>11, ConcatProperties
<1>13. Len(L) = pos[n] + 1 /\ L[1] = Line(f, ind)
  BY <1>8, <1>11, <1>12
<1>14. ASSUME NEW k \in 1..n, NEW m \in 1..Len(ss[k]) PROVE L[pos[k - 1] + m + 1] = ss[k][m]
  <2> DEFINE p == pos[k - 1]
             q == pos[k]
             r == pos[n]
             w == Len(ss[k])
  <2>1. q <= r
    <3>1. k = n \/ k < n
      BY <1>1
    <3>2. k < n => pos[k] < pos[n]
      BY <1>1, <1>7, <1>10, Rises
    <3> QED
      BY <1>8, <3>1, <3>2
  <2>2. p \in Nat /\ q \in Nat /\ r \in Nat /\ w \in Nat /\ q = p + w /\ m \in 1..w
    BY <1>3, <1>6, <1>8, Zenon
  <2> HIDE DEF p, q, r, w
  <2>3. p + m + 1 \in 1..1 + r /\ ~(p + m + 1 <= 1) /\ (p + m + 1) - 1 = p + m
    BY <2>1, <2>2
  <2>4. L[p + m + 1] = all[p + m]
    <3>1. \A i \in 1..1 + r : L[i] = IF i <= 1 THEN own[i] ELSE all[i - 1]
      BY <1>12 DEF r
    <3> QED
      BY <2>3, <3>1
  <2>5. all[p + m] = ss[k][m]
    BY <1>6, <2>2 DEF p, w
  <2> QED
    BY <2>4, <2>5 DEF p
<1>15. Shape(f, ind, pos)
  <2>1. \A k \in 1..n :
          /\ pos[k] = pos[k - 1] + Len(LinesOf(f.calls[k], ind + 2))
          /\ \A m \in 1..Len(LinesOf(f.calls[k], ind + 2)) :
               L[pos[k - 1] + m + 1] = LinesOf(f.calls[k], ind + 2)[m]
    BY <1>2, <1>6, <1>14
  <2> QED
    BY <1>10, <1>12, <1>13, <2>1 DEF Shape, L, n
<1> QED
  BY <1>15

LEMMA AllIndented == \A f \in Frames : Indented(f)
<1> DEFINE T == {f \in Frames : Indented(f)}
<1>1. ASSUME NEW f \in Frames, \A i \in DOMAIN CallsOf(f) : CallsOf(f)[i] \in T
      PROVE  f \in T
  <2> SUFFICES ASSUME NEW ind \in Nat
               PROVE  /\ LinesOf(f, ind) \in Seq(AllLines) /\ Len(LinesOf(f, ind)) # 0
                      /\ LinesOf(f, ind)[1] = Line(f, ind)
                      /\ \A m \in 2..Len(LinesOf(f, ind)) : LinesOf(f, ind)[m].indent >= ind + 2
    BY DEF Indented
  <2> DEFINE n == Len(f.calls)
             L == LinesOf(f, ind)
             M(k) == LinesOf(f.calls[k], ind + 2)
  <2>1. \A i \in DOMAIN f.calls : f.calls[i] \in Frames /\ Indented(f.calls[i])
    BY <1>1 DEF CallsOf
  <2>2. n \in Nat /\ DOMAIN f.calls = 1..n
    BY FrameCalls
  <2>3. PICK pos : Shape(f, ind, pos)
    BY <2>1, ShapeOf
  <2>4. /\ Rising(pos, n) /\ L \in Seq(AllLines) /\ Len(L) = pos[n] + 1 /\ L[1] = Line(f, ind)
        /\ \A k \in 1..n : /\ pos[k] = pos[k - 1] + Len(M(k))
                           /\ \A m \in 1..Len(M(k)) : L[pos[k - 1] + m + 1] = M(k)[m]
    BY <2>3 DEF Shape
  <2>5. \A k \in 1..n : /\ M(k) \in Seq(AllLines) /\ Len(M(k)) # 0 /\ M(k)[1] = Line(f.calls[k], ind + 2)
                        /\ \A m \in 2..Len(M(k)) : M(k)[m].indent >= (ind + 2) + 2
    <3>1. ind + 2 \in Nat
      OBVIOUS
    <3> HIDE DEF n
    <3> QED
      BY <2>1, <2>2, <3>1 DEF Indented
  <2>6. \A k \in 1..n : M(k)[1].indent = ind + 2
    <3>1. ind + 2 \in Nat
      OBVIOUS
    <3> HIDE DEF n, M
    <3> QED
      BY <2>1, <2>2, <2>5, <3>1, LineIndent
  <2> HIDE DEF n, L, M
  <2>7. ASSUME NEW m \in 2..Len(L) PROVE L[m].indent >= ind + 2
    <3>1. \A k \in 0..n : pos[k] \in Nat
      BY <2>4 DEF Rising
    <3>2. n \in 0..n /\ \A k \in 1..n : k \in 0..n /\ k - 1 \in 0..n
      BY <2>2
    <3>3. pos[n] \in Nat /\ m - 1 \in 1..pos[n]
      BY <2>4, <3>1, <3>2
    <3>4. PICK k \in 1..n : pos[k - 1] < m - 1 /\ m - 1 <= pos[k]
      BY <2>2, <2>4, <3>3, Covered
    <3> DEFINE p == pos[k - 1]
               q == pos[k]
               w == Len(M(k))
               j == m - 1 - p
    <3>5. p \in Nat /\ q \in Nat /\ q = p + w /\ p < m - 1 /\ m - 1 <= q /\ m \in Nat /\ w \in Nat
      <4>1. w \in Nat
        BY <2>5, LenProperties
      <4> QED
        BY <2>4, <3>1, <3>2, <3>4, <4>1
    <3> HIDE DEF p, q, w
    <3>6. j \in 1..w /\ p + j + 1 = m
      BY <3>5
    <3>7. L[m] = M(k)[j]
      <4>1. L[p + j + 1] = M(k)[j]
        <5> HIDE DEF j
        <5> QED
          BY <2>4, <3>6 DEF p, w
      <4> QED
        BY <3>6, <4>1
    <3> HIDE DEF j
    <3>8. CASE j = 1
      <4>1. L[m].indent = ind + 2
        BY <2>6, <3>7, <3>8
      <4> QED
        BY <4>1
    <3>9. CASE j # 1
      <4>1. j \in 2..Len(M(k))
        BY <3>5, <3>6, <3>9 DEF w
      <4>2. L[m].indent >= (ind + 2) + 2
        BY <2>5, <3>7, <4>1
      <4>3. L[m].indent \in Nat
        <5>1. m \in 1..Len(L)
          BY <3>5
        <5>2. L[m] \in AllLines
          BY <2>4, <5>1, ElementOfSeq
        <5> QED
          BY <5>2, LineIndent
      <4> QED
        BY <4>2, <4>3
    <3> QED
      BY <3>8, <3>9
  <2>8. Len(L) # 0
    <3>1. n \in 0..n
      BY <2>2
    <3>2. pos[n] \in Nat
      BY <2>4, <3>1 DEF Rising
    <3> QED
      BY <2>4, <3>2
  <2> QED
    BY <2>4, <2>7, <2>8 DEF L
<1>2. ConvertLaws!IsRank(Depth)
  BY FrameCalls, FrameAssumption DEF ConvertLaws!IsRank, CallsOf
<1>3. T \in SUBSET Frames
  OBVIOUS
<1> HIDE DEF T
<1>4. T = Frames
  BY <1>1, <1>2, <1>3, ConvertLaws!Induction
<1> QED
  BY <1>4 DEF T

-----------------------------------------------------------------------------
(* Reading printed frames.                                                 *)

\* A line of printed ones, and the lines at which its calls begin.
Texts == {x \in Seq(AllLines) \X Nat : x[2] \in 1..Len(x[1])}
Begins(x) ==
  [k \in 1..Cardinality(CallLines(x[1], x[2])) |-> <<x[1], Nth(CallLines(x[1], x[2]), k)>>]
ReadAt(x, calls) == ReadLine(x[1][x[2]], calls)
ReadLaws == INSTANCE FrameWalkProofs WITH Node <- Texts, Calls <- Begins, Visit <- ReadAt

LEMMA CallLinesAre ==
  ASSUME NEW lines \in Seq(AllLines), NEW i \in 1..Len(lines)
  PROVE  /\ Cardinality(CallLines(lines, i)) \in Nat
         /\ \A k \in 1..Cardinality(CallLines(lines, i)) :
              Nth(CallLines(lines, i), k) \in 1..Len(lines) /\ i < Nth(CallLines(lines, i), k)
<1> DEFINE C == CallLines(lines, i)
<1>1. Len(lines) \in Nat
  BY LenProperties
<1>2. C \in SUBSET ((i + 1)..Len(lines))
  BY DEF CallLines
<1>3. IsFiniteSet((i + 1)..Len(lines))
  BY <1>1, FS_Interval
<1>4. IsFiniteSet(C)
  <2> HIDE DEF C
  <2> QED
    BY <1>2, <1>3, FS_Subset
<1>5. C \in SUBSET Nat
  BY <1>1, <1>2
<1> HIDE DEF C
<1>6. Cardinality(C) \in Nat /\ \A k \in 1..Cardinality(C) : Nth(C, k) \in C
  BY <1>4, <1>5, NthIs
<1>7. \A j \in C : j \in 1..Len(lines) /\ i < j
  BY <1>1, <1>2
<1> QED
  BY <1>6, <1>7 DEF C

LEMMA ReadIs ==
  ASSUME NEW lines \in Seq(AllLines), Len(lines) # 0
  PROVE  /\ ReadFrame(lines) = ReadLaws!Walk[<<lines, 1>>]
         /\ \A i \in 1..Len(lines) :
              ReadLaws!Walk[<<lines, i>>]
                = ReadLine(lines[i], [k \in 1..Cardinality(CallLines(lines, i)) |->
                                        ReadLaws!Walk[<<lines, Nth(CallLines(lines, i), k)>>]])
<1> DEFINE W == ReadLaws!Walk
           rank == [x \in Texts |-> Len(x[1]) - x[2]]
           at(h, i) == ReadLine(lines[i], [k \in 1..Cardinality(CallLines(lines, i)) |-> h[Nth(CallLines(lines, i), k)]])
           Read(h) == h = [i \in DOMAIN lines |-> at(h, i)]
<1>1. ReadLaws!IsRank(rank)
  <2>1. \A x \in Texts : x[1] \in Seq(AllLines) /\ x[2] \in 1..Len(x[1]) /\ Len(x[1]) \in Nat /\ x[2] \in Nat
    BY LenProperties DEF Texts
  <2>2. rank \in [Texts -> Nat]
    BY <2>1
  <2>3. ASSUME NEW x \in Texts, NEW k \in DOMAIN Begins(x)
        PROVE  Begins(x)[k] \in Texts /\ rank[Begins(x)[k]] < rank[x]
    <3> DEFINE s == x[1]
               i == x[2]
               j == Nth(CallLines(s, i), k)
    <3>1. s \in Seq(AllLines) /\ i \in 1..Len(s) /\ Len(s) \in Nat /\ i \in Nat
      BY <2>1
    <3>2. k \in 1..Cardinality(CallLines(s, i)) /\ Begins(x)[k] = <<s, j>>
      BY DEF Begins
    <3> HIDE DEF s, i
    <3>3. j \in 1..Len(s) /\ i < j
      BY <3>1, <3>2, CallLinesAre
    <3> HIDE DEF j
    <3>4. <<s, j>> \in Texts
      BY <3>1, <3>3 DEF Texts
    <3>5. rank[<<s, j>>] = Len(s) - j /\ rank[x] = Len(s) - i
      BY <3>4 DEF s, i
    <3> HIDE DEF rank
    <3> QED
      BY <3>1, <3>2, <3>3, <3>4, <3>5
  <2> HIDE DEF rank
  <2> QED
    BY <2>2, <2>3 DEF ReadLaws!IsRank
<1>2. ASSUME NEW i \in 1..Len(lines)
      PROVE  W[<<lines, i>>]
               = ReadLine(lines[i], [k \in 1..Cardinality(CallLines(lines, i)) |-> W[<<lines, Nth(CallLines(lines, i), k)>>]])
  <2> DEFINE x == <<lines, i>>
  <2>1. x \in Texts
    BY LenProperties DEF Texts
  <2>2. W[x] = ReadAt(x, [k \in DOMAIN Begins(x) |-> W[Begins(x)[k]]])
    <3> HIDE DEF x, rank
    <3> QED
      BY <1>1, <2>1, ReadLaws!WalkAt
  <2>3. Begins(x) = [k \in 1..Cardinality(CallLines(lines, i)) |-> <<lines, Nth(CallLines(lines, i), k)>>]
    BY DEF Begins
  <2>4. [k \in DOMAIN Begins(x) |-> W[Begins(x)[k]]]
          = [k \in 1..Cardinality(CallLines(lines, i)) |-> W[<<lines, Nth(CallLines(lines, i), k)>>]]
    <3> HIDE DEF W, x
    <3> QED
      BY <2>3
  <2>5. \A calls : ReadAt(x, calls) = ReadLine(lines[i], calls)
    BY DEF ReadAt
  <2> HIDE DEF W, x
  <2> QED
    BY <2>2, <2>4, <2>5 DEF x
<1> HIDE DEF W
<1>3. DOMAIN lines = 1..Len(lines) /\ Len(lines) \in Nat /\ 1 \in 1..Len(lines)
  BY LenProperties
<1>4. \E h : Read(h)
  <2> DEFINE h == [i \in DOMAIN lines |-> W[<<lines, i>>]]
  <2>1. ASSUME NEW i \in DOMAIN lines PROVE h[i] = at(h, i)
    <3>1. \A k \in 1..Cardinality(CallLines(lines, i)) : h[Nth(CallLines(lines, i), k)] = W[<<lines, Nth(CallLines(lines, i), k)>>]
      <4>1. \A k \in 1..Cardinality(CallLines(lines, i)) : Nth(CallLines(lines, i), k) \in DOMAIN lines
        BY <1>3, <2>1, CallLinesAre
      <4> QED
        BY <4>1
    <3>2. h[i] = W[<<lines, i>>]
      OBVIOUS
    <3>3. W[<<lines, i>>] = ReadLine(lines[i], [k \in 1..Cardinality(CallLines(lines, i)) |-> W[<<lines, Nth(CallLines(lines, i), k)>>]])
      BY <1>2, <1>3
    <3> HIDE DEF h
    <3>4. [k \in 1..Cardinality(CallLines(lines, i)) |-> h[Nth(CallLines(lines, i), k)]]
            = [k \in 1..Cardinality(CallLines(lines, i)) |-> W[<<lines, Nth(CallLines(lines, i), k)>>]]
      BY <3>1
    <3> QED
      BY <3>2, <3>3, <3>4
  <2>2. h = [i \in DOMAIN lines |-> h[i]]
    OBVIOUS
  <2> HIDE DEF h, at
  <2>3. h = [i \in DOMAIN lines |-> at(h, i)]
    BY <2>1, <2>2
  <2> QED
    BY <2>3
<1> DEFINE read == CHOOSE h : Read(h)
<1>5. ReadFrame(lines) = read[1]
  BY DEF ReadFrame
<1>6. Read(read)
  <2> HIDE DEF Read
  <2> QED
    BY <1>4
<1> HIDE DEF read
<1>7. \A i \in DOMAIN lines : read[i] = at(read, i)
  <2> HIDE DEF at
  <2> QED
    BY <1>6
<1>8. \A i \in 1..Len(lines) : read[i] = W[<<lines, i>>]
  <2> DEFINE Bad == {d \in 0..Len(lines) : d < Len(lines) /\ read[Len(lines) - d] # W[<<lines, Len(lines) - d>>]}
  <2>1. Bad = {}
    <3> SUFFICES ASSUME Bad # {} PROVE FALSE
      OBVIOUS
    <3>1. PICK d \in Bad : \A e \in Bad : ~(e < d)
      <4>1. Bad \in SUBSET Nat
        BY <1>3
      <4> HIDE DEF Bad
      <4> QED
        BY <4>1, ConvertLaws!LeastNumber
    <3> DEFINE i == Len(lines) - d
               C == CallLines(lines, i)
    <3>2. i \in 1..Len(lines) /\ read[i] # W[<<lines, i>>] /\ d \in Nat
      BY <1>3, <3>1
    <3>3. \A k \in 1..Cardinality(C) : Nth(C, k) \in 1..Len(lines) /\ i < Nth(C, k)
      <4> HIDE DEF i
      <4> QED
        BY <3>2, CallLinesAre
    <3>4. ASSUME NEW k \in 1..Cardinality(C) PROVE read[Nth(C, k)] = W[<<lines, Nth(C, k)>>]
      <4> DEFINE j == Nth(C, k)
                 e == Len(lines) - j
      <4>1. j \in 1..Len(lines) /\ i < j
        BY <3>3
      <4> HIDE DEF j, C
      <4>2. e \in 0..Len(lines) /\ e < Len(lines) /\ e < d /\ Len(lines) - e = j
        BY <1>3, <3>2, <4>1
      <4>3. e \notin Bad
        <5> HIDE DEF Bad, e, i
        <5> QED
          BY <3>1, <4>2
      <4>4. read[Len(lines) - e] = W[<<lines, Len(lines) - e>>]
        <5> HIDE DEF e, i
        <5> QED
          BY <4>2, <4>3
      <4> HIDE DEF e
      <4> QED
        BY <4>2, <4>4 DEF j
    <3>5. [k \in 1..Cardinality(C) |-> read[Nth(C, k)]] = [k \in 1..Cardinality(C) |-> W[<<lines, Nth(C, k)>>]]
      <4> HIDE DEF C
      <4> QED
        BY <3>4
    <3>6. read[i] = ReadLine(lines[i], [k \in 1..Cardinality(C) |-> read[Nth(C, k)]])
      <4> HIDE DEF i
      <4> QED
        BY <1>3, <1>7, <3>2
    <3>7. W[<<lines, i>>] = ReadLine(lines[i], [k \in 1..Cardinality(C) |-> W[<<lines, Nth(C, k)>>]])
      <4> HIDE DEF i
      <4> QED
        BY <1>2, <3>2
    <3> HIDE DEF i, C
    <3> QED
      BY <3>2, <3>5, <3>6, <3>7
  <2> SUFFICES ASSUME NEW i \in 1..Len(lines) PROVE read[i] = W[<<lines, i>>]
    OBVIOUS
  <2> DEFINE d == Len(lines) - i
  <2>2. d \in 0..Len(lines) /\ d < Len(lines) /\ Len(lines) - d = i
    BY <1>3
  <2>3. read[Len(lines) - d] = W[<<lines, Len(lines) - d>>]
    <3> HIDE DEF d
    <3> QED
      BY <2>1, <2>2
  <2> HIDE DEF d
  <2> QED
    BY <2>2, <2>3
<1> QED
  BY <1>2, <1>3, <1>5, <1>8 DEF W

\* A line has in it what can be told of its frame.
LEMMA LineRead ==
  ASSUME NEW f \in Frames, NEW ind \in Nat, NEW calls
  PROVE  ReadLine(Line(f, ind), calls) = PrintedWith(f, calls)
<1> DEFINE s == Struct(f)
           line == Line(f, ind)
           shown == [i \in DOMAIN s.Logs |-> [addr |-> Consumer!hexBytes(s.Logs[i].Address), topics |-> Len(s.Logs[i].Topics)]]
           to == OrDefault(f.to, addr_to_bytes, <<>>)
           value == OrDefault(f.value, u256_to_bytes, <<>>)
           used == u256_to_bytes(f.gas_used)
           from == <<f.from>>
           err == OrDefault(f.error, Id, "")
<1>1. /\ f.to \in Option(Nat) /\ f.value \in Option(Words) /\ f.gas_used \in Words /\ f.logs \in Seq(TracerLog)
  BY FrameCalls DEF TracerFrame
<1>2. /\ s.Typ = f.typ /\ s.From = from /\ s.To = to /\ s.Value = value /\ s.GasUsed = used
      /\ s.Error = err
      /\ s.Logs = [i \in DOMAIN f.logs |-> Consumer!CallLogFrame(call_log_frame_to_proto(f.logs[i]))]
  BY StructFields, Zenon
<1> HIDE DEF s
<1>3. /\ line.type = s.Typ /\ line.from = Consumer!hexBytes(s.From) /\ line.to = Consumer!hexBytes(s.To)
      /\ line.value = Consumer!hexBytes(s.Value) /\ line.gas_used = Consumer!hexBytes(s.GasUsed)
      /\ line.error = s.Error /\ line.logs = shown
  <2>1. line = [indent |-> ind, type |-> s.Typ, from |-> Consumer!hexBytes(s.From), to |-> Consumer!hexBytes(s.To),
                value |-> Consumer!hexBytes(s.Value), gas_used |-> Consumer!hexBytes(s.GasUsed), error |-> s.Error,
                revert_reason |-> s.RevertReason, logs |-> shown]
    BY DEF Line, Consumer!printLine, Consumer!Each, s
  <2> HIDE DEF line, shown
  <2> QED
    BY <2>1
<1>4. Len(line.logs) = Len(f.logs)
  <2>1. Len(f.logs) \in Nat /\ DOMAIN f.logs = 1..Len(f.logs)
    BY <1>1, LenProperties
  <2>2. DOMAIN s.Logs = 1..Len(f.logs)
    BY <1>2, <2>1
  <2>3. shown = [i \in 1..Len(f.logs) |-> shown[i]]
    BY <2>2
  <2> HIDE DEF shown
  <2>4. Len(shown) = Len(f.logs)
    BY <2>1, <2>3, LenIs
  <2> QED
    BY <1>3, <2>4
<1>5. IsBytes(from) /\ IsBytes(used)
  BY BytesSent
<1>6. IsBytes(to) /\ Optional(to, Hash) = f.to
  <2>1. CASE f.to = <<>>
    BY <2>1, BytesSent DEF OrDefault, IsSome, None, Optional
  <2>2. CASE f.to # <<>>
    <3>1. f.to = <<f.to[1]>>
      BY <1>1, <2>2, OptionValue
    <3>2. to = <<f.to[1]>>
      BY <2>2 DEF OrDefault, IsSome, None, addr_to_bytes
    <3> HIDE DEF to
    <3>3. to # <<>> /\ to[1] = f.to[1]
      BY <3>2
    <3> QED
      BY <3>1, <3>2, <3>3, BytesSent DEF Optional, Hash, Some
  <2> QED
    BY <2>1, <2>2
<1>7. IsBytes(value) /\ Optional(value, Number) = f.value
  <2>1. CASE f.value = <<>>
    BY <2>1, BytesSent DEF OrDefault, IsSome, None, Optional
  <2>2. CASE f.value # <<>>
    <3>1. f.value = <<f.value[1]>> /\ f.value[1] \in Words
      BY <1>1, <2>2, OptionValue
    <3>2. value = u256_to_bytes(f.value[1])
      BY <2>2 DEF OrDefault, IsSome, None
    <3> HIDE DEF value
    <3>3. value # <<>> /\ Number(value) = f.value[1]
      BY <3>1, <3>2, NumberOfBytes
    <3>4. IsBytes(value)
      BY <3>2, BytesSent
    <3> QED
      BY <3>1, <3>3, <3>4, Zenon DEF Optional, Some
  <2> QED
    BY <2>1, <2>2
<1>8. Number(used) = f.gas_used /\ Hash(from) = f.from
  BY <1>1, NumberOfBytes DEF Hash
<1> HIDE DEF to, value, used, from, err, line
<1>9. /\ Bytes(line.from) = from /\ Bytes(line.to) = to /\ Bytes(line.value) = value /\ Bytes(line.gas_used) = used
  BY <1>2, <1>3, <1>5, <1>6, <1>7, HexRead
<1>10. ReadLine(line, calls)
         = [typ |-> f.typ, from |-> f.from, to |-> f.to, value |-> f.value, gas_used |-> f.gas_used, error |-> err,
            logs |-> Len(f.logs), calls |-> calls]
  <2>1. ReadLine(line, calls)
          = [typ |-> line.type, from |-> Hash(Bytes(line.from)), to |-> Optional(Bytes(line.to), Hash),
             value |-> Optional(Bytes(line.value), Number), gas_used |-> Number(Bytes(line.gas_used)),
             error |-> line.error, logs |-> Len(line.logs), calls |-> calls]
    BY Zenon DEF ReadLine
  <2>2. /\ line.type = f.typ /\ Hash(Bytes(line.from)) = f.from /\ Number(Bytes(line.gas_used)) = f.gas_used
        /\ line.error = err /\ Len(line.logs) = Len(f.logs)
    BY <1>2, <1>3, <1>4, <1>8, <1>9
  <2>3. Optional(Bytes(line.to), Hash) = f.to /\ Optional(Bytes(line.value), Number) = f.value
    BY <1>6, <1>7, <1>9 DEF Optional
  <2> QED
    BY <2>1, <2>2, <2>3, Zenon
<1> QED
  BY <1>10 DEF PrintedWith, err, line

\* The tree of what is printed of a frame.
PrintedLaws == INSTANCE FrameWalkProofs WITH Node <- Frames, Calls <- CallsOf, Visit <- PrintedWith

LEMMA PrintedAt ==
  ASSUME NEW f \in Frames
  PROVE  PrintedOfFrame(f) = PrintedWith(f, [i \in DOMAIN f.calls |-> PrintedOfFrame(f.calls[i])])
<1>1. PrintedLaws!IsRank(Depth)
  BY FrameCalls, FrameAssumption DEF PrintedLaws!IsRank, CallsOf
<1>2. PrintedLaws!Walk[f] = PrintedWith(f, [i \in DOMAIN CallsOf(f) |-> PrintedLaws!Walk[CallsOf(f)[i]]])
  BY <1>1, PrintedLaws!WalkAt
<1> QED
  BY <1>2 DEF PrintedOfFrame, CallsOf, Printed!Walk, PrintedLaws!Walk

\* The lines of a frame begin at line i, and no line of its own follows them.
Stands(f, ind, lines, i) ==
  /\ i + Len(LinesOf(f, ind)) <= Len(lines) + 1
  /\ \A m \in 1..Len(LinesOf(f, ind)) : lines[i + m - 1] = LinesOf(f, ind)[m]
  /\ i + Len(LinesOf(f, ind)) <= Len(lines) => lines[i + Len(LinesOf(f, ind))].indent <= ind
Told(f) ==
  \A ind \in Nat : \A lines \in Seq(AllLines) : \A i \in 1..Len(lines) :
    Stands(f, ind, lines, i) => ReadLaws!Walk[<<lines, i>>] = PrintedOfFrame(f)

\* So do the lines of its calls.
LEMMA CallsStand ==
  ASSUME NEW f \in Frames, NEW ind \in Nat, NEW lines \in Seq(AllLines), NEW i \in 1..Len(lines),
         Stands(f, ind, lines, i)
  PROVE  LET C == CallLines(lines, i) IN
         /\ lines[i] = Line(f, ind) /\ Cardinality(C) = Len(f.calls)
         /\ \A k \in 1..Len(f.calls) : Nth(C, k) \in 1..Len(lines) /\ Stands(f.calls[k], ind + 2, lines, Nth(C, k))
<1> DEFINE n == Len(f.calls)
           N == Len(lines)
           C == CallLines(lines, i)
           L == LinesOf(f, ind)
           M(k) == LinesOf(f.calls[k], ind + 2)
<1>1. n \in Nat /\ DOMAIN f.calls = 1..n /\ \A k \in 1..n : f.calls[k] \in Frames
  BY FrameCalls
<1>2. PICK pos : Shape(f, ind, pos)
  BY <1>1, AllIndented, ShapeOf
<1>3. /\ Rising(pos, n) /\ L \in Seq(AllLines) /\ Len(L) = pos[n] + 1 /\ L[1] = Line(f, ind)
      /\ \A k \in 1..n : /\ pos[k] = pos[k - 1] + Len(M(k))
                         /\ \A m \in 1..Len(M(k)) : L[pos[k - 1] + m + 1] = M(k)[m]
  BY <1>2 DEF Shape
<1>4. \A k \in 1..n : /\ M(k) \in Seq(AllLines) /\ Len(M(k)) # 0 /\ M(k)[1] = Line(f.calls[k], ind + 2)
                      /\ \A m \in 2..Len(M(k)) : M(k)[m].indent >= (ind + 2) + 2
  <2>1. ind + 2 \in Nat
    OBVIOUS
  <2> HIDE DEF n
  <2> QED
    BY <1>1, <2>1, AllIndented DEF Indented
<1>5. \A k \in 1..n : M(k)[1].indent = ind + 2
  <2>1. ind + 2 \in Nat
    OBVIOUS
  <2> HIDE DEF n, M
  <2> QED
    BY <1>1, <1>4, <2>1, LineIndent
<1>6. /\ i + Len(L) <= N + 1 /\ \A m \in 1..Len(L) : lines[i + m - 1] = L[m]
      /\ i + Len(L) <= N => lines[i + Len(L)].indent <= ind
  BY DEF Stands
<1> HIDE DEF n, L, M
<1>7. /\ N \in Nat /\ \A j \in 1..N : lines[j].indent \in Nat
  <2>1. \A j \in 1..N : lines[j] \in AllLines
    BY ElementOfSeq
  <2> QED
    BY <2>1, LineIndent, LenProperties
<1> HIDE DEF N
<1>8. n \in 0..n /\ \A k \in 1..n : k \in 0..n /\ k - 1 \in 0..n
  BY <1>1
<1>9. pos[n] \in Nat /\ \A k \in 1..n : pos[k] \in Nat /\ pos[k - 1] \in Nat
  BY <1>3, <1>8, Zenon DEF Rising
<1>10. i \in Nat /\ i # 0 /\ i <= N /\ i + pos[n] <= N /\ (i + pos[n] + 1 <= N => lines[i + pos[n] + 1].indent <= ind)
  <2> DEFINE r == pos[n]
  <2>1. r \in Nat /\ Len(L) = r + 1 /\ i \in Nat /\ i # 0 /\ i <= N
    BY <1>3, <1>7, <1>9 DEF N
  <2> HIDE DEF r
  <2>2. i + (r + 1) = i + r + 1
    BY <2>1
  <2>3. i + r <= N /\ (i + r + 1 <= N => lines[i + r + 1].indent <= ind)
    BY <1>6, <1>7, <2>1, <2>2
  <2> QED
    BY <2>1, <2>3 DEF r
<1>11. lines[i] = Line(f, ind)
  <2>1. 1 \in 1..Len(L) /\ i + 1 - 1 = i
    BY <1>3, <1>9, <1>10
  <2>2. lines[i + 1 - 1] = L[1]
    BY <1>6, <2>1
  <2> QED
    BY <1>3, <2>1, <2>2
<1>12. ASSUME NEW k \in 1..n
       PROVE  /\ pos[k - 1] \in Nat /\ pos[k] \in Nat /\ Len(M(k)) \in Nat /\ Len(M(k)) # 0
              /\ pos[k] = pos[k - 1] + Len(M(k)) /\ pos[k] <= pos[n]
              /\ k # n => k + 1 \in 1..n /\ pos[k + 1 - 1] = pos[k]
  <2>1. k = n \/ k < n
    BY <1>1
  <2>2. k < n => pos[k] < pos[n]
    BY <1>1, <1>3, <1>8, Rises
  <2>3. pos[k] <= pos[n]
    BY <1>9, <2>1, <2>2
  <2>4. k # n => k + 1 \in 1..n /\ k + 1 - 1 = k
    BY <1>1
  <2>5. Len(M(k)) \in Nat
    BY <1>4, LenProperties
  <2> QED
    BY <1>3, <1>4, <1>9, <2>3, <2>4, <2>5, Zenon
<1>13. ASSUME NEW k \in 1..n, NEW m \in 1..Len(M(k)) PROVE lines[i + pos[k - 1] + m] = M(k)[m]
  <2> DEFINE p == pos[k - 1]
             q == pos[k]
             r == pos[n]
             w == Len(M(k))
  <2>1. p \in Nat /\ q \in Nat /\ r \in Nat /\ w \in Nat /\ q = p + w /\ q <= r /\ m \in 1..w /\ Len(L) = r + 1
    BY <1>3, <1>9, <1>12
  <2> HIDE DEF p, q, r, w
  <2>2. p + m + 1 \in 1..(r + 1) /\ i + (p + m + 1) - 1 = i + p + m
    BY <1>10, <2>1
  <2>3. lines[i + p + m] = L[p + m + 1]
    BY <1>6, <2>1, <2>2
  <2>4. L[p + m + 1] = M(k)[m]
    BY <1>3, <2>1 DEF p, w
  <2> QED
    BY <2>3, <2>4 DEF p
<1>14. \A k \in 1..n : /\ lines[i + pos[k - 1] + 1].indent = ind + 2
                       /\ \A m \in (pos[k - 1] + 2)..pos[k] : lines[i + m].indent >= ind + 4
  <2> SUFFICES ASSUME NEW k \in 1..n
               PROVE  /\ lines[i + pos[k - 1] + 1].indent = ind + 2
                      /\ \A m \in (pos[k - 1] + 2)..pos[k] : lines[i + m].indent >= ind + 4
    OBVIOUS
  <2> DEFINE p == pos[k - 1]
             q == pos[k]
             w == Len(M(k))
  <2>1. p \in Nat /\ q \in Nat /\ w \in Nat /\ q = p + w /\ w # 0
    BY <1>12
  <2> HIDE DEF p, q, w
  <2>2. lines[i + p + 1].indent = ind + 2
    <3>1. 1 \in 1..w
      BY <2>1
    <3>2. lines[i + p + 1] = M(k)[1]
      BY <1>13, <3>1 DEF p, w
    <3> QED
      BY <1>5, <3>2
  <2>3. ASSUME NEW m \in (p + 2)..q PROVE lines[i + m].indent >= ind + 4
    <3> DEFINE j == m - p
    <3>1. j \in 2..w /\ j \in 1..w /\ i + p + j = i + m
      BY <1>10, <2>1
    <3> HIDE DEF j
    <3>2. lines[i + p + j] = M(k)[j]
      BY <1>13, <3>1 DEF p, w
    <3>3. M(k)[j].indent >= (ind + 2) + 2
      BY <1>4, <3>1 DEF w
    <3>4. (ind + 2) + 2 = ind + 4
      OBVIOUS
    <3> QED
      BY <3>1, <3>2, <3>3, <3>4
  <2> QED
    BY <2>2, <2>3 DEF p, q
<1>15. Cardinality(C) = n /\ \A k \in 1..n : Nth(C, k) = i + pos[k - 1] + 1
  <2>1. lines[i].indent = ind
    BY <1>11, LineIndent
  <2>2. Len(lines) \in Nat /\ \A j \in 1..Len(lines) : lines[j].indent \in Nat
    BY <1>7 DEF N
  <2>3. i + pos[n] <= Len(lines) /\ (i + pos[n] + 1 <= Len(lines) => lines[i + pos[n] + 1].indent <= ind)
    BY <1>10 DEF N
  <2>4. n \in Nat /\ Rising(pos, n) /\ i \in Nat /\ i # 0
    BY <1>1, <1>3, <1>10
  <2> HIDE DEF C
  <2>5. /\ Cardinality(CallLines(lines, i)) = n
        /\ \A k \in 1..n : Nth(CallLines(lines, i), k) = i + pos[k - 1] + 1
    <3>1. Follow(lines, i, ind, pos, n)
      BY <1>14, <2>1, <2>2, <2>3, <2>4, Zenon DEF Follow
    <3> QED
      BY <2>4, <3>1, CallsBegin
  <2> QED
    BY <2>5 DEF C
<1>16. ASSUME NEW k \in 1..n
       PROVE  i + pos[k - 1] + 1 \in 1..N /\ Stands(f.calls[k], ind + 2, lines, i + pos[k - 1] + 1)
  <2> DEFINE p == pos[k - 1]
             q == pos[k]
             r == pos[n]
             w == Len(M(k))
             j == i + p + 1
  <2>1. p \in Nat /\ q \in Nat /\ r \in Nat /\ w \in Nat /\ q = p + w /\ w # 0 /\ q <= r /\ i + r <= N
    BY <1>9, <1>10, <1>12
  <2>2. \A m \in 1..w : lines[i + p + m] = M(k)[m]
    BY <1>13
  <2>3. i + q + 1 <= N => lines[i + q + 1].indent <= ind + 2
    <3>1. CASE k = n
      <4> SUFFICES ASSUME i + q + 1 <= N PROVE lines[i + q + 1].indent <= ind + 2
        OBVIOUS
      <4>1. lines[i + q + 1].indent <= ind
        BY <1>10, <3>1
      <4>0. q \in Nat /\ i \in Nat /\ N \in Nat
        BY <1>7, <1>10, <2>1
      <4>2. i + q + 1 \in 1..N
        <5> HIDE DEF q
        <5> QED
          BY <4>0
      <4>3. lines[i + q + 1].indent \in Nat
        BY <1>7, <4>2
      <4> HIDE DEF q
      <4> QED
        BY <4>1, <4>3
    <3>2. CASE k # n
      <4>1. k + 1 \in 1..n /\ pos[k + 1 - 1] = q
        BY <1>12, <3>2
      <4>2. lines[i + pos[k + 1 - 1] + 1].indent = ind + 2
        BY <1>14, <4>1
      <4>3. lines[i + q + 1].indent = ind + 2
        BY <4>1, <4>2
      <4> HIDE DEF q
      <4> QED
        BY <4>3
    <3> QED
      BY <3>1, <3>2
  <2> HIDE DEF p, q, r, w
  <2>4. j \in 1..N /\ j + w = i + q + 1 /\ j + w <= N + 1 /\ \A m \in 1..w : j + m - 1 = i + p + m
    BY <1>7, <1>10, <2>1
  <2> HIDE DEF j
  <2>5. /\ j + w <= N + 1 /\ \A m \in 1..w : lines[j + m - 1] = M(k)[m]
        /\ j + w <= N => lines[j + w].indent <= ind + 2
    BY <2>2, <2>3, <2>4
  <2>6. Stands(f.calls[k], ind + 2, lines, j)
    BY <2>5 DEF Stands, w, N, M
  <2> QED
    BY <2>4, <2>6 DEF j, p
<1> QED
  BY <1>11, <1>15, <1>16 DEF n, N

LEMMA AllTold == \A f \in Frames : Told(f)
<1> DEFINE T == {f \in Frames : Told(f)}
<1>1. ASSUME NEW f \in Frames, \A k \in DOMAIN CallsOf(f) : CallsOf(f)[k] \in T
      PROVE  f \in T
  <2> SUFFICES ASSUME NEW ind \in Nat, NEW lines \in Seq(AllLines), NEW i \in 1..Len(lines),
                      Stands(f, ind, lines, i)
               PROVE  ReadLaws!Walk[<<lines, i>>] = PrintedOfFrame(f)
    BY DEF Told
  <2> DEFINE C == CallLines(lines, i)
             W == ReadLaws!Walk
             n == Len(f.calls)
  <2>1. /\ lines[i] = Line(f, ind) /\ Cardinality(C) = n
        /\ \A k \in 1..n : Nth(C, k) \in 1..Len(lines) /\ Stands(f.calls[k], ind + 2, lines, Nth(C, k))
    BY CallsStand
  <2>2. DOMAIN f.calls = 1..n /\ \A k \in 1..n : Told(f.calls[k])
    BY <1>1, FrameCalls DEF CallsOf
  <2>3. \A k \in 1..n : W[<<lines, Nth(C, k)>>] = PrintedOfFrame(f.calls[k])
    <3>1. ind + 2 \in Nat
      OBVIOUS
    <3> HIDE DEF C, n
    <3> QED
      BY <2>1, <2>2, <3>1 DEF Told
  <2>4. Len(lines) # 0
    BY LenProperties
  <2>5. W[<<lines, i>>] = ReadLine(lines[i], [k \in 1..Cardinality(C) |-> W[<<lines, Nth(C, k)>>]])
    BY <2>4, ReadIs
  <2> HIDE DEF C, W, n
  <2>6. [k \in 1..Cardinality(C) |-> W[<<lines, Nth(C, k)>>]] = [k \in DOMAIN f.calls |-> PrintedOfFrame(f.calls[k])]
    BY <2>1, <2>2, <2>3
  <2>7. W[<<lines, i>>] = PrintedWith(f, [k \in DOMAIN f.calls |-> PrintedOfFrame(f.calls[k])])
    BY <2>1, <2>5, <2>6, LineRead
  <2> QED
    BY <2>7, PrintedAt DEF W
<1>2. ConvertLaws!IsRank(Depth)
  BY FrameCalls, FrameAssumption DEF ConvertLaws!IsRank, CallsOf
<1>3. T \in SUBSET Frames
  OBVIOUS
<1> HIDE DEF T
<1>4. T = Frames
  BY <1>1, <1>2, <1>3, ConvertLaws!Induction
<1> QED
  BY <1>4 DEF T

\* The printed frames of a transaction are read as they were.
LEMMA FramesTold ==
  ASSUME NEW f \in Frames, NEW gas, NEW ind \in Nat
  PROVE  ReadFrame(Consumer!printCallFrame(Consumer!CallFrame([call_frame_to_proto(f) EXCEPT !.gas = gas]), ind))
           = PrintedOfFrame(f)
<1> DEFINE L == LinesOf(f, ind)
<1>1. L \in Seq(AllLines) /\ Len(L) # 0
  BY AllIndented DEF Indented
<1>2. Len(L) \in Nat
  BY <1>1, LenProperties
<1>3. Stands(f, ind, L, 1)
  <2>1. \A m \in 1..Len(L) : 1 + m - 1 = m
    BY <1>2
  <2>2. 1 + Len(L) <= Len(L) + 1 /\ ~(1 + Len(L) <= Len(L))
    BY <1>2
  <2> QED
    BY <2>1, <2>2 DEF Stands
<1>4. 1 \in 1..Len(L) /\ Told(f)
  BY <1>1, <1>2, AllTold
<1> HIDE DEF L
<1>5. ReadFrame(L) = PrintedOfFrame(f)
  BY <1>1, <1>3, <1>4, ReadIs DEF Told
<1> QED
  BY <1>5, RootLines DEF L

\* What is printed of the traces of a block.
LEMMA TracesPrinted ==
  ASSUME NEW p
  PROVE  LET t == Consumer!printTraces(Consumer!BlockCallTraces(p)) IN
         /\ t.number = p.block_number
         /\ t.txs = [j \in DOMAIN p.txs |-> Consumer!printCallFrame(Consumer!CallFrame(p.txs[j]), 8)]
<1> DEFINE frames == [j \in DOMAIN p.txs |-> Consumer!CallFrame(p.txs[j])]
           s == Consumer!BlockCallTraces(p)
           printed == [j \in DOMAIN s.Txs |-> Consumer!printCallFrame(s.Txs[j], 8)]
           t == Consumer!printTraces(s)
<1>1. s.BlockNumber = p.block_number /\ s.Txs = frames
  <2>1. s = [BlockNumber |-> p.block_number, Txs |-> frames]
    BY DEF Consumer!BlockCallTraces, Consumer!Each
  <2> HIDE DEF s, frames
  <2> QED
    BY <2>1
<1> HIDE DEF s
<1>2. t.number = s.BlockNumber /\ t.txs = printed
  <2>1. t = [number |-> s.BlockNumber, txs |-> printed]
    BY DEF Consumer!printTraces, Consumer!Each
  <2> HIDE DEF t, printed
  <2> QED
    BY <2>1
<1>3. printed = [j \in DOMAIN p.txs |-> Consumer!printCallFrame(Consumer!CallFrame(p.txs[j]), 8)]
  BY <1>1
<1> HIDE DEF printed, t
<1> QED
  BY <1>1, <1>2, <1>3 DEF t, s

\* The printed traces of a chain.
LEMMA ChainTold ==
  ASSUME NEW c, NodeChain(c), NEW m, m.call_traces = call_traces_to_proto(c), NEW t \in Range(TracesOf(m)), NEW j \in DOMAIN t.txs
  PROVE  ReadFrame(t.txs[j]) = PrintedOfFrame(c.traces[1][t.number][j])
<1> DEFINE T == call_traces_to_proto(c)
           K == TracedAt(c)
<1>1. PICK k \in DOMAIN T : t = Consumer!printTraces(Consumer!BlockCallTraces(T[k]))
  <2> DEFINE s == TracesOf(m)
             q == m.call_traces
  <2>1. s = [i \in DOMAIN q |-> Consumer!printTraces(Consumer!BlockCallTraces(q[i]))]
    BY DEF TracesOf
  <2>2. t \in Range(s) /\ q = T
    OBVIOUS
  <2> HIDE DEF s, q, T
  <2>3. PICK i \in DOMAIN s : t = s[i]
    BY <2>2 DEF Range
  <2> QED
    BY <2>1, <2>2, <2>3
<1>2. IsSome(c.traces)
  <2> SUFFICES ASSUME ~IsSome(c.traces) PROVE FALSE
    OBVIOUS
  <2>1. T = <<>>
    BY DEF call_traces_to_proto
  <2>2. DOMAIN <<>> = {}
    OBVIOUS
  <2> HIDE DEF T
  <2> QED
    BY <1>1, <2>1, <2>2
<1> DEFINE b == c.blocks[Nth(K, k)]
           frames == c.traces[1][b.header.number]
<1>3. b \in NodeBlock /\ frames \in Seq(Frames) /\ T[k] = block_traces(b, frames)
  <2>1. k \in 1..Cardinality(K)
    BY <1>2, CallTraces
  <2> QED
    BY <1>2, <2>1, CallTraces
<1> HIDE DEF T, K
<1>4. /\ t.number = T[k].block_number
      /\ t.txs = [i \in DOMAIN T[k].txs |-> Consumer!printCallFrame(Consumer!CallFrame(T[k].txs[i]), 8)]
  BY <1>1, TracesPrinted
<1> DEFINE n == Min({Len(b.txs), Len(frames)})
<1>5. /\ T[k].block_number = b.header.number /\ DOMAIN T[k].txs = 1..n
      /\ \A i \in 1..n :
           /\ i \in 1..Len(frames)
           /\ T[k].txs[i] = [call_frame_to_proto(frames[i]) EXCEPT !.gas = u256_to_bytes(b.txs[i].gas_limit)]
  <2> DEFINE s == block_traces(b, frames)
  <2> HIDE DEF b, frames
  <2>1. /\ s.block_number = b.header.number /\ DOMAIN s.txs = 1..n
        /\ \A i \in 1..n :
             /\ i \in 1..Len(frames)
             /\ s.txs[i] = [call_frame_to_proto(frames[i]) EXCEPT !.gas = u256_to_bytes(b.txs[i].gas_limit)]
    BY <1>3, BlockTraces
  <2>2. T[k] = s
    BY <1>3
  <2> HIDE DEF s, n
  <2> QED
    BY <2>1, <2>2
<1> HIDE DEF b, n
<1>6. j \in 1..n /\ t.txs[j] = Consumer!printCallFrame(Consumer!CallFrame(T[k].txs[j]), 8)
  BY <1>4, <1>5
<1>7. c.traces[1][t.number] = frames
  BY <1>4, <1>5
<1> HIDE DEF frames
<1>8. frames[j] \in Frames
  BY <1>3, <1>5, <1>6, ElementOfSeq
<1>9. ReadFrame(t.txs[j]) = PrintedOfFrame(frames[j])
  <2>1. t.txs[j]
          = Consumer!printCallFrame(Consumer!CallFrame([call_frame_to_proto(frames[j]) EXCEPT !.gas = u256_to_bytes(b.txs[j].gas_limit)]), 8)
    BY <1>5, <1>6
  <2>2. 8 \in Nat
    OBVIOUS
  <2> QED
    BY <1>8, <2>1, <2>2, FramesTold
<1> QED
  BY <1>7, <1>9

LEMMA ValuesTold == IInv => ConsumerTellsValues
<1> SUFFICES ASSUME IInv, program = "consumer" PROVE ConsumerTellsValues
  BY DEF ConsumerTellsValues
<1> DEFINE m(i) == chain_to_proto(Shown[i].chain, flags)
<1>1. /\ DOMAIN output # {} => flags = options
      /\ \A i \in DOMAIN output : NodeChain(Shown[i].chain) /\ output[i] = ChainShown(Shown[i].label, m(i))
  BY OutputShown
<1>2. ASSUME NEW i \in DOMAIN output
      PROVE  /\ flags = options /\ NodeChain(Shown[i].chain)
             /\ output[i].state_diff = DiffOf(m(i)) /\ output[i].call_traces = TracesOf(m(i))
  <2> HIDE DEF m
  <2> QED
    BY <1>1, ChainFields
<1>3. ASSUME NEW i \in DOMAIN output, "state_diff" \in options
      PROVE  LET shown == output[i].state_diff[1]
                 chain == Shown[i].chain IN
             /\ Each(shown.accounts, ReadAccount) = chain.bundle.state
             /\ Each(shown.contracts, LAMBDA c : <<Hash(Bytes(c.code_hash)), c.bytecode_len>>)
                  = Each(chain.bundle.contracts, LAMBDA p : <<p[1], Len(p[2])>>)
             /\ Each(shown.reverts, LAMBDA b : Each(b, ReadRevert))
                  = Each(chain.bundle.reverts, LAMBDA b : Each(b, PrintedOfRevert))
  <2> DEFINE c == Shown[i].chain
             M == m(i)
             P == Consumer!printStateDiff(Consumer!StateDiff(state_diff_to_proto(c.bundle)))
  <2>1. M.state_diff = Some(state_diff_to_proto(c.bundle))
    BY <1>2, <1>3, ChainMessage
  <2>2. c.bundle \in NodeBundle
    BY <1>2 DEF NodeChain
  <2> HIDE DEF M
  <2>3. DiffOf(M)[1] = P
    BY <2>1 DEF DiffOf, Some
  <2>4. output[i].state_diff[1] = P
    BY <1>2, <2>3 DEF M
  <2> HIDE DEF c
  <2>5. /\ Each(P.accounts, ReadAccount) = c.bundle.state
        /\ Each(P.contracts, LAMBDA x : <<Hash(Bytes(x.code_hash)), x.bytecode_len>>)
             = Each(c.bundle.contracts, LAMBDA p : <<p[1], Len(p[2])>>)
        /\ Each(P.reverts, LAMBDA r : Each(r, ReadRevert))
             = Each(c.bundle.reverts, LAMBDA r : Each(r, PrintedOfRevert))
    BY <2>2, DiffPrinted
  <2> HIDE DEF P
  <2> QED
    BY <2>4, <2>5 DEF c
<1>4. ASSUME NEW i \in DOMAIN output, "call_traces" \in options,
             NEW t \in Range(output[i].call_traces), NEW j \in DOMAIN t.txs
      PROVE  ReadFrame(t.txs[j]) = PrintedOfFrame(Shown[i].chain.traces[1][t.number][j])
  <2> DEFINE c == Shown[i].chain
             M == m(i)
  <2>1. M.call_traces = call_traces_to_proto(c)
    BY <1>2, <1>4, ChainMessage
  <2>2. NodeChain(c) /\ t \in Range(TracesOf(M))
    BY <1>2, <1>4
  <2> HIDE DEF M, c
  <2>3. ReadFrame(t.txs[j]) = PrintedOfFrame(c.traces[1][t.number][j])
    BY <2>1, <2>2, ChainTold
  <2> QED
    BY <2>3 DEF c
<1> QED
  BY <1>3, <1>4 DEF ConsumerTellsValues

\* What is printed tells what the node had: see ConsumerTellsValues.
THEOREM ConsumerTellsTheValues == Spec => []ConsumerTellsValues
BY Invariance, ValuesTold, PTL
=============================================================================
