------------------------- MODULE StreamReadersProofs -------------------------
(***************************************************************************)
(* Theorems about StreamReaders: what the client of a subscription gets,   *)
(* for any chains the node can report.                                     *)
(***************************************************************************)
EXTENDS StreamReaders, SequenceTheorems, FiniteSetTheorems, TLAPS

-----------------------------------------------------------------------------
(* The invariant.                                                          *)

Notifications ==
  {Committed(c) : c \in Chains} \cup {Reorged(o, c) : o \in OldChains, c \in Chains}
    \cup {Reverted(o) : o \in OldChains}

Started == program \in Programs /\ options \in SUBSET Parts

\* The server has the flags of the program's request once that was sent.
Asked ==
  /\ request = flags
  /\ stage = "call" => notif = NoNotif
  /\ stage = "recv" => flags = {f \in Parts : Request[f]}
  /\ notif # NoNotif => flags = {f \in Parts : Request[f]}

\* The message and what was made of it are those of the notification.
Handed ==
  \/ notif = NoNotif /\ msg = NoMsg /\ output = <<>>
  \/ /\ notif \in Notifications
     /\ msg = notification_to_proto(notif, flags)
     /\ output = Handled(msg)

IInv == Started /\ Asked /\ Handed

\* Every notification has a kind of its own.
LEMMA Kinds ==
  /\ \A n \in Notifications : n.kind \in {"Committed", "Reorged", "Reverted"} /\ n # NoNotif
  /\ NoNotif.kind = "none"
BY DEF Notifications, Committed, Reorged, Reverted, NoNotif

LEMMA IInvInit == Init => IInv
BY DEF Init, Unsubscribed, IInv, Started, Asked, Handed

LEMMA IInvNext == IInv /\ [Next]_vars => IInv'
<1> SUFFICES ASSUME IInv, [Next]_vars PROVE IInv'
  OBVIOUS
<1> USE DEF IInv, Started, Asked, Handed
<1>1. CASE Call
  <2>1. UNCHANGED <<program, options, interrupted, output>> /\ stage = "call" /\ stage' = "recv"
        /\ request' = {f \in Parts : Request[f]}
        /\ flags' = {f \in Parts : f \in {g \in Parts : Request[g]}} /\ notif' = NoNotif /\ msg' = NoMsg
    BY <1>1 DEF Call, Subscribe
  <2>2. Request' = Request
    BY <2>1 DEF Request
  <2>3. output = <<>>
    BY <2>1, Kinds
  <2>4. flags' = {f \in Parts : Request[f]}
    BY <2>1
  <2> QED
    BY <2>1, <2>2, <2>3, <2>4
<1>2. ASSUME NEW n \in Notifications, Recv(n) PROVE IInv'
  <2>1. UNCHANGED <<request, flags, program, options, stage, interrupted>> /\ stage = "recv"
        /\ notif' = n /\ msg' = notification_to_proto(n, flags) /\ output' = Handled(msg')
    BY <1>2 DEF Recv, Push
  <2>2. Request' = Request
    BY <2>1 DEF Request
  <2>3. Handled(msg)' = Handled(msg')
    BY <2>1 DEF Handled
  <2>4. notification_to_proto(notif, flags)' = notification_to_proto(n, flags)
    BY <2>1
  <2> QED
    BY <2>1, <2>2, <2>3, <2>4
<1>3. CASE UNCHANGED <<subscriptionVars, program, options, output>>
           /\ (stage' = stage \/ stage' \in {"exit0", "exit1"})
  <2>1. UNCHANGED <<request, flags, notif, msg, program, options, output>>
    BY <1>3 DEF subscriptionVars
  <2>2. Request' = Request /\ Handled(msg)' = Handled(msg)
    BY <2>1 DEF Request, Handled
  <2>3. notification_to_proto(notif, flags)' = notification_to_proto(notif, flags)
    BY <2>1
  <2> QED
    BY <1>3, <2>1, <2>2, <2>3
<1>4. CASE CallFails \/ Interrupt \/ StreamEof \/ RecvFails
  BY <1>3, <1>4 DEF CallFails, Interrupt, StreamEof, RecvFails
<1>5. CASE UNCHANGED vars
  BY <1>3, <1>5 DEF vars, readerVars, subscriptionVars
<1>6. ASSUME NEW n, Recv(n), n \in Notifications PROVE IInv'
  BY <1>2, <1>6
<1>7. /\ \A c \in Chains : Committed(c) \in Notifications
      /\ \A o \in OldChains, c \in Chains : Reorged(o, c) \in Notifications
      /\ \A o \in OldChains : Reverted(o) \in Notifications
  BY DEF Notifications
<1> QED
  BY <1>1, <1>4, <1>5, <1>6, <1>7 DEF Next

\* At all times the message is that of the notification for the flags of the
\* request, and the output what the program makes of it.
THEOREM Invariance == Spec => []IInv
<1>1. Init => IInv
  BY IInvInit
<1>2. IInv /\ [Next]_vars => IInv'
  BY IInvNext
<1> QED
  BY <1>1, <1>2, PTL DEF Spec

-----------------------------------------------------------------------------
(* The flags.                                                              *)

LEMMA PartNames ==
  /\ "headers" \in Parts /\ "transactions" \in Parts /\ "receipts" \in Parts
  /\ "withdrawals" \in Parts /\ "state_diff" \in Parts /\ "call_traces" \in Parts
BY DEF Parts

LEMMA BlockSelected ==
  ASSUME NEW b, request = flags
  PROVE  SelectedBlock(block_with_receipts_to_proto(b, Parts)) = block_with_receipts_to_proto(b, flags)
<1> DEFINE full == block_with_receipts_to_proto(b, Parts)
           H == Some(header_to_proto(b.header))
           T == Each(b.txs, tx_to_proto)
           S == Each(b.senders, addr_to_bytes)
           R == Each(b.receipts, receipt_to_proto)
           W == OrDefault(b.withdrawals, LAMBDA ws : Each(ws, withdrawal_to_proto), <<>>)
<1>1. full = [header |-> H, txs |-> T, senders |-> S, receipts |-> R, withdrawals |-> W]
  BY PartNames DEF block_with_receipts_to_proto
<1>2. block_with_receipts_to_proto(b, flags)
        = [header      |-> IF "headers" \in flags THEN H ELSE None,
           txs         |-> IF "transactions" \in flags THEN T ELSE <<>>,
           senders     |-> IF "transactions" \in flags THEN S ELSE <<>>,
           receipts    |-> IF "receipts" \in flags THEN R ELSE <<>>,
           withdrawals |-> IF "withdrawals" \in flags THEN W ELSE <<>>]
  BY DEF block_with_receipts_to_proto
<1> HIDE DEF H, T, S, R, W, full
<1>3. full.header = H /\ full.txs = T /\ full.senders = S /\ full.receipts = R /\ full.withdrawals = W
  BY <1>1
<1>4. SelectedBlock(full) = block_with_receipts_to_proto(b, flags)
  BY <1>2, <1>3 DEF SelectedBlock
<1> QED
  BY <1>4 DEF full

LEMMA ChainSelected ==
  ASSUME NEW c, request = flags
  PROVE  SelectedChain(chain_to_proto(c, Parts)) = chain_to_proto(c, flags)
<1> DEFINE full == chain_to_proto(c, Parts)
           B(fs) == [i \in DOMAIN c.blocks |-> block_with_receipts_to_proto(c.blocks[i], fs)]
           D == Some(state_diff_to_proto(c.bundle))
           T == call_traces_to_proto(c)
<1>1. full = [blocks |-> B(Parts), state_diff |-> D, call_traces |-> T]
  BY PartNames DEF chain_to_proto, Each
<1>2. chain_to_proto(c, flags)
        = [blocks      |-> B(flags),
           state_diff  |-> IF "state_diff" \in flags THEN D ELSE None,
           call_traces |-> IF "call_traces" \in flags THEN T ELSE <<>>]
  BY DEF chain_to_proto, Each
<1>3. Each(B(Parts), SelectedBlock) = B(flags)
  <2>1. \A i \in DOMAIN c.blocks : SelectedBlock(B(Parts)[i]) = block_with_receipts_to_proto(c.blocks[i], flags)
    BY BlockSelected
  <2>2. DOMAIN B(Parts) = DOMAIN c.blocks
    OBVIOUS
  <2> QED
    BY <2>1, <2>2 DEF Each
<1> HIDE DEF D, T, B, full
<1>4. full.blocks = B(Parts) /\ full.state_diff = D /\ full.call_traces = T
  BY <1>1
<1>5. SelectedChain(full) = chain_to_proto(c, flags)
  BY <1>2, <1>3, <1>4 DEF SelectedChain
<1> QED
  BY <1>5 DEF full

\* A client's message is that of a full subscriber without the parts it did
\* not ask for (chain_to_proto, the flags of subscribe).
LEMMA FlagsSelected == IInv => FlagsSelect
<1> SUFFICES ASSUME IInv, notif.kind # "none"
             PROVE  /\ msg.old = Each(notification_to_proto(notif, Parts).old, SelectedChain)
                    /\ msg.new = Each(notification_to_proto(notif, Parts).new, SelectedChain)
  BY DEF FlagsSelect
<1> DEFINE full == notification_to_proto(notif, Parts)
           sides(fs) == [event |-> notif.kind,
                         old |-> IF notif.kind # "Committed" THEN Some(chain_to_proto(notif.old, fs)) ELSE None,
                         new |-> IF notif.kind # "Reverted" THEN Some(chain_to_proto(notif.new, fs)) ELSE None]
<1>1. request = flags /\ msg = sides(flags) /\ full = sides(Parts)
  BY Kinds DEF IInv, Asked, Handed, notification_to_proto
<1>2. \A c : Each(Some(chain_to_proto(c, Parts)), SelectedChain) = Some(chain_to_proto(c, flags))
  <2> SUFFICES ASSUME NEW c
               PROVE  Each(Some(chain_to_proto(c, Parts)), SelectedChain) = Some(chain_to_proto(c, flags))
    OBVIOUS
  <2>1. SelectedChain(chain_to_proto(c, Parts)) = chain_to_proto(c, flags)
    BY <1>1, ChainSelected
  <2> QED
    BY <2>1 DEF Each, Some
<1>3. Each(None, SelectedChain) = None
  BY DEF Each, None
<1> QED
  BY <1>1, <1>2, <1>3

\* Each client gets the parts it asked for, as a full subscriber has them, and
\* no other (chain_to_proto, the flags of subscribe).
THEOREM FlagsAreKept == Spec => []FlagsSelect
BY Invariance, FlagsSelected, PTL

-----------------------------------------------------------------------------
(* The positions of a set in their order.                                  *)

Rank(K, i) == Cardinality({j \in K : j <= i})

LEMMA RankRises ==
  ASSUME NEW K \in SUBSET Nat, IsFiniteSet(K), NEW i \in K, NEW j \in K
  PROVE  /\ Rank(K, i) \in 1..Cardinality(K)
         /\ i < j <=> Rank(K, i) < Rank(K, j)
         /\ Rank(K, i) = Rank(K, j) => i = j
<1> DEFINE upto(x) == {k \in K : k <= x}
<1>1. \A x : upto(x) \in SUBSET K
  OBVIOUS
<1>2. \A x : IsFiniteSet(upto(x)) /\ Cardinality(upto(x)) \in Nat /\ Cardinality(upto(x)) <= Cardinality(K)
  BY <1>1, FS_Subset, FS_CardinalityType, Zenon
<1>3. \A x, y \in K : x < y => upto(x) \in SUBSET upto(y) /\ y \notin upto(x) /\ y \in upto(y)
  <2> SUFFICES ASSUME NEW x \in K, NEW y \in K, x < y
               PROVE  upto(x) \in SUBSET upto(y) /\ y \notin upto(x) /\ y \in upto(y)
    OBVIOUS
  <2>1. \A k \in K : k <= x => k <= y
    OBVIOUS
  <2>2. x \in Nat /\ y \in Nat /\ ~(y <= x) /\ y <= y
    OBVIOUS
  <2> QED
    BY <2>1, <2>2
<1>4. \A x, y \in K : x < y => Cardinality(upto(x)) < Cardinality(upto(y))
  <2> SUFFICES ASSUME NEW x \in K, NEW y \in K, x < y PROVE Cardinality(upto(x)) < Cardinality(upto(y))
    OBVIOUS
  <2>1. Cardinality(upto(x)) <= Cardinality(upto(y)) /\ (Cardinality(upto(y)) = Cardinality(upto(x)) => upto(y) = upto(x))
    <3>1. upto(x) \in SUBSET upto(y) /\ IsFiniteSet(upto(y))
      BY <1>2, <1>3
    <3> HIDE DEF upto
    <3> QED
      BY <3>1, FS_Subset
  <2>2. upto(y) # upto(x)
    BY <1>3
  <2> HIDE DEF upto
  <2> QED
    BY <1>2, <2>1, <2>2
<1>5. \A x \in K : Cardinality(upto(x)) # 0
  <2> SUFFICES ASSUME NEW x \in K PROVE Cardinality(upto(x)) # 0
    OBVIOUS
  <2>1. upto(x) # {}
    OBVIOUS
  <2> HIDE DEF upto
  <2> QED
    BY <1>2, <2>1, FS_EmptySet
<1>6. Cardinality(K) \in Nat
  BY FS_CardinalityType
<1>7. Rank(K, i) = Cardinality(upto(i)) /\ Rank(K, j) = Cardinality(upto(j))
  BY DEF Rank
<1> HIDE DEF upto
<1> QED
  BY <1>2, <1>4, <1>5, <1>6, <1>7

\* Each rank is that of one position.
LEMMA NthIs ==
  ASSUME NEW K \in SUBSET Nat, IsFiniteSet(K)
  PROVE  /\ Cardinality(K) \in Nat
         /\ \A k \in 1..Cardinality(K) : Nth(K, k) \in K /\ Rank(K, Nth(K, k)) = k
         /\ \A i \in K : Rank(K, i) \in 1..Cardinality(K) /\ Nth(K, Rank(K, i)) = i
         /\ \A k, m \in 1..Cardinality(K) : k < m <=> Nth(K, k) < Nth(K, m)
<1> DEFINE n == Cardinality(K)
           rank == [i \in K |-> Rank(K, i)]
<1>1. n \in Nat
  BY FS_CardinalityType
<1>2. \A i \in K : Rank(K, i) \in 1..n
  BY RankRises
<1>3. \A i, j \in K : (i < j <=> Rank(K, i) < Rank(K, j)) /\ (Rank(K, i) = Rank(K, j) => i = j)
  BY RankRises
<1>4. rank \in Injection(K, 1..n)
  BY <1>2, <1>3 DEF Injection, IsInjective
<1>5. IsFiniteSet(1..n) /\ Cardinality(1..n) = n
  BY <1>1, FS_Interval
<1>6. rank \in Surjection(K, 1..n)
  <2> HIDE DEF rank
  <2> QED
    BY <1>4, <1>5, FS_Injection
<1>7. \A k \in 1..n : \E i \in K : Rank(K, i) = k
  BY <1>6 DEF Surjection
<1>8. \A k \in 1..n : Nth(K, k) \in K /\ Rank(K, Nth(K, k)) = k
  BY <1>7 DEF Nth, Rank
<1>9. \A i \in K : Nth(K, Rank(K, i)) = i
  BY <1>2, <1>3, <1>8
<1>10. ASSUME NEW k \in 1..n, NEW m \in 1..n PROVE k < m <=> Nth(K, k) < Nth(K, m)
  <2>1. Nth(K, k) \in K /\ Nth(K, m) \in K /\ Rank(K, Nth(K, k)) = k /\ Rank(K, Nth(K, m)) = m
    BY <1>8
  <2>2. Nth(K, k) < Nth(K, m) <=> Rank(K, Nth(K, k)) < Rank(K, Nth(K, m))
    BY <1>3, <2>1, Zenon
  <2> QED
    BY <2>1, <2>2, Zenon
<1> QED
  BY <1>1, <1>2, <1>8, <1>9, <1>10

LEMMA KeptIs ==
  ASSUME NEW S, NEW s \in Seq(S), NEW K \in SUBSET (DOMAIN s)
  PROVE  /\ IsFiniteSet(K) /\ K \in SUBSET Nat /\ Cardinality(K) \in Nat
         /\ Kept(s, K) \in Seq(S) /\ Len(Kept(s, K)) = Cardinality(K)
         /\ DOMAIN Kept(s, K) = 1..Cardinality(K)
         /\ \A k \in 1..Cardinality(K) : Nth(K, k) \in K /\ Kept(s, K)[k] = s[Nth(K, k)]
         /\ \A i \in K : Rank(K, i) \in 1..Cardinality(K) /\ Kept(s, K)[Rank(K, i)] = s[i]
         /\ \A k, m \in 1..Cardinality(K) : k < m <=> Nth(K, k) < Nth(K, m)
<1>1. Len(s) \in Nat /\ DOMAIN s = 1..Len(s) /\ \A i \in DOMAIN s : s[i] \in S
  BY LenProperties, ElementOfSeq
<1>2. IsFiniteSet(K) /\ K \in SUBSET Nat
  <2>1. IsFiniteSet(1..Len(s))
    BY <1>1, FS_Interval
  <2> QED
    BY <1>1, <2>1, FS_Subset
<1>3. /\ Cardinality(K) \in Nat
      /\ \A k \in 1..Cardinality(K) : Nth(K, k) \in K /\ Rank(K, Nth(K, k)) = k
      /\ \A i \in K : Rank(K, i) \in 1..Cardinality(K) /\ Nth(K, Rank(K, i)) = i
      /\ \A k, m \in 1..Cardinality(K) : k < m <=> Nth(K, k) < Nth(K, m)
  BY <1>2, NthIs
<1>4. Kept(s, K) = [k \in 1..Cardinality(K) |-> s[Nth(K, k)]]
  BY DEF Kept
<1>5. \A k \in 1..Cardinality(K) : s[Nth(K, k)] \in S
  BY <1>1, <1>3
<1>6. Kept(s, K) \in Seq(S)
  BY <1>3, <1>4, <1>5, IsASeq
<1> QED
  BY <1>2, <1>3, <1>4, <1>6, LenProperties

-----------------------------------------------------------------------------
(* Numbers.  The library folds the digits of a sequence by recursion over  *)
(* the sets of its positions.                                              *)

Before(x) == IF x[2] = {} THEN <<>> ELSE <<<<x[1], x[2] \ {Max(x[2])}>>>>
Appended(x, rest) == IF x[2] = {} THEN 0 ELSE rest[1] * Base + x[1][Max(x[2])]
FoldLaws == INSTANCE FrameWalkProofs WITH Node <- Digits \X SUBSET (1..3), Calls <- Before, Visit <- Appended

LEMMA GreatestPosition ==
  /\ \A s \in SUBSET (1..3) : s # {} => Max(s) \in s
  /\ Max({1}) = 1 /\ Max({1, 2}) = 2 /\ Max({1, 2, 3}) = 3
<1>1. ASSUME NEW s \in SUBSET (1..3), s # {} PROVE Max(s) \in s
  <2>1. \E x \in s : \A y \in s : x >= y
    <3>1. CASE 3 \in s
      <4>1. \A y \in s : 3 >= y
        OBVIOUS
      <4> QED
        BY <3>1, <4>1
    <3>2. CASE 3 \notin s /\ 2 \in s
      <4>1. \A y \in s : 2 >= y
        BY <3>2
      <4> QED
        BY <3>2, <4>1
    <3>3. CASE 3 \notin s /\ 2 \notin s
      <4>1. \A y \in s : y = 1
        BY <3>3
      <4>2. 1 \in s
        BY <1>1, <4>1, Zenon
      <4>3. \A y \in s : 1 >= y
        BY <4>1
      <4> QED
        BY <4>2, <4>3
    <3> QED
      BY <3>1, <3>2, <3>3
  <2> QED
    BY <2>1 DEF Max
<1> QED
  BY <1>1 DEF Max

LEMMA FoldAt ==
  ASSUME NEW b \in Digits, NEW s \in SUBSET (1..3), s # {}
  PROVE  /\ FoldLaws!Walk[<<b, {}>>] = 0
         /\ FoldLaws!Walk[<<b, s>>] = FoldLaws!Walk[<<b, s \ {Max(s)}>>] * Base + b[Max(s)]
<1> DEFINE Node == Digits \X SUBSET (1..3)
           rank == [x \in Node |-> Cardinality(x[2])]
<1>1. \A x \in Node : IsFiniteSet(x[2]) /\ Cardinality(x[2]) \in Nat
  <2>1. IsFiniteSet(1..3)
    <3>1. \A n \in Nat : IsFiniteSet(1..n)
      BY FS_Interval
    <3> QED
      BY <3>1
  <2> QED
    BY <2>1, FS_Subset, FS_CardinalityType
<1>2. \A x \in Node : x[2] # {} => Cardinality(x[2] \ {Max(x[2])}) = Cardinality(x[2]) - 1
  BY <1>1, GreatestPosition, FS_RemoveElement
<1>3. \A x \in Node : x[2] # {} => <<x[1], x[2] \ {Max(x[2])}>> \in Node
  OBVIOUS
<1>4. \A x \in Node : \A i \in DOMAIN Before(x) :
        /\ x[2] # {} /\ Before(x)[i] = <<x[1], x[2] \ {Max(x[2])}>>
  BY DEF Before
<1>5. FoldLaws!IsRank(rank)
  <2>1. rank \in [Node -> Nat]
    BY <1>1
  <2>2. ASSUME NEW x \in Node, NEW i \in DOMAIN Before(x)
        PROVE  Before(x)[i] \in Node /\ rank[Before(x)[i]] < rank[x]
    <3> DEFINE y == <<x[1], x[2] \ {Max(x[2])}>>
    <3>1. y \in Node /\ Before(x)[i] = y /\ x[2] # {}
      BY <1>3, <1>4
    <3>2. rank[y] = Cardinality(x[2]) - 1 /\ rank[x] = Cardinality(x[2])
      BY <1>2, <3>1
    <3> QED
      BY <1>1, <3>1, <3>2
  <2> QED
    BY <2>1, <2>2 DEF FoldLaws!IsRank
<1>6. \A x \in Node :
        FoldLaws!Walk[x] = Appended(x, [i \in DOMAIN Before(x) |-> FoldLaws!Walk[Before(x)[i]]])
  BY <1>5, FoldLaws!WalkAt
<1>7. FoldLaws!Walk[<<b, {}>>] = 0
  <2>1. <<b, {}>> \in Node
    OBVIOUS
  <2> QED
    BY <1>6, <2>1 DEF Appended
<1>8. FoldLaws!Walk[<<b, s>>] = FoldLaws!Walk[<<b, s \ {Max(s)}>>] * Base + b[Max(s)]
  <2>1. <<b, s>> \in Node /\ Before(<<b, s>>) = <<<<b, s \ {Max(s)}>>>>
    BY DEF Before
  <2>2. FoldLaws!Walk[<<b, s>>]
          = Appended(<<b, s>>, [i \in DOMAIN Before(<<b, s>>) |-> FoldLaws!Walk[Before(<<b, s>>)[i]]])
    BY <1>6, <2>1
  <2> QED
    BY <2>1, <2>2, SMTT(30) DEF Appended
<1> QED
  BY <1>7, <1>8

LEMMA NumberIs ==
  ASSUME NEW b \in Digits
  PROVE  /\ DOMAIN b = 1..1 => Number(b) = b[1]
         /\ DOMAIN b = 1..2 => Number(b) = b[1] * Base + b[2]
         /\ DOMAIN b = 1..3 => Number(b) = (b[1] * Base + b[2]) * Base + b[3]
<1> DEFINE At(h, s) == IF s = {} THEN 0 ELSE h[s \ {Max(s)}] * Base + b[Max(s)]
           Solved(h) == h = [s \in SUBSET (DOMAIN b) |-> At(h, s)]
           fold == CHOOSE h : Solved(h)
<1>1. Number(b) = fold[DOMAIN b]
  BY DEF Number, FoldLeft, MapThenFoldSet
<1>2. ASSUME DOMAIN b \in {1..1, 1..2, 1..3}
      PROVE  \A s \in SUBSET (DOMAIN b) : fold[s] = At(fold, s)
  <2> DEFINE w == [s \in SUBSET (DOMAIN b) |-> FoldLaws!Walk[<<b, s>>]]
  <2>1. DOMAIN b \in SUBSET (1..3)
    BY <1>2
  <2>2. ASSUME NEW s \in SUBSET (DOMAIN b) PROVE w[s] = At(w, s)
    <3>1. CASE s = {}
      <4>1. {3} \in SUBSET (1..3) /\ {3} # {}
        OBVIOUS
      <4>2. FoldLaws!Walk[<<b, {}>>] = 0
        BY <4>1, FoldAt
      <4> QED
        BY <3>1, <4>2
    <3>2. CASE s # {}
      <4>1. FoldLaws!Walk[<<b, s>>] = FoldLaws!Walk[<<b, s \ {Max(s)}>>] * Base + b[Max(s)]
        BY <2>1, <3>2, FoldAt
      <4>2. w[s] = FoldLaws!Walk[<<b, s>>] /\ w[s \ {Max(s)}] = FoldLaws!Walk[<<b, s \ {Max(s)}>>]
        OBVIOUS
      <4> HIDE DEF w
      <4> QED
        BY <3>2, <4>1, <4>2
    <3> QED
      BY <3>1, <3>2
  <2>3. Solved(w)
    <3>1. w = [s \in SUBSET (DOMAIN b) |-> w[s]]
      OBVIOUS
    <3> HIDE DEF w, At
    <3> QED
      BY <2>2, <3>1
  <2>4. Solved(fold)
    <3> HIDE DEF w, Solved
    <3> QED
      BY <2>3
  <2> HIDE DEF At, fold
  <2> QED
    BY <2>4
<1> HIDE DEF fold
<1>3. 1..1 = {1} /\ 1..2 = {1, 2} /\ 1..3 = {1, 2, 3}
  OBVIOUS
<1>4. {1} \ {1} = {} /\ {1, 2} \ {2} = {1} /\ {1, 2, 3} \ {3} = {1, 2}
  OBVIOUS
<1>5. ASSUME DOMAIN b = 1..1 PROVE Number(b) = b[1]
  <2>1. fold[{1}] = fold[{}] * Base + b[1] /\ fold[{}] = 0
    BY <1>2, <1>3, <1>4, <1>5, GreatestPosition
  <2>2. b[1] \in Nat
    BY <1>5, ElementOfSeq DEF Digits, Base
  <2> QED
    BY <1>1, <1>3, <1>5, <2>1, <2>2 DEF Base
<1>6. ASSUME DOMAIN b = 1..2 PROVE Number(b) = b[1] * Base + b[2]
  <2>1. fold[{1, 2}] = fold[{1}] * Base + b[2] /\ fold[{1}] = fold[{}] * Base + b[1] /\ fold[{}] = 0
    <3>1. \A s \in SUBSET {1, 2} : fold[s] = At(fold, s)
      BY <1>2, <1>3, <1>6
    <3>2. At(fold, {1, 2}) = fold[{1}] * Base + b[2] /\ At(fold, {1}) = fold[{}] * Base + b[1] /\ At(fold, {}) = 0
      BY <1>4, GreatestPosition
    <3>3. {1, 2} \in SUBSET {1, 2} /\ {1} \in SUBSET {1, 2} /\ {} \in SUBSET {1, 2}
      OBVIOUS
    <3> HIDE DEF At
    <3> QED
      BY <3>1, <3>2, <3>3
  <2>2. b[1] \in Nat /\ b[2] \in Nat
    BY <1>6, ElementOfSeq DEF Digits, Base
  <2> QED
    BY <1>1, <1>3, <1>6, <2>1, <2>2 DEF Base
<1>7. ASSUME DOMAIN b = 1..3 PROVE Number(b) = (b[1] * Base + b[2]) * Base + b[3]
  <2>1. /\ fold[{1, 2, 3}] = fold[{1, 2}] * Base + b[3] /\ fold[{1, 2}] = fold[{1}] * Base + b[2]
        /\ fold[{1}] = fold[{}] * Base + b[1] /\ fold[{}] = 0
    <3>1. \A s \in SUBSET {1, 2, 3} : fold[s] = At(fold, s)
      BY <1>2, <1>3, <1>7
    <3>2. /\ At(fold, {1, 2, 3}) = fold[{1, 2}] * Base + b[3] /\ At(fold, {1, 2}) = fold[{1}] * Base + b[2]
          /\ At(fold, {1}) = fold[{}] * Base + b[1] /\ At(fold, {}) = 0
      BY <1>4, GreatestPosition
    <3>3. /\ {1, 2, 3} \in SUBSET {1, 2, 3} /\ {1, 2} \in SUBSET {1, 2, 3}
          /\ {1} \in SUBSET {1, 2, 3} /\ {} \in SUBSET {1, 2, 3}
      OBVIOUS
    <3> HIDE DEF At
    <3> QED
      BY <3>1, <3>2, <3>3
  <2>2. b[1] \in Nat /\ b[2] \in Nat /\ b[3] \in Nat
    BY <1>7, ElementOfSeq DEF Digits, Base
  <2> QED
    BY <1>1, <1>3, <1>7, <2>1, <2>2 DEF Base
<1> QED
  BY <1>5, <1>6, <1>7

LEMMA HasDigits == \A b : 1 \in DOMAIN b => b # <<>>
OBVIOUS

\* The digits give the number back, in all three widths.
LEMMA NumberOfBytes ==
  /\ \A v \in Words : Number(u256_to_bytes(v)) = v /\ u256_to_bytes(v) # <<>>
  /\ \A v \in 0..Base^2 - 1 : Number(u128_to_bytes(v)) = v /\ u128_to_bytes(v) # <<>>
  /\ \A v \in 0..Base - 1 : Number(u64_to_bytes(v)) = v /\ u64_to_bytes(v) # <<>>
<1>1. ASSUME NEW v \in 0..63
      PROVE  Number(u256_to_bytes(v)) = v /\ u256_to_bytes(v) # <<>>
  <2> DEFINE b == u256_to_bytes(v)
  <2>1. b = [i \in 1..3 |-> (v \div Base^(3 - i)) % Base]
    BY DEF u256_to_bytes, ToBytes
  <2>2. b[1] = (v \div 16) % 4 /\ b[2] = (v \div 4) % 4 /\ b[3] = v % 4 /\ DOMAIN b = 1..3
    <3>1. 4^(3 - 1) = 16 /\ 4^(3 - 2) = 4 /\ 4^(3 - 3) = 1 /\ v \div 1 = v
      OBVIOUS
    <3> HIDE DEF b
    <3> QED
      BY <2>1, <3>1 DEF Base
  <2> HIDE DEF b
  <2>3. b = [i \in 1..3 |-> b[i]]
    BY <2>1
  <2>4. \A i \in 1..3 : b[i] \in 0..3
    <3>1. (v \div 16) % 4 \in 0..3 /\ (v \div 4) % 4 \in 0..3 /\ v % 4 \in 0..3
      OBVIOUS
    <3>2. b[1] \in 0..3 /\ b[2] \in 0..3 /\ b[3] \in 0..3
      BY <2>2, <3>1, Zenon
    <3>3. \A i \in 1..3 : i = 1 \/ i = 2 \/ i = 3
      OBVIOUS
    <3> QED
      BY <3>2, <3>3, Zenon
  <2>5. b \in Digits
    BY <2>3, <2>4, IsASeq DEF Digits, Base
  <2>6. Number(b) = (b[1] * 4 + b[2]) * 4 + b[3]
    BY <2>2, <2>5, NumberIs DEF Base
  <2>7. ((((v \div 16) % 4) * 4) + ((v \div 4) % 4)) * 4 + (v % 4) = v
    OBVIOUS
  <2>8. b # <<>>
    <3>1. DOMAIN b = 1..3
      BY <2>2, Zenon
    <3>2. 1 \in 1..3
      OBVIOUS
    <3> QED
      BY <3>1, <3>2, HasDigits, Zenon
  <2> QED
    BY <2>2, <2>6, <2>7, <2>8 DEF b
<1>2. ASSUME NEW v \in 0..15
      PROVE  Number(u128_to_bytes(v)) = v /\ u128_to_bytes(v) # <<>>
  <2> DEFINE b == u128_to_bytes(v)
  <2>1. b = [i \in 1..2 |-> (v \div Base^(2 - i)) % Base]
    BY DEF u128_to_bytes, ToBytes
  <2>2. b[1] = (v \div 4) % 4 /\ b[2] = v % 4 /\ DOMAIN b = 1..2
    <3>1. 4^(2 - 1) = 4 /\ 4^(2 - 2) = 1 /\ v \div 1 = v
      OBVIOUS
    <3> HIDE DEF b
    <3> QED
      BY <2>1, <3>1 DEF Base
  <2> HIDE DEF b
  <2>3. b = [i \in 1..2 |-> b[i]]
    BY <2>1
  <2>4. \A i \in 1..2 : b[i] \in 0..3
    <3>1. (v \div 4) % 4 \in 0..3 /\ v % 4 \in 0..3
      OBVIOUS
    <3>2. b[1] \in 0..3 /\ b[2] \in 0..3
      BY <2>2, <3>1, Zenon
    <3>3. \A i \in 1..2 : i = 1 \/ i = 2
      OBVIOUS
    <3> QED
      BY <3>2, <3>3, Zenon
  <2>5. b \in Digits
    BY <2>3, <2>4, IsASeq DEF Digits, Base
  <2>6. Number(b) = b[1] * 4 + b[2]
    BY <2>2, <2>5, NumberIs DEF Base
  <2>7. (((v \div 4) % 4) * 4) + (v % 4) = v
    OBVIOUS
  <2>8. b # <<>>
    <3>1. DOMAIN b = 1..2
      BY <2>2, Zenon
    <3>2. 1 \in 1..2
      OBVIOUS
    <3> QED
      BY <3>1, <3>2, HasDigits, Zenon
  <2> QED
    BY <2>2, <2>6, <2>7, <2>8 DEF b
<1>3. ASSUME NEW v \in 0..3
      PROVE  Number(u64_to_bytes(v)) = v /\ u64_to_bytes(v) # <<>>
  <2> DEFINE b == u64_to_bytes(v)
  <2>1. b = [i \in 1..1 |-> (v \div Base^(1 - i)) % Base]
    BY DEF u64_to_bytes, ToBytes
  <2>2. b[1] = v /\ DOMAIN b = 1..1
    <3>1. 4^(1 - 1) = 1 /\ v \div 1 = v /\ v % 4 = v
      OBVIOUS
    <3> HIDE DEF b
    <3> QED
      BY <2>1, <3>1 DEF Base
  <2> HIDE DEF b
  <2>3. b = [i \in 1..1 |-> b[i]]
    BY <2>1
  <2>5. b \in Digits
    BY <2>2, <2>3, IsASeq DEF Digits, Base
  <2>6. Number(b) = b[1]
    BY <2>2, <2>5, NumberIs
  <2>8. b # <<>>
    <3>1. DOMAIN b = 1..1
      BY <2>2, Zenon
    <3>2. 1 \in 1..1
      OBVIOUS
    <3> QED
      BY <3>1, <3>2, HasDigits, Zenon
  <2> QED
    BY <2>2, <2>6, <2>8 DEF b
<1>4. Words = 0..63 /\ Base^2 - 1 = 15 /\ Base - 1 = 3
  BY DEF Words, Base
<1> QED
  BY <1>1, <1>2, <1>3, <1>4

-----------------------------------------------------------------------------
(* Call traces.                                                            *)

LEMMA Smaller ==
  ASSUME NEW a \in Nat, NEW b \in Nat
  PROVE  Min({a, b}) \in Nat /\ Min({a, b}) <= a /\ Min({a, b}) <= b /\ Min({a, b}) \in {a, b}
<1>1. \E x \in {a, b} : \A y \in {a, b} : x <= y
  OBVIOUS
<1>2. Min({a, b}) \in {a, b} /\ \A y \in {a, b} : Min({a, b}) <= y
  BY <1>1 DEF Min
<1> QED
  BY <1>2

ConvertLaws == INSTANCE FrameWalkProofs WITH Node <- Frames, Calls <- CallsOf, Visit <- frame_to_proto

\* The calls of a frame are frames, less deep than it.
LEMMA FrameCalls ==
  ASSUME NEW f \in Frames
  PROVE  /\ f \in TracerFrame
         /\ f.calls \in Seq(Frames) /\ Len(f.calls) \in Nat /\ DOMAIN f.calls = 1..Len(f.calls)
         /\ \A i \in 1..Len(f.calls) : f.calls[i] \in Frames /\ Depth[f.calls[i]] < Depth[f]
<1>1. f \in TracerFrame /\ f.calls \in Seq(Frames)
  BY FrameAssumption DEF TracerFrame
<1> QED
  BY <1>1, FrameAssumption, LenProperties, ElementOfSeq

LEMMA ConvertAt ==
  ASSUME NEW f \in Frames
  PROVE  call_frame_to_proto(f) = frame_to_proto(f, [i \in DOMAIN f.calls |-> call_frame_to_proto(f.calls[i])])
<1>1. ConvertLaws!IsRank(Depth)
  BY FrameCalls, FrameAssumption DEF ConvertLaws!IsRank, CallsOf
<1>2. ConvertLaws!Walk[f] = frame_to_proto(f, [i \in DOMAIN CallsOf(f) |-> ConvertLaws!Walk[CallsOf(f)[i]]])
  BY <1>1, ConvertLaws!WalkAt
<1> QED
  BY <1>2 DEF call_frame_to_proto, CallsOf, Convert!Walk, ConvertLaws!Walk

\* The root of a transaction: the message of a frame with another gas limit.
LEMMA RootMessage ==
  ASSUME NEW f \in Frames, NEW gas
  PROVE  /\ [call_frame_to_proto(f) EXCEPT !.gas = gas].from = <<f.from>>
         /\ [call_frame_to_proto(f) EXCEPT !.gas = gas].gas = gas
<1> DEFINE calls == [i \in DOMAIN f.calls |-> call_frame_to_proto(f.calls[i])]
           M == frame_to_proto(f, calls)
           to == OrDefault(f.to, addr_to_bytes, <<>>)
           value == value_to_bytes(f.value)
           limit == u256_to_bytes(f.gas)
           used == u256_to_bytes(f.gas_used)
           out == OrDefault(f.output, Id, <<>>)
           err == OrDefault(f.error, Id, "")
           reason == OrDefault(f.revert_reason, Id, "")
           logs == Each(f.logs, call_log_frame_to_proto)
<1>1. M = [typ |-> f.typ, from |-> <<f.from>>, to |-> to, value |-> value, gas |-> limit,
           gas_used |-> used, input |-> f.input, output |-> out, error |-> err,
           revert_reason |-> reason, calls |-> calls, logs |-> logs]
  BY Zenon DEF frame_to_proto, addr_to_bytes
<1>2. call_frame_to_proto(f) = M
  BY ConvertAt
<1> HIDE DEF M, calls, to, value, limit, used, out, err, reason, logs
<1>3. M.from = <<f.from>> /\ "gas" \in DOMAIN M /\ "from" \in DOMAIN M
  BY <1>1
<1>4. [M EXCEPT !.gas = gas].from = <<f.from>> /\ [M EXCEPT !.gas = gas].gas = gas
  BY <1>3
<1> QED
  BY <1>2, <1>4

LEMMA BlockTraces ==
  ASSUME NEW b \in NodeBlock, NEW frames \in Seq(Frames)
  PROVE  /\ Len(b.txs) \in Nat /\ Len(frames) \in Nat
         /\ block_traces(b, frames).block_number = b.header.number
         /\ DOMAIN block_traces(b, frames).txs = 1..Min({Len(b.txs), Len(frames)})
         /\ Len(block_traces(b, frames).txs) = Min({Len(b.txs), Len(frames)})
         /\ \A i \in 1..Min({Len(b.txs), Len(frames)}) :
              /\ i \in 1..Len(b.txs) /\ i \in 1..Len(frames)
              /\ block_traces(b, frames).txs[i]
                   = [call_frame_to_proto(frames[i]) EXCEPT !.gas = u256_to_bytes(b.txs[i].gas_limit)]
              /\ block_traces(b, frames).txs[i].from = <<frames[i].from>>
              /\ block_traces(b, frames).txs[i].gas = u256_to_bytes(b.txs[i].gas_limit)
              /\ Number(block_traces(b, frames).txs[i].gas) = b.txs[i].gas_limit
<1> DEFINE n == Min({Len(b.txs), Len(frames)})
           root(i) == [call_frame_to_proto(frames[i]) EXCEPT !.gas = u256_to_bytes(b.txs[i].gas_limit)]
           T == block_traces(b, frames)
<1>1. b.txs \in Seq(NodeTx) /\ Len(b.txs) \in Nat /\ Len(frames) \in Nat
  BY LenProperties DEF NodeBlock
<1>2. n \in Nat /\ n <= Len(b.txs) /\ n <= Len(frames)
  BY <1>1, Smaller
<1>3. T = [block_number |-> b.header.number, txs |-> [i \in 1..n |-> root(i)]]
  BY DEF block_traces
<1>4. T.block_number = b.header.number /\ T.txs = [i \in 1..n |-> root(i)]
  BY <1>3
<1>5. Len(T.txs) = n /\ DOMAIN T.txs = 1..n
  <2>1. [i \in 1..n |-> root(i)] \in Seq({root(i) : i \in 1..n})
    <3> HIDE DEF root, n
    <3> QED
      BY <1>2, IsASeq
  <2> HIDE DEF root, n, T
  <2>2. DOMAIN T.txs = 1..n /\ T.txs \in Seq({root(i) : i \in 1..n})
    BY <1>4, <2>1
  <2>3. Len(T.txs) \in Nat /\ 1..Len(T.txs) = 1..n
    BY <2>2, LenProperties
  <2>4. Len(T.txs) = n
    BY <1>2, <2>3
  <2> QED
    BY <2>2, <2>4
<1>6. ASSUME NEW i \in 1..n
      PROVE  /\ i \in 1..Len(b.txs) /\ i \in 1..Len(frames) /\ T.txs[i] = root(i)
             /\ T.txs[i].from = <<frames[i].from>> /\ T.txs[i].gas = u256_to_bytes(b.txs[i].gas_limit)
             /\ Number(T.txs[i].gas) = b.txs[i].gas_limit
  <2>1. i \in 1..Len(b.txs) /\ i \in 1..Len(frames)
    BY <1>1, <1>2
  <2>2. frames[i] \in Frames /\ b.txs[i] \in NodeTx
    BY <1>1, <2>1, ElementOfSeq
  <2>3. root(i).from = <<frames[i].from>> /\ root(i).gas = u256_to_bytes(b.txs[i].gas_limit)
    <3> DEFINE g == u256_to_bytes(b.txs[i].gas_limit)
               f == frames[i]
    <3> HIDE DEF g
    <3>1. [call_frame_to_proto(f) EXCEPT !.gas = g].from = <<f.from>>
          /\ [call_frame_to_proto(f) EXCEPT !.gas = g].gas = g
      BY <2>2, RootMessage
    <3> QED
      BY <3>1 DEF g
  <2>4. b.txs[i].gas_limit \in Words
    BY <2>2 DEF NodeTx, AnyTx
  <2>5. T.txs[i] = root(i)
    BY <1>4, Zenon
  <2> HIDE DEF T, root
  <2> QED
    BY <2>1, <2>3, <2>4, <2>5, NumberOfBytes
<1> QED
  BY <1>1, <1>4, <1>5, <1>6

\* The positions of the blocks that have traces.
TracedAt(c) == {i \in DOMAIN c.blocks : c.blocks[i].header.number \in DOMAIN c.traces[1]}

LEMMA CallTraces ==
  ASSUME NEW c, NodeChain(c), IsSome(c.traces)
  PROVE  /\ IsFiniteSet(TracedAt(c)) /\ TracedAt(c) \in SUBSET Nat /\ Cardinality(TracedAt(c)) \in Nat
         /\ DOMAIN call_traces_to_proto(c) = 1..Cardinality(TracedAt(c))
         /\ call_traces_to_proto(c) \in
              Seq({block_traces(b, c.traces[1][b.header.number]) : b \in Range(c.blocks)})
         /\ \A k \in 1..Cardinality(TracedAt(c)) :
              LET b == c.blocks[Nth(TracedAt(c), k)]
                  frames == c.traces[1][b.header.number]
              IN  /\ Nth(TracedAt(c), k) \in TracedAt(c) /\ b \in Range(c.blocks) /\ b \in NodeBlock
                  /\ frames \in Seq(Frames)
                  /\ \A i \in DOMAIN frames \cap DOMAIN b.senders : frames[i].from = b.senders[i]
                  /\ call_traces_to_proto(c)[k] = block_traces(b, frames)
         /\ \A k, m \in 1..Cardinality(TracedAt(c)) :
              k < m <=> Nth(TracedAt(c), k) < Nth(TracedAt(c), m)
<1> DEFINE K == TracedAt(c)
           frames(b) == c.traces[1][b.header.number]
           R == {block_traces(b, frames(b)) : b \in Range(c.blocks)}
           T == call_traces_to_proto(c)
           k == Kept(c.blocks, K)
<1>1. c.blocks \in Seq(NodeBlock) /\ K \in SUBSET (DOMAIN c.blocks)
  BY DEF NodeChain, TracedAt
<1>2. /\ IsFiniteSet(K) /\ K \in SUBSET Nat /\ Cardinality(K) \in Nat
      /\ DOMAIN k = 1..Cardinality(K)
      /\ \A j \in 1..Cardinality(K) : Nth(K, j) \in K /\ k[j] = c.blocks[Nth(K, j)]
      /\ \A j, m \in 1..Cardinality(K) : j < m <=> Nth(K, j) < Nth(K, m)
  <2> HIDE DEF K
  <2> QED
    BY <1>1, KeptIs, SMTT(30)
<1>3. T = [j \in DOMAIN k |-> block_traces(k[j], frames(k[j]))]
  BY DEF call_traces_to_proto, Each, TracedAt
<1>4. ASSUME NEW j \in 1..Cardinality(K)
      PROVE  LET b == c.blocks[Nth(K, j)] IN
             /\ Nth(K, j) \in K /\ b \in Range(c.blocks) /\ b \in NodeBlock
             /\ frames(b) \in Seq(Frames)
             /\ \A i \in DOMAIN frames(b) \cap DOMAIN b.senders : frames(b)[i].from = b.senders[i]
             /\ T[j] = block_traces(b, frames(b))
  <2> DEFINE b == c.blocks[Nth(K, j)]
  <2>1. Nth(K, j) \in K /\ k[j] = b
    <3> HIDE DEF K, k
    <3> QED
      BY <1>2, Zenon
  <2>2. Nth(K, j) \in DOMAIN c.blocks /\ b.header.number \in DOMAIN c.traces[1]
    <3> HIDE DEF k
    <3> QED
      BY <2>1, Zenon DEF TracedAt
  <2>3. b \in Range(c.blocks)
    BY <2>2 DEF Range
  <2>4. b \in NodeBlock
    BY <1>1, <2>2, ElementOfSeq, LenProperties
  <2>5. frames(b) \in Seq(Frames)
        /\ \A i \in DOMAIN frames(b) \cap DOMAIN b.senders : frames(b)[i].from = b.senders[i]
    <3> HIDE DEF K, k
    <3> QED
      BY <2>2, <2>3 DEF NodeChain
  <2>6. T[j] = block_traces(b, frames(b))
    <3> HIDE DEF K, k, T, frames
    <3> QED
      BY <1>2, <1>3, <2>1
  <2> HIDE DEF T, frames, K, k
  <2> QED
    BY <2>1, <2>3, <2>4, <2>5, <2>6
<1>5. T \in Seq(R)
  <2>1. \A j \in 1..Cardinality(K) : block_traces(k[j], frames(k[j])) \in R
    <3> HIDE DEF K, k, frames, T
    <3> QED
      BY <1>2, <1>4
  <2> DEFINE g(j) == block_traces(k[j], frames(k[j]))
  <2>2. T = [j \in 1..Cardinality(K) |-> g(j)]
    BY <1>2, <1>3
  <2> HIDE DEF K, k, T, R, g
  <2>3. \A j \in 1..Cardinality(K) : g(j) \in R
    BY <2>1 DEF g
  <2> QED
    BY <1>2, <2>2, <2>3, IsASeq
<1>6. DOMAIN T = 1..Cardinality(K)
  <2> HIDE DEF K, k, frames, T
  <2> QED
    BY <1>2, <1>3
<1> HIDE DEF T, K
<1> QED
  BY <1>2, <1>4, <1>5, <1>6, Zenon DEF T, K

-----------------------------------------------------------------------------
(* What the server sends of the traces.                                    *)

LEMMA SidesAre ==
  ASSUME IInv, NEW s \in Sides
  PROVE  NodeChain(s[1]) /\ s[2] = chain_to_proto(s[1], flags)
<1>1. CASE notif = NoNotif /\ msg = NoMsg
  <2>1. msg.old = <<>> /\ msg.new = <<>>
    BY <1>1 DEF NoMsg, None
  <2>2. Len(msg.old) = 0 /\ Len(msg.new) = 0
    BY <2>1
  <2> QED
    BY <2>2 DEF Sides
<1>2. CASE notif \in Notifications /\ msg = notification_to_proto(notif, flags)
  <2> DEFINE O == chain_to_proto(notif.old, flags)
             N == chain_to_proto(notif.new, flags)
  <2>1. /\ msg.old = IF notif.kind # "Committed" THEN Some(O) ELSE None
        /\ msg.new = IF notif.kind # "Reverted" THEN Some(N) ELSE None
    <3>1. msg = [event |-> notif.kind,
                 old |-> IF notif.kind # "Committed" THEN Some(O) ELSE None,
                 new |-> IF notif.kind # "Reverted" THEN Some(N) ELSE None]
      BY <1>2 DEF notification_to_proto
    <3> HIDE DEF O, N
    <3> QED
      BY <3>1
  <2>2. /\ notif.kind # "Committed" => notif.old \in OldChains
        /\ notif.kind # "Reverted" => notif.new \in Chains
    BY <1>2 DEF Notifications, Committed, Reorged, Reverted
  <2> HIDE DEF O, N
  <2>3. Some(O)[1] = O /\ Some(N)[1] = N /\ Len(None) = 0
    BY DEF Some, None
  <2>4. 1..0 = {}
    OBVIOUS
  <2>5. ASSUME NEW x \in 1..Len(msg.old), s = <<notif.old, msg.old[1]>>
        PROVE  NodeChain(notif.old) /\ s = <<notif.old, O>>
    <3>1. notif.kind # "Committed"
      BY <2>1, <2>3, <2>4, <2>5
    <3> QED
      BY <2>1, <2>2, <2>3, <2>5, <3>1, NodeAssumption
  <2>6. ASSUME NEW x \in 1..Len(msg.new), s = <<notif.new, msg.new[1]>>
        PROVE  NodeChain(notif.new) /\ s = <<notif.new, N>>
    <3>1. notif.kind # "Reverted"
      BY <2>1, <2>3, <2>4, <2>6
    <3> QED
      BY <2>1, <2>2, <2>3, <2>6, <3>1, NodeAssumption
  <2>7. \/ s = <<notif.old, O>> /\ NodeChain(notif.old)
        \/ s = <<notif.new, N>> /\ NodeChain(notif.new)
    BY <2>5, <2>6 DEF Sides
  <2>8. \/ s[1] = notif.old /\ s[2] = O /\ NodeChain(notif.old)
        \/ s[1] = notif.new /\ s[2] = N /\ NodeChain(notif.new)
    BY <2>7
  <2> QED
    BY <2>8, Zenon DEF O, N
<1> QED
  BY <1>1, <1>2 DEF IInv, Handed

\* A block of the message, when headers and transactions were asked for.
LEMMA BlockMessage ==
  ASSUME NEW b \in NodeBlock, "headers" \in flags, "transactions" \in flags
  PROVE  LET m == block_with_receipts_to_proto(b, flags) IN
         /\ m.header[1].number = b.header.number
         /\ Len(m.txs) = Len(b.txs) /\ Len(b.txs) \in Nat /\ Len(b.senders) = Len(b.txs)
         /\ DOMAIN b.senders = 1..Len(b.txs)
         /\ \A i \in 1..Len(b.txs) : m.txs[i].gas_limit = b.txs[i].gas_limit /\ m.senders[i] = <<b.senders[i]>>
<1> DEFINE H == header_to_proto(b.header)
           txs == [i \in DOMAIN b.txs |-> tx_to_proto(b.txs[i])]
           senders == [i \in DOMAIN b.senders |-> <<b.senders[i]>>]
           R == IF "receipts" \in flags THEN Each(b.receipts, receipt_to_proto) ELSE <<>>
           W == IF "withdrawals" \in flags
                  THEN OrDefault(b.withdrawals, LAMBDA ws : Each(ws, withdrawal_to_proto), <<>>) ELSE <<>>
           m == block_with_receipts_to_proto(b, flags)
<1>1. m = [header |-> Some(H), txs |-> txs, senders |-> senders, receipts |-> R, withdrawals |-> W]
  BY Zenon DEF block_with_receipts_to_proto, Each, addr_to_bytes
<1>2. H.number = b.header.number
  <2> DEFINE has == [f \in Scalars \cup Hashes |-> IsSome(b.header.opt[f])]
             scalar == [f \in Scalars |-> OrDefault(b.header.opt[f], Id, 0)]
             hash == [f \in Hashes |-> OrDefault(b.header.opt[f], b256_to_bytes, <<>>)]
  <2>1. H = [number |-> b.header.number, gas_used |-> b.header.gas_used, has |-> has, scalar |-> scalar, hash |-> hash]
    BY DEF header_to_proto
  <2> HIDE DEF has, scalar, hash, H
  <2> QED
    BY <2>1
<1>3. b.txs \in Seq(NodeTx) /\ b.senders \in Seq(Nat) /\ Len(b.senders) = Len(b.txs)
  BY DEF NodeBlock
<1>4. Len(b.txs) \in Nat /\ DOMAIN b.txs = 1..Len(b.txs) /\ DOMAIN b.senders = 1..Len(b.txs)
  BY <1>3, LenProperties
<1>5. \A i \in 1..Len(b.txs) : tx_to_proto(b.txs[i]).gas_limit = b.txs[i].gas_limit
  BY DEF tx_to_proto, tx_common_fields
<1>6. Len(txs) = Len(b.txs)
  <2>1. [i \in 1..Len(b.txs) |-> tx_to_proto(b.txs[i])] \in Seq({tx_to_proto(t) : t \in NodeTx})
    <3>1. \A i \in 1..Len(b.txs) : tx_to_proto(b.txs[i]) \in {tx_to_proto(t) : t \in NodeTx}
      BY <1>3, <1>4, ElementOfSeq
    <3> QED
      BY <1>4, <3>1, IsASeq
  <2>2. txs \in Seq({tx_to_proto(t) : t \in NodeTx}) /\ DOMAIN txs = 1..Len(b.txs)
    BY <1>4, <2>1
  <2> HIDE DEF txs
  <2>3. Len(txs) \in Nat /\ 1..Len(txs) = 1..Len(b.txs)
    BY <2>2, LenProperties
  <2> QED
    BY <1>4, <2>3
<1> HIDE DEF H, R, W, m
<1>7. m.header = Some(H) /\ m.txs = txs /\ m.senders = senders
  BY <1>1
<1>8. m.header[1] = H
  BY <1>7 DEF Some
<1>9. \A i \in 1..Len(b.txs) : m.txs[i].gas_limit = b.txs[i].gas_limit /\ m.senders[i] = <<b.senders[i]>>
  BY <1>4, <1>5, <1>7
<1> QED
  BY <1>2, <1>3, <1>4, <1>6, <1>7, <1>8, <1>9 DEF m

\* Each entry of call_traces is of a block of the same message, in block order,
\* its frame i that of transaction i (call_traces_to_proto).
LEMMA TracesMatched == IInv => TracesMatchTxs
<1> SUFFICES ASSUME IInv, "transactions" \in flags, "headers" \in flags, NEW s \in Sides
             PROVE  LET m == s[2] IN
                    /\ \A j, k \in DOMAIN m.call_traces :
                         j < k => m.call_traces[j].block_number < m.call_traces[k].block_number
                    /\ \A t \in Range(m.call_traces) :
                         \E b \in Range(m.blocks) :
                           /\ b.header[1].number = t.block_number
                           /\ Len(t.txs) <= Len(b.txs)
                           /\ \A i \in DOMAIN t.txs :
                                /\ t.txs[i].from = b.senders[i]
                                /\ Number(t.txs[i].gas) = b.txs[i].gas_limit
  BY DEF TracesMatchTxs
<1> DEFINE c == s[1]
           m == s[2]
           T == m.call_traces
           K == TracedAt(c)
           frames(b) == c.traces[1][b.header.number]
           sent(b) == block_with_receipts_to_proto(b, flags)
           D == IF "state_diff" \in flags THEN Some(state_diff_to_proto(c.bundle)) ELSE None
<1>1. NodeChain(c) /\ m = chain_to_proto(c, flags)
  BY SidesAre
<1>2. /\ m.blocks = [i \in DOMAIN c.blocks |-> sent(c.blocks[i])]
      /\ T = IF "call_traces" \in flags THEN call_traces_to_proto(c) ELSE <<>>
  <2>1. m = [blocks |-> [i \in DOMAIN c.blocks |-> sent(c.blocks[i])],
             state_diff |-> D,
             call_traces |-> IF "call_traces" \in flags THEN call_traces_to_proto(c) ELSE <<>>]
    BY <1>1 DEF chain_to_proto, Each
  <2> HIDE DEF D, m, c, sent
  <2> QED
    BY <2>1 DEF m
<1>3. CASE T = <<>>
  <2>1. DOMAIN T = {}
    BY <1>3
  <2>2. Range(T) = {}
    BY <2>1 DEF Range
  <2> HIDE DEF T
  <2> QED
    BY <2>1, <2>2 DEF T
<1>4. CASE T # <<>>
  <2>1. IsSome(c.traces) /\ T = call_traces_to_proto(c)
    BY <1>2, <1>4 DEF call_traces_to_proto
  <2>2. /\ IsFiniteSet(K) /\ K \in SUBSET Nat /\ Cardinality(K) \in Nat
        /\ DOMAIN T = 1..Cardinality(K)
        /\ \A k \in 1..Cardinality(K) :
             LET b == c.blocks[Nth(K, k)] IN
             /\ Nth(K, k) \in K /\ b \in Range(c.blocks) /\ b \in NodeBlock
             /\ frames(b) \in Seq(Frames)
             /\ \A i \in DOMAIN frames(b) \cap DOMAIN b.senders : frames(b)[i].from = b.senders[i]
             /\ T[k] = block_traces(b, frames(b))
        /\ \A k, n \in 1..Cardinality(K) : k < n <=> Nth(K, k) < Nth(K, n)
    <3> DEFINE P == call_traces_to_proto(c)
    <3>2. /\ IsFiniteSet(K) /\ K \in SUBSET Nat /\ Cardinality(K) \in Nat
          /\ DOMAIN P = 1..Cardinality(K)
          /\ \A k \in 1..Cardinality(K) :
               LET b == c.blocks[Nth(K, k)] IN
               /\ Nth(K, k) \in K /\ b \in Range(c.blocks) /\ b \in NodeBlock
               /\ frames(b) \in Seq(Frames)
               /\ \A i \in DOMAIN frames(b) \cap DOMAIN b.senders : frames(b)[i].from = b.senders[i]
               /\ P[k] = block_traces(b, frames(b))
          /\ \A k, n \in 1..Cardinality(K) : k < n <=> Nth(K, k) < Nth(K, n)
      <4> HIDE DEF c
      <4> QED
        BY <1>1, <2>1, CallTraces, Zenon
    <3>3. T = P
      BY <2>1
    <3> HIDE DEF T, P, K, frames, c
    <3> QED
      BY <3>2, <3>3, Zenon
  <2> DEFINE at(k) == c.blocks[Nth(K, k)]
  <2>3. ASSUME NEW k \in 1..Cardinality(K)
        PROVE  /\ at(k) \in NodeBlock /\ Nth(K, k) \in DOMAIN c.blocks
               /\ T[k] = block_traces(at(k), frames(at(k)))
               /\ frames(at(k)) \in Seq(Frames)
               /\ \A i \in DOMAIN frames(at(k)) \cap DOMAIN at(k).senders :
                    frames(at(k))[i].from = at(k).senders[i]
    <3>1. K \in SUBSET DOMAIN c.blocks
      BY DEF TracedAt
    <3> HIDE DEF K, T, c, frames
    <3> QED
      BY <2>2, <3>1
  <2>4. ASSUME NEW k \in 1..Cardinality(K) PROVE T[k].block_number = at(k).header.number
    <3> HIDE DEF T, K, frames, at
    <3>1. at(k) \in NodeBlock /\ frames(at(k)) \in Seq(Frames) /\ T[k] = block_traces(at(k), frames(at(k)))
      BY <2>3 DEF at
    <3> QED
      BY <3>1, BlockTraces
  <2>5. ASSUME NEW k \in DOMAIN T, NEW n \in DOMAIN T, k < n PROVE T[k].block_number < T[n].block_number
    <3>1. k \in 1..Cardinality(K) /\ n \in 1..Cardinality(K) /\ Nth(K, k) < Nth(K, n)
      <4> HIDE DEF K, T, frames, c
      <4> QED
        BY <2>2, <2>5
    <3>2. at(k).header.number < at(n).header.number
      <4>1. \A i, j \in DOMAIN c.blocks : i < j => c.blocks[i].header.number < c.blocks[j].header.number
        BY <1>1, Zenon DEF NodeChain
      <4>2. Nth(K, k) \in DOMAIN c.blocks /\ Nth(K, n) \in DOMAIN c.blocks
        BY <2>3, <3>1, Zenon
      <4> HIDE DEF c, K
      <4> QED
        BY <3>1, <4>1, <4>2
    <3> QED
      BY <2>4, <3>1, <3>2
  <2>6. ASSUME NEW t \in Range(T)
        PROVE  \E b \in Range(m.blocks) :
                 /\ b.header[1].number = t.block_number
                 /\ Len(t.txs) <= Len(b.txs)
                 /\ \A i \in DOMAIN t.txs :
                      /\ t.txs[i].from = b.senders[i]
                      /\ Number(t.txs[i].gas) = b.txs[i].gas_limit
    <3>1. PICK k \in 1..Cardinality(K) : t = T[k]
      <4> HIDE DEF T, K, frames, c
      <4> QED
        BY <2>2, <2>6 DEF Range
    <3> DEFINE b == at(k)
               n == Min({Len(b.txs), Len(frames(b))})
    <3>2. b \in NodeBlock /\ Nth(K, k) \in DOMAIN c.blocks /\ t = block_traces(b, frames(b))
          /\ frames(b) \in Seq(Frames)
          /\ \A i \in DOMAIN frames(b) \cap DOMAIN b.senders : frames(b)[i].from = b.senders[i]
      BY <2>3, <3>1, Zenon
    <3>3. sent(b) \in Range(m.blocks)
      <4> HIDE DEF m, K
      <4> QED
        BY <1>2, <3>2, Zenon DEF Range
    <3>4. /\ Len(b.txs) \in Nat /\ Len(frames(b)) \in Nat
          /\ t.block_number = b.header.number /\ DOMAIN t.txs = 1..n /\ Len(t.txs) = n
          /\ \A i \in 1..n :
               /\ i \in 1..Len(b.txs) /\ i \in 1..Len(frames(b))
               /\ t.txs[i].from = <<frames(b)[i].from>>
               /\ Number(t.txs[i].gas) = b.txs[i].gas_limit
      <4> HIDE DEF b, frames
      <4> QED
        BY <3>2, BlockTraces, Zenon
    <3>5. /\ sent(b).header[1].number = b.header.number
          /\ Len(sent(b).txs) = Len(b.txs) /\ DOMAIN b.senders = 1..Len(b.txs)
          /\ \A i \in 1..Len(b.txs) : sent(b).txs[i].gas_limit = b.txs[i].gas_limit
                                      /\ sent(b).senders[i] = <<b.senders[i]>>
      <4> HIDE DEF b
      <4> QED
        BY <3>2, BlockMessage
    <3>6. n <= Len(b.txs)
      <4> HIDE DEF b, frames
      <4> QED
        BY <3>4, Smaller
    <3>7. DOMAIN frames(b) = 1..Len(frames(b))
      <4> HIDE DEF b, frames
      <4> QED
        BY <3>2, LenProperties
    <3> HIDE DEF b, n, frames, sent, m, T
    <3>8. \A i \in 1..n : t.txs[i].from = sent(b).senders[i] /\ Number(t.txs[i].gas) = sent(b).txs[i].gas_limit
      BY <3>2, <3>4, <3>5, <3>7, Zenon
    <3> QED
      BY <3>3, <3>4, <3>5, <3>6, <3>8, Zenon
  <2> HIDE DEF T, K, m
  <2> QED
    BY <2>5, <2>6, Zenon DEF m, T
<1> QED
  BY <1>3, <1>4

\* What the server sends of a block's traces is of that block, and its frames
\* those of the block's transactions (call_traces_to_proto).
THEOREM TracesAreTheBlocks == Spec => []TracesMatchTxs
BY Invariance, TracesMatched, PTL

-----------------------------------------------------------------------------
(* What the verifier takes.                                                *)

LEMMA KeptNone == ASSUME NEW s PROVE Kept(s, {}) = <<>>
<1>1. Cardinality({}) = 0
  BY FS_EmptySet
<1>2. 1..0 = {}
  OBVIOUS
<1>3. Kept(s, {}) = [k \in 1..Cardinality({}) |-> s[Nth({}, k)]]
  BY DEF Kept
<1>4. Kept(s, {}) = [k \in {} |-> s[Nth({}, k)]]
  BY <1>1, <1>2, <1>3
<1>5. Kept(s, {}) \in Seq({}) /\ DOMAIN Kept(s, {}) = 1..0
  <2>1. [k \in 1..0 |-> s[Nth({}, k)]] \in Seq({})
    BY <1>2, IsASeq
  <2> QED
    BY <1>2, <1>4, <2>1
<1>6. Len(Kept(s, {})) \in Nat /\ 1..Len(Kept(s, {})) = 1..0
  BY <1>5, LenProperties
<1>7. Len(Kept(s, {})) = 0
  BY <1>6
<1> QED
  BY <1>5, <1>7

\* To keep some of what was kept is to keep these at once.
Positions(K, M) == {Nth(K, k) : k \in M}

LEMMA KeptTwice ==
  ASSUME NEW K \in SUBSET Nat, IsFiniteSet(K), NEW M \in SUBSET (1..Cardinality(K))
  PROVE  /\ IsFiniteSet(M) /\ Cardinality(M) \in Nat
         /\ IsFiniteSet(Positions(K, M)) /\ Cardinality(Positions(K, M)) = Cardinality(M)
         /\ \A j \in 1..Cardinality(M) : Nth(M, j) \in M /\ Nth(Positions(K, M), j) = Nth(K, Nth(M, j))
<1> DEFINE L == Positions(K, M)
<1>a. L = {Nth(K, k) : k \in M}
  BY DEF Positions
<1> HIDE DEF L
<1>1. /\ Cardinality(K) \in Nat
      /\ \A k \in 1..Cardinality(K) : Nth(K, k) \in K
      /\ \A k, m \in 1..Cardinality(K) : k < m <=> Nth(K, k) < Nth(K, m)
  BY NthIs
<1>2. IsFiniteSet(M) /\ M \in SUBSET Nat
  <2>1. IsFiniteSet(1..Cardinality(K))
    BY <1>1, FS_Interval
  <2>2. IsFiniteSet(M)
    BY <2>1, FS_Subset
  <2>3. 1..Cardinality(K) \in SUBSET Nat
    BY <1>1
  <2> QED
    BY <2>2, <2>3
<1>3. \A k, m \in M : (k < m <=> Nth(K, k) < Nth(K, m)) /\ Nth(K, k) \in Nat
  BY <1>1
<1>4. \A k, m \in M : k = m <=> Nth(K, k) = Nth(K, m)
  BY <1>2, <1>3
<1>5. \A k, m \in M : k <= m <=> Nth(K, k) <= Nth(K, m)
  BY <1>2, <1>3, <1>4
<1>6. ASSUME NEW P \in SUBSET M
      PROVE  IsFiniteSet({Nth(K, k) : k \in P}) /\ Cardinality({Nth(K, k) : k \in P}) = Cardinality(P)
  <2> DEFINE f == [k \in P |-> Nth(K, k)]
             Q == {Nth(K, k) : k \in P}
  <2>1. f \in Bijection(P, Q)
    BY <1>4 DEF Bijection, Injection, Surjection, IsInjective
  <2>2. IsFiniteSet(P)
    BY <1>2, FS_Subset
  <2>3. ExistsBijection(P, Q)
    BY <2>1 DEF ExistsBijection
  <2> HIDE DEF Q, f
  <2>4. IsFiniteSet(Q) /\ Cardinality(Q) = Cardinality(P)
    BY <2>2, <2>3, FS_Bijection
  <2> QED
    BY <2>4 DEF Q
<1>7. IsFiniteSet(L) /\ Cardinality(L) = Cardinality(M) /\ L \in SUBSET Nat
  BY <1>3, <1>6, <1>a
<1>8. ASSUME NEW m \in M PROVE Rank(L, Nth(K, m)) = Rank(M, m) /\ Nth(K, m) \in L
  <2> DEFINE P == {k \in M : k <= m}
  <2>1. {j \in L : j <= Nth(K, m)} = {Nth(K, k) : k \in P}
    BY <1>5, <1>a
  <2>2. Cardinality({Nth(K, k) : k \in P}) = Cardinality(P)
    BY <1>6
  <2> QED
    BY <1>a, <2>1, <2>2 DEF Rank
<1>9. /\ Cardinality(M) \in Nat
      /\ \A j \in 1..Cardinality(M) : Nth(M, j) \in M /\ Rank(M, Nth(M, j)) = j
  BY <1>2, NthIs
<1>10. \A i \in L : Nth(L, Rank(L, i)) = i
  BY <1>7, NthIs
<1>11. ASSUME NEW j \in 1..Cardinality(M) PROVE Nth(L, j) = Nth(K, Nth(M, j))
  <2>1. Nth(M, j) \in M /\ Rank(M, Nth(M, j)) = j
    BY <1>9
  <2>2. Rank(L, Nth(K, Nth(M, j))) = j /\ Nth(K, Nth(M, j)) \in L
    BY <1>8, <2>1
  <2> QED
    BY <1>10, <2>2
<1> QED
  BY <1>2, <1>7, <1>9, <1>11 DEF L

LEMMA LenIs ==
  ASSUME NEW n \in Nat, NEW s, s = [i \in 1..n |-> s[i]]
  PROVE  Len(s) = n /\ DOMAIN s = 1..n
<1>1. s \in Seq({s[i] : i \in 1..n})
  BY IsASeq
<1>2. Len(s) \in Nat /\ 1..Len(s) = 1..n
  BY <1>1, LenProperties
<1>3. Len(s) = n
  BY <1>2
<1> QED
  BY <1>3

\* The entries that have frames, and what the verifier makes of one.
WithFrames(traces) == {i \in DOMAIN traces : DOMAIN traces[i].txs # {}}
BlockTaken(bct) ==
  [blockNumber |-> bct.block_number,
   grpcFrames |-> [i \in DOMAIN bct.txs |-> Verifier!CallFrame(bct.txs[i])]]

\* The verifier's structs of a block's frames.
LEMMA VerifierTakes ==
  ASSUME NEW p, NEW m, p.event = "Committed", p.new = Some(m),
         NEW n \in Nat, DOMAIN m.call_traces = 1..n
  PROVE  LET full == WithFrames(m.call_traces)
             taken == Verifier!streamLoop(p)
         IN  /\ Cardinality(full) \in Nat
             /\ Len(taken) = Cardinality(full) /\ DOMAIN taken = 1..Cardinality(full)
             /\ \A k \in 1..Cardinality(full) :
                  Nth(full, k) \in full /\ taken[k] = BlockTaken(m.call_traces[Nth(full, k)])
<1> DEFINE bct(q) == [BlockNumber |-> q.block_number, Txs |-> [i \in DOMAIN q.txs |-> Verifier!CallFrame(q.txs[i])]]
           traces == [i \in DOMAIN m.call_traces |-> bct(m.call_traces[i])]
           full == {i \in DOMAIN traces : traces[i].Txs # <<>>}
<1>1. Verifier!Notification(p).ChainCommitted = Some([New |-> Some([CallTraces |-> traces])])
  <2>1. Verifier!Chain(m) = [CallTraces |-> traces]
    BY DEF Verifier!Chain, Verifier!BlockCallTraces, Verifier!Each
  <2>2. Verifier!ChainCommitted(p) = [New |-> Some(Verifier!Chain(m))]
    BY DEF Verifier!ChainCommitted, Verifier!Each, Some
  <2> QED
    BY <2>1, <2>2 DEF Verifier!Notification, Verifier!Some, Some
<1> DEFINE committed == Verifier!Notification(p).ChainCommitted
           new == Verifier!OrDefault(committed, LAMBDA c : c.New, Verifier!None)
           calls == Verifier!OrDefault(new, LAMBDA c : c.CallTraces, <<>>)
           made(b) == [blockNumber |-> b.BlockNumber, grpcFrames |-> b.Txs]
<1> HIDE DEF traces, committed
<1>2. new = Some([CallTraces |-> traces])
  BY <1>1 DEF committed, Verifier!OrDefault, Verifier!IsSome, Verifier!None, Some
<1> HIDE DEF new
<1>3. calls = traces
  BY <1>2 DEF Verifier!OrDefault, Verifier!IsSome, Verifier!None, Some
<1>4. Verifier!streamLoop(p) = Verifier!Each(Verifier!Kept(calls, {i \in DOMAIN calls : calls[i].Txs # <<>>}), made)
  BY Zenon DEF Verifier!streamLoop, calls, new, committed
<1> HIDE DEF full
<1>5. \A K : Verifier!Cardinality(K) = Cardinality(K)
  BY DEF Verifier!Cardinality, Cardinality
<1>6. \A K, k : Verifier!Nth(K, k) = Nth(K, k)
  BY <1>5 DEF Verifier!Nth, Nth
<1>9. Verifier!Kept(traces, full) = [k \in 1..Cardinality(full) |-> traces[Nth(full, k)]]
  BY <1>5, <1>6 DEF Verifier!Kept
<1>7. Verifier!streamLoop(p) = Verifier!Each([k \in 1..Cardinality(full) |-> traces[Nth(full, k)]], made)
  BY <1>3, <1>4, <1>9, Zenon DEF full
<1>8. Verifier!streamLoop(p) = [k \in 1..Cardinality(full) |-> made(traces[Nth(full, k)])]
  BY <1>7 DEF Verifier!Each
<1> DEFINE sent == WithFrames(m.call_traces)
           taken == Verifier!streamLoop(p)
<1>10. full = sent
  BY DEF full, traces, WithFrames
<1>11. \A i \in DOMAIN m.call_traces : made(traces[i]) = BlockTaken(m.call_traces[i])
  BY DEF traces, BlockTaken
<1>12. Cardinality(sent) \in Nat
       /\ \A k \in 1..Cardinality(sent) : Nth(sent, k) \in sent /\ Nth(sent, k) \in DOMAIN m.call_traces
  <2>1. sent \in SUBSET (1..n)
    BY DEF WithFrames
  <2>2. IsFiniteSet(1..n) /\ 1..n \in SUBSET Nat
    BY FS_Interval
  <2> HIDE DEF sent
  <2>3. IsFiniteSet(sent) /\ sent \in SUBSET Nat
    BY <2>1, <2>2, FS_Subset
  <2> QED
    BY <2>1, <2>3, NthIs
<1> HIDE DEF sent, made
<1>13. taken = [k \in 1..Cardinality(sent) |-> BlockTaken(m.call_traces[Nth(sent, k)])]
  BY <1>8, <1>10, <1>11, <1>12
<1> HIDE DEF taken
<1>14. Len(taken) = Cardinality(sent) /\ DOMAIN taken = 1..Cardinality(sent)
  <2>1. taken = [k \in 1..Cardinality(sent) |-> taken[k]]
    BY <1>13
  <2> QED
    BY <1>12, <2>1, LenIs
<1>15. \A k \in 1..Cardinality(sent) : taken[k] = BlockTaken(m.call_traces[Nth(sent, k)])
  BY <1>13
<1> QED
  BY <1>12, <1>14, <1>15 DEF sent, taken

\* What a program is handed.
LEMMA Delivered ==
  ASSUME IInv, notif.kind # "none"
  PROVE  /\ notif \in Notifications /\ output = Handled(msg)
         /\ msg = notification_to_proto(notif, flags)
         /\ flags = {f \in Parts : Request[f]}
         /\ msg.event = notif.kind /\ notif.kind \in {"Committed", "Reorged", "Reverted"}
         /\ msg.old = IF notif.kind # "Committed" THEN Some(chain_to_proto(notif.old, flags)) ELSE None
         /\ msg.new = IF notif.kind # "Reverted" THEN Some(chain_to_proto(notif.new, flags)) ELSE None
         /\ notif.kind # "Committed" => NodeChain(notif.old)
         /\ notif.kind # "Reverted" => NodeChain(notif.new)
<1>1. /\ notif \in Notifications /\ output = Handled(msg) /\ notif # NoNotif
      /\ msg = notification_to_proto(notif, flags) /\ flags = {f \in Parts : Request[f]}
      /\ notif.kind \in {"Committed", "Reorged", "Reverted"}
  BY Kinds DEF IInv, Asked, Handed
<1> DEFINE O == IF notif.kind # "Committed" THEN Some(chain_to_proto(notif.old, flags)) ELSE None
           N == IF notif.kind # "Reverted" THEN Some(chain_to_proto(notif.new, flags)) ELSE None
<1>2. msg = [event |-> notif.kind, old |-> O, new |-> N]
  BY <1>1 DEF notification_to_proto
<1>3. msg.event = notif.kind /\ msg.old = O /\ msg.new = N
  <2> HIDE DEF O, N
  <2> QED
    BY <1>2
<1>4. /\ notif.kind # "Committed" => notif.old \in OldChains
      /\ notif.kind # "Reverted" => notif.new \in Chains
  BY <1>1 DEF Notifications, Committed, Reorged, Reverted
<1> QED
  BY <1>1, <1>3, <1>4, NodeAssumption

\* A chain of a message.
LEMMA ChainMessage ==
  ASSUME NEW c
  PROVE  LET m == chain_to_proto(c, flags) IN
         /\ m.blocks = [i \in DOMAIN c.blocks |-> block_with_receipts_to_proto(c.blocks[i], flags)]
         /\ m.state_diff = IF "state_diff" \in flags THEN Some(state_diff_to_proto(c.bundle)) ELSE None
         /\ m.call_traces = IF "call_traces" \in flags THEN call_traces_to_proto(c) ELSE <<>>
<1> DEFINE m == chain_to_proto(c, flags)
           B == [i \in DOMAIN c.blocks |-> block_with_receipts_to_proto(c.blocks[i], flags)]
           D == IF "state_diff" \in flags THEN Some(state_diff_to_proto(c.bundle)) ELSE None
           T == IF "call_traces" \in flags THEN call_traces_to_proto(c) ELSE <<>>
<1>1. m = [blocks |-> B, state_diff |-> D, call_traces |-> T]
  BY DEF chain_to_proto, Each
<1> HIDE DEF B, D, T, m
<1>2. m.blocks = B /\ m.state_diff = D /\ m.call_traces = T
  BY <1>1
<1> QED
  BY <1>2 DEF B, D, T, m

LEMMA VerifierTakesNothing ==
  ASSUME NEW p, p.event # "Committed"
  PROVE  Verifier!streamLoop(p) = <<>>
<1> DEFINE committed == Verifier!Notification(p).ChainCommitted
           new == Verifier!OrDefault(committed, LAMBDA c : c.New, Verifier!None)
           calls == Verifier!OrDefault(new, LAMBDA c : c.CallTraces, <<>>)
           made(b) == [blockNumber |-> b.BlockNumber, grpcFrames |-> b.Txs]
           full == {i \in DOMAIN calls : calls[i].Txs # <<>>}
<1>1. committed = <<>>
  BY DEF Verifier!Notification, Verifier!None
<1> HIDE DEF committed
<1>2. new = <<>>
  BY <1>1 DEF Verifier!OrDefault, Verifier!IsSome, Verifier!None
<1> HIDE DEF new
<1>3. calls = <<>>
  BY <1>2 DEF Verifier!OrDefault, Verifier!IsSome, Verifier!None
<1>4. Verifier!streamLoop(p) = Verifier!Each(Verifier!Kept(calls, full), made)
  BY Zenon DEF Verifier!streamLoop, calls, new, committed
<1>5. full = {}
  <2>1. DOMAIN <<>> = {}
    OBVIOUS
  <2> HIDE DEF calls
  <2> QED
    BY <1>3, <2>1
<1>6. Verifier!Cardinality({}) = 0
  <2>1. Verifier!Cardinality({}) = Cardinality({})
    BY DEF Verifier!Cardinality, Cardinality
  <2> QED
    BY <2>1, FS_EmptySet
<1>7. DOMAIN Verifier!Kept(calls, full) = {}
  <2>1. Verifier!Kept(calls, {}) = [k \in 1..Verifier!Cardinality({}) |-> calls[Verifier!Nth({}, k)]]
    BY DEF Verifier!Kept
  <2>2. 1..0 = {}
    OBVIOUS
  <2> HIDE DEF calls, full
  <2> QED
    BY <1>5, <1>6, <2>1, <2>2
<1> HIDE DEF calls, full
<1> QED
  BY <1>4, <1>7 DEF Verifier!Each

LEMMA VerifierFrame ==
  ASSUME NEW p
  PROVE  Verifier!CallFrame(p).From = p.from /\ Verifier!CallFrame(p).Gas = p.gas
<1> DEFINE calls == Verifier!Each(p.calls, LAMBDA c : Verifier!Decode!Walk[c])
           logs == Verifier!Each(p.logs, Verifier!CallLogFrame)
           M == Verifier!CallFrame(p)
<1>1. M = [Typ |-> p.typ, From |-> p.from, To |-> p.to, Value |-> p.value, Gas |-> p.gas,
           GasUsed |-> p.gas_used, Input |-> p.input, Output |-> p.output, Error |-> p.error,
           RevertReason |-> p.revert_reason, Calls |-> calls, Logs |-> logs]
  BY DEF Verifier!CallFrame, Verifier!CallFrameWith
<1> HIDE DEF M, calls, logs
<1>2. M.From = p.from /\ M.Gas = p.gas
  BY <1>1, Zenon
<1> QED
  BY <1>2 DEF M

LEMMA VerifierTook == IInv => VerifierTakesTraced
<1> SUFFICES ASSUME IInv, program = "verifier", notif.kind # "none" PROVE VerifierTakesTraced
  BY Zenon DEF VerifierTakesTraced
<1>1. output = Verifier!streamLoop(msg) /\ Request = Verifier!Request
  BY Delivered, Zenon DEF Handled, Request
<1>2. CASE notif.kind # "Committed"
  <2>1. output = <<>>
    BY <1>1, <1>2, Delivered, VerifierTakesNothing
  <2> QED
    BY <1>2, <2>1, Zenon DEF VerifierTakesTraced
<1> DEFINE c == notif.new
           m == chain_to_proto(c, flags)
           traces == OrDefault(c.traces, Id, <<>>)
           count(b) == Min({Len(traces[b.header.number]), Len(b.txs)})
           L == {i \in DOMAIN c.blocks : c.blocks[i].header.number \in DOMAIN traces /\ count(c.blocks[i]) > 0}
           traced == Kept(c.blocks, L)
<1>3. SUFFICES ASSUME notif.kind = "Committed"
               PROVE  /\ Len(output) = Len(traced)
                      /\ \A i \in DOMAIN traced :
                           /\ output[i].blockNumber = traced[i].header.number
                           /\ Len(output[i].grpcFrames) = count(traced[i])
                           /\ \A j \in DOMAIN output[i].grpcFrames :
                                /\ Hash(output[i].grpcFrames[j].From) = traces[traced[i].header.number][j].from
                                /\ Number(output[i].grpcFrames[j].Gas) = traced[i].txs[j].gas_limit
  BY <1>2, Zenon DEF VerifierTakesTraced
<1>4. "call_traces" \in flags
  <2>1. Verifier!Request["call_traces"]
    BY DEF Verifier!Request, Verifier!SubscribeRequest
  <2> QED
    BY <1>1, <2>1, Delivered, PartNames
<1>5. NodeChain(c) /\ msg.event = "Committed" /\ msg.new = Some(m) /\ m.call_traces = call_traces_to_proto(c)
  BY <1>3, <1>4, Delivered, ChainMessage
<1>6. CASE ~IsSome(c.traces)
  <2>1. m.call_traces = <<>> /\ traces = <<>>
    BY <1>5, <1>6 DEF call_traces_to_proto, OrDefault
  <2>2. DOMAIN <<>> = 1..0 /\ 1..0 = {} /\ Len(<<>>) = 0
    OBVIOUS
  <2> HIDE DEF c, m, traces
  <2>3. L = {}
    BY <2>1, <2>2
  <2>4. traced = <<>>
    BY <2>3, KeptNone
  <2> HIDE DEF traced
  <2>5. DOMAIN m.call_traces = 1..0
    BY <2>1, <2>2
  <2>6. WithFrames(m.call_traces) = {}
    BY <2>2, <2>5 DEF WithFrames
  <2>7. Len(output) = 0
    BY <1>1, <1>5, <2>5, <2>6, VerifierTakes, FS_EmptySet
  <2> QED
    BY <2>2, <2>4, <2>7
<1>7. CASE IsSome(c.traces)
  <2> DEFINE T == call_traces_to_proto(c)
             K == TracedAt(c)
             N == Cardinality(K)
             at(k) == c.blocks[Nth(K, k)]
             frames(b) == c.traces[1][b.header.number]
             M == WithFrames(T)
  <2>1. traces = c.traces[1]
    BY <1>7, Zenon DEF OrDefault, Id
  <2>2. /\ IsFiniteSet(K) /\ K \in SUBSET Nat /\ N \in Nat /\ DOMAIN T = 1..N
        /\ \A k \in 1..N :
             /\ Nth(K, k) \in K /\ at(k) \in NodeBlock /\ frames(at(k)) \in Seq(Frames)
             /\ T[k] = block_traces(at(k), frames(at(k)))
    <3> HIDE DEF c
    <3> QED
      BY <1>5, <1>7, CallTraces
  <2>3. \A i \in K : i \in DOMAIN c.blocks /\ c.blocks[i].header.number \in DOMAIN traces
    BY <2>1 DEF TracedAt
  <2>4. \A i \in L : i \in K
    BY <2>1 DEF TracedAt
  <2>5. ASSUME NEW k \in 1..N
        PROVE  /\ count(at(k)) \in Nat
               /\ T[k].block_number = at(k).header.number
               /\ DOMAIN T[k].txs = 1..count(at(k))
               /\ \A j \in 1..count(at(k)) :
                    /\ T[k].txs[j].from = <<traces[at(k).header.number][j].from>>
                    /\ Number(T[k].txs[j].gas) = at(k).txs[j].gas_limit
    <3> DEFINE b == at(k)
               fs == frames(b)
    <3>1. b \in NodeBlock /\ fs \in Seq(Frames) /\ T[k] = block_traces(b, fs) /\ count(b) = Min({Len(b.txs), Len(fs)})
          /\ fs = traces[b.header.number]
      <4>1. \A x, y : {x, y} = {y, x}
        OBVIOUS
      <4> QED
        BY <2>1, <2>2, <4>1, Zenon
    <3> HIDE DEF b, fs, T, count, traces
    <3>2. Len(b.txs) \in Nat /\ Len(fs) \in Nat
      BY <3>1, BlockTraces
    <3>3. count(b) \in Nat
      BY <3>1, <3>2, Smaller
    <3>4. /\ T[k].block_number = b.header.number
          /\ DOMAIN T[k].txs = 1..count(b)
          /\ \A j \in 1..count(b) :
               /\ T[k].txs[j].from = <<fs[j].from>>
               /\ Number(T[k].txs[j].gas) = b.txs[j].gas_limit
      <4> DEFINE t == block_traces(b, fs)
                 n == Min({Len(b.txs), Len(fs)})
      <4>1. /\ t.block_number = b.header.number
            /\ DOMAIN t.txs = 1..n
            /\ \A j \in 1..n : /\ t.txs[j].from = <<fs[j].from>>
                               /\ Number(t.txs[j].gas) = b.txs[j].gas_limit
        BY <3>1, BlockTraces, Zenon
      <4> HIDE DEF t, n
      <4> QED
        BY <3>1, <4>1 DEF t, n
    <3>5. \A j \in 1..count(b) : T[k].txs[j].from = <<traces[b.header.number][j].from>>
      BY <3>1, <3>4
    <3> QED
      BY <3>3, <3>4, <3>5, Zenon DEF b
  <2>6. L = {Nth(K, k) : k \in M} /\ M \in SUBSET (1..N)
    <3>1. ASSUME NEW k \in M PROVE k \in 1..N /\ Nth(K, k) \in L
      <4>1. k \in 1..N /\ count(at(k)) > 0
        <5> HIDE DEF T, K, c, count
        <5> QED
          BY <2>2, <2>5, SMTT(30) DEF WithFrames
      <4>2. Nth(K, k) \in DOMAIN c.blocks /\ at(k).header.number \in DOMAIN traces
        <5> HIDE DEF T, K, c, traces
        <5> QED
          BY <2>2, <2>3, <4>1
      <4> HIDE DEF T, K, c, traces, count
      <4> QED
        BY <4>1, <4>2, Zenon
    <3>2. ASSUME NEW i \in L PROVE \E k \in M : i = Nth(K, k)
      <4>1. i \in K
        BY <2>4, Zenon
      <4>2. Rank(K, i) \in 1..N /\ Nth(K, Rank(K, i)) = i
        <5> HIDE DEF K
        <5> QED
          BY <2>2, <4>1, NthIs, Zenon
      <4>3. count(at(Rank(K, i))) > 0
        <5> HIDE DEF K
        <5> QED
          BY <4>2, Zenon
      <4>4. Rank(K, i) \in M
        <5> HIDE DEF T, K, c, count, traces
        <5> QED
          BY <2>2, <2>5, <4>2, <4>3 DEF WithFrames
      <4> HIDE DEF M, K
      <4> QED
        BY <4>2, <4>4
    <3> HIDE DEF M, L, K, T
    <3> QED
      BY <3>1, <3>2
  <2>7. /\ Cardinality(M) \in Nat /\ Cardinality(L) = Cardinality(M)
        /\ \A j \in 1..Cardinality(M) : Nth(M, j) \in M /\ Nth(L, j) = Nth(K, Nth(M, j))
    <3> HIDE DEF M, L, K, T
    <3>1. K \in SUBSET Nat /\ IsFiniteSet(K) /\ M \in SUBSET (1..Cardinality(K)) /\ L = Positions(K, M)
      BY <2>2, <2>6 DEF Positions
    <3> QED
      BY <3>1, KeptTwice, Zenon
  <2>8. /\ Len(traced) = Cardinality(L) /\ DOMAIN traced = 1..Cardinality(L)
        /\ \A k \in 1..Cardinality(L) : traced[k] = c.blocks[Nth(L, k)]
    <3>1. c.blocks \in Seq(NodeBlock) /\ L \in SUBSET (DOMAIN c.blocks)
      BY <1>5, Zenon DEF NodeChain
    <3> HIDE DEF L, c
    <3> QED
      BY <3>1, KeptIs
  <2>9. /\ Len(output) = Cardinality(M) /\ DOMAIN output = 1..Cardinality(M)
        /\ \A k \in 1..Cardinality(M) : output[k] = BlockTaken(T[Nth(M, k)])
    <3>1. m.call_traces = T
      BY <1>5, Zenon
    <3> HIDE DEF m, T
    <3> QED
      BY <1>1, <1>5, <2>2, <3>1, VerifierTakes
  <2>10. ASSUME NEW i \in 1..Cardinality(M)
         PROVE  /\ output[i].blockNumber = traced[i].header.number
                /\ Len(output[i].grpcFrames) = count(traced[i])
                /\ \A j \in DOMAIN output[i].grpcFrames :
                     /\ Hash(output[i].grpcFrames[j].From) = traces[traced[i].header.number][j].from
                     /\ Number(output[i].grpcFrames[j].Gas) = traced[i].txs[j].gas_limit
    <3> DEFINE k == Nth(M, i)
               b == at(k)
               fs == output[i].grpcFrames
    <3>1. k \in 1..N /\ traced[i] = b /\ output[i] = BlockTaken(T[k])
      <4> HIDE DEF M, L, K, T, c
      <4> QED
        BY <2>6, <2>7, <2>8, <2>9
    <3>2. /\ count(b) \in Nat
          /\ T[k].block_number = b.header.number
          /\ DOMAIN T[k].txs = 1..count(b)
          /\ \A j \in 1..count(b) :
               /\ T[k].txs[j].from = <<traces[b.header.number][j].from>>
               /\ Number(T[k].txs[j].gas) = b.txs[j].gas_limit
      <4> HIDE DEF M, K, T, count, traces, c
      <4> QED
        BY <2>5, <3>1
    <3> HIDE DEF k, b, T, count, traces
    <3>3. /\ output[i].blockNumber = T[k].block_number
          /\ fs = [j \in DOMAIN T[k].txs |-> Verifier!CallFrame(T[k].txs[j])]
      BY <3>1 DEF BlockTaken
    <3>4. Len(fs) = count(b) /\ DOMAIN fs = 1..count(b)
          /\ \A j \in 1..count(b) : fs[j] = Verifier!CallFrame(T[k].txs[j])
      <4> HIDE DEF fs
      <4>1. fs = [j \in 1..count(b) |-> Verifier!CallFrame(T[k].txs[j])]
        BY <3>2, <3>3
      <4>2. fs = [j \in 1..count(b) |-> fs[j]]
        BY <4>1
      <4>3. Len(fs) = count(b) /\ DOMAIN fs = 1..count(b)
        BY <3>2, <4>2, LenIs
      <4> QED
        BY <4>1, <4>3
    <3> HIDE DEF fs
    <3>5. \A j \in 1..count(b) :
            /\ Hash(fs[j].From) = traces[b.header.number][j].from
            /\ Number(fs[j].Gas) = b.txs[j].gas_limit
      BY <3>2, <3>4, VerifierFrame, SMTT(30) DEF Hash
    <3>6. output[i].blockNumber = b.header.number /\ Len(fs) = count(b) /\ DOMAIN fs = 1..count(b)
      BY <3>2, <3>3, <3>4
    <3> QED
      BY <3>1, <3>5, <3>6, Zenon DEF fs
  <2> HIDE DEF M, L, traced, T, K, traces, count
  <2> QED
    BY <2>7, <2>8, <2>9, <2>10
<1> QED
  BY <1>6, <1>7, Zenon

\* The verifier takes every block of a commit that has frames, each with its
\* own, and nothing from a reorg or revert (streamLoop).
THEOREM VerifierTakesTheTraced == Spec => []VerifierTakesTraced
BY Invariance, VerifierTook, PTL

-----------------------------------------------------------------------------
(* What the benches take.                                                  *)

LEMMA LatencyTakes ==
  ASSUME NEW p
  PROVE  /\ p.event # "Committed" => Latency!SubscribeGRPC(p) = <<>>
         /\ \A m : \A n \in Nat : \A h :
              p.event = "Committed" /\ p.new = Some(m) /\ n # 0 /\ DOMAIN m.blocks = 1..n /\ m.blocks[n].header = Some(h)
              => Latency!SubscribeGRPC(p) = Some([blockNumber |-> h.number])
<1> DEFINE committed == Latency!Notification(p).ChainCommitted
           new == Latency!OrDefault(committed, LAMBDA c : c.New, Latency!None)
           blocks == Latency!OrDefault(new, LAMBDA c : c.Blocks, <<>>)
           header == IF blocks = <<>> THEN Latency!None ELSE blocks[Len(blocks)].Header
           made(h) == [blockNumber |-> h.Number]
<1>1. Latency!SubscribeGRPC(p) = [i \in DOMAIN header |-> made(header[i])]
  BY DEF Latency!SubscribeGRPC, Latency!Each, header, blocks, new, committed
<1>2. ASSUME p.event # "Committed" PROVE Latency!SubscribeGRPC(p) = <<>>
  <2>1. committed = <<>>
    BY <1>2 DEF Latency!Notification, Latency!None
  <2> HIDE DEF committed
  <2>2. new = <<>>
    BY <2>1 DEF Latency!OrDefault, Latency!IsSome, Latency!None
  <2> HIDE DEF new
  <2>3. blocks = <<>>
    BY <2>2 DEF Latency!OrDefault, Latency!IsSome, Latency!None
  <2> HIDE DEF blocks
  <2>4. header = <<>>
    BY <2>3 DEF Latency!None
  <2> HIDE DEF header, made
  <2>5. DOMAIN header = {}
    BY <2>4
  <2> QED
    BY <1>1, <2>5
<1>3. ASSUME NEW m, NEW n \in Nat, NEW h, p.event = "Committed", p.new = Some(m), n # 0,
             DOMAIN m.blocks = 1..n, m.blocks[n].header = Some(h)
      PROVE  Latency!SubscribeGRPC(p) = Some([blockNumber |-> h.number])
  <2> DEFINE block(b) == Latency!BlockWithReceipts(b)
             bs == [i \in 1..n |-> block(m.blocks[i])]
             C == Latency!Chain(m)
  <2>1. C.Blocks = bs
    BY <1>3 DEF Latency!Chain, Latency!Each
  <2>2. Latency!ChainCommitted(p) = [New |-> Some(C)]
    BY <1>3 DEF Latency!ChainCommitted, Latency!Each, Some
  <2>3. committed = Some([New |-> Some(C)])
    BY <1>3, <2>2 DEF Latency!Notification, Latency!Some, Some
  <2> HIDE DEF committed, C
  <2>4. new = Some(C)
    BY <2>3 DEF Latency!OrDefault, Latency!IsSome, Latency!None, Some
  <2> HIDE DEF new
  <2>5. blocks = bs
    BY <2>1, <2>4 DEF Latency!OrDefault, Latency!IsSome, Latency!None, Some
  <2>6. bs[n].Header = Some([Number |-> h.number])
    BY <1>3 DEF Latency!BlockWithReceipts, Latency!BlockHeader, Latency!Each, Some
  <2> HIDE DEF blocks, block
  <2>7. bs # <<>> /\ Len(bs) = n
    <3>1. bs = [i \in 1..n |-> bs[i]]
      OBVIOUS
    <3>2. n \in DOMAIN bs
      BY <1>3
    <3> HIDE DEF bs
    <3> QED
      BY <3>1, <3>2, LenIs
  <2>8. header = Some([Number |-> h.number])
    BY <2>5, <2>6, <2>7
  <2> HIDE DEF header
  <2> QED
    BY <1>1, <2>1, <2>4, <2>8 DEF Some
<1> QED
  BY <1>2, <1>3

LEMMA ReceiptsTakes ==
  ASSUME NEW p
  PROVE  /\ p.event # "Committed" => Receipts!SubscribeGRPC(p) = <<>>
         /\ \A m : \A n \in Nat : \A h :
              p.event = "Committed" /\ p.new = Some(m) /\ n # 0 /\ DOMAIN m.blocks = 1..n /\ m.blocks[n].header = Some(h)
              => Receipts!SubscribeGRPC(p) = Some([blockNumber |-> h.number])
<1> DEFINE committed == Receipts!Notification(p).ChainCommitted
           new == Receipts!OrDefault(committed, LAMBDA c : c.New, Receipts!None)
           blocks == Receipts!OrDefault(new, LAMBDA c : c.Blocks, <<>>)
           header == IF blocks = <<>> THEN Receipts!None ELSE blocks[Len(blocks)].Header
           made(h) == [blockNumber |-> h.Number]
<1>1. Receipts!SubscribeGRPC(p) = [i \in DOMAIN header |-> made(header[i])]
  BY DEF Receipts!SubscribeGRPC, Receipts!Each, header, blocks, new, committed
<1>2. ASSUME p.event # "Committed" PROVE Receipts!SubscribeGRPC(p) = <<>>
  <2>1. committed = <<>>
    BY <1>2 DEF Receipts!Notification, Receipts!None
  <2> HIDE DEF committed
  <2>2. new = <<>>
    BY <2>1 DEF Receipts!OrDefault, Receipts!IsSome, Receipts!None
  <2> HIDE DEF new
  <2>3. blocks = <<>>
    BY <2>2 DEF Receipts!OrDefault, Receipts!IsSome, Receipts!None
  <2> HIDE DEF blocks
  <2>4. header = <<>>
    BY <2>3 DEF Receipts!None
  <2> HIDE DEF header, made
  <2>5. DOMAIN header = {}
    BY <2>4
  <2> QED
    BY <1>1, <2>5
<1>3. ASSUME NEW m, NEW n \in Nat, NEW h, p.event = "Committed", p.new = Some(m), n # 0,
             DOMAIN m.blocks = 1..n, m.blocks[n].header = Some(h)
      PROVE  Receipts!SubscribeGRPC(p) = Some([blockNumber |-> h.number])
  <2> DEFINE block(b) == Receipts!BlockWithReceipts(b)
             bs == [i \in 1..n |-> block(m.blocks[i])]
             C == Receipts!Chain(m)
  <2>1. C.Blocks = bs
    BY <1>3 DEF Receipts!Chain, Receipts!Each
  <2>2. Receipts!ChainCommitted(p) = [New |-> Some(C)]
    BY <1>3 DEF Receipts!ChainCommitted, Receipts!Each, Some
  <2>3. committed = Some([New |-> Some(C)])
    BY <1>3, <2>2 DEF Receipts!Notification, Receipts!Some, Some
  <2> HIDE DEF committed, C
  <2>4. new = Some(C)
    BY <2>3 DEF Receipts!OrDefault, Receipts!IsSome, Receipts!None, Some
  <2> HIDE DEF new
  <2>5. blocks = bs
    BY <2>1, <2>4 DEF Receipts!OrDefault, Receipts!IsSome, Receipts!None, Some
  <2>6. bs[n].Header = Some([Number |-> h.number])
    BY <1>3 DEF Receipts!BlockWithReceipts, Receipts!BlockHeader, Receipts!Each, Some
  <2> HIDE DEF blocks, block
  <2>7. bs # <<>> /\ Len(bs) = n
    <3>1. bs = [i \in 1..n |-> bs[i]]
      OBVIOUS
    <3>2. n \in DOMAIN bs
      BY <1>3
    <3> HIDE DEF bs
    <3> QED
      BY <3>1, <3>2, LenIs
  <2>8. header = Some([Number |-> h.number])
    BY <2>5, <2>6, <2>7
  <2> HIDE DEF header
  <2> QED
    BY <1>1, <2>1, <2>4, <2>8 DEF Some
<1> QED
  BY <1>2, <1>3

LEMMA AccountDiffsTakes ==
  ASSUME NEW p
  PROVE  /\ p.event # "Committed" => AccountDiffs!SubscribeGRPC(p) = <<>>
         /\ \A m : \A n \in Nat : \A h : \A d : \A w \in Nat :
              /\ p.event = "Committed" /\ p.new = Some(m) /\ n # 0 /\ DOMAIN m.blocks = 1..n
              /\ m.blocks[n].header = Some(h) /\ m.state_diff = Some(d) /\ DOMAIN d.accounts = 1..w
              => AccountDiffs!SubscribeGRPC(p) = Some([blockNumber |-> h.number, accounts |-> w])
<1> DEFINE committed == AccountDiffs!Notification(p).ChainCommitted
           new == AccountDiffs!OrDefault(committed, LAMBDA c : c.New, AccountDiffs!None)
           blocks == AccountDiffs!OrDefault(new, LAMBDA c : c.Blocks, <<>>)
           header == IF blocks = <<>> THEN AccountDiffs!None ELSE blocks[Len(blocks)].Header
           count == AccountDiffs!OrDefault(new[1].StateDiff, LAMBDA sd : Len(sd.Accounts), 0)
           made(h) == [blockNumber |-> h.Number, accounts |-> count]
<1>1. AccountDiffs!SubscribeGRPC(p) = [i \in DOMAIN header |-> made(header[i])]
  BY Zenon DEF AccountDiffs!SubscribeGRPC, AccountDiffs!Each, header, blocks, new, committed
<1>2. ASSUME p.event # "Committed" PROVE AccountDiffs!SubscribeGRPC(p) = <<>>
  <2>1. committed = <<>>
    BY <1>2 DEF AccountDiffs!Notification, AccountDiffs!None
  <2> HIDE DEF committed
  <2>2. new = <<>>
    BY <2>1 DEF AccountDiffs!OrDefault, AccountDiffs!IsSome, AccountDiffs!None
  <2> HIDE DEF new
  <2>3. blocks = <<>>
    BY <2>2 DEF AccountDiffs!OrDefault, AccountDiffs!IsSome, AccountDiffs!None
  <2> HIDE DEF blocks
  <2>4. header = <<>>
    BY <2>3 DEF AccountDiffs!None
  <2> HIDE DEF header, made
  <2>5. DOMAIN header = {}
    BY <2>4
  <2> QED
    BY <1>1, <2>5
<1>3. ASSUME NEW m, NEW n \in Nat, NEW h, NEW d, NEW w \in Nat, p.event = "Committed", p.new = Some(m), n # 0,
             DOMAIN m.blocks = 1..n, m.blocks[n].header = Some(h), m.state_diff = Some(d), DOMAIN d.accounts = 1..w
      PROVE  AccountDiffs!SubscribeGRPC(p) = Some([blockNumber |-> h.number, accounts |-> w])
  <2> DEFINE block(b) == AccountDiffs!BlockWithReceipts(b)
             bs == [i \in 1..n |-> block(m.blocks[i])]
             as == [i \in 1..w |-> AccountDiffs!AccountDiff(d.accounts[i])]
             C == AccountDiffs!Chain(m)
  <2>1. C.Blocks = bs /\ C.StateDiff = Some([Accounts |-> as])
    <3>1. AccountDiffs!StateDiff(d) = [Accounts |-> as]
      BY <1>3 DEF AccountDiffs!StateDiff, AccountDiffs!Each
    <3>2. AccountDiffs!Each(m.state_diff, AccountDiffs!StateDiff) = Some(AccountDiffs!StateDiff(d))
      BY <1>3 DEF AccountDiffs!Each, Some
    <3>3. AccountDiffs!Each(m.blocks, AccountDiffs!BlockWithReceipts) = bs
      BY <1>3 DEF AccountDiffs!Each
    <3> HIDE DEF bs, as
    <3>4. C = [Blocks |-> bs, StateDiff |-> Some([Accounts |-> as])]
      BY <3>1, <3>2, <3>3 DEF AccountDiffs!Chain
    <3> HIDE DEF C
    <3> QED
      BY <3>4
  <2>2. AccountDiffs!ChainCommitted(p) = [New |-> Some(C)]
    BY <1>3 DEF AccountDiffs!ChainCommitted, AccountDiffs!Each, Some
  <2>3. committed = Some([New |-> Some(C)])
    BY <1>3, <2>2 DEF AccountDiffs!Notification, AccountDiffs!Some, Some
  <2> HIDE DEF committed, C
  <2>4. new = Some(C)
    BY <2>3 DEF AccountDiffs!OrDefault, AccountDiffs!IsSome, AccountDiffs!None, Some
  <2> HIDE DEF new
  <2>5. blocks = bs
    BY <2>1, <2>4 DEF AccountDiffs!OrDefault, AccountDiffs!IsSome, AccountDiffs!None, Some
  <2>6. bs[n].Header = Some([Number |-> h.number])
    BY <1>3 DEF AccountDiffs!BlockWithReceipts, AccountDiffs!BlockHeader, AccountDiffs!Each, Some
  <2> HIDE DEF blocks, block
  <2>7. bs # <<>> /\ Len(bs) = n
    <3>1. bs = [i \in 1..n |-> bs[i]]
      OBVIOUS
    <3>2. n \in DOMAIN bs
      BY <1>3
    <3> HIDE DEF bs
    <3> QED
      BY <3>1, <3>2, LenIs
  <2>8. header = Some([Number |-> h.number])
    BY <2>5, <2>6, <2>7
  <2>9. count = w
    <3>1. as = [i \in 1..w |-> as[i]]
      OBVIOUS
    <3> HIDE DEF as
    <3>2. Len(as) = w
      BY <3>1, LenIs
    <3>3. new[1].StateDiff = Some([Accounts |-> as])
      BY <2>1, <2>4 DEF Some
    <3> DEFINE S == new[1].StateDiff
    <3>4. count = IF S # <<>> THEN Len(S[1].Accounts) ELSE 0
      BY DEF AccountDiffs!OrDefault, AccountDiffs!IsSome, AccountDiffs!None
    <3> DEFINE R == [Accounts |-> as]
    <3>5. S = Some(R) /\ R.Accounts = as
      BY <3>3
    <3> HIDE DEF S, count, R
    <3>6. S = <<R>>
      BY <3>5 DEF Some
    <3>7. S[1] = R
      BY <3>6
    <3>8. S # <<>>
      BY <3>6
    <3> QED
      BY <3>2, <3>4, <3>5, <3>7, <3>8
  <2> HIDE DEF header, count
  <2> QED
    BY <1>1, <2>8, <2>9 DEF Some
<1> QED
  BY <1>2, <1>3

\* The first entry of a block, when it is its only one, and the count of its
\* transactions.
LEMMA OwnTraces ==
  ASSUME NEW q \in Nat, NEW T, T = [i \in 1..q |-> T[i]], NEW x
  PROVE  /\ (\A i \in 1..q : T[i].BlockNumber # x) => InternalTxs!TxCount(T, x) = 0
         /\ \A k \in 1..q :
              (\A i \in 1..q : T[i].BlockNumber = x <=> i = k) => InternalTxs!TxCount(T, x) = Len(T[k].Txs)
<1>1. Len(T) = q
  BY LenIs
<1> DEFINE I == {i \in 1..q : T[i].BlockNumber = x}
           own == IF I # {} THEN InternalTxs!Min(I) ELSE 0
<1>2. InternalTxs!TxCount(T, x) = IF own = 0 THEN 0 ELSE Len(T[own].Txs)
  BY <1>1, Zenon DEF InternalTxs!TxCount, InternalTxs!SelectInSeq
<1>3. ASSUME \A i \in 1..q : T[i].BlockNumber # x PROVE InternalTxs!TxCount(T, x) = 0
  <2>1. I = {}
    BY <1>3
  <2> QED
    BY <1>2, <2>1
<1>4. ASSUME NEW k \in 1..q, \A i \in 1..q : T[i].BlockNumber = x <=> i = k
      PROVE  InternalTxs!TxCount(T, x) = Len(T[k].Txs)
  <2>1. I = {k} /\ k # 0
    BY <1>4
  <2>2. InternalTxs!Min({k}) = k
    BY DEF InternalTxs!Min
  <2>3. own = k
    BY <2>1, <2>2
  <2> HIDE DEF own
  <2> QED
    BY <1>2, <2>1, <2>3
<1> QED
  BY <1>3, <1>4

DecodedTraces(m) == [i \in DOMAIN m.call_traces |-> InternalTxs!BlockCallTraces(m.call_traces[i])]

LEMMA InternalTxsTakes ==
  ASSUME NEW p
  PROVE  /\ p.event # "Committed" => InternalTxs!SubscribeGRPC(p) = <<>>
         /\ \A m : \A n \in Nat : \A h :
              /\ p.event = "Committed" /\ p.new = Some(m) /\ n # 0 /\ DOMAIN m.blocks = 1..n
              /\ m.blocks[n].header = Some(h)
              => InternalTxs!SubscribeGRPC(p)
                   = Some([blockNumber |-> h.number, gasUsed |-> h.gas_used,
                           txCount |-> InternalTxs!TxCount(DecodedTraces(m), h.number)])
<1> DEFINE committed == InternalTxs!Notification(p).ChainCommitted
           new == InternalTxs!OrDefault(committed, LAMBDA c : c.New, InternalTxs!None)
           blocks == InternalTxs!OrDefault(new, LAMBDA c : c.Blocks, <<>>)
           header == IF blocks = <<>> THEN InternalTxs!None ELSE InternalTxs!Last(blocks).Header
           made(h) == [blockNumber |-> h.Number, gasUsed |-> h.GasUsed,
                       txCount |-> InternalTxs!TxCount(new[1].CallTraces, h.Number)]
<1>1. InternalTxs!SubscribeGRPC(p) = [i \in DOMAIN header |-> made(header[i])]
  BY DEF InternalTxs!SubscribeGRPC, InternalTxs!Each, header, blocks, new, committed
<1>2. ASSUME p.event # "Committed" PROVE InternalTxs!SubscribeGRPC(p) = <<>>
  <2>1. committed = <<>>
    BY <1>2 DEF InternalTxs!Notification, InternalTxs!None
  <2> HIDE DEF committed
  <2>2. new = <<>>
    BY <2>1 DEF InternalTxs!OrDefault, InternalTxs!IsSome, InternalTxs!None
  <2> HIDE DEF new
  <2>3. blocks = <<>>
    BY <2>2 DEF InternalTxs!OrDefault, InternalTxs!IsSome, InternalTxs!None
  <2> HIDE DEF blocks
  <2>4. header = <<>>
    BY <2>3 DEF InternalTxs!None
  <2> HIDE DEF header, made
  <2>5. DOMAIN header = {}
    BY <2>4
  <2> QED
    BY <1>1, <2>5
<1>3. ASSUME NEW m, NEW n \in Nat, NEW h, p.event = "Committed", p.new = Some(m), n # 0,
             DOMAIN m.blocks = 1..n, m.blocks[n].header = Some(h)
      PROVE  InternalTxs!SubscribeGRPC(p)
               = Some([blockNumber |-> h.number, gasUsed |-> h.gas_used,
                       txCount |-> InternalTxs!TxCount(DecodedTraces(m), h.number)])
  <2> DEFINE block(b) == InternalTxs!BlockWithReceipts(b)
             bs == [i \in 1..n |-> block(m.blocks[i])]
             ts == DecodedTraces(m)
             C == InternalTxs!Chain(m)
  <2>1. C.Blocks = bs /\ C.CallTraces = ts
    <3>1. InternalTxs!Each(m.call_traces, InternalTxs!BlockCallTraces) = ts
      BY DEF InternalTxs!Each, DecodedTraces
    <3>2. InternalTxs!Each(m.blocks, InternalTxs!BlockWithReceipts) = bs
      BY <1>3 DEF InternalTxs!Each
    <3> HIDE DEF bs, ts
    <3>3. C = [Blocks |-> bs, CallTraces |-> ts]
      BY <3>1, <3>2 DEF InternalTxs!Chain
    <3> HIDE DEF C
    <3> QED
      BY <3>3
  <2>2. InternalTxs!ChainCommitted(p) = [New |-> Some(C)]
    BY <1>3 DEF InternalTxs!ChainCommitted, InternalTxs!Each, Some
  <2>3. committed = Some([New |-> Some(C)])
    BY <1>3, <2>2 DEF InternalTxs!Notification, InternalTxs!Some, Some
  <2> HIDE DEF committed, C, ts
  <2>4. new = Some(C)
    BY <2>3 DEF InternalTxs!OrDefault, InternalTxs!IsSome, InternalTxs!None, Some
  <2> HIDE DEF new
  <2>5. blocks = bs
    BY <2>1, <2>4, Zenon DEF InternalTxs!OrDefault, InternalTxs!IsSome, InternalTxs!None, Some
  <2>6. bs[n].Header = Some([Number |-> h.number, GasUsed |-> h.gas_used])
    BY <1>3 DEF InternalTxs!BlockWithReceipts, InternalTxs!BlockHeader, InternalTxs!Each, Some
  <2> HIDE DEF blocks, block
  <2>7. bs # <<>> /\ Len(bs) = n
    <3>1. bs = [i \in 1..n |-> bs[i]]
      OBVIOUS
    <3>2. n \in DOMAIN bs
      BY <1>3
    <3> HIDE DEF bs
    <3> QED
      BY <3>1, <3>2, LenIs
  <2>8. header = Some([Number |-> h.number, GasUsed |-> h.gas_used])
    BY <2>5, <2>6, <2>7 DEF InternalTxs!Last
  <2>9. new[1].CallTraces = ts
    BY <2>1, <2>4 DEF Some
  <2> HIDE DEF header
  <2> QED
    BY <1>1, <2>8, <2>9 DEF Some, ts
<1> QED
  BY <1>2, <1>3

\* The tip of a commit in the message to a bench.
LEMMA TipMessage ==
  ASSUME IInv, program \in Benches, notif.kind = "Committed"
  PROVE  LET c == notif.new
             m == chain_to_proto(c, flags)
             n == Len(c.blocks)
         IN  /\ NodeChain(c) /\ msg.event = "Committed" /\ msg.new = Some(m) /\ output = Handled(msg)
             /\ n \in Nat /\ n # 0 /\ DOMAIN c.blocks = 1..n /\ DOMAIN m.blocks = 1..n
             /\ Last(c.blocks) = c.blocks[n] /\ c.blocks[n] \in NodeBlock
             /\ m.blocks[n] = block_with_receipts_to_proto(c.blocks[n], flags)
             /\ m.blocks[n].header = Some(header_to_proto(c.blocks[n].header))
             /\ header_to_proto(c.blocks[n].header).number = c.blocks[n].header.number
             /\ header_to_proto(c.blocks[n].header).gas_used = c.blocks[n].header.gas_used
             /\ program = "internal-txs" => m.call_traces = call_traces_to_proto(c)
             /\ program = "state-diff" => m.state_diff = Some(state_diff_to_proto(c.bundle))
             /\ program = "receipts" => "receipts" \in flags
<1> DEFINE c == notif.new
           m == chain_to_proto(c, flags)
           n == Len(c.blocks)
<1>1. NodeChain(c) /\ msg.event = "Committed" /\ msg.new = Some(m) /\ output = Handled(msg)
      /\ flags = {f \in Parts : Request[f]}
  BY Delivered
<1>2. c.blocks \in Seq(NodeBlock) /\ c.blocks # <<>>
  BY <1>1 DEF NodeChain
<1>3. n \in Nat /\ n # 0 /\ DOMAIN c.blocks = 1..n /\ Last(c.blocks) = c.blocks[n] /\ c.blocks[n] \in NodeBlock
  <2> DEFINE s == c.blocks
  <2> HIDE DEF s
  <2>1. s \in Seq(NodeBlock) /\ s # <<>>
    BY <1>2 DEF s
  <2>2. Len(s) \in Nat /\ Len(s) # 0 /\ DOMAIN s = 1..Len(s) /\ s[Len(s)] \in NodeBlock
    BY <2>1, LenProperties, ElementOfSeq, EmptySeq
  <2> QED
    BY <2>2 DEF s, Last
<1>4. Request["headers"] /\ (program = "internal-txs" => Request["call_traces"])
      /\ (program = "state-diff" => Request["state_diff"]) /\ (program = "receipts" => Request["receipts"])
  BY DEF Request, Benches, Latency!Request, Receipts!Request, InternalTxs!Request, AccountDiffs!Request,
         Latency!SubscribeRequest, Receipts!SubscribeRequest, InternalTxs!SubscribeRequest, AccountDiffs!SubscribeRequest
<1>5. "headers" \in flags /\ (program = "internal-txs" => "call_traces" \in flags)
      /\ (program = "state-diff" => "state_diff" \in flags) /\ (program = "receipts" => "receipts" \in flags)
  BY <1>1, <1>4, PartNames
<1>6. /\ m.blocks = [i \in DOMAIN c.blocks |-> block_with_receipts_to_proto(c.blocks[i], flags)]
      /\ m.state_diff = IF "state_diff" \in flags THEN Some(state_diff_to_proto(c.bundle)) ELSE None
      /\ m.call_traces = IF "call_traces" \in flags THEN call_traces_to_proto(c) ELSE <<>>
  BY ChainMessage
<1> HIDE DEF m, c
<1>7. m.blocks[n] = block_with_receipts_to_proto(c.blocks[n], flags) /\ DOMAIN m.blocks = 1..n
  BY <1>3, <1>6
<1>8. ASSUME NEW b
      PROVE  /\ block_with_receipts_to_proto(b, flags).header = Some(header_to_proto(b.header))
             /\ header_to_proto(b.header).number = b.header.number
             /\ header_to_proto(b.header).gas_used = b.header.gas_used
  <2>1. block_with_receipts_to_proto(b, flags).header = Some(header_to_proto(b.header))
    BY <1>5 DEF block_with_receipts_to_proto
  <2>2. header_to_proto(b.header).number = b.header.number /\ header_to_proto(b.header).gas_used = b.header.gas_used
    BY DEF header_to_proto
  <2> QED
    BY <2>1, <2>2
<1> QED
  BY <1>1, <1>3, <1>5, <1>6, <1>7, <1>8 DEF m, c

\* The entry of a block among the decoded traces of its chain.
LEMMA TipTraces ==
  ASSUME NEW c, NodeChain(c), NEW m, m.call_traces = call_traces_to_proto(c), NEW n \in DOMAIN c.blocks
  PROVE  LET x == c.blocks[n].header.number
             traces == OrDefault(c.traces, Id, <<>>)
         IN  InternalTxs!TxCount(DecodedTraces(m), x)
               = IF x \in DOMAIN traces THEN Min({Len(traces[x]), Len(c.blocks[n].txs)}) ELSE 0
<1> DEFINE x == c.blocks[n].header.number
           traces == OrDefault(c.traces, Id, <<>>)
           T == call_traces_to_proto(c)
           D == DecodedTraces(m)
<1>1. D = [i \in DOMAIN T |-> InternalTxs!BlockCallTraces(T[i])]
  BY DEF DecodedTraces
<1>2. ASSUME NEW t
      PROVE  /\ InternalTxs!BlockCallTraces(t).BlockNumber = t.block_number
             /\ InternalTxs!BlockCallTraces(t).Txs = [i \in DOMAIN t.txs |-> InternalTxs!CallFrame(t.txs[i])]
  BY DEF InternalTxs!BlockCallTraces, InternalTxs!Each
<1>3. CASE ~IsSome(c.traces)
  <2>1. T = <<>> /\ traces = <<>>
    BY <1>3 DEF call_traces_to_proto, OrDefault
  <2>2. DOMAIN <<>> = 1..0 /\ 1..0 = {}
    OBVIOUS
  <2> HIDE DEF T, D, traces, x
  <2>3. D = [i \in 1..0 |-> D[i]]
    BY <1>1, <2>1, <2>2
  <2>4. InternalTxs!TxCount(D, x) = 0
    <3>1. 0 \in Nat /\ \A i \in 1..0 : D[i].BlockNumber # x
      BY <2>2
    <3> QED
      BY <2>3, <3>1, OwnTraces
  <2> QED
    BY <2>1, <2>2, <2>4 DEF D, traces, x
<1>4. CASE IsSome(c.traces)
  <2> DEFINE K == TracedAt(c)
             N == Cardinality(K)
             at(k) == c.blocks[Nth(K, k)]
             frames(b) == c.traces[1][b.header.number]
  <2>1. traces = c.traces[1]
    BY <1>4, Zenon DEF OrDefault, Id
  <2>2. /\ IsFiniteSet(K) /\ K \in SUBSET Nat /\ N \in Nat /\ DOMAIN T = 1..N
        /\ \A k \in 1..N :
             /\ Nth(K, k) \in K /\ at(k) \in NodeBlock /\ frames(at(k)) \in Seq(Frames)
             /\ T[k] = block_traces(at(k), frames(at(k)))
    BY <1>4, CallTraces
  <2>3. \A i : i \in K <=> i \in DOMAIN c.blocks /\ c.blocks[i].header.number \in DOMAIN traces
    BY <2>1 DEF TracedAt
  <2>4. \A i, j \in DOMAIN c.blocks : c.blocks[i].header.number = c.blocks[j].header.number => i = j
    <3>1. \A i, j \in DOMAIN c.blocks : i < j => c.blocks[i].header.number < c.blocks[j].header.number
      BY DEF NodeChain
    <3>2. c.blocks \in Seq(NodeBlock)
      BY DEF NodeChain
    <3> DEFINE s == c.blocks
    <3> HIDE DEF s
    <3>3. \A i \in DOMAIN s : i \in Nat /\ s[i] \in NodeBlock
      <4>1. s \in Seq(NodeBlock)
        BY <3>2 DEF s
      <4>2. DOMAIN s = 1..Len(s) /\ Len(s) \in Nat
        BY <4>1, LenProperties
      <4> QED
        BY <4>1, <4>2, ElementOfSeq
    <3>4. \A i \in DOMAIN s : s[i].header.number \in Nat
      BY <3>3 DEF NodeBlock, NodeHeader
    <3>5. \A i, j \in DOMAIN s : i < j => s[i].header.number < s[j].header.number
      BY <3>1 DEF s
    <3>6. \A i, j \in DOMAIN s : s[i].header.number = s[j].header.number => i = j
      BY <3>3, <3>4, <3>5
    <3> QED
      BY <3>6 DEF s
  <2>5. \A k \in 1..N : D[k].BlockNumber = at(k).header.number
                        /\ D[k].Txs = [i \in DOMAIN T[k].txs |-> InternalTxs!CallFrame(T[k].txs[i])]
    <3>1. ASSUME NEW k \in 1..N PROVE T[k].block_number = at(k).header.number
      <4> HIDE DEF T, K, frames, at
      <4>1. at(k) \in NodeBlock /\ frames(at(k)) \in Seq(Frames) /\ T[k] = block_traces(at(k), frames(at(k)))
        BY <2>2
      <4> QED
        BY <4>1, BlockTraces
    <3> HIDE DEF T, K, D, at
    <3> QED
      BY <1>1, <1>2, <2>2, <3>1
  <2>6. N \in Nat /\ D = [i \in 1..N |-> D[i]]
    <3> HIDE DEF T, K, D
    <3> QED
      BY <1>1, <2>2
  <2>7. CASE x \notin DOMAIN traces
    <3>1. \A k \in 1..N : D[k].BlockNumber # x
      <4> HIDE DEF T, K, D, x, traces
      <4> QED
        BY <2>2, <2>3, <2>5, <2>7, Zenon
    <3> HIDE DEF T, K, N, D, x, traces
    <3>2. InternalTxs!TxCount(D, x) = 0
      BY <2>6, <3>1, OwnTraces
    <3> QED
      BY <2>7, <3>2 DEF D, x, traces
  <2>8. CASE x \in DOMAIN traces
    <3> DEFINE k == Rank(K, n)
               b == c.blocks[n]
               fs == frames(b)
               w == Min({Len(b.txs), Len(fs)})
    <3>1. n \in K
      BY <2>3, <2>8
    <3>2. k \in 1..N /\ Nth(K, k) = n /\ at(k) = b
      <4> HIDE DEF K
      <4> QED
        BY <2>2, <3>1, NthIs
    <3>3. \A i \in 1..N : D[i].BlockNumber = x <=> i = k
      <4>1. \A i \in 1..N : Nth(K, i) \in DOMAIN c.blocks
        <5> HIDE DEF K
        <5> QED
          BY <2>2, <2>3
      <4>2. \A i \in 1..N : at(i).header.number = x <=> Nth(K, i) = n
        <5> HIDE DEF K
        <5> QED
          BY <2>4, <4>1
      <4>3. \A i, j \in 1..N : i < j <=> Nth(K, i) < Nth(K, j)
        <5> HIDE DEF K
        <5> QED
          BY <2>2, NthIs
      <4>4. \A i \in 1..N : Nth(K, i) = n => i = k
        <5> HIDE DEF K, k
        <5> QED
          BY <2>2, <3>2, <4>3
      <4> HIDE DEF K, N, D, x, k
      <4> QED
        BY <2>5, <3>2, <4>2, <4>4
    <3>4. InternalTxs!TxCount(D, x) = Len(D[k].Txs)
      <4> HIDE DEF K, N, D, x, k
      <4> QED
        BY <2>6, <3>2, <3>3, OwnTraces
    <3>5. b \in NodeBlock /\ fs \in Seq(Frames) /\ T[k] = block_traces(b, fs)
      <4> HIDE DEF K, T, k, frames, b
      <4> QED
        BY <2>2, <3>2
    <3>6. DOMAIN T[k].txs = 1..w /\ w \in Nat
      <4> HIDE DEF b, fs, T, K, k
      <4>1. DOMAIN block_traces(b, fs).txs = 1..w /\ Len(b.txs) \in Nat /\ Len(fs) \in Nat
        BY <3>5, BlockTraces
      <4> QED
        BY <3>5, <4>1, Smaller
    <3>7. Len(D[k].Txs) = w
      <4> HIDE DEF T, K, D, k, w
      <4>1. D[k].Txs = [i \in 1..w |-> InternalTxs!CallFrame(T[k].txs[i])]
        BY <2>5, <3>2, <3>6
      <4>2. D[k].Txs = [i \in 1..w |-> D[k].Txs[i]]
        BY <4>1
      <4> QED
        BY <3>6, <4>2, LenIs
    <3>8. w = Min({Len(traces[x]), Len(b.txs)})
      <4>1. \A u, v : {u, v} = {v, u}
        OBVIOUS
      <4>2. fs = traces[x]
        BY <2>1
      <4> HIDE DEF fs, b, traces, x
      <4> QED
        BY <4>1, <4>2
    <3> HIDE DEF D, T, K, w, k, x, traces
    <3> QED
      BY <2>8, <3>4, <3>7, <3>8 DEF D, x, traces
  <2> QED
    BY <2>7, <2>8
<1> QED
  BY <1>3, <1>4

\* The receipts of the tip, as go-receipts-bench decodes them.
LEMMA TipReceipts ==
  ASSUME NEW p, NEW m, NEW n \in Nat, n # 0, DOMAIN m.blocks = 1..n, p.event = "Committed", p.new = Some(m),
         NEW b \in NodeBlock, "receipts" \in flags, m.blocks[n] = block_with_receipts_to_proto(b, flags)
  PROVE  Each(Last(Receipts!Notification(p).ChainCommitted[1].New[1].Blocks).Receipts, LAMBDA r : Len(r.Logs))
           = Each(b.receipts, LAMBDA r : Len(r.logs))
<1> DEFINE bs == [i \in 1..n |-> Receipts!BlockWithReceipts(m.blocks[i])]
           C == Receipts!Chain(m)
           rs == m.blocks[n].receipts
<1>1. C.Blocks = bs
  BY DEF Receipts!Chain, Receipts!Each
<1>2. Receipts!ChainCommitted(p) = [New |-> Some(C)]
  BY DEF Receipts!ChainCommitted, Receipts!Each, Some
<1>3. Receipts!Notification(p).ChainCommitted[1].New[1].Blocks = bs
  <2> HIDE DEF bs, C
  <2>1. Receipts!Notification(p).ChainCommitted = Some([New |-> Some(C)])
    BY <1>2 DEF Receipts!Notification, Receipts!Some, Some
  <2>2. Receipts!Notification(p).ChainCommitted[1].New[1] = C
    BY <2>1 DEF Some
  <2> QED
    BY <1>1, <2>2
<1>4. Last(bs) = Receipts!BlockWithReceipts(m.blocks[n])
  <2>1. bs = [i \in 1..n |-> bs[i]]
    OBVIOUS
  <2>2. bs[n] = Receipts!BlockWithReceipts(m.blocks[n])
    OBVIOUS
  <2> HIDE DEF bs
  <2>3. Len(bs) = n
    BY <2>1, LenIs
  <2> QED
    BY <2>2, <2>3 DEF Last
<1>5. Last(bs).Receipts = [i \in DOMAIN rs |-> Receipts!Receipt(rs[i])]
  <2>1. Receipts!BlockWithReceipts(m.blocks[n]).Receipts = [i \in DOMAIN rs |-> Receipts!Receipt(rs[i])]
    BY DEF Receipts!BlockWithReceipts, Receipts!Each
  <2> HIDE DEF bs
  <2> QED
    BY <1>4, <2>1
<1>6. rs = [i \in DOMAIN b.receipts |-> receipt_to_proto(b.receipts[i])]
  <2>1. block_with_receipts_to_proto(b, flags).receipts = [i \in DOMAIN b.receipts |-> receipt_to_proto(b.receipts[i])]
    BY Zenon DEF block_with_receipts_to_proto, Each
  <2> QED
    BY <2>1
<1>7. \A i \in DOMAIN b.receipts :
        LET l == b.receipts[i].logs IN Len(l) \in Nat /\ DOMAIN l = 1..Len(l)
  <2> DEFINE s == b.receipts
             Logs == [tx_type : Nat, success : BOOLEAN, logs : Seq(NodeLog)]
  <2>1. s \in Seq(Logs)
    BY DEF NodeBlock
  <2> HIDE DEF s
  <2>2. \A i \in DOMAIN s : s[i].logs \in Seq(NodeLog)
    <3>1. \A i \in DOMAIN s : s[i] \in Logs
      <4> HIDE DEF Logs
      <4> QED
        BY <2>1, ElementOfSeq, LenProperties
    <3> QED
      BY <3>1
  <2>3. \A i \in DOMAIN s : Len(s[i].logs) \in Nat /\ DOMAIN s[i].logs = 1..Len(s[i].logs)
    BY <2>2, LenProperties
  <2> QED
    BY <2>3 DEF s
<1>8. ASSUME NEW r, Len(r.logs) \in Nat, DOMAIN r.logs = 1..Len(r.logs)
      PROVE  Len(Receipts!Receipt(receipt_to_proto(r)).Logs) = Len(r.logs)
  <2> DEFINE L == Receipts!Receipt(receipt_to_proto(r)).Logs
             sent == [i \in DOMAIN r.logs |-> log_to_proto(r.logs[i])]
  <2>1. receipt_to_proto(r).logs = sent
    BY DEF receipt_to_proto, Each
  <2>2. L = [i \in DOMAIN receipt_to_proto(r).logs |-> Receipts!EventLog(receipt_to_proto(r).logs[i])]
    BY DEF Receipts!Receipt, Receipts!Each
  <2>3. L = [i \in 1..Len(r.logs) |-> Receipts!EventLog(sent[i])]
    <3> DEFINE q == receipt_to_proto(r).logs
    <3> HIDE DEF L, q
    <3>1. q = sent /\ DOMAIN q = 1..Len(r.logs)
      BY <1>8, <2>1 DEF q
    <3> HIDE DEF sent
    <3> QED
      BY <2>2, <3>1 DEF q
  <2> HIDE DEF L, sent
  <2>4. L = [i \in 1..Len(r.logs) |-> L[i]]
    BY <2>3
  <2> QED
    BY <1>8, <2>4, LenIs DEF L
<1> DEFINE read == Last(bs).Receipts
<1>9. DOMAIN read = DOMAIN b.receipts
      /\ \A i \in DOMAIN b.receipts : Len(read[i].Logs) = Len(b.receipts[i].logs)
  <2>1. \A i \in DOMAIN b.receipts : read[i] = Receipts!Receipt(receipt_to_proto(b.receipts[i]))
    <3> HIDE DEF rs, read
    <3> QED
      BY <1>5, <1>6 DEF read
  <2>2. DOMAIN read = DOMAIN b.receipts
    <3> HIDE DEF rs, read
    <3> QED
      BY <1>5, <1>6 DEF read
  <2> HIDE DEF read
  <2> QED
    BY <1>7, <1>8, <2>1, <2>2
<1>10. Each(read, LAMBDA r : Len(r.Logs)) = Each(b.receipts, LAMBDA r : Len(r.logs))
  <2> HIDE DEF read
  <2> QED
    BY <1>9 DEF Each
<1> HIDE DEF bs
<1> QED
  BY <1>3, <1>10, Zenon

LEMMA BenchTook == IInv => BenchTakesTip
<1> SUFFICES ASSUME IInv, program \in Benches, notif.kind # "none" PROVE BenchTakesTip
  BY Zenon DEF BenchTakesTip
<1>1. CASE notif.kind # "Committed"
  <2>1. msg.event # "Committed" /\ output = Handled(msg)
    BY <1>1, Delivered
  <2>2. output = None
    BY <2>1, LatencyTakes, ReceiptsTakes, InternalTxsTakes, AccountDiffsTakes DEF Handled, Benches, None
  <2> QED
    BY <1>1, <2>2, Zenon DEF BenchTakesTip
<1>2. CASE notif.kind = "Committed"
  <2> DEFINE c == notif.new
             m == chain_to_proto(c, flags)
             n == Len(c.blocks)
             b == c.blocks[n]
             h == header_to_proto(b.header)
             traces == OrDefault(c.traces, Id, <<>>)
             x == b.header.number
             count == IF x \in DOMAIN traces THEN Min({Len(traces[x]), Len(b.txs)}) ELSE 0
  <2>1. /\ NodeChain(c) /\ msg.event = "Committed" /\ msg.new = Some(m) /\ output = Handled(msg)
        /\ n \in Nat /\ n # 0 /\ DOMAIN c.blocks = 1..n /\ DOMAIN m.blocks = 1..n
        /\ Last(c.blocks) = b /\ b \in NodeBlock
        /\ m.blocks[n] = block_with_receipts_to_proto(b, flags)
        /\ m.blocks[n].header = Some(h) /\ h.number = x /\ h.gas_used = b.header.gas_used
        /\ program = "internal-txs" => m.call_traces = call_traces_to_proto(c)
        /\ program = "state-diff" => m.state_diff = Some(state_diff_to_proto(c.bundle))
        /\ program = "receipts" => "receipts" \in flags
    BY <1>2, TipMessage
  <2> HIDE DEF c, m, n, b, h, x
  <2>2. program = "latency" => output = Some([blockNumber |-> x])
    BY <2>1, LatencyTakes DEF Handled
  <2>3. program = "receipts" => output = Some([blockNumber |-> x])
    BY <2>1, ReceiptsTakes DEF Handled
  <2>4. program = "internal-txs"
          => output = Some([blockNumber |-> x, gasUsed |-> b.header.gas_used, txCount |-> count])
    <3> SUFFICES ASSUME program = "internal-txs"
                 PROVE  output = Some([blockNumber |-> x, gasUsed |-> b.header.gas_used, txCount |-> count])
      OBVIOUS
    <3>1. InternalTxs!TxCount(DecodedTraces(m), x) = count
      <4>1. NodeChain(c) /\ m.call_traces = call_traces_to_proto(c) /\ n \in DOMAIN c.blocks
        BY <2>1
      <4> QED
        BY <4>1, TipTraces DEF b, x
    <3>2. output = InternalTxs!SubscribeGRPC(msg)
      BY <2>1 DEF Handled
    <3> HIDE DEF count
    <3> QED
      BY <2>1, <3>1, <3>2, InternalTxsTakes
  <2>5. program = "state-diff" => output = Some([blockNumber |-> x, accounts |-> Len(c.bundle.state)])
    <3> SUFFICES ASSUME program = "state-diff"
                 PROVE  output = Some([blockNumber |-> x, accounts |-> Len(c.bundle.state)])
      OBVIOUS
    <3> DEFINE d == state_diff_to_proto(c.bundle)
               w == Len(c.bundle.state)
    <3>1. w \in Nat /\ DOMAIN c.bundle.state = 1..w
      <4>1. c.bundle.state \in Seq(Nat \X NodeAccount)
        BY <2>1 DEF NodeChain, NodeBundle
      <4> QED
        BY <4>1, LenProperties
    <3>2. DOMAIN d.accounts = DOMAIN c.bundle.state
      BY DEF state_diff_to_proto, Each
    <3>3. output = AccountDiffs!SubscribeGRPC(msg)
      BY <2>1 DEF Handled
    <3> HIDE DEF d, w
    <3>4. m.state_diff = Some(d) /\ w \in Nat /\ DOMAIN d.accounts = 1..w
      BY <2>1, <3>1, <3>2 DEF d
    <3>5. output = Some([blockNumber |-> h.number, accounts |-> w])
      <4>1. /\ msg.event = "Committed" /\ msg.new = Some(m) /\ n # 0 /\ DOMAIN m.blocks = 1..n
            /\ m.blocks[n].header = Some(h)
        BY <2>1
      <4>2. n \in Nat
        BY <2>1
      <4>3. AccountDiffs!SubscribeGRPC(msg) = Some([blockNumber |-> h.number, accounts |-> w])
        BY <3>4, <4>1, <4>2, AccountDiffsTakes
      <4> QED
        BY <3>3, <4>3
    <3> QED
      BY <2>1, <3>5 DEF w
  <2>6. program = "receipts" =>
          Each(Last(Receipts!Notification(msg).ChainCommitted[1].New[1].Blocks).Receipts, LAMBDA r : Len(r.Logs))
            = Each(b.receipts, LAMBDA r : Len(r.logs))
    <3> SUFFICES ASSUME program = "receipts"
                 PROVE  Each(Last(Receipts!Notification(msg).ChainCommitted[1].New[1].Blocks).Receipts,
                             LAMBDA r : Len(r.Logs))
                          = Each(b.receipts, LAMBDA r : Len(r.logs))
      BY Zenon
    <3> QED
      BY <2>1, TipReceipts, SMTT(30) DEF Each
  <2> DEFINE tip == Last(notif.new.blocks)
             lens == Each(tip.receipts, LAMBDA r : Len(r.logs))
             decoded == Each(Last(Receipts!Notification(msg).ChainCommitted[1].New[1].Blocks).Receipts,
                             LAMBDA r : Len(r.Logs))
  <2>7. tip = b /\ x = tip.header.number
    BY <2>1 DEF c, x
  <2>8. lens = Each(b.receipts, LAMBDA r : Len(r.logs))
    <3> HIDE DEF tip
    <3> QED
      BY <2>7 DEF Each
  <2>9. program = "receipts" => decoded = lens
    BY <2>6, <2>8, Zenon
  <2> HIDE DEF lens, decoded, traces, tip
  <2>10. output # None
    BY <2>2, <2>3, <2>4, <2>5 DEF Benches, Some, None
  <2>11. output[1].blockNumber = x
    BY <2>2, <2>3, <2>4, <2>5 DEF Benches, Some
  <2>12. program = "internal-txs" =>
           /\ output[1].gasUsed = tip.header.gas_used
           /\ output[1].txCount = IF x \in DOMAIN traces THEN Min({Len(traces[x]), Len(tip.txs)}) ELSE 0
    BY <2>4, <2>7 DEF Some
  <2>13. program = "state-diff" => output[1].accounts = Len(notif.new.bundle.state)
    BY <2>5 DEF Some, c
  <2>14. /\ IsSome(output) /\ output[1].blockNumber = tip.header.number
         /\ program = "internal-txs" =>
              /\ output[1].gasUsed = tip.header.gas_used
              /\ output[1].txCount =
                   IF tip.header.number \in DOMAIN traces
                   THEN Min({Len(traces[tip.header.number]), Len(tip.txs)}) ELSE 0
         /\ program = "state-diff" => output[1].accounts = Len(notif.new.bundle.state)
         /\ program = "receipts" => decoded = lens
    BY <2>7, <2>9, <2>10, <2>11, <2>12, <2>13 DEF IsSome
  <2> QED
    BY <1>2, <2>14, Zenon DEF BenchTakesTip, tip, traces, decoded, lens, c
<1> QED
  BY <1>1, <1>2

\* From every commit a bench takes the last block and what the node has of it,
\* and from reorgs and reverts nothing (SubscribeGRPC).
THEOREM BenchTakesTheTip == Spec => []BenchTakesTip
BY Invariance, BenchTook, PTL

=============================================================================
