------------------------- MODULE LatencyBenchProofs -------------------------
(***************************************************************************)
(* Theorems about LatencyBench, for all four programs, every timeout and   *)
(* target, and any chain with any number of reorgs.                        *)
(***************************************************************************)
EXTENDS LatencyBench, SequenceTheorems, FunctionTheorems, FiniteSetTheorems, TLAPS

-----------------------------------------------------------------------------
(* The inductive invariant.                                                *)

\* A subscriber has a block in hand while it fetches or puts, and only then.
ItemInHand == \A s \in Sides : pc[s] \in {"fetch", "put"} <=> item[s] # 0

\* Ages are bounded by the tick that waits: a tick is read at most MaxTickLag
\* after it fired, and the scan leaves nothing older than Timeout at its tick.
AgesBounded ==
  \A b \in DOMAIN pending : pending[b].age <= Timeout + MaxTickLag + 1 + tick

\* An entry is made by an arrival: a timeout always gives one up.
EntryHasSide == \A b \in DOMAIN pending : pending[b].have # {}

IInv ==
  /\ TypeOK /\ ItemInHand /\ AgesBounded /\ EntryHasSide
  /\ ArrivalsUsedOnce /\ NoArrivalDropped

-----------------------------------------------------------------------------
(* The arms of main's select.                                              *)

Arrival == [have : SUBSET Sides, age : 0..MaxAge]

LEMMA Limits ==
  /\ Timeout \in Nat /\ MaxTickLag \in Nat /\ MaxAge \in Nat /\ MaxHeight \in Nat
  /\ MaxReorgs \in Nat /\ ErrCap \in Nat /\ ChCap \in Nat
  /\ MaxAge = Timeout + 2 * MaxTickLag + 2
BY LimitAssumption DEF MaxAge

\* An entry looked up or made, and marked with the side that has arrived.
LEMMA EntryType ==
  ASSUME TypeOK, NEW b \in Blocks, NEW s \in Sides
  PROVE  /\ Marked(b, s) \in Arrival
         /\ Marked(b, s).have = Entry(b).have \cup {s}
         /\ Marked(b, s).age = Entry(b).age
         /\ b \in DOMAIN pending => Entry(b) = pending[b]
         /\ b \notin DOMAIN pending => Entry(b).have = {} /\ Entry(b).age = 0
<1>1. Entry(b) \in Arrival
  BY Limits DEF TypeOK, Entry, Arrival
<1> QED
  BY <1>1 DEF Marked, Entry, Arrival

\* An arrival completes a pair or is noted in the table.
LEMMA ArriveEffect ==
  ASSUME TypeOK, NEW s \in Sides, MainArrive(s)
  PROVE  /\ ch[s] # <<>> /\ Head(ch[s]) \in Blocks /\ ch' = [ch EXCEPT ![s] = Tail(ch[s])]
         /\ got' = [got EXCEPT ![s][Head(ch[s])] = got[s][Head(ch[s])] + 1]
         /\ UNCHANGED <<netVars, subVars, errs, unmatched, tick, ctx, handled, timedOut>>
         /\ main' \in {main, "exit0"}
         /\ \/ /\ Head(ch[s]) \in DOMAIN pending /\ Other(s) \in pending[Head(ch[s])].have
               /\ pairs' = Append(pairs, Head(ch[s]))
               /\ pending' = [x \in DOMAIN pending \ {Head(ch[s])} |-> pending[x]]
            \/ /\ Other(s) \notin Entry(Head(ch[s])).have
               /\ pairs' = pairs
               /\ pending' = [x \in DOMAIN pending \cup {Head(ch[s])} |->
                                IF x = Head(ch[s]) THEN Marked(Head(ch[s]), s) ELSE pending[x]]
<1>1. ch[s] # <<>> /\ ch[s] \in Seq(Blocks)
  BY DEF MainArrive, Ready, TypeOK
<1>2. Head(ch[s]) \in Blocks
  BY <1>1
<1>3. CASE Other(s) \in Entry(Head(ch[s])).have
  <2>1. Head(ch[s]) \in DOMAIN pending /\ Other(s) \in pending[Head(ch[s])].have
    BY <1>2, <1>3, EntryType
  <2>2. /\ pairs' = Append(pairs, Head(ch[s]))
        /\ pending' = [x \in DOMAIN pending \ {Head(ch[s])} |-> pending[x]]
        /\ main' \in {main, "exit0"}
    BY <1>3 DEF MainArrive, Emit, Deleting
  <2> QED
    BY <1>1, <1>2, <2>1, <2>2 DEF MainArrive
<1>4. CASE Other(s) \notin Entry(Head(ch[s])).have
  BY <1>1, <1>2, <1>4 DEF MainArrive
<1> QED
  BY <1>3, <1>4

\* The scan removes entries, and counts no more than there are.
LEMMA TickEffect ==
  ASSUME TypeOK, MainTick
  PROVE  /\ pending' = [b \in {x \in DOMAIN pending : ~Expired(x)} |-> pending[b]]
         /\ unmatched' \in Nat
         /\ timedOut' = [b \in Blocks |-> IF b \in DOMAIN pending /\ Expired(b)
                                            THEN timedOut[b] + 1 ELSE timedOut[b]]
         /\ tick \in 0..MaxTickLag /\ tick' = NoTick
         /\ UNCHANGED <<netVars, subVars, ch, errs, pairs, ctx, main, handled, got>>
<1> DEFINE late == {b \in DOMAIN pending : Expired(b)}
<1>1. /\ pending' = Deleting(late) /\ unmatched' = unmatched + Cardinality(late)
      /\ timedOut' = [b \in Blocks |-> IF b \in late THEN timedOut[b] + 1 ELSE timedOut[b]]
      /\ tick # NoTick /\ tick' = NoTick
      /\ UNCHANGED <<netVars, subVars, ch, errs, pairs, ctx, main, handled, got>>
  BY DEF MainTick
<1>2. IsFiniteSet(late)
  <2>1. IsFiniteSet(Blocks)
    BY Limits, FS_Interval DEF Blocks
  <2>2. late \subseteq Blocks
    BY DEF TypeOK
  <2> QED
    BY <2>1, <2>2, FS_Subset
<1>3. unmatched' \in Nat
  <2>1. Cardinality(late) \in Nat
    BY <1>2, FS_CardinalityType
  <2> QED
    BY <1>1, <2>1 DEF TypeOK
<1>4. tick \in 0..MaxTickLag
  BY <1>1, Limits DEF TypeOK, NoTick
<1>5. DOMAIN pending \ late = {x \in DOMAIN pending : ~Expired(x)}
  OBVIOUS
<1>6. timedOut' = [b \in Blocks |-> IF b \in DOMAIN pending /\ Expired(b)
                                      THEN timedOut[b] + 1 ELSE timedOut[b]]
  BY <1>1
<1> QED
  BY <1>1, <1>3, <1>4, <1>5, <1>6 DEF Deleting

\* A tick fires: everything in the table is one interval older.
LEMMA ElapseEffect ==
  ASSUME TypeOK, Elapse
  PROVE  /\ tick' = tick + 1 /\ tick' \in 0..MaxTickLag
         /\ DOMAIN pending' = DOMAIN pending
         /\ \A b \in DOMAIN pending :
              /\ pending'[b] \in Arrival /\ pending'[b].have = pending[b].have
              /\ pending'[b].age <= pending[b].age + 1
         /\ UNCHANGED <<netVars, subVars, ch, errs, pairs, unmatched, ctx, main, histVars>>
<1>1. /\ tick' = tick + 1 /\ tick < MaxTickLag /\ tick \in Int /\ -1 <= tick
  BY Limits DEF Elapse, TypeOK, NoTick
<1>2. ASSUME NEW b \in DOMAIN pending
      PROVE  /\ pending'[b] \in Arrival /\ pending'[b].have = pending[b].have
             /\ pending'[b].age <= pending[b].age + 1
  <2>1. pending[b] \in Arrival
    BY DEF TypeOK, Arrival
  <2>2. pending'[b] = [pending[b] EXCEPT !.age =
                         IF pending[b].age < MaxAge THEN pending[b].age + 1 ELSE pending[b].age]
    BY DEF Elapse
  <2> QED
    BY <2>1, <2>2, Limits DEF Arrival
<1>3. DOMAIN pending' = DOMAIN pending
  BY DEF Elapse
<1>4. tick' \in 0..MaxTickLag
  BY <1>1, Limits
<1> QED
  BY <1>1, <1>2, <1>3, <1>4 DEF Elapse

-----------------------------------------------------------------------------
(* The node.                                                               *)

\* What the node announces are blocks of its chain.
LEMMA FeedEffect ==
  ASSUME TypeOK, NodeCommit \/ NodeReorg
  PROVE  /\ height' \in 0..MaxHeight /\ reorgs' \in 0..MaxReorgs
         /\ wire' \in [Sides -> Seq(Blocks \cup {0})]
         /\ UNCHANGED <<link, subVars, ch, errs, matchVars, tick, ctx, main, histVars>>
<1>0. /\ height \in Nat /\ height <= MaxHeight /\ reorgs \in 0..MaxReorgs
      /\ wire \in [Sides -> Seq(Blocks \cup {0})]
  BY Limits DEF TypeOK
<1>1. CASE NodeCommit
  <2>1. PICK k \in {1, 2} :
          /\ height + k <= MaxHeight /\ height' = height + k
          /\ wire' = [s \in Sides |->
               Feed(s, IF s = "ws" THEN [i \in 1..k |-> height + i] ELSE <<height + k>>)]
          /\ UNCHANGED <<reorgs, link, subVars, ch, errs, matchVars, tick, ctx, main, histVars>>
    BY <1>1 DEF NodeCommit
  <2>2. \A i \in 1..k : height + i \in Blocks \cup {0}
    BY <1>0, <2>1, Limits DEF Blocks
  <2>3. [i \in 1..k |-> height + i] \in Seq(Blocks \cup {0})
    <3>1. [i \in 1..k |-> height + i] \in [1..k -> Blocks \cup {0}]
      BY <2>2
    <3> QED
      BY <3>1
  <2>4. height + k \in Blocks /\ <<height + k>> \in Seq(Blocks \cup {0})
    BY <1>0, <2>1, Limits DEF Blocks
  <2>5. wire' \in [Sides -> Seq(Blocks \cup {0})]
    <3>1. \A s \in Sides :
            Feed(s, IF s = "ws" THEN [i \in 1..k |-> height + i] ELSE <<height + k>>)
              \in Seq(Blocks \cup {0})
      BY <1>0, <2>3, <2>4, ConcatProperties, Zenon DEF Feed
    <3> QED
      BY <2>1, <3>1
  <2>6. height' \in 0..MaxHeight /\ reorgs' \in 0..MaxReorgs
    BY <1>0, <2>1, Limits
  <2> QED
    BY <2>1, <2>5, <2>6
<1>2. CASE NodeReorg
  <2>1. PICK d \in 1..height, m \in 0..2 :
          /\ height - d + m <= MaxHeight /\ height' = height - d + m
          /\ reorgs < MaxReorgs /\ reorgs' = reorgs + 1
          /\ wire' = [s \in Sides |->
               Feed(s, IF s = "ws" THEN [i \in 1..m |-> height - d + i] ELSE <<0>>)]
          /\ UNCHANGED <<link, subVars, ch, errs, matchVars, tick, ctx, main, histVars>>
    BY <1>2 DEF NodeReorg
  <2>2. \A i \in 1..m : height - d + i \in Blocks \cup {0}
    BY <1>0, <2>1, Limits DEF Blocks
  <2>3. [i \in 1..m |-> height - d + i] \in Seq(Blocks \cup {0})
    <3>1. [i \in 1..m |-> height - d + i] \in [1..m -> Blocks \cup {0}]
      BY <2>2
    <3>2. m \in Nat
      BY <2>1
    <3> QED
      BY <3>1, <3>2
  <2>4. <<0>> \in Seq(Blocks \cup {0})
    OBVIOUS
  <2>5. wire' \in [Sides -> Seq(Blocks \cup {0})]
    <3>1. \A s \in Sides :
            Feed(s, IF s = "ws" THEN [i \in 1..m |-> height - d + i] ELSE <<0>>)
              \in Seq(Blocks \cup {0})
      BY <1>0, <2>3, <2>4, ConcatProperties, Zenon DEF Feed
    <3> QED
      BY <2>1, <3>1
  <2>6. height' \in 0..MaxHeight /\ reorgs' \in 0..MaxReorgs
    BY <1>0, <2>1, Limits
  <2> QED
    BY <2>1, <2>5, <2>6
<1> QED
  BY <1>1, <1>2

-----------------------------------------------------------------------------
(* Types, and what a subscriber has in hand.                               *)

\* What the queues of both sides are made of.
LEMMA QueueTypes ==
  ASSUME TypeOK, NEW s \in Sides
  PROVE  /\ wire[s] \in Seq(Blocks \cup {0}) /\ ch[s] \in Seq(Blocks)
         /\ item[s] \in Blocks \cup {0} /\ Len(ch[s]) \in 0..ChCap
         /\ height \in Nat
         /\ \A b \in Blocks : handled[s][b] \in Nat /\ got[s][b] \in Nat
         /\ wire[s] # <<>> =>
              /\ Head(wire[s]) \in Blocks \cup {0} /\ Tail(wire[s]) \in Seq(Blocks \cup {0})
         /\ ch[s] # <<>> =>
              /\ Head(ch[s]) \in Blocks /\ Tail(ch[s]) \in Seq(Blocks)
              /\ Len(Tail(ch[s])) = Len(ch[s]) - 1 /\ Len(ch[s]) > 0
<1>1. /\ wire[s] \in Seq(Blocks \cup {0}) /\ ch[s] \in Seq(Blocks) /\ Len(ch[s]) <= ChCap
      /\ item[s] \in Blocks \cup {0} /\ height \in Nat
      /\ \A b \in Blocks : handled[s][b] \in Nat /\ got[s][b] \in Nat
  BY DEF TypeOK
<1>2. Len(ch[s]) \in 0..ChCap
  BY <1>1, Limits, LenProperties
<1>3. wire[s] # <<>> =>
        Head(wire[s]) \in Blocks \cup {0} /\ Tail(wire[s]) \in Seq(Blocks \cup {0})
  BY <1>1
<1>4. ch[s] # <<>> =>
        /\ Head(ch[s]) \in Blocks /\ Tail(ch[s]) \in Seq(Blocks)
        /\ Len(Tail(ch[s])) = Len(ch[s]) - 1 /\ Len(ch[s]) > 0
  BY <1>1
<1> QED
  BY <1>1, <1>2, <1>3, <1>4

\* The types of the bench's state hold when it starts.
LEMMA TypeInit == Init => TypeOK
<1> SUFFICES ASSUME Init PROVE TypeOK
  OBVIOUS
<1>1. /\ height \in 0..MaxHeight /\ reorgs \in 0..MaxReorgs /\ errs \in 0..ErrCap
      /\ tick \in NoTick..MaxTickLag /\ unmatched \in Nat
  BY Limits DEF Init, NoTick
<1>2. /\ ch \in [Sides -> Seq(Blocks)] /\ wire \in [Sides -> Seq(Blocks \cup {0})]
      /\ pairs \in Seq(Blocks)
  BY DEF Init
<1>3. \A s \in Sides : Len(ch[s]) <= ChCap
  BY Limits DEF Init
<1>4. DOMAIN pending = {}
  BY DEF Init
<1> QED
  BY <1>1, <1>2, <1>3, <1>4 DEF Init, TypeOK

\* The types of main's part of the state are kept by main and by the clock.
LEMMA TypeMain ==
  ASSUME TypeOK, MainStep \/ Signal \/ Elapse
  PROVE  TypeOK'
<1>1. ASSUME NEW s \in Sides, MainArrive(s) PROVE TypeOK'
  <2> DEFINE b == Head(ch[s])
  <2>1. /\ b \in Blocks /\ Tail(ch[s]) \in Seq(Blocks) /\ Len(Tail(ch[s])) <= ChCap
    <3>1. ch[s] # <<>>
      BY <1>1, ArriveEffect
    <3>2. \A n \in 0..ChCap : n - 1 <= ChCap
      BY Limits
    <3> QED
      BY <3>1, <3>2, QueueTypes
  <2>2. ch' \in [Sides -> Seq(Blocks)] /\ \A t \in Sides : Len(ch'[t]) <= ChCap
    <3>1. ch' = [ch EXCEPT ![s] = Tail(ch[s])]
      BY <1>1, ArriveEffect
    <3> QED
      BY <2>1, <3>1 DEF TypeOK
  <2>3. got' \in [Sides -> [Blocks -> Nat]]
    <3>1. got' = [got EXCEPT ![s][b] = got[s][b] + 1]
      BY <1>1, ArriveEffect
    <3> HIDE DEF b
    <3>2. got \in [Sides -> [Blocks -> Nat]] /\ got[s][b] + 1 \in Nat
      <4>1. got \in [Sides -> [Blocks -> Nat]] /\ b \in Blocks
        BY <2>1 DEF TypeOK
      <4> QED
        BY <4>1
    <3>3. [got[s] EXCEPT ![b] = got[s][b] + 1] \in [Blocks -> Nat]
      BY <3>2
    <3> QED
      BY <3>1, <3>2, <3>3
  <2>4. DOMAIN pending' \subseteq Blocks /\ \A x \in DOMAIN pending' : pending'[x] \in Arrival
    <3>1. Marked(b, s) \in Arrival
      BY <2>1, EntryType
    <3>2. \/ pending' = [x \in DOMAIN pending \ {b} |-> pending[x]]
          \/ pending' = [x \in DOMAIN pending \cup {b} |->
                           IF x = b THEN Marked(b, s) ELSE pending[x]]
      BY <1>1, ArriveEffect
    <3>3. DOMAIN pending \subseteq Blocks /\ \A x \in DOMAIN pending : pending[x] \in Arrival
      BY DEF TypeOK, Arrival
    <3> QED
      BY <2>1, <3>1, <3>2, <3>3
  <2>5. pairs' \in Seq(Blocks)
    <3>1. pairs' = pairs \/ pairs' = Append(pairs, b)
      BY <1>1, ArriveEffect
    <3>2. pairs \in Seq(Blocks)
      BY DEF TypeOK
    <3>3. Append(pairs, b) \in Seq(Blocks)
      BY <2>1, <3>2, AppendProperties
    <3> QED
      BY <3>1, <3>2, <3>3
  <2>6. main' \in {"loop", "exit0", "exit1"}
    BY <1>1, ArriveEffect DEF TypeOK
  <2>7. UNCHANGED <<netVars, subVars, errs, unmatched, tick, ctx, handled, timedOut>>
    BY <1>1, ArriveEffect
  <2> QED
    BY <2>2, <2>3, <2>4, <2>5, <2>6, <2>7
       DEF TypeOK, netVars, nodeVars, subVars, Arrival
<1>2. CASE MainTick
  <2>1. DOMAIN pending' \subseteq Blocks /\ \A b \in DOMAIN pending' : pending'[b] \in Arrival
    <3>1. pending' = [b \in {x \in DOMAIN pending : ~Expired(x)} |-> pending[b]]
      BY <1>2, TickEffect
    <3> QED
      BY <3>1 DEF TypeOK, Arrival
  <2>2. tick' \in NoTick..MaxTickLag
    BY <1>2, TickEffect, Limits DEF NoTick
  <2>3. unmatched' \in Nat /\ timedOut' \in [Blocks -> Nat]
    BY <1>2, TickEffect DEF TypeOK
  <2>4. UNCHANGED <<height, reorgs, link, wire, pc, item, ch, errs, pairs, ctx, main, handled, got>>
    BY <1>2, TickEffect DEF netVars, nodeVars, subVars
  <2>5. /\ height' \in 0..MaxHeight /\ reorgs' \in 0..MaxReorgs
        /\ link' \in [Sides -> {"none", "fed", "idle", "closed"}]
        /\ wire' \in [Sides -> Seq(Blocks \cup {0})]
        /\ pc' \in [Sides -> {"connect", "read", "fetch", "put", "report", "done"}]
        /\ item' \in [Sides -> Blocks \cup {0}]
        /\ ch' \in [Sides -> Seq(Blocks)]
        /\ \A s \in Sides : Len(ch'[s]) <= ChCap
        /\ errs' \in 0..ErrCap /\ pairs' \in Seq(Blocks)
        /\ ctx' \in BOOLEAN /\ main' \in {"loop", "exit0", "exit1"}
        /\ handled' \in [Sides -> [Blocks -> Nat]] /\ got' \in [Sides -> [Blocks -> Nat]]
    BY <2>4 DEF TypeOK
  <2> QED
    BY <2>1, <2>2, <2>3, <2>5 DEF TypeOK, Arrival
<1>3. CASE MainErr
  <2>1. errs' \in 0..ErrCap /\ main' \in {"loop", "exit0", "exit1"}
    BY <1>3, Limits DEF MainErr, TypeOK
  <2> QED
    BY <1>3, <2>1 DEF MainErr, TypeOK, netVars, nodeVars, subVars, matchVars, histVars
<1>4. CASE MainDone
  BY <1>4 DEF MainDone, TypeOK, netVars, nodeVars, subVars, matchVars, histVars
<1>5. CASE Signal
  BY <1>5 DEF Signal, TypeOK, netVars, nodeVars, subVars, matchVars, histVars
<1>6. CASE Elapse
  <2>1. tick' \in NoTick..MaxTickLag
    BY <1>6, ElapseEffect, Limits DEF NoTick
  <2>2. DOMAIN pending' \subseteq Blocks /\ \A b \in DOMAIN pending' : pending'[b] \in Arrival
    BY <1>6, ElapseEffect DEF TypeOK
  <2> QED
    BY <1>6, <2>1, <2>2, ElapseEffect
       DEF TypeOK, netVars, nodeVars, subVars, histVars, Arrival
<1> QED
  BY <1>1, <1>2, <1>3, <1>4, <1>5, <1>6 DEF MainStep

\* They are kept by the node and by the subscribers: what is put is a block.
LEMMA TypeNode ==
  ASSUME TypeOK, NodeStep
  PROVE  TypeOK'
<1>1. CASE NodeCommit \/ NodeReorg
  BY <1>1, FeedEffect
     DEF TypeOK, subVars, matchVars, histVars
<1>2. CASE NodeSkips
  <2>1. Tail(wire["grpc"]) \in Seq(Blocks \cup {0})
    BY <1>2, QueueTypes DEF NodeSkips, Sides
  <2> QED
    BY <1>2, <2>1 DEF NodeSkips, TypeOK, nodeVars, subVars, matchVars, histVars
<1>3. CASE \E s \in Sides : NodeCloses(s)
  BY <1>3 DEF NodeCloses, TypeOK, nodeVars, subVars, matchVars, histVars
<1> QED
  BY <1>1, <1>2, <1>3 DEF NodeStep

LEMMA TypeSubscriber ==
  ASSUME TypeOK, ItemInHand, NEW s \in Sides,
         NetStep(s) \/ OwnStep(s) \/ RejectionUnseen \/ StreamEof
  PROVE  TypeOK'
<1> USE DEF netVars, nodeVars, subVars, matchVars, histVars
<1>0. "ws" \in Sides /\ "grpc" \in Sides
  BY DEF Sides
<1>1. CASE Connect(s) \/ ConnectFails(s) \/ ReadCancelled(s) \/ ReadFails(s) \/ FetchDone(s)
  BY <1>1 DEF Connect, ConnectFails, ReadCancelled, ReadFails, FetchDone, Goto, TypeOK
<1>2. CASE Read(s)
  <2>1. Head(wire[s]) \in Blocks \cup {0} /\ Tail(wire[s]) \in Seq(Blocks \cup {0})
    BY <1>2, QueueTypes DEF Read
  <2>2. wire' \in [Sides -> Seq(Blocks \cup {0})]
    BY <1>2, <2>1 DEF Read, TypeOK
  <2>3. /\ pc' \in [Sides -> {"connect", "read", "fetch", "put", "report", "done"}]
        /\ item' \in [Sides -> Blocks \cup {0}] /\ handled' \in [Sides -> [Blocks -> Nat]]
    <3>1. CASE Head(wire[s]) = 0
      BY <1>2, <3>1 DEF Read, TypeOK
    <3>2. CASE Head(wire[s]) # 0
      <4>1. /\ item' = [item EXCEPT ![s] = Head(wire[s])]
            /\ pc' = [pc EXCEPT ![s] = IF s = "ws" /\ Fetches THEN "fetch" ELSE "put"]
            /\ handled' = [handled EXCEPT ![s][Head(wire[s])] = handled[s][Head(wire[s])] + 1]
        BY <1>2, <3>2 DEF Read, Goto
      <4> QED
        BY <2>1, <3>2, <4>1 DEF TypeOK
    <3> QED
      BY <3>1, <3>2
  <2> QED
    BY <1>2, <2>2, <2>3 DEF Read, TypeOK
<1>3. CASE FetchFails(s) \/ PutCancelled(s)
  BY <1>3 DEF FetchFails, PutCancelled, Leave, Goto, TypeOK
<1>4. CASE Put(s)
  <2>1. item[s] \in Blocks
    BY <1>4, QueueTypes DEF Put, ItemInHand
  <2>2. Append(ch[s], item[s]) \in Seq(Blocks) /\ Len(Append(ch[s], item[s])) <= ChCap
    <3>1. /\ Append(ch[s], item[s]) \in Seq(Blocks)
          /\ Len(Append(ch[s], item[s])) = Len(ch[s]) + 1
      BY <2>1, QueueTypes, AppendProperties
    <3>2. Len(ch[s]) \in Nat /\ Len(ch[s]) < ChCap
      BY <1>4, QueueTypes, Limits DEF Put
    <3>3. \A n \in Nat : n < ChCap => n + 1 <= ChCap
      BY Limits
    <3> QED
      BY <3>1, <3>2, <3>3
  <2>3. ch' \in [Sides -> Seq(Blocks)] /\ \A t \in Sides : Len(ch'[t]) <= ChCap
    BY <1>4, <2>2 DEF Put, TypeOK
  <2> QED
    BY <1>4, <2>3 DEF Put, Leave, Goto, TypeOK
<1>5. CASE Report(s)
  <2>1. errs' \in 0..ErrCap
    BY <1>5, Limits DEF Report, TypeOK
  <2> QED
    BY <1>5, <2>1 DEF Report, Goto, TypeOK
<1>6. CASE RejectionUnseen \/ StreamEof
  BY <1>0, <1>6 DEF RejectionUnseen, StreamEof, Goto, TypeOK
<1> QED
  BY <1>1, <1>2, <1>3, <1>4, <1>5, <1>6 DEF NetStep, OwnStep

LEMMA TypeNext == TypeOK /\ ItemInHand /\ [Next]_vars => TypeOK'
<1> SUFFICES ASSUME TypeOK, ItemInHand, [Next]_vars PROVE TypeOK'
  OBVIOUS
<1>1. CASE UNCHANGED vars
  BY <1>1 DEF vars, netVars, nodeVars, subVars, matchVars, histVars, TypeOK
<1>2. CASE RejectionUnseen \/ StreamEof
  <2>1. "ws" \in Sides
    BY DEF Sides
  <2> QED
    BY <1>2, <2>1, TypeSubscriber
<1> QED
  BY <1>1, <1>2, TypeNode, TypeSubscriber, TypeMain DEF Next

\* A block comes into the hand when it is read, and is out of it when the
\* goroutine leaves "fetch" or "put".
LEMMA ItemInHandNext == TypeOK /\ ItemInHand /\ [Next]_vars => ItemInHand'
<1> SUFFICES ASSUME TypeOK, ItemInHand, [Next]_vars, NEW s \in Sides
             PROVE  (pc[s] \in {"fetch", "put"} <=> item[s] # 0)'
  BY DEF ItemInHand
<1>0. /\ pc[s] \in {"fetch", "put"} <=> item[s] # 0
      /\ s \in DOMAIN pc /\ s \in DOMAIN item
      /\ \A t \in Sides : t \in DOMAIN pc /\ t \in DOMAIN item
  BY DEF ItemInHand, TypeOK
<1> USE DEF netVars, nodeVars, subVars, matchVars, histVars
<1>1. CASE UNCHANGED <<pc, item>>
  BY <1>0, <1>1
<1>2. ASSUME NEW t \in Sides, Connect(t) \/ ConnectFails(t) \/ ReadCancelled(t) \/ ReadFails(t)
                               \/ FetchDone(t) \/ Report(t)
      PROVE  (pc[s] \in {"fetch", "put"} <=> item[s] # 0)'
  BY <1>0, <1>2 DEF Connect, ConnectFails, ReadCancelled, ReadFails, FetchDone, Report, Goto
<1>3. CASE RejectionUnseen \/ StreamEof
  BY <1>0, <1>3 DEF RejectionUnseen, StreamEof, Goto, Sides
<1>4. ASSUME NEW t \in Sides, Read(t)
      PROVE  (pc[s] \in {"fetch", "put"} <=> item[s] # 0)'
  BY <1>0, <1>4 DEF Read, Goto
<1>5. ASSUME NEW t \in Sides, FetchFails(t) \/ Put(t) \/ PutCancelled(t)
      PROVE  (pc[s] \in {"fetch", "put"} <=> item[s] # 0)'
  BY <1>0, <1>5 DEF FetchFails, Put, PutCancelled, Leave, Goto
<1>6. CASE NodeStep \/ MainStep \/ Signal \/ Elapse \/ UNCHANGED vars
  <2>1. UNCHANGED <<pc, item>>
    BY <1>6 DEF NodeStep, NodeCommit, NodeReorg, NodeSkips, NodeCloses, MainStep, MainArrive,
                MainTick, MainErr, MainDone, Signal, Elapse, vars
  <2> QED
    BY <1>1, <2>1
<1> QED
  BY <1>2, <1>3, <1>4, <1>5, <1>6 DEF Next, NetStep, OwnStep

-----------------------------------------------------------------------------
(* Ages.                                                                   *)

LEMMA AgesInit == Init => AgesBounded
BY DEF Init, AgesBounded

\* The table and the clock stay as they are in every step but three.
LEMMA TableSteps ==
  ASSUME [Next]_vars
  PROVE  \/ \E s \in Sides : MainArrive(s)
         \/ MainTick
         \/ Elapse
         \/ UNCHANGED <<pending, tick, pairs, got, timedOut>>
<1> USE DEF matchVars, histVars
<1>1. CASE UNCHANGED vars
  BY <1>1 DEF vars
<1>2. CASE NodeStep \/ RejectionUnseen \/ StreamEof
  BY <1>2 DEF NodeStep, NodeCommit, NodeReorg, NodeSkips, NodeCloses, RejectionUnseen, StreamEof
<1>3. CASE \E s \in Sides : NetStep(s) \/ OwnStep(s)
  BY <1>3 DEF NetStep, OwnStep, Connect, ConnectFails, Read, ReadCancelled, ReadFails,
              FetchDone, FetchFails, Put, PutCancelled, Report
<1>4. CASE MainErr \/ MainDone \/ Signal
  BY <1>4 DEF MainErr, MainDone, Signal
<1> QED
  BY <1>1, <1>2, <1>3, <1>4 DEF Next, MainStep

\* A new entry is young; a scan read MaxTickLag late spares what is at most
\* that much over Timeout; a tick that fires makes everything one older.
LEMMA AgesNext == TypeOK /\ AgesBounded /\ [Next]_vars => AgesBounded'
<1> SUFFICES ASSUME TypeOK, AgesBounded, [Next]_vars PROVE AgesBounded'
  OBVIOUS
<1>0. /\ tick \in Int /\ -1 <= tick /\ tick <= MaxTickLag
      /\ \A b \in DOMAIN pending : pending[b] \in Arrival /\ pending[b].age \in Nat
  BY Limits DEF TypeOK, NoTick, Arrival
<1>1. ASSUME NEW s \in Sides, MainArrive(s) PROVE AgesBounded'
  <2> DEFINE b == Head(ch[s])
  <2>1. b \in Blocks
    BY <1>1, ArriveEffect
  <2>2. Marked(b, s).age <= Timeout + MaxTickLag + 1 + tick
    <3>1. CASE b \in DOMAIN pending
      <4>1. Marked(b, s).age = pending[b].age
        BY <2>1, <3>1, EntryType
      <4> QED
        BY <3>1, <4>1 DEF AgesBounded
    <3>2. CASE b \notin DOMAIN pending
      <4>1. Marked(b, s).age = 0
        BY <2>1, <3>2, EntryType
      <4> QED
        BY <1>0, <4>1, Limits
    <3> QED
      BY <3>1, <3>2
  <2>3. tick' = tick
    BY <1>1, ArriveEffect
  <2>4. \/ pending' = [x \in DOMAIN pending \ {b} |-> pending[x]]
        \/ pending' = [x \in DOMAIN pending \cup {b} |->
                         IF x = b THEN Marked(b, s) ELSE pending[x]]
    BY <1>1, ArriveEffect
  <2> HIDE DEF b
  <2> QED
    BY <2>2, <2>3, <2>4 DEF AgesBounded
<1>2. CASE MainTick
  <2>1. /\ pending' = [b \in {x \in DOMAIN pending : ~Expired(x)} |-> pending[b]]
        /\ tick' = -1
    BY <1>2, TickEffect DEF NoTick
  <2>2. \A b \in DOMAIN pending : ~Expired(b) => pending[b].age <= Timeout + MaxTickLag
    BY <1>0, Limits DEF Expired
  <2> QED
    BY <2>1, <2>2, Limits DEF AgesBounded
<1>3. CASE Elapse
  <2>1. /\ tick' = tick + 1 /\ DOMAIN pending' = DOMAIN pending
        /\ \A b \in DOMAIN pending : /\ pending'[b].age <= pending[b].age + 1
                                     /\ pending'[b] \in Arrival
    BY <1>3, ElapseEffect
  <2>2. \A b \in DOMAIN pending : pending'[b].age <= Timeout + MaxTickLag + 1 + tick'
    <3> TAKE b \in DOMAIN pending
    <3>1. pending[b].age <= Timeout + MaxTickLag + 1 + tick /\ pending[b].age \in Nat
      BY <1>0 DEF AgesBounded
    <3>2. pending'[b].age <= pending[b].age + 1 /\ pending'[b].age \in Nat
      BY <2>1, Limits DEF Arrival
    <3> QED
      BY <1>0, <2>1, <3>1, <3>2, Limits
  <2> QED
    BY <2>1, <2>2 DEF AgesBounded
<1>4. CASE UNCHANGED <<pending, tick, pairs, got, timedOut>>
  BY <1>4 DEF AgesBounded
<1> QED
  BY <1>1, <1>2, <1>3, <1>4, TableSteps

-----------------------------------------------------------------------------
(* Arrivals are used once.                                                 *)

\* How often a block is in a queue: nothing but the block put in or taken out
\* is counted differently afterwards.
LEMMA TimesIn ==
  ASSUME NEW S, NEW q \in Seq(S), NEW b
  PROVE  /\ IsFiniteSet({i \in DOMAIN q : q[i] = b}) /\ Times(b, q) \in Nat
         /\ q = <<>> => Times(b, q) = 0
<1>1. Len(q) \in Nat /\ DOMAIN q = 1..Len(q) /\ (q = <<>> => Len(q) = 0)
  BY LenProperties
<1>2. IsFiniteSet(1..Len(q))
  BY <1>1, FS_Interval
<1>3. IsFiniteSet({i \in DOMAIN q : q[i] = b})
  BY <1>1, <1>2, FS_Subset
<1>4. Times(b, q) \in Nat
  BY <1>3, FS_CardinalityType DEF Times
<1>5. ASSUME q = <<>> PROVE Times(b, q) = 0
  <2>1. {i \in DOMAIN q : q[i] = b} = {}
    BY <1>1, <1>5
  <2> QED
    BY <2>1, FS_EmptySet DEF Times
<1> QED
  BY <1>3, <1>4, <1>5

LEMMA TimesAppend ==
  ASSUME NEW S, NEW q \in Seq(S), NEW x \in S, NEW b
  PROVE  Times(b, Append(q, x)) = Times(b, q) + (IF x = b THEN 1 ELSE 0)
<1> DEFINE P == {i \in DOMAIN q : q[i] = b}
           Q == {i \in DOMAIN Append(q, x) : Append(q, x)[i] = b}
           n == Len(q) + 1
<1>1. /\ Len(q) \in Nat /\ DOMAIN q = 1..Len(q) /\ DOMAIN Append(q, x) = 1..(Len(q) + 1)
      /\ Append(q, x)[Len(q) + 1] = x
      /\ \A i \in 1..Len(q) : Append(q, x)[i] = q[i]
  BY AppendProperties, LenProperties
<1>2. \A i \in DOMAIN Append(q, x) : i \in DOMAIN q \/ i = n
  BY <1>1
<1>3. n \notin P /\ IsFiniteSet(P) /\ Cardinality(P) \in Nat
  <2>1. IsFiniteSet(P) /\ Cardinality(P) \in Nat
    BY TimesIn DEF Times
  <2> QED
    BY <1>1, <2>1
<1>4. CASE x = b
  <2>1. Q = P \cup {n}
    BY <1>1, <1>2, <1>4
  <2>2. Cardinality(Q) = Cardinality(P) + 1
    BY <1>3, <2>1, FS_AddElement
  <2> QED
    BY <1>4, <2>2 DEF Times
<1>5. CASE x # b
  <2>1. Q = P
    BY <1>1, <1>2, <1>5
  <2>2. Times(b, Append(q, x)) = Cardinality(P) /\ Times(b, q) = Cardinality(P)
    BY <2>1 DEF Times
  <2> HIDE DEF P, Q
  <2> QED
    BY <1>3, <1>5, <2>2
<1> QED
  BY <1>4, <1>5

LEMMA TimesTail ==
  ASSUME NEW S, NEW q \in Seq(S), q # <<>>, NEW b
  PROVE  Times(b, q) = Times(b, Tail(q)) + (IF Head(q) = b THEN 1 ELSE 0)
<1> DEFINE P == {i \in DOMAIN q : q[i] = b}
           T == {i \in DOMAIN Tail(q) : Tail(q)[i] = b}
           R == P \ {1}
           f == [i \in T |-> i + 1]
<1>1. /\ Head(q) = q[1] /\ Len(q) \in Nat /\ Len(q) > 0
      /\ Tail(q) \in Seq(S) /\ Len(Tail(q)) = Len(q) - 1
      /\ \A i \in 1..(Len(q) - 1) : Tail(q)[i] = q[i + 1]
  OBVIOUS
<1>2. DOMAIN Tail(q) = 1..(Len(q) - 1) /\ DOMAIN q = 1..Len(q) /\ 1 \in DOMAIN q
  BY <1>1
<1>3. IsFiniteSet(P) /\ IsFiniteSet(T) /\ Cardinality(T) \in Nat
  <2>1. IsFiniteSet(P) /\ IsFiniteSet(T)
    BY <1>1, TimesIn
  <2> QED
    BY <2>1, FS_CardinalityType
<1>4. f \in Bijection(T, R)
  <2>1. \A i \in T : i \in Nat /\ i + 1 \in R
    BY <1>1, <1>2
  <2>2. \A i, j \in T : f[i] = f[j] => i = j
    BY <2>1
  <2>3. \A k \in R : k - 1 \in T /\ f[k - 1] = k
    <3> SUFFICES ASSUME NEW k \in R PROVE k - 1 \in T /\ f[k - 1] = k
      OBVIOUS
    <3>1. k \in 1..Len(q) /\ k # 1 /\ q[k] = b
      BY <1>2
    <3>2. k - 1 \in 1..(Len(q) - 1) /\ (k - 1) + 1 = k
      BY <1>1, <3>1
    <3>3. Tail(q)[k - 1] = q[(k - 1) + 1]
      BY <1>1, <3>2
    <3> QED
      BY <1>2, <3>1, <3>2, <3>3
  <2>4. f \in [T -> R]
    BY <2>1
  <2>5. f \in Injection(T, R)
    BY <2>2, <2>4, Fun_IsInj
  <2>6. f \in Surjection(T, R)
    BY <2>3, <2>4, Fun_IsSurj
  <2> QED
    BY <2>5, <2>6 DEF Bijection
<1>5. Cardinality(R) = Cardinality(T)
  <2>1. ExistsBijection(T, R)
    BY <1>4 DEF ExistsBijection
  <2> QED
    BY <1>3, <2>1, FS_Bijection
<1>6. Cardinality(R) = IF 1 \in P THEN Cardinality(P) - 1 ELSE Cardinality(P)
  BY <1>3, FS_RemoveElement
<1>7. 1 \in P <=> Head(q) = b
  BY <1>1, <1>2
<1>8. Cardinality(P) \in Nat
  BY <1>3, FS_CardinalityType
<1> HIDE DEF P, T, R
<1>9. Cardinality(P) = Cardinality(T) + (IF Head(q) = b THEN 1 ELSE 0)
  BY <1>3, <1>5, <1>6, <1>7, <1>8
<1> QED
  BY <1>9 DEF Times, P, T

\* How many sides an entry has.
LEMMA SidesOf ==
  ASSUME NEW H \in SUBSET Sides
  PROVE  /\ IsFiniteSet(H) /\ Cardinality(H) \in 0..2
         /\ H # {} => Cardinality(H) >= 1
         /\ Cardinality({}) = 0
         /\ \A s \in Sides :
              Cardinality(H \cup {s}) = IF s \in H THEN Cardinality(H) ELSE Cardinality(H) + 1
<1>1. /\ IsFiniteSet({"ws"}) /\ Cardinality({"ws"}) = 1
  BY FS_Singleton
<1>2. IsFiniteSet(Sides) /\ Cardinality(Sides) = 2
  <2>1. Sides = {"ws"} \cup {"grpc"} /\ "grpc" \notin {"ws"}
    BY DEF Sides
  <2> QED
    BY <1>1, <2>1, FS_AddElement
<1>3. IsFiniteSet(H) /\ Cardinality(H) <= 2
  BY <1>2, FS_Subset
<1>4. Cardinality(H) \in Nat /\ (H # {} => Cardinality(H) # 0) /\ Cardinality({}) = 0
  BY <1>3, FS_CardinalityType, FS_EmptySet
<1>5. \A s \in Sides :
        Cardinality(H \cup {s}) = IF s \in H THEN Cardinality(H) ELSE Cardinality(H) + 1
  BY <1>3, FS_AddElement
<1> QED
  BY <1>3, <1>4, <1>5

\* What is known of the uses of a block's arrivals, in numbers.
Used(b) ==
  /\ \A s \in Sides : Times(b, pairs) + (IF s \in Entry(b).have THEN 1 ELSE 0) <= got[s][b]
  /\ 2 * Times(b, pairs) + timedOut[b] + Cardinality(Entry(b).have) <= got["ws"][b] + got["grpc"][b]

LEMMA UsedTypes ==
  ASSUME TypeOK, NEW b \in Blocks
  PROVE  /\ Times(b, pairs) \in Nat /\ timedOut[b] \in Nat
         /\ got["ws"][b] \in Nat /\ got["grpc"][b] \in Nat
         /\ Entry(b).have \in SUBSET Sides /\ Cardinality(Entry(b).have) \in 0..2
<1>1. pairs \in Seq(Blocks) /\ timedOut[b] \in Nat
  BY DEF TypeOK
<1>2. got["ws"][b] \in Nat /\ got["grpc"][b] \in Nat
  BY QueueTypes DEF Sides
<1>3. Entry(b).have \in SUBSET Sides
  BY DEF Entry, TypeOK
<1> QED
  BY <1>1, <1>2, <1>3, TimesIn, SidesOf

LEMMA UsedInit == Init => EntryHasSide /\ ArrivalsUsedOnce
<1> SUFFICES ASSUME Init PROVE EntryHasSide /\ ArrivalsUsedOnce
  OBVIOUS
<1>1. EntryHasSide
  BY DEF Init, EntryHasSide
<1>2. ASSUME NEW b \in Blocks PROVE Used(b)
  <2>1. /\ Entry(b).have = {} /\ timedOut[b] = 0
        /\ \A s \in Sides : got[s][b] = 0
    BY DEF Init, Entry
  <2>2. Times(b, pairs) = 0
    <3>1. pairs = <<>> /\ pairs \in Seq(Blocks)
      BY DEF Init
    <3> QED
      BY <3>1, TimesIn
  <2> QED
    BY <2>1, <2>2, FS_EmptySet DEF Used, Sides
<1> QED
  BY <1>1, <1>2 DEF ArrivalsUsedOnce, Used

LEMMA EntryHasSideNext == TypeOK /\ EntryHasSide /\ [Next]_vars => EntryHasSide'
<1> SUFFICES ASSUME TypeOK, EntryHasSide, [Next]_vars PROVE EntryHasSide'
  OBVIOUS
<1>1. ASSUME NEW s \in Sides, MainArrive(s) PROVE EntryHasSide'
  <2> DEFINE b == Head(ch[s])
  <2>1. b \in Blocks
    BY <1>1, ArriveEffect
  <2>2. Marked(b, s).have # {}
    BY <2>1, EntryType
  <2>3. \/ pending' = [x \in DOMAIN pending \ {b} |-> pending[x]]
        \/ pending' = [x \in DOMAIN pending \cup {b} |->
                         IF x = b THEN Marked(b, s) ELSE pending[x]]
    BY <1>1, ArriveEffect
  <2> HIDE DEF b
  <2> QED
    BY <2>2, <2>3 DEF EntryHasSide
<1>2. CASE MainTick
  BY <1>2, TickEffect DEF EntryHasSide
<1>3. CASE Elapse
  BY <1>3, ElapseEffect DEF EntryHasSide
<1>4. CASE UNCHANGED <<pending, tick, pairs, got, timedOut>>
  BY <1>4 DEF EntryHasSide
<1> QED
  BY <1>1, <1>2, <1>3, <1>4, TableSteps

\* An arrival is one more to be used.  It completes a pair, and takes the entry
\* of the other side out of the table with it; or it marks an entry, and uses
\* nothing if that had its mark already.
LEMMA UsedArrive ==
  ASSUME TypeOK, NEW s \in Sides, MainArrive(s), NEW b \in Blocks, Used(b)
  PROVE  Used(b)'
<1> DEFINE c == Head(ch[s])
<1>1. c \in Blocks /\ pairs \in Seq(Blocks)
  BY ArriveEffect DEF TypeOK
<1>2. timedOut' = timedOut
  BY ArriveEffect
<1>3. /\ b # c => \A t \in Sides : got'[t][b] = got[t][b]
      /\ b = c => got'[s][b] = got[s][b] + 1 /\ got'[Other(s)][b] = got[Other(s)][b]
  <2>1. got' = [got EXCEPT ![s][c] = got[s][c] + 1]
    BY ArriveEffect
  <2>2. \A t \in Sides : t \in DOMAIN got /\ b \in DOMAIN got[t]
    BY DEF TypeOK
  <2>3. Other(s) # s /\ Other(s) \in Sides
    BY DEF Other, Sides
  <2> HIDE DEF c
  <2> QED
    BY <2>1, <2>2, <2>3
<1>4. /\ Times(b, pairs) \in Nat /\ timedOut[b] \in Nat
      /\ got["ws"][b] \in Nat /\ got["grpc"][b] \in Nat
      /\ Entry(b).have \in SUBSET Sides /\ Cardinality(Entry(b).have) \in 0..2
  BY UsedTypes
<1>5. CASE b # c
  <2>1. Times(b, pairs)' = Times(b, pairs)
    <3>1. pairs' = pairs \/ pairs' = Append(pairs, c)
      BY ArriveEffect
    <3>2. Times(b, Append(pairs, c)) = Times(b, pairs)
      BY <1>1, <1>4, <1>5, TimesAppend
    <3>3. CASE pairs' = pairs
      BY <3>3 DEF Times
    <3>4. CASE pairs' = Append(pairs, c)
      BY <3>2, <3>4 DEF Times
    <3> QED
      BY <3>1, <3>3, <3>4
  <2>2. (Entry(b).have)' = Entry(b).have
    <3>1. \/ pending' = [x \in DOMAIN pending \ {c} |-> pending[x]]
          \/ pending' = [x \in DOMAIN pending \cup {c} |->
                           IF x = c THEN Marked(c, s) ELSE pending[x]]
      BY ArriveEffect
    <3> HIDE DEF c
    <3> QED
      BY <1>5, <3>1 DEF Entry
  <2> QED
    BY <1>2, <1>3, <1>5, <2>1, <2>2 DEF Used, Sides
<1>6. CASE b = c
  <2>1. CASE /\ c \in DOMAIN pending /\ Other(s) \in pending[c].have
             /\ pairs' = Append(pairs, c)
             /\ pending' = [x \in DOMAIN pending \ {c} |-> pending[x]]
    <3>1. Times(b, pairs)' = Times(b, pairs) + 1
      <4>1. Times(b, Append(pairs, c)) = Times(b, pairs) + 1
        BY <1>1, <1>6, TimesAppend
      <4> QED
        BY <2>1, <4>1 DEF Times
    <3>2. (Entry(b).have)' = {}
      BY <1>6, <2>1 DEF Entry
    <3>3. Other(s) \in Entry(b).have /\ Cardinality(Entry(b).have) >= 1
      <4>1. Other(s) \in Entry(b).have
        BY <1>6, <2>1 DEF Entry
      <4> QED
        BY <1>4, <4>1, SidesOf
    <3>4. Cardinality((Entry(b).have)') = 0
      BY <3>2, FS_EmptySet
    <3>5. Times(b, pairs) + 1 <= got[Other(s)][b] /\ Times(b, pairs) <= got[s][b]
      BY <1>4, <3>3 DEF Used, Other, Sides
    <3>6. /\ \A t \in Sides : Times(b, pairs)' + 0 <= got'[t][b]
      BY <1>3, <1>4, <1>6, <3>1, <3>5 DEF Other, Sides
    <3>7. 2 * Times(b, pairs)' + timedOut[b]
            <= got'["ws"][b] + got'["grpc"][b]
      BY <1>3, <1>4, <1>6, <3>1, <3>3 DEF Used, Other, Sides
    <3> QED
      BY <1>2, <1>4, <3>1, <3>2, <3>4, <3>6, <3>7 DEF Used
  <2>2. CASE /\ pairs' = pairs
             /\ pending' = [x \in DOMAIN pending \cup {c} |->
                              IF x = c THEN Marked(c, s) ELSE pending[x]]
    <3>1. Times(b, pairs)' = Times(b, pairs)
      BY <2>2 DEF Times
    <3>2. (Entry(b).have)' = Entry(b).have \cup {s}
      <4>1. Marked(b, s).have = Entry(b).have \cup {s}
        BY EntryType
      <4> QED
        BY <1>6, <2>2, <4>1 DEF Entry
    <3>3. Cardinality(Entry(b).have \cup {s}) <= Cardinality(Entry(b).have) + 1
      <4>1. Cardinality(Entry(b).have \cup {s}) =
              IF s \in Entry(b).have THEN Cardinality(Entry(b).have)
                                     ELSE Cardinality(Entry(b).have) + 1
        BY <1>4, SidesOf
      <4> QED
        BY <1>4, <4>1
    <3>4. Cardinality(Entry(b).have \cup {s}) \in Nat
      BY <1>4, SidesOf
    <3>5. \A t \in Sides :
            Times(b, pairs) + (IF t \in Entry(b).have \cup {s} THEN 1 ELSE 0) <= got'[t][b]
      BY <1>3, <1>4, <1>6 DEF Used, Other, Sides
    <3>6. 2 * Times(b, pairs) + timedOut[b] + Cardinality(Entry(b).have \cup {s})
            <= got'["ws"][b] + got'["grpc"][b]
      BY <1>3, <1>4, <1>6, <3>3, <3>4 DEF Used, Other, Sides
    <3> QED
      BY <1>2, <3>1, <3>2, <3>5, <3>6 DEF Used
  <2> QED
    BY <2>1, <2>2, ArriveEffect
<1> QED
  BY <1>5, <1>6

\* A timeout takes an entry, and an entry has at least one arrival.
LEMMA UsedTick ==
  ASSUME TypeOK, EntryHasSide, MainTick, NEW b \in Blocks, Used(b)
  PROVE  Used(b)'
<1>1. /\ pending' = [x \in {y \in DOMAIN pending : ~Expired(y)} |-> pending[x]]
      /\ timedOut' = [x \in Blocks |-> IF x \in DOMAIN pending /\ Expired(x)
                                         THEN timedOut[x] + 1 ELSE timedOut[x]]
      /\ pairs' = pairs /\ got' = got
  BY TickEffect
<1>2. /\ Times(b, pairs) \in Nat /\ timedOut[b] \in Nat
      /\ got["ws"][b] \in Nat /\ got["grpc"][b] \in Nat
      /\ Entry(b).have \in SUBSET Sides /\ Cardinality(Entry(b).have) \in 0..2
  BY UsedTypes
<1>3. Times(b, pairs)' = Times(b, pairs)
  BY <1>1 DEF Times
<1>4. CASE b \in DOMAIN pending /\ Expired(b)
  <2>1. (Entry(b).have)' = {} /\ timedOut'[b] = timedOut[b] + 1
    BY <1>1, <1>4 DEF Entry
  <2>2. Cardinality((Entry(b).have)') = 0
    BY <2>1, FS_EmptySet
  <2>3. Cardinality(Entry(b).have) >= 1
    <3>1. Entry(b).have # {}
      BY <1>4 DEF Entry, EntryHasSide
    <3> QED
      BY <1>2, <3>1, SidesOf
  <2>4. \A s \in Sides : Times(b, pairs) + 0 <= got[s][b]
    BY <1>2 DEF Used, Sides
  <2>5. 2 * Times(b, pairs) + (timedOut[b] + 1) + 0 <= got["ws"][b] + got["grpc"][b]
    BY <1>2, <2>3 DEF Used
  <2> QED
    BY <1>1, <1>3, <2>1, <2>2, <2>4, <2>5 DEF Used
<1>5. CASE ~(b \in DOMAIN pending /\ Expired(b))
  <2>1. (Entry(b).have)' = Entry(b).have /\ timedOut'[b] = timedOut[b]
    BY <1>1, <1>5 DEF Entry
  <2> QED
    BY <1>1, <1>3, <2>1 DEF Used
<1> QED
  BY <1>4, <1>5

LEMMA UsedNext ==
  TypeOK /\ EntryHasSide /\ ArrivalsUsedOnce /\ [Next]_vars => ArrivalsUsedOnce'
<1> SUFFICES ASSUME TypeOK, EntryHasSide, ArrivalsUsedOnce, [Next]_vars, NEW b \in Blocks
             PROVE  Used(b)'
  BY DEF ArrivalsUsedOnce, Used
<1>0. Used(b)
  BY DEF ArrivalsUsedOnce, Used
<1>1. ASSUME NEW s \in Sides, MainArrive(s) PROVE Used(b)'
  BY <1>0, <1>1, UsedArrive
<1>2. CASE MainTick
  BY <1>0, <1>2, UsedTick
<1>3. CASE Elapse
  <2>1. /\ DOMAIN pending' = DOMAIN pending
        /\ \A x \in DOMAIN pending : pending'[x].have = pending[x].have
        /\ pairs' = pairs /\ got' = got /\ timedOut' = timedOut
    BY <1>3, ElapseEffect DEF histVars
  <2>2. (Entry(b).have)' = Entry(b).have
    BY <2>1 DEF Entry
  <2> QED
    BY <1>0, <2>1, <2>2 DEF Used, Times
<1>4. CASE UNCHANGED <<pending, tick, pairs, got, timedOut>>
  BY <1>0, <1>4 DEF Used, Times, Entry
<1> QED
  BY <1>1, <1>2, <1>3, <1>4, TableSteps

-----------------------------------------------------------------------------
(* No arrival is dropped.                                                  *)

LEMMA DroppedInit == Init => NoArrivalDropped
<1> SUFFICES ASSUME Init, NEW s \in Sides, NEW b \in Blocks
             PROVE  handled[s][b] = got[s][b] + Times(b, ch[s]) + (IF item[s] = b THEN 1 ELSE 0)
  BY DEF NoArrivalDropped
<1>1. handled[s][b] = 0 /\ got[s][b] = 0 /\ ch[s] = <<>> /\ item[s] = 0
  BY DEF Init
<1>2. Times(b, ch[s]) = 0
  <2>1. ch[s] \in Seq(Blocks)
    BY <1>1
  <2> QED
    BY <1>1, <2>1, TimesIn
<1> QED
  BY <1>1, <1>2, Limits DEF Blocks

\* A step of a side moves a block event from the wire to the hand, from the
\* hand to the channel, or from the channel to main, or ends the goroutine.
LEMMA CountSteps ==
  ASSUME TypeOK, ItemInHand, [Next]_vars, NEW s \in Sides, ~ctx', pc'[s] \notin {"report", "done"}
  PROVE  /\ ~ctx /\ pc[s] \notin {"report", "done"}
         /\ \/ /\ UNCHANGED <<handled[s], got[s], ch[s], item[s]>>
            \/ /\ UNCHANGED <<got[s], ch[s]>>
               /\ item[s] = 0 /\ item'[s] \in Blocks
               /\ handled'[s] = [handled[s] EXCEPT ![item'[s]] = handled[s][item'[s]] + 1]
            \/ /\ UNCHANGED <<handled[s], got[s]>>
               /\ item[s] \in Blocks /\ item'[s] = 0
               /\ ch'[s] = Append(ch[s], item[s])
            \/ /\ UNCHANGED <<handled[s], item[s]>>
               /\ ch[s] # <<>> /\ ch'[s] = Tail(ch[s])
               /\ got'[s] = [got[s] EXCEPT ![Head(ch[s])] = got[s][Head(ch[s])] + 1]
<1> DEFINE Goal ==
         /\ ~ctx /\ pc[s] \notin {"report", "done"}
         /\ \/ /\ UNCHANGED <<handled[s], got[s], ch[s], item[s]>>
            \/ /\ UNCHANGED <<got[s], ch[s]>>
               /\ item[s] = 0 /\ item'[s] \in Blocks
               /\ handled'[s] = [handled[s] EXCEPT ![item'[s]] = handled[s][item'[s]] + 1]
            \/ /\ UNCHANGED <<handled[s], got[s]>>
               /\ item[s] \in Blocks /\ item'[s] = 0
               /\ ch'[s] = Append(ch[s], item[s])
            \/ /\ UNCHANGED <<handled[s], item[s]>>
               /\ ch[s] # <<>> /\ ch'[s] = Tail(ch[s])
               /\ got'[s] = [got[s] EXCEPT ![Head(ch[s])] = got[s][Head(ch[s])] + 1]
<1>0. /\ s \in DOMAIN pc /\ s \in DOMAIN handled /\ s \in DOMAIN got /\ s \in DOMAIN ch
      /\ s \in DOMAIN item
      /\ ~ctx' /\ pc'[s] \notin {"report", "done"}
  BY DEF TypeOK
<1> USE DEF netVars, nodeVars, subVars, matchVars, histVars
<1>1. CASE UNCHANGED <<pc, item, ch, handled, got, ctx>>
  BY <1>0, <1>1
<1>2. ASSUME NEW t \in Sides, \/ Connect(t) \/ ConnectFails(t) \/ ReadCancelled(t)
                              \/ ReadFails(t) \/ FetchDone(t) \/ Report(t)
      PROVE  Goal
  <2>1. /\ UNCHANGED <<item, ch, histVars, ctx>>
        /\ \/ /\ pc[t] \in {"connect", "read"}
              /\ \E l \in {"read", "report", "done"} : pc' = [pc EXCEPT ![t] = l]
           \/ pc[t] = "fetch" /\ pc' = [pc EXCEPT ![t] = "put"]
           \/ pc[t] = "report" /\ pc' = [pc EXCEPT ![t] = "done"]
    BY <1>2 DEF Connect, ConnectFails, ReadCancelled, ReadFails, FetchDone, Report, Goto
  <2> QED
    BY <1>0, <2>1
<1>3. CASE RejectionUnseen \/ StreamEof
  BY <1>0, <1>3 DEF RejectionUnseen, StreamEof, Goto
<1>4. ASSUME NEW t \in Sides, Read(t) PROVE Goal
  <2>1. CASE Head(wire[t]) = 0
    BY <1>0, <1>4, <2>1 DEF Read
  <2>2. CASE Head(wire[t]) # 0
    <3>1. /\ pc[t] = "read" /\ UNCHANGED <<ch, got, ctx>>
          /\ \E l \in {"fetch", "put"} : pc' = [pc EXCEPT ![t] = l]
          /\ item' = [item EXCEPT ![t] = Head(wire[t])]
          /\ handled' = [handled EXCEPT ![t][Head(wire[t])] = handled[t][Head(wire[t])] + 1]
      BY <1>4, <2>2 DEF Read, Goto
    <3>2. Head(wire[t]) \in Blocks /\ item[t] = 0
      BY <1>4, <2>2, <3>1, QueueTypes DEF Read, ItemInHand
    <3>3. CASE t = s
      BY <1>0, <3>1, <3>2, <3>3
    <3>4. CASE t # s
      BY <1>0, <3>1, <3>4
    <3> QED
      BY <3>3, <3>4
  <2> QED
    BY <2>1, <2>2
<1>5. ASSUME NEW t \in Sides, FetchFails(t) \/ PutCancelled(t) PROVE Goal
  <2>1. /\ UNCHANGED <<ch, histVars, ctx>> /\ item' = [item EXCEPT ![t] = 0]
        /\ \E l \in {"report", "done"} : pc' = [pc EXCEPT ![t] = l]
    BY <1>5 DEF FetchFails, PutCancelled, Leave, Goto
  <2> QED
    BY <1>0, <2>1
<1>6. ASSUME NEW t \in Sides, Put(t) PROVE Goal
  <2>1. /\ UNCHANGED <<histVars, ctx>> /\ ch' = [ch EXCEPT ![t] = Append(ch[t], item[t])]
        /\ pc[t] = "put" /\ pc' = [pc EXCEPT ![t] = "read"]
        /\ item' = [item EXCEPT ![t] = 0]
    BY <1>6 DEF Put, Leave, Goto
  <2>2. item[t] \in Blocks
    BY <2>1, QueueTypes DEF ItemInHand
  <2> QED
    BY <1>0, <2>1, <2>2
<1>7. ASSUME NEW t \in Sides, MainArrive(t) PROVE Goal
  <2>1. /\ UNCHANGED <<pc, item, ctx, handled>>
        /\ ch[t] # <<>> /\ ch' = [ch EXCEPT ![t] = Tail(ch[t])]
        /\ got' = [got EXCEPT ![t][Head(ch[t])] = got[t][Head(ch[t])] + 1]
    BY <1>7, ArriveEffect
  <2>2. CASE t = s
    BY <1>0, <2>1, <2>2
  <2>3. CASE t # s
    BY <1>0, <2>1, <2>3
  <2> QED
    BY <2>2, <2>3
<1>8. CASE NodeStep \/ MainTick \/ MainErr \/ MainDone \/ Elapse \/ Signal \/ UNCHANGED vars
  <2>1. CASE Signal
    BY <1>0, <2>1 DEF Signal
  <2>2. CASE NodeStep \/ MainTick \/ MainErr \/ MainDone \/ Elapse \/ UNCHANGED vars
    <3>1. UNCHANGED <<pc, item, ch, handled, got, ctx>>
      BY <2>2 DEF NodeStep, NodeCommit, NodeReorg, NodeSkips, NodeCloses, MainTick, MainErr,
                  MainDone, Elapse, vars
    <3> QED
      BY <1>1, <3>1
  <2> QED
    BY <1>8, <2>1, <2>2
<1> HIDE DEF Goal
<1>9. Goal
  BY <1>2, <1>3, <1>4, <1>5, <1>6, <1>7, <1>8 DEF Next, NetStep, OwnStep, MainStep, Goal
<1> QED
  BY <1>9 DEF Goal

LEMMA DroppedNext == TypeOK /\ ItemInHand /\ NoArrivalDropped /\ [Next]_vars => NoArrivalDropped'
<1> SUFFICES ASSUME TypeOK, ItemInHand, NoArrivalDropped, [Next]_vars,
                    NEW s \in Sides, NEW b \in Blocks,
                    ~ctx', pc'[s] \notin {"report", "done"}
             PROVE  handled'[s][b] =
                      got'[s][b] + Times(b, ch'[s]) + (IF item'[s] = b THEN 1 ELSE 0)
  BY DEF NoArrivalDropped, Times
<1> DEFINE hand == IF item[s] = b THEN 1 ELSE 0
<1>1. /\ handled[s][b] \in Nat /\ got[s][b] \in Nat /\ Times(b, ch[s]) \in Nat
      /\ b \in DOMAIN handled[s] /\ b \in DOMAIN got[s] /\ ch[s] \in Seq(Blocks) /\ b # 0
  <2>1. ch[s] \in Seq(Blocks) /\ b # 0
    BY QueueTypes, Limits DEF Blocks
  <2> QED
    BY <2>1, QueueTypes, TimesIn DEF TypeOK
<1>2. handled[s][b] = got[s][b] + Times(b, ch[s]) + hand
  BY CountSteps DEF NoArrivalDropped
<1>3. CASE UNCHANGED <<handled[s], got[s], ch[s], item[s]>>
  BY <1>2, <1>3
<1>4. CASE /\ UNCHANGED <<got[s], ch[s]>>
           /\ item[s] = 0 /\ item'[s] \in Blocks
           /\ handled'[s] = [handled[s] EXCEPT ![item'[s]] = handled[s][item'[s]] + 1]
  <2>1. handled'[s][b] = handled[s][b] + (IF item'[s] = b THEN 1 ELSE 0)
    BY <1>1, <1>4
  <2>2. hand = 0
    BY <1>1, <1>4
  <2> HIDE DEF hand
  <2> QED
    BY <1>1, <1>2, <1>4, <2>1, <2>2
<1>5. CASE /\ UNCHANGED <<handled[s], got[s]>>
           /\ item[s] \in Blocks /\ item'[s] = 0
           /\ ch'[s] = Append(ch[s], item[s])
  <2>1. Times(b, ch'[s]) = Times(b, ch[s]) + hand
    BY <1>1, <1>5, TimesAppend
  <2>2. (IF item'[s] = b THEN 1 ELSE 0) = 0
    BY <1>1, <1>5
  <2>3. hand \in Nat
    OBVIOUS
  <2> HIDE DEF hand
  <2> QED
    BY <1>1, <1>2, <1>5, <2>1, <2>2, <2>3
<1>6. CASE /\ UNCHANGED <<handled[s], item[s]>>
           /\ ch[s] # <<>> /\ ch'[s] = Tail(ch[s])
           /\ got'[s] = [got[s] EXCEPT ![Head(ch[s])] = got[s][Head(ch[s])] + 1]
  <2>1. Times(b, ch[s]) = Times(b, ch'[s]) + (IF Head(ch[s]) = b THEN 1 ELSE 0)
    BY <1>1, <1>6, TimesTail
  <2>2. got'[s][b] = got[s][b] + (IF Head(ch[s]) = b THEN 1 ELSE 0)
    BY <1>1, <1>6
  <2>3. Times(b, ch'[s]) \in Nat /\ hand \in Nat
    <3>1. ch'[s] \in Seq(Blocks)
      BY <1>1, <1>6
    <3> QED
      BY <3>1, TimesIn
  <2>4. (IF item'[s] = b THEN 1 ELSE 0) = hand
    BY <1>6
  <2> HIDE DEF hand
  <2> QED
    BY <1>1, <1>2, <1>6, <2>1, <2>2, <2>3, <2>4
<1> QED
  BY <1>3, <1>4, <1>5, <1>6, CountSteps

-----------------------------------------------------------------------------
(* The theorems.                                                           *)

\* The state of the bench is always one its types and its queues allow: every
\* step of the node, of the subscribers and of main keeps the invariant.
THEOREM Invariance == Spec => []IInv
<1>1. Init => IInv
  <2>1. Init => ItemInHand
    BY DEF Init, ItemInHand
  <2> QED
    BY <2>1, TypeInit, AgesInit, UsedInit, DroppedInit DEF IInv
<1>2. IInv /\ [Next]_vars => IInv'
  BY TypeNext, ItemInHandNext, AgesNext, EntryHasSideNext, UsedNext, DroppedNext DEF IInv
<1> QED
  BY <1>1, <1>2, PTL DEF Spec

\* Every reachable state of the bench has the types of its variables: no
\* channel is over its capacity, no entry or pair names a block there is not.
THEOREM TypeCorrect == Spec => []TypeOK
<1>1. IInv => TypeOK
  BY DEF IInv
<1> QED
  BY <1>1, Invariance, PTL

\* However often the chain announces a number, on either side and in any order:
\* an arrival is used in one pair, in one timeout, or in the entry that still
\* waits (emit and delete in the two arrival arms, the delete of the scan).
THEOREM UsedOnce == Spec => []ArrivalsUsedOnce
<1>1. IInv => ArrivalsUsedOnce
  BY DEF IInv
<1> QED
  BY <1>1, Invariance, PTL

\* Every block event a subscriber has read is in its hand, in its channel or
\* taken by main, while it runs and the context is not cancelled (the blocking
\* send around ch <- arrival).
THEOREM NothingDropped == Spec => []NoArrivalDropped
<1>1. IInv => NoArrivalDropped
  BY DEF IInv
<1> QED
  BY <1>1, Invariance, PTL

\* An entry is evicted by the first scan whose tick is more than matchTimeout
\* after it was made, however late the ticks before it were read.
THEOREM NoneOverstays == Spec => []NoEntryOverstays
<1>1. ASSUME TypeOK, AgesBounded PROVE NoEntryOverstays
  <2> SUFFICES ASSUME NEW b \in DOMAIN pending
               PROVE  pending[b].age <= Timeout + 1 + 2 * MaxTickLag
    BY DEF NoEntryOverstays
  <2>1. pending[b] \in Arrival /\ pending[b].age <= Timeout + MaxTickLag + 1 + tick
    BY <1>1 DEF TypeOK, AgesBounded, Arrival
  <2>2. pending[b].age \in Nat
    BY <2>1, Limits DEF Arrival
  <2>3. tick \in Int /\ tick <= MaxTickLag
    BY <1>1, Limits DEF TypeOK, NoTick
  <2> QED
    BY <2>1, <2>2, <2>3, Limits
<1>2. IInv => NoEntryOverstays
  BY <1>1 DEF IInv
<1> QED
  BY <1>2, Invariance, PTL
=============================================================================
