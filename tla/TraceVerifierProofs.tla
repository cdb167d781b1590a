------------------------ MODULE TraceVerifierProofs ------------------------
(***************************************************************************)
(* Theorems about TraceVerifier, for any number of workers and blocks.     *)
(***************************************************************************)
EXTENDS TraceVerifier, SequenceTheorems, FiniteSetTheorems, TLAPS

-----------------------------------------------------------------------------
(* The inductive invariant.                                                *)

\* The channels are closed by the goroutine that sends last, and every worker
\* drains workCh before it returns.
Closing ==
  /\ workClosed <=> stream = "done"
  /\ \A w \in Workers : worker[w] = "done" => workClosed /\ workCh = <<>>
  /\ resultClosed => \A w \in Workers : worker[w] = "done"
  /\ stream = "send" => batch # <<>>
  /\ Len(sent) <= N /\ (stream # "done" => Len(sent) < N)

\* main's flag remembers every failure.
FlagTells == failed <=> \E i \in DOMAIN reported : reported[i].verdict # "pass"

\* A block the node has made: its number has been in the chain ever since.
Known(b) == b \in Block /\ b.num <= Len(chain) /\ b.id <= made

AllKnown(s) == \A i \in DOMAIN s : Known(s[i])

BlocksKnown ==
  /\ Len(chain) <= made
  /\ AllKnown(batch) /\ AllKnown(sent)
  /\ \A m \in DOMAIN wire : AllKnown(wire[m])

\* Identities rise along the stream: no block comes twice.
Rising(s) == \A i, j \in DOMAIN s : i < j => s[i].id < s[j].id
Precedes(s, t) == \A i \in DOMAIN s, j \in DOMAIN t : s[i].id < t[j].id

StreamOrder ==
  /\ Rising(batch) /\ Precedes(sent, batch)
  /\ \A m \in DOMAIN wire :
       Rising(wire[m]) /\ Precedes(sent, wire[m]) /\ Precedes(batch, wire[m])
  /\ \A m, n \in DOMAIN wire : m < n => Precedes(wire[m], wire[n])

\* Where a block that has been sent can be.
Elems(s) == {s[i] : i \in DOMAIN s}
BlocksOf(q) == {q[i].block : i \in DOMAIN q}
InHand == {job[w] : w \in Busy}

Distinct(s) == \A i, j \in DOMAIN s : i # j => s[i] # s[j]
DistinctBlocks(q) == \A i, j \in DOMAIN q : i # j => q[i].block # q[j].block

\* Every block sent is in one place: in workCh, with one worker, in resultCh,
\* or reported.
OnePlace ==
  /\ Elems(sent) = Elems(workCh) \cup InHand \cup BlocksOf(resultCh) \cup BlocksOf(reported)
  /\ Elems(workCh) \cap InHand = {}
  /\ (Elems(workCh) \cup InHand) \cap BlocksOf(resultCh) = {}
  /\ (Elems(workCh) \cup InHand \cup BlocksOf(resultCh)) \cap BlocksOf(reported) = {}
  /\ Distinct(workCh) /\ DistinctBlocks(resultCh)
  /\ \A v, w \in Busy : v # w => job[v] # job[w]

\* The chain has another block in b's place.
Replaced(b) == Known(b) /\ chain[b.num].id # b.id

AllMismatchesReplaced(q) ==
  \A i \in DOMAIN q : q[i].verdict = "mismatch" => Replaced(q[i].block)

\* A mismatch found, on its way to main or reported, is of a block replaced.
MismatchTells ==
  /\ \A w \in Workers : worker[w] # "put" => verdict[w] = "pass"
  /\ \A w \in Workers : verdict[w] = "mismatch" => Replaced(job[w])
  /\ AllMismatchesReplaced(resultCh)
  /\ AllMismatchesReplaced(reported)

IInv ==
  TypeOK /\ Closing /\ FlagTells /\ BlocksKnown /\ StreamOrder /\ OnePlace /\ MismatchTells
-----------------------------------------------------------------------------
(* Sequences that grow at the end and shrink at the front.                 *)

LEMMA AppendGrows ==
  ASSUME NEW S, NEW s \in Seq(S), NEW e \in S
  PROVE  \A i \in DOMAIN Append(s, e) :
           \/ i \in DOMAIN s /\ Append(s, e)[i] = s[i]
           \/ i = Len(s) + 1 /\ Append(s, e)[i] = e
OBVIOUS

LEMMA ElemsAppend ==
  ASSUME NEW S, NEW s \in Seq(S), NEW e \in S
  PROVE  /\ Elems(Append(s, e)) = Elems(s) \cup {e}
         /\ Distinct(s) /\ e \notin Elems(s) => Distinct(Append(s, e))
<1>1. /\ Len(s) \in Nat /\ DOMAIN s = 1..Len(s)
      /\ DOMAIN Append(s, e) = 1..(Len(s) + 1)
      /\ \A i \in 1..Len(s) : Append(s, e)[i] = s[i]
      /\ Append(s, e)[Len(s) + 1] = e
  OBVIOUS
<1> QED
  BY <1>1 DEF Elems, Distinct

LEMMA ElemsTail ==
  ASSUME NEW S, NEW s \in Seq(S), s # <<>>, Distinct(s)
  PROVE  /\ Elems(Tail(s)) = Elems(s) \ {Head(s)}
         /\ Head(s) \in Elems(s)
         /\ Distinct(Tail(s))
<1>1. /\ Len(s) \in Nat \ {0} /\ DOMAIN s = 1..Len(s) /\ Head(s) = s[1]
      /\ DOMAIN Tail(s) = 1..(Len(s) - 1)
      /\ \A i \in 1..(Len(s) - 1) : Tail(s)[i] = s[i + 1]
  OBVIOUS
<1>2. \A i \in 1..Len(s) : i # 1 => i - 1 \in 1..(Len(s) - 1) /\ s[i] = Tail(s)[i - 1]
  BY <1>1
<1>3. \A i \in 1..(Len(s) - 1) : i + 1 \in 1..Len(s) /\ i + 1 # 1
  BY <1>1
<1>4. Elems(Tail(s)) \subseteq Elems(s) \ {Head(s)}
  BY <1>1, <1>3 DEF Elems, Distinct
<1>5. ASSUME NEW x \in Elems(s), x # Head(s) PROVE x \in Elems(Tail(s))
  <2>1. PICK i \in 1..Len(s) : x = s[i]
    BY <1>1 DEF Elems
  <2>2. i - 1 \in DOMAIN Tail(s) /\ x = Tail(s)[i - 1]
    BY <1>1, <1>2, <1>5, <2>1
  <2> QED
    BY <2>2 DEF Elems
<1>6. Head(s) \in Elems(s)
  BY <1>1 DEF Elems
<1>7. Distinct(Tail(s))
  BY <1>1, <1>3 DEF Distinct
<1> QED
  BY <1>4, <1>5, <1>6, <1>7

LEMMA BlocksAppend ==
  ASSUME NEW S, NEW q \in Seq(S), NEW e \in S
  PROVE  /\ BlocksOf(Append(q, e)) = BlocksOf(q) \cup {e.block}
         /\ DistinctBlocks(q) /\ e.block \notin BlocksOf(q) => DistinctBlocks(Append(q, e))
<1>1. /\ Len(q) \in Nat /\ DOMAIN q = 1..Len(q)
      /\ DOMAIN Append(q, e) = 1..(Len(q) + 1)
      /\ \A i \in 1..Len(q) : Append(q, e)[i] = q[i]
      /\ Append(q, e)[Len(q) + 1] = e
  OBVIOUS
<1> QED
  BY <1>1 DEF BlocksOf, DistinctBlocks

LEMMA BlocksTail ==
  ASSUME NEW S, NEW q \in Seq(S), q # <<>>, DistinctBlocks(q)
  PROVE  /\ BlocksOf(Tail(q)) = BlocksOf(q) \ {Head(q).block}
         /\ Head(q).block \in BlocksOf(q)
         /\ DistinctBlocks(Tail(q))
<1>1. /\ Len(q) \in Nat \ {0} /\ DOMAIN q = 1..Len(q) /\ Head(q) = q[1]
      /\ DOMAIN Tail(q) = 1..(Len(q) - 1)
      /\ \A i \in 1..(Len(q) - 1) : Tail(q)[i] = q[i + 1]
  OBVIOUS
<1>2. \A i \in 1..Len(q) : i # 1 => i - 1 \in 1..(Len(q) - 1) /\ q[i] = Tail(q)[i - 1]
  BY <1>1
<1>3. \A i \in 1..(Len(q) - 1) : i + 1 \in 1..Len(q) /\ i + 1 # 1
  BY <1>1
<1>4. BlocksOf(Tail(q)) \subseteq BlocksOf(q) \ {Head(q).block}
  BY <1>1, <1>3 DEF BlocksOf, DistinctBlocks
<1>5. ASSUME NEW x \in BlocksOf(q), x # Head(q).block PROVE x \in BlocksOf(Tail(q))
  <2>1. PICK i \in 1..Len(q) : x = q[i].block
    BY <1>1 DEF BlocksOf
  <2>2. i - 1 \in DOMAIN Tail(q) /\ x = Tail(q)[i - 1].block
    BY <1>1, <1>2, <1>5, <2>1
  <2> QED
    BY <2>2 DEF BlocksOf
<1>6. Head(q).block \in BlocksOf(q)
  BY <1>1 DEF BlocksOf
<1>7. DistinctBlocks(Tail(q))
  BY <1>1, <1>3 DEF DistinctBlocks
<1> QED
  BY <1>4, <1>5, <1>6, <1>7

\* What is left of a notification's traces is a suffix of them.
LEMMA Suffix ==
  ASSUME NEW s \in Seq(Block), NEW k \in 0..Len(s)
  PROVE  LET r == SubSeq(s, k + 1, Len(s)) IN
         /\ r \in Seq(Block)
         /\ \A i \in DOMAIN r : i + k \in DOMAIN s /\ r[i] = s[i + k]
         /\ Rising(s) => Rising(r)
         /\ AllKnown(s) => AllKnown(r)
<1> DEFINE r == SubSeq(s, k + 1, Len(s))
<1>0. Len(s) \in Nat /\ k \in Nat /\ k <= Len(s) /\ DOMAIN s = 1..Len(s)
  OBVIOUS
<1>1. /\ r \in Seq(Block)
      /\ Len(r) = IF k + 1 <= Len(s) THEN Len(s) - (k + 1) + 1 ELSE 0
      /\ \A i \in 1..(Len(s) - (k + 1) + 1) : r[i] = s[(k + 1) + i - 1]
  <2>1. \A i \in (k + 1)..Len(s) : s[i] \in Block
    BY <1>0
  <2>2. k + 1 \in Int /\ Len(s) \in Int
    BY <1>0
  <2> QED
    BY <2>1, <2>2, SubSeqProperties, SMT
<1> HIDE DEF r
<1>2. DOMAIN r = 1..(Len(s) - k)
  <2>1. DOMAIN r = 1..Len(r)
    BY <1>1
  <2>2. CASE k + 1 <= Len(s)
    BY <1>0, <1>1, <2>1, <2>2
  <2>3. CASE ~(k + 1 <= Len(s))
    <3>1. Len(r) = 0
      BY <1>1, <2>3
    <3>2. k = Len(s)
      <4>1. \A a, b \in Nat : a <= b /\ ~(a + 1 <= b) => a = b
        OBVIOUS
      <4> QED
        BY <1>0, <2>3, <4>1
    <3> QED
      BY <1>0, <2>1, <3>1, <3>2
  <2> QED
    BY <2>2, <2>3
<1>3. \A i \in DOMAIN r : i + k \in DOMAIN s /\ r[i] = s[i + k]
  <2> SUFFICES ASSUME NEW i \in DOMAIN r PROVE i + k \in DOMAIN s /\ r[i] = s[i + k]
    OBVIOUS
  <2>1. i \in 1..(Len(s) - (k + 1) + 1)
    BY <1>0, <1>2
  <2>2. r[i] = s[(k + 1) + i - 1]
    BY <1>1, <2>1
  <2>4. (k + 1) + i - 1 = i + k
    <3>1. \A a, b \in Nat : (a + 1) + b - 1 = b + a
      OBVIOUS
    <3>2. i \in Nat
      BY <1>0, <2>1
    <3> QED
      BY <1>0, <3>1, <3>2
  <2>3. i + k \in DOMAIN s
    BY <1>0, <2>1
  <2> QED
    BY <2>2, <2>3, <2>4
<1>4. Rising(s) => Rising(r)
  BY <1>0, <1>2, <1>3 DEF Rising
<1>5. AllKnown(s) => AllKnown(r)
  BY <1>3 DEF AllKnown
<1> QED
  BY <1>1, <1>3, <1>4, <1>5 DEF r

-----------------------------------------------------------------------------
(* What steps do to the chain, to wire and to batch.                       *)

\* The node's blocks are new ones, and nothing leaves the chain but the tip a
\* reorg replaces.
LEMMA NodeEffect ==
  ASSUME TypeOK, BlocksKnown, NodeCommit \/ NodeReorg
  PROVE  /\ chain' \in Seq(Block) /\ made' \in 0..MaxBlocks /\ made <= made'
         /\ Len(chain) <= Len(chain') /\ Len(chain') <= made'
         /\ \A i \in 1..Len(chain) : chain'[i].id = chain[i].id \/ chain'[i].id > made
         /\ \E new \in Seq(Block) :
              /\ Rising(new)
              /\ \A i \in DOMAIN new : /\ made < new[i].id /\ new[i].id <= made'
                                       /\ new[i].num <= Len(chain')
              /\ wire' \in {wire, Append(wire, new)}
         /\ UNCHANGED <<rpcFails, wireOpen, stream, batch, sent, workVars, workerVars,
                        resultVars, mainVars>>
<1>0. /\ chain \in Seq(Block) /\ Len(chain) \in Nat /\ made \in Nat /\ MaxBlocks \in Nat
      /\ made <= MaxBlocks /\ Len(chain) <= made
      /\ \A i \in 1..Len(chain) : chain[i] \in Block
  BY CapAssumption DEF TypeOK, BlocksKnown
<1>1. CASE NodeCommit
  <2>1. PICK fulls \in [{1} -> BOOLEAN] \cup [1..2 -> BOOLEAN] :
          LET k == Len(fulls)
              new == [i \in 1..k |->
                        [num |-> Len(chain) + i, id |-> made + i, full |-> fulls[i]]]
          IN /\ made + k <= MaxBlocks
             /\ made' = made + k
             /\ chain' = chain \o new
             /\ Deliver(new)
    BY <1>1 DEF NodeCommit
  <2>2. PICK k \in {1, 2} : Len(fulls) = k /\ fulls \in [1..k -> BOOLEAN]
    <3>1. 1..1 = {1}
      OBVIOUS
    <3> QED
      BY <3>1
  <2> DEFINE new == [i \in 1..k |->
                       [num |-> Len(chain) + i, id |-> made + i, full |-> fulls[i]]]
  <2>3. /\ made + k <= MaxBlocks /\ made' = made + k
        /\ chain' = chain \o new /\ Deliver(new)
    BY <2>1, <2>2
  <2>4. \A i \in 1..k : new[i] \in Block
    <3> SUFFICES ASSUME NEW i \in 1..k PROVE new[i] \in Block
      OBVIOUS
    <3>1. Len(chain) + i \in 1..MaxBlocks /\ made + i \in 1..MaxBlocks
      BY <1>0, <2>3
    <3>2. fulls[i] \in BOOLEAN
      BY <2>2
    <3> QED
      BY <3>1, <3>2 DEF Block
  <2>5. new \in Seq(Block) /\ Len(new) = k /\ DOMAIN new = 1..k
    <3>1. new \in [1..k -> Block]
      BY <2>4
    <3> QED
      BY <3>1
  <2>6. \A i \in 1..k : new[i].num = Len(chain) + i /\ new[i].id = made + i
    OBVIOUS
  <2> HIDE DEF new
  <2>7. /\ chain' \in Seq(Block) /\ Len(chain') = Len(chain) + k
        /\ \A i \in 1..Len(chain) : chain'[i] = chain[i]
    <3>1. /\ chain \o new \in Seq(Block) /\ Len(chain \o new) = Len(chain) + Len(new)
          /\ \A i \in 1..Len(chain) + Len(new) :
               (chain \o new)[i] = IF i <= Len(chain) THEN chain[i] ELSE new[i - Len(chain)]
      BY <1>0, <2>5, ConcatProperties, Zenon
    <3>2. \A i \in 1..Len(chain) : i \in 1..Len(chain) + Len(new) /\ i <= Len(chain)
      BY <1>0, <2>5
    <3> QED
      BY <2>3, <2>5, <3>1, <3>2
  <2>8. Rising(new)
    BY <1>0, <2>5, <2>6 DEF Rising
  <2>9. \A i \in DOMAIN new : /\ made < new[i].id /\ new[i].id <= made'
                              /\ new[i].num <= Len(chain')
    BY <1>0, <2>3, <2>5, <2>6, <2>7
  <2>10. wire' \in {wire, Append(wire, new)}
    BY <2>3 DEF Deliver
  <2>11. made' \in 0..MaxBlocks /\ made <= made' /\ Len(chain) <= Len(chain') /\ Len(chain') <= made'
    BY <1>0, <2>3, <2>7
  <2>12. \E n \in Seq(Block) :
           /\ Rising(n)
           /\ \A i \in DOMAIN n : /\ made < n[i].id /\ n[i].id <= made'
                                  /\ n[i].num <= Len(chain')
           /\ wire' \in {wire, Append(wire, n)}
    BY <2>5, <2>8, <2>9, <2>10
  <2> QED
    BY <1>1, <2>7, <2>11, <2>12 DEF NodeCommit
<1>2. CASE NodeReorg
  <2>1. /\ chain # <<>> /\ made < MaxBlocks /\ made' = made + 1
        /\ chain' = [chain EXCEPT ![Len(chain)].id = made + 1]
        /\ wire' \in {wire, Append(wire, <<>>)}
    BY <1>2 DEF NodeReorg, Deliver
  <2>2. Len(chain) \in 1..Len(chain) /\ made + 1 \in 1..MaxBlocks
    BY <1>0, <2>1
  <2> DEFINE e == [chain[Len(chain)] EXCEPT !.id = made + 1]
  <2>3. e \in Block /\ e.id = made + 1
    BY <1>0, <2>2 DEF Block
  <2>4. chain' = [chain EXCEPT ![Len(chain)] = e]
    BY <2>1
  <2> HIDE DEF e
  <2>5. /\ chain' \in Seq(Block) /\ Len(chain') = Len(chain)
        /\ \A i \in 1..Len(chain) : chain'[i] = IF i = Len(chain) THEN e ELSE chain[i]
    BY <1>0, <2>2, <2>3, <2>4, ExceptSeq
  <2>6. <<>> \in Seq(Block) /\ Rising(<<>>) /\ DOMAIN <<>> = {}
    BY DEF Rising
  <2>7. \E n \in Seq(Block) :
          /\ Rising(n)
          /\ \A i \in DOMAIN n : /\ made < n[i].id /\ n[i].id <= made'
                                 /\ n[i].num <= Len(chain')
          /\ wire' \in {wire, Append(wire, n)}
    BY <2>1, <2>6
  <2>8. /\ made' \in 0..MaxBlocks /\ made <= made'
        /\ Len(chain) <= Len(chain') /\ Len(chain') <= made'
    BY <1>0, <2>1, <2>5
  <2>9. \A i \in 1..Len(chain) : chain'[i].id = chain[i].id \/ chain'[i].id > made
    BY <1>0, <2>3, <2>5
  <2> QED
    BY <1>2, <2>5, <2>7, <2>8, <2>9 DEF NodeReorg
<1> QED
  BY <1>1, <1>2

\* Every other step leaves the chain alone.
LEMMA ChainFrame ==
  [Next]_vars => NodeCommit \/ NodeReorg \/ UNCHANGED <<chain, made>>
BY DEF Next, vars, NodeStep, NodeCloses, StreamStep, StreamConnect, StreamEnds, StreamRecv,
   StreamSend, WorkerStep, WorkerTake, WorkerEnds, WorkerFetched, WorkerFetchFails,
   WorkerHangs, WorkerRetries, WorkerPut, CloseResults, MainStep, Collect, Summarise, nodeVars

\* The blocks passed over leave a suffix of what there was to go through.
LEMMA PassEffect ==
  ASSUME NEW traces \in Seq(Block), PassOverEmpty(traces)
  PROVE  /\ batch' \in Seq(Block)
         /\ \A i \in DOMAIN batch' : \E j \in DOMAIN traces : batch'[i] = traces[j]
         /\ Rising(traces) => Rising(batch')
<1>1. PICK k \in 0..Len(traces) : batch' = SubSeq(traces, k + 1, Len(traces))
  BY DEF PassOverEmpty
<1> QED
  BY <1>1, Suffix

-----------------------------------------------------------------------------
(* Type correctness.                                                       *)

\* A busy worker has one of the blocks sent.
LEMMA HandFull ==
  ASSUME TypeOK, OnePlace
  PROVE  /\ ResultCap \in Nat
         /\ \A w \in Busy : job[w] \in Elems(sent) /\ job[w] \in Block
<1>1. Elems(sent) \subseteq Block
  BY DEF TypeOK, Elems
<1>2. Cardinality(Workers) \in Nat
  BY ArgAssumption, FS_CardinalityType
<1> QED
  BY <1>1, <1>2 DEF OnePlace, InHand, ResultCap

LEMMA TypeInit == Init => TypeOK
<1>1. ResultCap \in Nat
  BY ArgAssumption, FS_CardinalityType DEF ResultCap
<1>2. \A S : <<>> \in Seq(S) /\ Len(<<>>) = 0
  OBVIOUS
<1> SUFFICES ASSUME Init PROVE TypeOK
  OBVIOUS
<1>3. /\ worker \in [Workers -> {"take", "call1", "delay", "call2", "put", "done", "hung"}]
      /\ job \in [Workers -> Block \cup {NoBlock}]
      /\ verdict \in [Workers -> Verdicts]
  BY DEF Init, Verdicts
<1>4. /\ made \in 0..MaxBlocks /\ rpcFails \in 0..MaxRpcFails
      /\ Len(workCh) <= WorkCap /\ Len(resultCh) <= ResultCap
  BY <1>1, <1>2, CapAssumption DEF Init
<1> QED
  BY <1>2, <1>3, <1>4 DEF Init, TypeOK

LEMMA TypeNext ==
  TypeOK /\ BlocksKnown /\ OnePlace /\ Closing /\ [Next]_vars => TypeOK'
<1> SUFFICES ASSUME TypeOK, BlocksKnown, OnePlace, Closing, [Next]_vars
             PROVE  TypeOK'
  OBVIOUS
<1>0. /\ ResultCap \in Nat /\ WorkCap \in Nat /\ N \in Nat /\ MaxRpcFails \in Nat
      /\ \A w \in Busy : job[w] \in Block
  BY HandFull, CapAssumption, ArgAssumption
<1> USE DEF TypeOK
<1>1. CASE NodeCommit \/ NodeReorg
  <2>1. PICK new \in Seq(Block) : wire' \in {wire, Append(wire, new)}
    BY <1>1, NodeEffect
  <2>2. wire' \in Seq(Seq(Block))
    <3>1. wire \in Seq(Seq(Block))
      OBVIOUS
    <3>2. Append(wire, new) \in Seq(Seq(Block))
      BY <3>1, AppendProperties, Zenon
    <3> QED
      BY <2>1, <3>1, <3>2
  <2>3. UNCHANGED ResultCap
    BY DEF ResultCap
  <2> QED
    BY <1>1, <2>2, <2>3, NodeEffect DEF workVars, workerVars, resultVars, mainVars
<1>2. CASE NodeCloses \/ StreamConnect \/ StreamEnds \/ CloseResults \/ Summarise
  BY <1>0, <1>2 DEF NodeCloses, StreamConnect, StreamEnds, CloseResults, Summarise,
     nodeVars, streamVars, workVars, workerVars, resultVars, mainVars, ResultCap
<1>3. CASE StreamRecv
  <2>1. Head(wire) \in Seq(Block) /\ Tail(wire) \in Seq(Seq(Block))
    BY <1>3 DEF StreamRecv
  <2>2. batch' \in Seq(Block)
    BY <1>3, <2>1, PassEffect DEF StreamRecv
  <2> QED
    BY <1>0, <1>3, <2>1, <2>2
    DEF StreamRecv, nodeVars, workVars, workerVars, resultVars, mainVars, ResultCap
<1>4. CASE StreamSend
  <2>1. /\ batch # <<>> /\ Head(batch) \in Block /\ Tail(batch) \in Seq(Block)
    BY <1>4 DEF StreamSend, Closing
  <2>2. batch' \in Seq(Block)
    BY <1>4, <2>1, PassEffect DEF StreamSend
  <2>3. /\ workCh' \in Seq(Block) /\ Len(workCh') <= WorkCap
        /\ sent' \in Seq(Block)
    BY <1>0, <1>4, <2>1 DEF StreamSend
  <2>4. stream' \in {"recv", "send", "done"} /\ workClosed' \in BOOLEAN
    BY <1>4 DEF StreamSend
  <2> QED
    BY <1>0, <1>4, <2>2, <2>3, <2>4
    DEF StreamSend, nodeVars, workerVars, resultVars, mainVars, ResultCap
<1>5. ASSUME NEW w \in Workers, WorkerTake(w) PROVE TypeOK'
  <2>1. /\ workCh' \in Seq(Block) /\ Len(workCh') <= WorkCap /\ Head(workCh) \in Block
    BY <1>0, <1>5 DEF WorkerTake
  <2>2. job' \in [Workers -> Block \cup {NoBlock}]
    BY <1>5, <2>1 DEF WorkerTake
  <2> QED
    BY <1>0, <1>5, <2>1, <2>2
    DEF WorkerTake, nodeVars, streamVars, resultVars, mainVars, ResultCap
<1>6. ASSUME NEW w \in Workers, WorkerEnds(w) \/ WorkerHangs(w) \/ WorkerRetries(w)
      PROVE TypeOK'
  BY <1>0, <1>6 DEF WorkerEnds, WorkerHangs, WorkerRetries, nodeVars, streamVars, workVars,
     resultVars, mainVars, ResultCap
<1>7. ASSUME NEW w \in Workers, WorkerFetched(w) \/ WorkerFetchFails(w) PROVE TypeOK'
  <2>1. rpcFails' \in 0..MaxRpcFails
    BY <1>0, <1>7 DEF WorkerFetched, WorkerFetchFails, nodeVars
  <2>2. worker' \in [Workers -> {"take", "call1", "delay", "call2", "put", "done", "hung"}]
    BY <1>7 DEF WorkerFetched, WorkerFetchFails
  <2>3. verdict' \in [Workers -> Verdicts]
    BY <1>7 DEF WorkerFetched, WorkerFetchFails, Verdicts
  <2> QED
    BY <1>0, <1>7, <2>1, <2>2, <2>3 DEF WorkerFetched, WorkerFetchFails, nodeVars, streamVars,
       workVars, resultVars, mainVars, ResultCap
<1>8. ASSUME NEW w \in Workers, WorkerPut(w) PROVE TypeOK'
  <2>1. [block |-> job[w], verdict |-> verdict[w]] \in Results
    BY <1>0, <1>8 DEF WorkerPut, Busy, Results
  <2>2. resultCh' \in Seq(Results) /\ Len(resultCh') <= ResultCap
    BY <1>0, <1>8, <2>1 DEF WorkerPut
  <2> QED
    BY <1>0, <1>8, <2>2
    DEF WorkerPut, nodeVars, streamVars, workVars, mainVars, ResultCap, Verdicts
<1>9. CASE Collect
  <2>1. /\ resultCh' \in Seq(Results) /\ Len(resultCh') <= ResultCap
        /\ Head(resultCh) \in Results
    BY <1>0, <1>9 DEF Collect
  <2>2. reported' \in Seq(Results) /\ failed' \in BOOLEAN
    BY <1>9, <2>1 DEF Collect
  <2> QED
    BY <1>0, <1>9, <2>1, <2>2
    DEF Collect, nodeVars, streamVars, workVars, workerVars, ResultCap
<1>10. CASE UNCHANGED vars
  BY <1>10 DEF vars, nodeVars, streamVars, workVars, workerVars, resultVars, mainVars, ResultCap
<1> QED
  BY <1>1, <1>2, <1>3, <1>4, <1>5, <1>6, <1>7, <1>8, <1>9, <1>10
  DEF Next, NodeStep, StreamStep, WorkerStep, MainStep

-----------------------------------------------------------------------------
(* The parts of the invariant, one lemma each.                             *)

LEMMA ClosingNext == TypeOK /\ Closing /\ [Next]_vars => Closing'
<1> SUFFICES ASSUME TypeOK, Closing, [Next]_vars PROVE Closing'
  OBVIOUS
<1> USE DEF Closing
<1>0. N \in Nat /\ Len(sent) \in Nat
  BY ArgAssumption DEF TypeOK
<1>1. CASE NodeStep \/ MainStep \/ UNCHANGED vars
  <2>1. UNCHANGED <<stream, batch, sent, workCh, workClosed, worker, resultClosed>>
    BY <1>1 DEF NodeStep, NodeCommit, NodeReorg, NodeCloses, MainStep, Collect, Summarise, vars,
       nodeVars, streamVars, workVars, workerVars, resultVars
  <2> QED
    BY <2>1
<1>2. CASE StreamConnect \/ StreamEnds
  BY <1>2 DEF StreamConnect, StreamEnds, workVars, workerVars, resultVars
<1>3. CASE StreamRecv
  BY <1>3 DEF StreamRecv, workVars, workerVars, resultVars
<1>4. CASE StreamSend
  <2>1. /\ stream = "send" /\ stream' \in {"recv", "send", "done"}
        /\ workClosed' <=> stream' = "done"
        /\ stream' = "send" => batch' # <<>>
        /\ stream' # "done" => ~(Len(sent) + 1 >= N)
        /\ UNCHANGED <<worker, resultClosed>>
    BY <1>4 DEF StreamSend, workerVars, resultVars
  <2>2. Len(sent') = Len(sent) + 1
    BY <1>4 DEF StreamSend, TypeOK
  <2>3. \A w \in Workers : worker[w] # "done"
    BY <2>1
  <2>4. Len(sent') <= N /\ (stream' # "done" => Len(sent') < N)
    BY <1>0, <2>1, <2>2
  <2> QED
    BY <2>1, <2>3, <2>4
<1>5. ASSUME NEW w \in Workers, WorkerStep(w) \/ WorkerHangs(w) PROVE Closing'
  <2>0. worker \in [Workers -> {"take", "call1", "delay", "call2", "put", "done", "hung"}]
    BY DEF TypeOK
  <2>1. UNCHANGED <<streamVars, workClosed, resultClosed>> /\ worker[w] # "done"
    BY <1>5 DEF WorkerStep, WorkerTake, WorkerEnds, WorkerFetched, WorkerFetchFails,
       WorkerHangs, WorkerRetries, WorkerPut, workVars, resultVars
  <2>2. \A v \in Workers : v # w => worker'[v] = worker[v]
    BY <1>5, <2>0 DEF WorkerStep, WorkerTake, WorkerEnds, WorkerFetched, WorkerFetchFails,
       WorkerHangs, WorkerRetries, WorkerPut
  <2>3. worker'[w] = "done" => workClosed /\ workCh' = <<>>
    BY <1>5, <2>0 DEF WorkerStep, WorkerTake, WorkerEnds, WorkerFetched, WorkerFetchFails,
       WorkerHangs, WorkerRetries, WorkerPut, workVars
  <2>4. workCh = <<>> => workCh' = <<>>
    BY <1>5 DEF WorkerStep, WorkerTake, WorkerEnds, WorkerFetched, WorkerFetchFails,
       WorkerHangs, WorkerRetries, WorkerPut, workVars
  <2> QED
    BY <2>1, <2>2, <2>3, <2>4 DEF streamVars
<1>6. CASE CloseResults
  BY <1>6 DEF CloseResults, streamVars, workVars, workerVars
<1> QED
  BY <1>1, <1>2, <1>3, <1>4, <1>5, <1>6 DEF Next, StreamStep

LEMMA FlagNext == TypeOK /\ FlagTells /\ [Next]_vars => FlagTells'
<1> SUFFICES ASSUME TypeOK, FlagTells, [Next]_vars PROVE FlagTells'
  OBVIOUS
<1>1. CASE UNCHANGED <<reported, failed>>
  BY <1>1 DEF FlagTells
<1>2. CASE Collect
  <2> DEFINE h == Head(resultCh)
  <2>1. /\ reported' = Append(reported, h) /\ failed' = (failed \/ h.verdict # "pass")
    BY <1>2 DEF Collect
  <2>2. /\ Len(reported) \in Nat /\ DOMAIN reported = 1..Len(reported)
        /\ DOMAIN reported' = 1..(Len(reported) + 1)
        /\ \A i \in 1..Len(reported) : reported'[i] = reported[i]
        /\ reported'[Len(reported) + 1] = h
    BY <2>1 DEF TypeOK
  <2> HIDE DEF h
  <2>3. (\E i \in DOMAIN reported' : reported'[i].verdict # "pass")
          <=> (\E i \in DOMAIN reported : reported[i].verdict # "pass") \/ h.verdict # "pass"
    BY <2>2
  <2> QED
    BY <2>1, <2>3 DEF FlagTells
<1>3. Collect \/ UNCHANGED <<reported, failed>>
  BY DEF Next, vars, NodeStep, NodeCommit, NodeReorg, NodeCloses, StreamStep, StreamConnect,
     StreamEnds, StreamRecv, StreamSend, WorkerStep, WorkerTake, WorkerEnds, WorkerFetched,
     WorkerFetchFails, WorkerHangs, WorkerRetries, WorkerPut, CloseResults, MainStep, Summarise,
     mainVars
<1> QED
  BY <1>1, <1>2, <1>3

\* A block stays known, and one replaced stays replaced.
LEMMA KnownStays ==
  ASSUME TypeOK, BlocksKnown, [Next]_vars
  PROVE  /\ \A b \in Block : Known(b) => Known(b)'
         /\ \A b \in Block : Replaced(b) => Replaced(b)'
         /\ Len(chain') <= made'
<1>0. chain \in Seq(Block) /\ Len(chain) \in Nat /\ made \in Nat
  BY DEF TypeOK
<1>1. CASE NodeCommit \/ NodeReorg
  <2>1. /\ chain' \in Seq(Block) /\ made' \in Nat /\ made <= made'
        /\ Len(chain) <= Len(chain') /\ Len(chain') <= made'
        /\ \A i \in 1..Len(chain) : chain'[i].id = chain[i].id \/ chain'[i].id > made
    BY <1>1, NodeEffect, CapAssumption
  <2>2. \A b \in Block : b.num \in Nat \ {0} /\ b.id \in Nat
    BY DEF Block
  <2>3. ASSUME NEW b \in Block, Known(b) PROVE Known(b)'
    BY <1>0, <2>1, <2>2, <2>3 DEF Known
  <2>4. ASSUME NEW b \in Block, Replaced(b) PROVE Replaced(b)'
    <3>1. b.num \in 1..Len(chain) /\ b.id <= made /\ chain[b.num].id # b.id
      BY <1>0, <2>2, <2>4 DEF Replaced, Known
    <3>2. chain'[b.num].id # b.id
      <4>1. chain'[b.num].id = chain[b.num].id \/ chain'[b.num].id > made
        BY <2>1, <3>1
      <4>2. chain'[b.num].id \in Nat
        BY <1>0, <2>1, <2>2, <3>1
      <4> QED
        BY <1>0, <2>2, <3>1, <4>1, <4>2
    <3> QED
      BY <2>3, <2>4, <3>2 DEF Replaced
  <2> QED
    BY <2>1, <2>3, <2>4
<1>2. CASE UNCHANGED <<chain, made>>
  BY <1>2 DEF Known, Replaced, BlocksKnown
<1> QED
  BY <1>1, <1>2, ChainFrame

\* The steps that move blocks along the stream.
LEMMA StreamFrame ==
  [Next]_vars => NodeCommit \/ NodeReorg \/ StreamRecv \/ StreamSend
                   \/ UNCHANGED <<wire, batch, sent>>
BY DEF Next, vars, NodeStep, NodeCloses, StreamStep, StreamConnect, StreamEnds,
   WorkerStep, WorkerTake, WorkerEnds, WorkerFetched, WorkerFetchFails,
   WorkerHangs, WorkerRetries, WorkerPut, CloseResults, MainStep, Collect, Summarise,
   nodeVars, streamVars

LEMMA WireGrows ==
  ASSUME TypeOK, BlocksKnown, NodeCommit \/ NodeReorg
  PROVE  \E new \in Seq(Block) :
           /\ Rising(new)
           /\ \A i \in DOMAIN new : /\ made < new[i].id /\ new[i].id <= made'
                                    /\ new[i].num <= Len(chain')
           /\ \A m \in DOMAIN wire' : \/ m \in DOMAIN wire /\ wire'[m] = wire[m]
                                      \/ m = Len(wire) + 1 /\ wire'[m] = new
<1>1. PICK new \in Seq(Block) :
        /\ Rising(new)
        /\ \A i \in DOMAIN new : /\ made < new[i].id /\ new[i].id <= made'
                                 /\ new[i].num <= Len(chain')
        /\ wire' \in {wire, Append(wire, new)}
  BY NodeEffect
<1>2. wire \in Seq(Seq(Block)) /\ Len(wire) \in Nat /\ DOMAIN wire = 1..Len(wire)
  BY DEF TypeOK
<1>3. \A m \in DOMAIN wire' : \/ m \in DOMAIN wire /\ wire'[m] = wire[m]
                              \/ m = Len(wire) + 1 /\ wire'[m] = new
  <2>1. CASE wire' = Append(wire, new)
    <3>1. wire \in Seq(Seq(Block)) /\ new \in Seq(Block)
      BY <1>2
    <3>2. \A m \in DOMAIN Append(wire, new) :
            \/ m \in DOMAIN wire /\ Append(wire, new)[m] = wire[m]
            \/ m = Len(wire) + 1 /\ Append(wire, new)[m] = new
      BY <3>1, AppendGrows, Zenon
    <3> QED
      BY <2>1, <3>2, Zenon
  <2> QED
    BY <1>1, <2>1
<1> QED
  BY <1>1, <1>3

LEMMA RecvEffect ==
  ASSUME TypeOK, StreamRecv
  PROVE  /\ 1 \in DOMAIN wire /\ wire[1] \in Seq(Block)
         /\ \A m \in DOMAIN wire' : m \in Nat /\ m + 1 \in DOMAIN wire /\ wire'[m] = wire[m + 1]
         /\ \A i \in DOMAIN batch' : \E j \in DOMAIN wire[1] : batch'[i] = wire[1][j]
         /\ Rising(wire[1]) => Rising(batch')
         /\ UNCHANGED <<sent, chain, made>>
<1>1. /\ wire \in Seq(Seq(Block)) /\ wire # <<>> /\ wire' = Tail(wire)
      /\ UNCHANGED <<sent, chain, made>>
  BY DEF StreamRecv, TypeOK, nodeVars
<1>2. Head(wire) = wire[1] /\ Head(wire) \in Seq(Block) /\ 1 \in DOMAIN wire
  BY <1>1
<1>3. \A m \in DOMAIN wire' : m \in Nat /\ m + 1 \in DOMAIN wire /\ wire'[m] = wire[m + 1]
  BY <1>1
<1>4. PassOverEmpty(wire[1])
  BY <1>2 DEF StreamRecv
<1> QED
  BY <1>1, <1>2, <1>3, <1>4, PassEffect

LEMMA SendEffect ==
  ASSUME TypeOK, Closing, StreamSend
  PROVE  /\ 1 \in DOMAIN batch /\ Head(batch) = batch[1] /\ batch[1] \in Block
         /\ sent' = Append(sent, batch[1]) /\ workCh' = Append(workCh, batch[1])
         /\ \A i \in DOMAIN sent' : \/ i \in DOMAIN sent /\ sent'[i] = sent[i]
                                    \/ sent'[i] = batch[1]
         /\ \A i \in DOMAIN batch' : \E j \in DOMAIN batch : 1 < j /\ batch'[i] = batch[j]
         /\ Rising(batch) => Rising(batch')
         /\ UNCHANGED <<wire, chain, made>>
<1>1. /\ batch \in Seq(Block) /\ batch # <<>> /\ sent' = Append(sent, Head(batch))
      /\ workCh' = Append(workCh, Head(batch))
      /\ PassOverEmpty(Tail(batch)) /\ UNCHANGED <<wire, chain, made>>
  BY DEF StreamSend, TypeOK, Closing, nodeVars
<1>2. Head(batch) = batch[1] /\ batch[1] \in Block /\ 1 \in DOMAIN batch
  BY <1>1
<1>3. /\ Tail(batch) \in Seq(Block)
      /\ \A i \in DOMAIN Tail(batch) : /\ i \in Nat /\ i + 1 \in DOMAIN batch /\ 1 < i + 1
                                       /\ Tail(batch)[i] = batch[i + 1]
  BY <1>1
<1>4. Rising(batch) => Rising(Tail(batch))
  <2> SUFFICES ASSUME Rising(batch), NEW i \in DOMAIN Tail(batch), NEW j \in DOMAIN Tail(batch),
                      i < j
               PROVE  Tail(batch)[i].id < Tail(batch)[j].id
    BY DEF Rising
  <2>1. i + 1 < j + 1
    BY <1>3
  <2> QED
    BY <1>3, <2>1 DEF Rising
<1>5. /\ \A i \in DOMAIN batch' : \E j \in DOMAIN Tail(batch) : batch'[i] = Tail(batch)[j]
      /\ Rising(Tail(batch)) => Rising(batch')
  BY <1>1, <1>3, PassEffect
<1>6. \A i \in DOMAIN batch' : \E j \in DOMAIN batch : 1 < j /\ batch'[i] = batch[j]
  BY <1>3, <1>5
<1>7. \A i \in DOMAIN sent' : \/ i \in DOMAIN sent /\ sent'[i] = sent[i]
                              \/ sent'[i] = batch[1]
  <2>1. sent \in Seq(Block) /\ sent' = Append(sent, batch[1])
    BY <1>1, <1>2 DEF TypeOK
  <2> QED
    BY <1>2, <2>1, AppendGrows, Zenon
<1> QED
  BY <1>1, <1>2, <1>4, <1>5, <1>6, <1>7

LEMMA BlocksKnownNext ==
  TypeOK /\ Closing /\ BlocksKnown /\ [Next]_vars => BlocksKnown'
<1> SUFFICES ASSUME TypeOK, Closing, BlocksKnown, [Next]_vars PROVE BlocksKnown'
  OBVIOUS
<1>0. /\ \A b \in Block : Known(b) => Known(b)'
      /\ Len(chain') <= made'
  BY KnownStays
<1>1. /\ \A i \in DOMAIN batch : batch[i] \in Block /\ Known(batch[i])
      /\ \A i \in DOMAIN sent : sent[i] \in Block /\ Known(sent[i])
      /\ \A m \in DOMAIN wire : \A i \in DOMAIN wire[m] :
           wire[m][i] \in Block /\ Known(wire[m][i])
  BY DEF BlocksKnown, AllKnown, Known
<1>2. SUFFICES /\ \A i \in DOMAIN batch' : batch'[i] \in Block /\ Known(batch[i])'
               /\ \A i \in DOMAIN sent' : Known(sent[i])'
               /\ \A m \in DOMAIN wire' : \A i \in DOMAIN wire'[m] : Known(wire[m][i])'
  BY <1>0 DEF BlocksKnown, AllKnown
<1> USE DEF Known
<1>3. CASE NodeCommit \/ NodeReorg
  <2>1. PICK new \in Seq(Block) :
           /\ \A i \in DOMAIN new : /\ made < new[i].id /\ new[i].id <= made'
                                    /\ new[i].num <= Len(chain')
           /\ \A m \in DOMAIN wire' : \/ m \in DOMAIN wire /\ wire'[m] = wire[m]
                                      \/ m = Len(wire) + 1 /\ wire'[m] = new
    BY <1>3, WireGrows
  <2>2. UNCHANGED <<batch, sent>>
    BY <1>3, NodeEffect
  <2>3. \A i \in DOMAIN new : new[i] \in Block
    OBVIOUS
  <2> QED
    BY <1>0, <1>1, <2>1, <2>2, <2>3
<1>4. CASE StreamRecv
  BY <1>0, <1>1, <1>4, RecvEffect
<1>5. CASE StreamSend
  BY <1>0, <1>1, <1>5, SendEffect
<1>6. CASE UNCHANGED <<wire, batch, sent>>
  BY <1>0, <1>1, <1>6
<1> QED
  BY <1>3, <1>4, <1>5, <1>6, StreamFrame

LEMMA StreamOrderNext ==
  TypeOK /\ Closing /\ BlocksKnown /\ StreamOrder /\ [Next]_vars => StreamOrder'
<1> SUFFICES ASSUME TypeOK, Closing, BlocksKnown, StreamOrder, [Next]_vars PROVE StreamOrder'
  OBVIOUS
<1>0. /\ \A i \in DOMAIN batch : batch[i].id <= made /\ batch[i].id \in Nat
      /\ \A i \in DOMAIN sent : sent[i].id <= made /\ sent[i].id \in Nat
      /\ \A m \in DOMAIN wire : \A i \in DOMAIN wire[m] :
           wire[m][i].id <= made /\ wire[m][i].id \in Nat
      /\ made \in Nat
  BY DEF BlocksKnown, AllKnown, Known, Block, TypeOK
<1>1. CASE NodeCommit \/ NodeReorg
  <2>1. PICK new \in Seq(Block) :
           /\ Rising(new)
           /\ \A i \in DOMAIN new : made < new[i].id
           /\ \A m \in DOMAIN wire' : \/ m \in DOMAIN wire /\ wire'[m] = wire[m]
                                      \/ m = Len(wire) + 1 /\ wire'[m] = new
    BY <1>1, WireGrows
  <2>2. UNCHANGED <<batch, sent>>
    BY <1>1, NodeEffect
  <2>3. \A i \in DOMAIN new : new[i].id \in Nat
    <3>1. \A i \in DOMAIN new : new[i] \in Block
      OBVIOUS
    <3> QED
      BY <3>1 DEF Block
  <2>4. \A s : (\A i \in DOMAIN s : s[i].id <= made /\ s[i].id \in Nat) => Precedes(s, new)
    BY <1>0, <2>1, <2>3 DEF Precedes
  <2>5. /\ Precedes(sent, new) /\ Precedes(batch, new)
        /\ \A m \in DOMAIN wire : Precedes(wire[m], new)
    BY <1>0, <2>4
  <2>6. /\ Len(wire) \in Nat /\ DOMAIN wire = 1..Len(wire)
    BY DEF TypeOK
  <2>7. ASSUME NEW m \in DOMAIN wire', NEW n \in DOMAIN wire', m < n
        PROVE  Precedes(wire'[m], wire'[n])
    <3>1. m \in DOMAIN wire /\ wire'[m] = wire[m]
      BY <2>1, <2>6, <2>7
    <3> QED
      BY <2>1, <2>5, <2>7, <3>1 DEF StreamOrder
  <2>8. ASSUME NEW m \in DOMAIN wire'
        PROVE  Rising(wire'[m]) /\ Precedes(sent, wire'[m]) /\ Precedes(batch, wire'[m])
    BY <2>1, <2>5 DEF StreamOrder
  <2> QED
    BY <2>2, <2>7, <2>8 DEF StreamOrder
<1>2. CASE StreamRecv
  <2>1. /\ 1 \in DOMAIN wire
        /\ \A m \in DOMAIN wire' : m \in Nat /\ m + 1 \in DOMAIN wire /\ wire'[m] = wire[m + 1]
        /\ \A i \in DOMAIN batch' : \E j \in DOMAIN wire[1] : batch'[i] = wire[1][j]
        /\ Rising(wire[1]) => Rising(batch')
        /\ UNCHANGED sent
    BY <1>2, RecvEffect
  <2>2. \A m \in DOMAIN wire' : 1 < m + 1
    <3>1. \A m \in DOMAIN wire' : m \in 1..Len(wire')
      BY <1>2 DEF StreamRecv, TypeOK
    <3> QED
      BY <3>1
  <2>3. Rising(batch') /\ Precedes(sent', batch')
    BY <2>1 DEF StreamOrder, Precedes
  <2>4. ASSUME NEW m \in DOMAIN wire'
        PROVE  Rising(wire'[m]) /\ Precedes(sent', wire'[m]) /\ Precedes(batch', wire'[m])
    <3>1. Rising(wire'[m]) /\ Precedes(sent, wire'[m]) /\ Precedes(wire[1], wire'[m])
      BY <2>1, <2>2 DEF StreamOrder
    <3> QED
      BY <2>1, <3>1 DEF Precedes
  <2>5. ASSUME NEW m \in DOMAIN wire', NEW n \in DOMAIN wire', m < n
        PROVE  Precedes(wire'[m], wire'[n])
    <3>1. m + 1 < n + 1
      BY <2>1, <2>5
    <3> QED
      BY <2>1, <3>1 DEF StreamOrder
  <2> QED
    BY <2>3, <2>4, <2>5 DEF StreamOrder
<1>3. CASE StreamSend
  <2>1. /\ 1 \in DOMAIN batch
        /\ \A i \in DOMAIN sent' : \/ i \in DOMAIN sent /\ sent'[i] = sent[i]
                                   \/ sent'[i] = batch[1]
        /\ \A i \in DOMAIN batch' : \E j \in DOMAIN batch : 1 < j /\ batch'[i] = batch[j]
        /\ Rising(batch) => Rising(batch')
        /\ UNCHANGED wire
    BY <1>3, SendEffect
  <2>2. Rising(batch') /\ Precedes(sent', batch')
    BY <2>1 DEF StreamOrder, Precedes, Rising
  <2>3. ASSUME NEW m \in DOMAIN wire'
        PROVE  Rising(wire'[m]) /\ Precedes(sent', wire'[m]) /\ Precedes(batch', wire'[m])
    BY <2>1 DEF StreamOrder, Precedes
  <2> QED
    BY <2>1, <2>2, <2>3 DEF StreamOrder
<1>4. CASE UNCHANGED <<wire, batch, sent>>
  BY <1>4 DEF StreamOrder
<1> QED
  BY <1>1, <1>2, <1>3, <1>4, StreamFrame

LEMMA OnePlaceNext ==
  TypeOK /\ Closing /\ StreamOrder /\ OnePlace /\ [Next]_vars => OnePlace'
<1> SUFFICES ASSUME TypeOK, Closing, StreamOrder, OnePlace, [Next]_vars PROVE OnePlace'
  OBVIOUS
<1>0. /\ sent \in Seq(Block) /\ workCh \in Seq(Block) /\ batch \in Seq(Block)
      /\ resultCh \in Seq(Results) /\ reported \in Seq(Results)
      /\ worker \in [Workers -> {"take", "call1", "delay", "call2", "put", "done", "hung"}]
      /\ job \in [Workers -> Block \cup {NoBlock}]
  BY DEF TypeOK
<1>1. CASE UNCHANGED <<sent, workCh, worker, job, resultCh, reported>>
  BY <1>1 DEF OnePlace, InHand, Busy
<1>2. CASE StreamSend
  <2> DEFINE b == batch[1]
  <2>1. b \in Block /\ sent' = Append(sent, b) /\ workCh' = Append(workCh, b)
    BY <1>2, SendEffect
  <2>2. b \notin Elems(sent)
    <3>1. \A i \in DOMAIN sent : sent[i].id < b.id /\ b.id \in Nat
      BY <1>2, <2>1, SendEffect DEF StreamOrder, Precedes, Block
    <3> QED
      BY <3>1 DEF Elems
  <2> HIDE DEF b
  <2>3. Elems(sent') = Elems(sent) \cup {b} /\ Elems(workCh') = Elems(workCh) \cup {b}
    <3>0. sent \in Seq(Block) /\ workCh \in Seq(Block) /\ b \in Block
      BY <1>0, <2>1
    <3>1. Elems(Append(sent, b)) = Elems(sent) \cup {b}
      BY <3>0, ElemsAppend
    <3>2. Elems(Append(workCh, b)) = Elems(workCh) \cup {b}
      BY <3>0, ElemsAppend
    <3> QED
      BY <2>1, <3>1, <3>2
  <2>4. Distinct(workCh')
    BY <1>0, <2>1, <2>2, ElemsAppend DEF OnePlace
  <2>5. UNCHANGED <<InHand, Busy, job, resultCh, reported>>
    BY <1>2 DEF StreamSend, workerVars, resultVars, mainVars, InHand, Busy
  <2> QED
    BY <2>2, <2>3, <2>4, <2>5 DEF OnePlace
<1>3. ASSUME NEW w \in Workers, WorkerTake(w) PROVE OnePlace'
  <2> DEFINE b == Head(workCh)
  <2>1. /\ workCh # <<>> /\ workCh' = Tail(workCh) /\ Distinct(workCh)
        /\ UNCHANGED <<sent, resultCh, reported>>
    BY <1>3 DEF WorkerTake, OnePlace, streamVars, resultVars, mainVars
  <2>2. /\ Elems(workCh') = Elems(workCh) \ {b} /\ b \in Elems(workCh) /\ Distinct(workCh')
    BY <1>0, <2>1, ElemsTail, Zenon
  <2>3. /\ w \notin Busy /\ Busy' = Busy \cup {w}
        /\ job'[w] = b /\ \A v \in Busy : job'[v] = job[v]
    BY <1>0, <1>3 DEF WorkerTake, Busy
  <2> HIDE DEF b
  <2>4. InHand' = InHand \cup {b}
    BY <2>3 DEF InHand
  <2>5. \A u, v \in Busy' : u # v => job'[u] # job'[v]
    BY <2>2, <2>3 DEF OnePlace, InHand
  <2> QED
    BY <2>1, <2>2, <2>4, <2>5 DEF OnePlace
<1>4. ASSUME NEW w \in Workers,
             WorkerEnds(w) \/ WorkerFetched(w) \/ WorkerFetchFails(w) \/ WorkerHangs(w)
               \/ WorkerRetries(w)
      PROVE  OnePlace'
  <2>1. UNCHANGED <<sent, workCh, job, resultCh, reported>>
    BY <1>4 DEF WorkerEnds, WorkerFetched, WorkerFetchFails, WorkerHangs, WorkerRetries,
       streamVars, workVars, resultVars, mainVars
  <2>2. Busy' = Busy
    BY <1>0, <1>4 DEF WorkerEnds, WorkerFetched, WorkerFetchFails, WorkerHangs, WorkerRetries,
       Busy
  <2> QED
    BY <2>1, <2>2 DEF OnePlace, InHand
<1>5. ASSUME NEW w \in Workers, WorkerPut(w) PROVE OnePlace'
  <2> DEFINE b == job[w]
             r == [block |-> job[w], verdict |-> verdict[w]]
  <2>1. w \in Busy /\ resultCh' = Append(resultCh, r) /\ UNCHANGED <<sent, workCh, reported>>
    BY <1>5 DEF WorkerPut, Busy, streamVars, workVars, mainVars
  <2>2. b \in InHand /\ b \notin BlocksOf(resultCh)
    BY <2>1 DEF OnePlace, InHand
  <2>3. r \in Results /\ r.block = b
    BY <2>1, HandFull DEF Results, TypeOK, Busy
  <2>4. /\ Busy' = Busy \ {w} /\ \A v \in Busy' : job'[v] = job[v]
    BY <1>0, <1>5 DEF WorkerPut, Busy
  <2> HIDE DEF r
  <2>5. /\ BlocksOf(resultCh') = BlocksOf(resultCh) \cup {r.block}
        /\ DistinctBlocks(resultCh) /\ r.block \notin BlocksOf(resultCh) => DistinctBlocks(resultCh')
    BY <1>0, <2>1, <2>3, BlocksAppend, Zenon
  <2>6. DistinctBlocks(resultCh') /\ BlocksOf(resultCh') = BlocksOf(resultCh) \cup {b}
    BY <2>2, <2>3, <2>5 DEF OnePlace
  <2>7. InHand' = InHand \ {b}
    BY <2>1, <2>4 DEF OnePlace, InHand
  <2>8. \A u, v \in Busy' : u # v => job'[u] # job'[v]
    BY <2>4 DEF OnePlace
  <2> HIDE DEF b
  <2> QED
    BY <2>1, <2>2, <2>6, <2>7, <2>8 DEF OnePlace
<1>6. CASE Collect
  <2> DEFINE r == Head(resultCh)
  <2>1. /\ resultCh # <<>> /\ resultCh' = Tail(resultCh) /\ DistinctBlocks(resultCh)
        /\ reported' = Append(reported, r)
        /\ UNCHANGED <<sent, workCh, InHand, Busy, job>>
    BY <1>6 DEF Collect, OnePlace, streamVars, workVars, workerVars, InHand, Busy
  <2>2. r \in Results
    BY <1>0, <2>1
  <2>3. /\ BlocksOf(resultCh') = BlocksOf(resultCh) \ {r.block}
        /\ r.block \in BlocksOf(resultCh) /\ DistinctBlocks(resultCh')
    BY <1>0, <2>1, BlocksTail, Zenon
  <2>4. BlocksOf(reported') = BlocksOf(reported) \cup {r.block}
    BY <1>0, <2>1, <2>2, BlocksAppend, Zenon
  <2> HIDE DEF r
  <2> QED
    BY <2>1, <2>3, <2>4 DEF OnePlace
<1>7. CASE NodeStep \/ StreamConnect \/ StreamEnds \/ StreamRecv \/ CloseResults \/ Summarise
           \/ UNCHANGED vars
  BY <1>1, <1>7 DEF NodeStep, NodeCommit, NodeReorg, NodeCloses, StreamConnect, StreamEnds,
     StreamRecv, CloseResults, Summarise, vars, streamVars, workVars, workerVars,
     resultVars, mainVars
<1> QED
  BY <1>2, <1>3, <1>4, <1>5, <1>6, <1>7 DEF Next, StreamStep, WorkerStep, MainStep

LEMMA MismatchNext ==
  TypeOK /\ BlocksKnown /\ OnePlace /\ MismatchTells /\ [Next]_vars => MismatchTells'
<1> SUFFICES ASSUME TypeOK, BlocksKnown, OnePlace, MismatchTells, [Next]_vars
             PROVE  MismatchTells'
  OBVIOUS
<1>0. /\ chain \in Seq(Block) /\ Len(chain) \in Nat
      /\ resultCh \in Seq(Results) /\ reported \in Seq(Results)
      /\ worker \in [Workers -> {"take", "call1", "delay", "call2", "put", "done", "hung"}]
      /\ verdict \in [Workers -> Verdicts]
      /\ job \in [Workers -> Block \cup {NoBlock}]
  BY DEF TypeOK
<1> DEFINE Stale(b, c, m) == /\ b \in Block /\ b.num <= Len(c) /\ b.id <= m
                             /\ c[b.num].id # b.id
<1>1. ASSUME NEW b, Stale(b, chain, made) PROVE Stale(b, chain', made')
  BY <1>1, KnownStays DEF Replaced, Known
<1>2. /\ \A w \in Workers : worker[w] # "put" => verdict[w] = "pass"
      /\ \A w \in Workers : verdict[w] = "mismatch" => Stale(job[w], chain, made)
      /\ \A i \in DOMAIN resultCh :
           resultCh[i].verdict = "mismatch" => Stale(resultCh[i].block, chain, made)
      /\ \A i \in DOMAIN reported :
           reported[i].verdict = "mismatch" => Stale(reported[i].block, chain, made)
  BY DEF MismatchTells, AllMismatchesReplaced, Replaced, Known
<1>3. (
      /\ \A w \in Workers : worker'[w] # "put" => verdict'[w] = "pass"
      /\ \A w \in Workers : verdict'[w] = "mismatch" => Stale(job'[w], chain', made')
      /\ \A i \in DOMAIN resultCh' :
           resultCh'[i].verdict = "mismatch" => Stale(resultCh'[i].block, chain', made')
      /\ \A i \in DOMAIN reported' :
           reported'[i].verdict = "mismatch" => Stale(reported'[i].block, chain', made')
      ) => MismatchTells'
  BY DEF MismatchTells, AllMismatchesReplaced, Replaced, Known
<1> HIDE DEF Stale
<1>4. CASE UNCHANGED <<worker, job, verdict, resultCh, reported>>
  BY <1>1, <1>2, <1>3, <1>4
<1>5. CASE Collect
  <2>1. /\ resultCh # <<>> /\ resultCh' = Tail(resultCh)
        /\ reported' = Append(reported, Head(resultCh))
        /\ UNCHANGED <<worker, job, verdict>>
    BY <1>5 DEF Collect, workerVars
  <2>2. /\ 1 \in DOMAIN resultCh /\ Head(resultCh) = resultCh[1] /\ Head(resultCh) \in Results
        /\ \A i \in DOMAIN resultCh' : i + 1 \in DOMAIN resultCh /\ resultCh'[i] = resultCh[i + 1]
    BY <1>0, <2>1
  <2>3. \A i \in DOMAIN reported' : \/ i \in DOMAIN reported /\ reported'[i] = reported[i]
                                    \/ reported'[i] = resultCh[1]
    <3>1. reported \in Seq(Results) /\ resultCh[1] \in Results
      BY <1>0, <2>2
    <3> QED
      BY <2>1, <2>2, <3>1, AppendGrows, Zenon
  <2> QED
    BY <1>1, <1>2, <1>3, <2>1, <2>2, <2>3
<1>6. ASSUME NEW w \in Workers,
             WorkerTake(w) \/ WorkerEnds(w) \/ WorkerHangs(w) \/ WorkerRetries(w)
      PROVE  MismatchTells'
  <2>1. /\ UNCHANGED <<verdict, resultCh, reported>> /\ worker[w] # "put"
        /\ \A v \in Workers : v # w => worker'[v] = worker[v] /\ job'[v] = job[v]
    BY <1>0, <1>6 DEF WorkerTake, WorkerEnds, WorkerHangs, WorkerRetries, resultVars, mainVars
  <2>2. verdict[w] = "pass"
    BY <1>2, <2>1
  <2> QED
    BY <1>1, <1>2, <1>3, <2>1, <2>2
<1>7. ASSUME NEW w \in Workers, WorkerFetched(w) PROVE MismatchTells'
  <2>1. /\ UNCHANGED <<chain, made, job, resultCh, reported>> /\ worker'[w] = "put"
        /\ \A v \in Workers : v # w => worker'[v] = worker[v] /\ verdict'[v] = verdict[v]
        /\ verdict'[w] = "mismatch" => Answer(job[w]) # job[w].id
    BY <1>0, <1>7 DEF WorkerFetched, nodeVars, resultVars, mainVars
  <2>2. Known(job[w])
    <3>1. w \in Busy
      BY <1>7 DEF WorkerFetched, Busy
    <3>2. PICK i \in DOMAIN sent : job[w] = sent[i]
      BY <3>1, HandFull DEF Elems
    <3> QED
      BY <3>2 DEF BlocksKnown, AllKnown
  <2>3. verdict'[w] = "mismatch" => Stale(job[w], chain, made)
    <3>1. job[w].num \in DOMAIN chain
      BY <1>0, <2>2 DEF Known, Block
    <3> QED
      BY <2>1, <2>2, <3>1 DEF Stale, Known, Answer
  <2> QED
    BY <1>1, <1>2, <1>3, <2>1, <2>3
<1>8. ASSUME NEW w \in Workers, WorkerFetchFails(w) PROVE MismatchTells'
  <2>1. /\ UNCHANGED <<job, resultCh, reported>>
        /\ \A v \in Workers : v # w => worker'[v] = worker[v] /\ verdict'[v] = verdict[v]
        /\ \/ worker[w] = "call1" /\ verdict'[w] = verdict[w]
           \/ worker'[w] = "put" /\ verdict'[w] = "rpc_error"
    BY <1>0, <1>8 DEF WorkerFetchFails, resultVars, mainVars
  <2> QED
    BY <1>1, <1>2, <1>3, <2>1
<1>9. ASSUME NEW w \in Workers, WorkerPut(w) PROVE MismatchTells'
  <2> DEFINE r == [block |-> job[w], verdict |-> verdict[w]]
  <2>1. /\ resultCh' = Append(resultCh, r) /\ UNCHANGED reported /\ w \in Busy
        /\ \A v \in Workers : v # w =>
             worker'[v] = worker[v] /\ verdict'[v] = verdict[v] /\ job'[v] = job[v]
        /\ verdict'[w] = "pass"
    BY <1>0, <1>9 DEF WorkerPut, mainVars, Busy
  <2>2. r \in Results /\ r.block = job[w] /\ r.verdict = verdict[w]
    BY <1>0, <2>1, HandFull DEF Results
  <2> HIDE DEF r
  <2>3. \A i \in DOMAIN resultCh' : \/ i \in DOMAIN resultCh /\ resultCh'[i] = resultCh[i]
                                    \/ resultCh'[i] = r
    BY <1>0, <2>1, <2>2, AppendGrows, Zenon
  <2>4. \A i \in DOMAIN resultCh' :
          resultCh'[i].verdict = "mismatch" => Stale(resultCh'[i].block, chain', made')
    BY <1>1, <1>2, <2>2, <2>3
  <2> QED
    BY <1>1, <1>2, <1>3, <2>1, <2>4
<1>10. CASE NodeStep \/ StreamStep \/ CloseResults \/ Summarise \/ UNCHANGED vars
  BY <1>4, <1>10 DEF NodeStep, NodeCommit, NodeReorg, NodeCloses, StreamStep, StreamConnect,
     StreamEnds, StreamRecv, StreamSend, CloseResults, Summarise, vars, workerVars,
     resultVars, mainVars
<1> QED
  BY <1>5, <1>6, <1>7, <1>8, <1>9, <1>10 DEF Next, WorkerStep, MainStep

-----------------------------------------------------------------------------
(* The invariant holds.                                                    *)

LEMMA IInvInit == Init => IInv
<1> SUFFICES ASSUME Init PROVE IInv
  OBVIOUS
<1>1. /\ DOMAIN batch = {} /\ DOMAIN sent = {} /\ DOMAIN wire = {} /\ DOMAIN workCh = {}
      /\ DOMAIN resultCh = {} /\ DOMAIN reported = {} /\ Len(chain) = 0 /\ Len(sent) = 0
  BY DEF Init
<1>2. /\ \A w \in Workers : worker[w] = "take" /\ verdict[w] = "pass"
      /\ Busy = {}
  BY DEF Init, Busy
<1>3. Closing /\ FlagTells
  BY <1>1, <1>2, ArgAssumption DEF Init, Closing, FlagTells
<1>4. BlocksKnown /\ StreamOrder
  BY <1>1 DEF Init, BlocksKnown, AllKnown, StreamOrder, Rising, Precedes
<1>5. OnePlace
  BY <1>1, <1>2 DEF OnePlace, Elems, BlocksOf, InHand, Distinct, DistinctBlocks
<1>6. MismatchTells
  BY <1>1, <1>2 DEF MismatchTells, AllMismatchesReplaced
<1> QED
  BY TypeInit, <1>3, <1>4, <1>5, <1>6 DEF IInv

LEMMA IInvNext == IInv /\ [Next]_vars => IInv'
BY TypeNext, ClosingNext, FlagNext, BlocksKnownNext, StreamOrderNext, OnePlaceNext, MismatchNext
DEF IInv

\* The invariant holds in every reachable state.
THEOREM Invariance == Spec => []IInv
BY IInvInit, IInvNext, PTL DEF Spec

\* Type correctness of the pipeline, its channels' capacities among it.
THEOREM TypeCorrect == Spec => []TypeOK
<1>1. IInv => TypeOK
  BY DEF IInv
<1> QED
  BY <1>1, Invariance, PTL

\* workCh and resultCh are closed after the last send on them, for any number
\* of workers and any order they finish in.
THEOREM NoPanic == Spec => []NoSendOnClosed
<1>1. IInv => NoSendOnClosed
  BY DEF IInv, Closing, NoSendOnClosed, Busy
<1> QED
  BY <1>1, Invariance, PTL

\* Whatever is between the notification of a block and its RPC answer, a
\* mismatch is reported only of a block the chain has replaced.
THEOREM NoFalseMismatch == Spec => []MismatchMeansReorg
<1>1. IInv => MismatchMeansReorg
  BY DEF IInv, MismatchTells, AllMismatchesReplaced, Replaced, MismatchMeansReorg
<1> QED
  BY <1>1, Invariance, PTL

-----------------------------------------------------------------------------
(* The pipeline implements WorkPool.                                       *)

\* Every step of the pipeline is a step of the pool or none.
LEMMA PoolStep == IInv /\ [Next]_vars => [Pool!Next]_(Pool!vars)
<1> SUFFICES ASSUME IInv, [Next]_vars PROVE Pool!Next \/ UNCHANGED Pool!vars
  OBVIOUS
<1>0. /\ TypeOK /\ Closing /\ FlagTells /\ StreamOrder /\ OnePlace
      /\ Pool!Taken = Elems(sent) /\ Pool!Reported = BlocksOf(reported)
  BY DEF IInv, Pool!Taken, Pool!Reported, Elems, BlocksOf
<1>1. CASE StreamSend
  <2>1. /\ batch[1] \in Block /\ sent' = Append(sent, batch[1])
        /\ UNCHANGED <<reported, main>> /\ main = "range" /\ stream = "send"
    BY <1>0, <1>1, SendEffect DEF StreamSend, mainVars, Running
  <2>2. batch[1] \notin Elems(sent)
    <3>1. \A i \in DOMAIN sent : sent[i].id < batch[1].id /\ batch[1].id \in Nat
      BY <1>0, <1>1, SendEffect DEF StreamOrder, Precedes, Block
    <3> QED
      BY <3>1 DEF Elems
  <2>3. Len(sent) < N
    BY <1>0, <2>1 DEF Closing
  <2> QED
    BY <1>0, <2>1, <2>2, <2>3 DEF Pool!Next, Pool!Take
<1>2. CASE Collect
  <2> DEFINE r == Head(resultCh)
  <2>1. /\ main = "range" /\ resultCh # <<>> /\ reported' = Append(reported, r)
        /\ UNCHANGED <<sent, main>>
    BY <1>2 DEF Collect, Running, streamVars
  <2>2. r \in Results
    BY <1>0, <2>1 DEF TypeOK
  <2>3. r.block \in BlocksOf(resultCh)
    BY <1>0, <2>1, BlocksTail DEF OnePlace, TypeOK
  <2>4. r.block \in Elems(sent) \ BlocksOf(reported)
    BY <1>0, <2>3 DEF OnePlace
  <2>5. /\ r.verdict \in Verdicts /\ r = [block |-> r.block, verdict |-> r.verdict]
    BY <2>2 DEF Results
  <2> HIDE DEF r
  <2> QED
    BY <1>0, <2>1, <2>4, <2>5 DEF Pool!Next, Pool!Report
<1>3. CASE Summarise
  <2>1. /\ main = "range" /\ resultClosed /\ resultCh = <<>> /\ UNCHANGED <<sent, reported>>
        /\ main' = IF failed THEN "exit1" ELSE "exit0"
    BY <1>3 DEF Summarise, Running, streamVars
  <2>2. workCh = <<>> /\ Busy = {}
    BY <1>0, <2>1, ArgAssumption DEF Closing, Busy
  <2>3. Elems(sent) = BlocksOf(reported)
    <3>1. Elems(workCh) = {} /\ BlocksOf(resultCh) = {}
      BY <2>1, <2>2 DEF Elems, BlocksOf
    <3>2. InHand = {}
      BY <2>2 DEF InHand
    <3> QED
      BY <1>0, <3>1, <3>2 DEF OnePlace
  <2>4. failed <=> ~(\A i \in DOMAIN reported : reported[i].verdict = "pass")
    BY <1>0 DEF FlagTells
  <2> QED
    BY <1>0, <2>1, <2>3, <2>4 DEF Pool!Next, Pool!Return
<1>4. CASE UNCHANGED <<sent, reported, main>>
  BY <1>4 DEF Pool!vars
<1>5. StreamSend \/ Collect \/ Summarise \/ UNCHANGED <<sent, reported, main>>
  BY DEF Next, vars, NodeStep, NodeCommit, NodeReorg, NodeCloses, StreamStep, StreamConnect,
     StreamEnds, StreamRecv, WorkerStep, WorkerTake, WorkerEnds, WorkerFetched,
     WorkerFetchFails, WorkerHangs, WorkerRetries, WorkerPut, CloseResults, MainStep,
     streamVars, mainVars
<1> QED
  BY <1>1, <1>2, <1>3, <1>4, <1>5

\* The pipeline keeps the pool's promise, for any number of workers, capacity
\* of workCh and n: no block is lost or reported twice, main returns after the
\* last, and the exit code tells of every failure.
THEOREM ImplementsPool == Spec => PoolSpec
<1>1. Init => Pool!Init
  BY DEF Init, Pool!Init
<1> QED
  BY <1>1, PoolStep, Invariance, PTL DEF Spec, PoolSpec, Pool!Spec

-----------------------------------------------------------------------------
(* What the pool's steps add up to.                                        *)

PoolTypeOK ==
  /\ sent \in Seq(Block)
  /\ reported \in Seq([block : Block, verdict : Verdicts])
  /\ main \in {"range", "exit0", "exit1"}

LEMMA PromiseInit == Pool!Init => PoolTypeOK /\ Pool!Promise
<1> SUFFICES ASSUME Pool!Init PROVE PoolTypeOK /\ Pool!Promise
  OBVIOUS
<1>1. Len(sent) = 0 /\ DOMAIN sent = {} /\ DOMAIN reported = {}
  BY DEF Pool!Init
<1>2. main = "range" /\ PoolTypeOK
  BY DEF Pool!Init, PoolTypeOK
<1> QED
  BY <1>1, <1>2, ArgAssumption DEF Pool!Promise, Pool!Reported

LEMMA PromiseNext ==
  PoolTypeOK /\ Pool!Promise /\ [Pool!Next]_(Pool!vars) => (PoolTypeOK /\ Pool!Promise)'
<1> SUFFICES ASSUME PoolTypeOK, Pool!Promise, [Pool!Next]_(Pool!vars) PROVE (PoolTypeOK /\ Pool!Promise)'
  OBVIOUS
<1>1. CASE Pool!Take
  <2>1. PICK b \in Block \ Pool!Taken : sent' = Append(sent, b)
    BY <1>1 DEF Pool!Take
  <2>2. /\ Len(sent) \in Nat /\ DOMAIN sent = 1..Len(sent)
        /\ Len(sent') = Len(sent) + 1 /\ DOMAIN sent' = 1..(Len(sent) + 1)
        /\ \A i \in 1..Len(sent) : sent'[i] = sent[i]
        /\ sent'[Len(sent) + 1] = b /\ sent' \in Seq(Block)
    BY <2>1 DEF PoolTypeOK
  <2>3. /\ Len(sent) < N /\ main' = "range" /\ main = "range"
        /\ UNCHANGED reported
    BY <1>1 DEF Pool!Take
  <2>4. \A i \in DOMAIN sent : sent[i] # b
    BY <2>1 DEF Pool!Taken
  <2>5. \A i, j \in DOMAIN sent' : i # j => sent'[i] # sent'[j]
    BY <2>2, <2>4 DEF Pool!Promise
  <2>6. Pool!Taken \subseteq Pool!Taken' /\ Pool!Reported' = Pool!Reported
    BY <2>2, <2>3 DEF Pool!Taken, Pool!Reported
  <2>7. Len(sent') <= N
    BY <2>2, <2>3, ArgAssumption
  <2> QED
    BY <2>2, <2>3, <2>5, <2>6, <2>7 DEF PoolTypeOK, Pool!Promise
<1>2. CASE Pool!Report
  <2>1. PICK b \in Pool!Taken \ Pool!Reported, v \in Verdicts :
          reported' = Append(reported, [block |-> b, verdict |-> v])
    BY <1>2 DEF Pool!Report
  <2> DEFINE r == [block |-> b, verdict |-> v]
  <2>2. b \in Block /\ r \in [block : Block, verdict : Verdicts] /\ r.block = b
    BY <2>1 DEF Pool!Taken, PoolTypeOK
  <2> HIDE DEF r
  <2>3. /\ Len(reported) \in Nat /\ DOMAIN reported = 1..Len(reported)
        /\ DOMAIN reported' = 1..(Len(reported) + 1)
        /\ \A i \in 1..Len(reported) : reported'[i] = reported[i]
        /\ reported'[Len(reported) + 1] = r
        /\ reported' \in Seq([block : Block, verdict : Verdicts])
    BY <2>1, <2>2 DEF PoolTypeOK, r
  <2>4. \A i \in DOMAIN reported : reported[i].block # b
    BY <2>1 DEF Pool!Reported
  <2>5. \A i, j \in DOMAIN reported' : i # j => reported'[i].block # reported'[j].block
    BY <2>2, <2>3, <2>4 DEF Pool!Promise
  <2>6. main' = "range" /\ UNCHANGED <<sent, main>>
    BY <1>2 DEF Pool!Report
  <2>7. Pool!Reported' \subseteq Pool!Reported \cup {b}
    BY <2>2, <2>3 DEF Pool!Reported
  <2> QED
    BY <2>1, <2>3, <2>5, <2>6, <2>7 DEF PoolTypeOK, Pool!Promise, Pool!Taken
<1>3. CASE Pool!Return
  <2>1. /\ UNCHANGED <<sent, reported, Pool!Taken, Pool!Reported>> /\ Pool!Reported = Pool!Taken
        /\ main' \in {"exit0", "exit1"}
        /\ main' = "exit0" <=> \A i \in DOMAIN reported : reported[i].verdict = "pass"
    BY <1>3 DEF Pool!Return, Pool!Taken, Pool!Reported
  <2>2. PoolTypeOK'
    BY <2>1 DEF PoolTypeOK
  <2>3. Pool!Promise'
    BY <2>1 DEF Pool!Promise
  <2> QED
    BY <2>2, <2>3
<1>4. CASE UNCHANGED Pool!vars
  <2>1. UNCHANGED <<sent, reported, main, Pool!Taken, Pool!Reported>>
    BY <1>4 DEF Pool!vars, Pool!Taken, Pool!Reported
  <2>2. PoolTypeOK'
    BY <2>1 DEF PoolTypeOK
  <2>3. Pool!Promise'
    BY <2>1 DEF Pool!Promise
  <2> QED
    BY <2>2, <2>3
<1> QED
  BY <1>1, <1>2, <1>3, <1>4 DEF Pool!Next

\* Each block sent on is reported once, and the exit code tells of them all.
THEOREM KeepsPromise == Pool!Spec => []Pool!Promise
BY PromiseInit, PromiseNext, PTL DEF Pool!Spec

\* So the report has one line for each block sent to workCh, and exit code 0
\* means that all of them passed.
THEOREM ReportComplete == Spec => []Pool!Promise
BY ImplementsPool, KeepsPromise, PTL DEF PoolSpec
=============================================================================
