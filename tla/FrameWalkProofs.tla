--------------------------- MODULE FrameWalkProofs ---------------------------
(***************************************************************************)
(* The recursion of FrameWalk, for any trees and whatever is made of them. *)
(***************************************************************************)
EXTENDS FrameWalk, WellFoundedInduction, TLAPS

\* The calls of a frame are frames, at a lower rank: trees are finite.
IsRank(rank) ==
  /\ rank \in [Node -> Nat]
  /\ \A x \in Node : \A i \in DOMAIN Calls(x) : Calls(x)[i] \in Node /\ rank[Calls(x)[i]] < rank[x]

\* A nonempty set of natural numbers has a least element.
LEMMA LeastNumber ==
  ASSUME NEW T \in SUBSET Nat, T # {}
  PROVE  \E n \in T : \A m \in T : ~(m < n)
<1> DEFINE R == OpToRel(<, Nat)
<1>1. \E n \in T : \A m \in T : ~(<<m, n>> \in R)
  <2> HIDE DEF R
  <2>1. IsWellFoundedOn(R, Nat)
    BY NatLessThanWellFounded DEF R
  <2> QED
    BY <2>1, WFMin
<1> QED
  BY <1>1 DEF OpToRel

\* Of frames that make a counterexample, one has the lowest rank.
LEMMA Lowest ==
  ASSUME NEW rank \in [Node -> Nat], NEW T \in SUBSET Node, T # {}
  PROVE  \E x \in T : \A y \in T : ~(rank[y] < rank[x])
<1> DEFINE ranks == {rank[x] : x \in T}
<1>1. ranks \in SUBSET Nat /\ ranks # {}
  OBVIOUS
<1>2. PICK n \in ranks : \A m \in ranks : ~(m < n)
  <2> HIDE DEF ranks
  <2> QED
    BY <1>1, LeastNumber
<1> QED
  BY <1>2

\* So what holds of a frame when it holds of its calls holds of all frames.
LEMMA Induction ==
  ASSUME NEW rank, IsRank(rank), NEW T \in SUBSET Node,
         \A x \in Node : (\A i \in DOMAIN Calls(x) : Calls(x)[i] \in T) => x \in T
  PROVE  T = Node
<1> SUFFICES ASSUME Node \ T # {} PROVE FALSE
  OBVIOUS
<1>1. PICK x \in Node \ T : \A y \in Node \ T : ~(rank[y] < rank[x])
  <2>1. rank \in [Node -> Nat]
    BY DEF IsRank
  <2> QED
    BY <2>1, Lowest
<1>2. \A i \in DOMAIN Calls(x) : Calls(x)[i] \in Node /\ rank[Calls(x)[i]] < rank[x]
  BY DEF IsRank
<1> QED
  BY <1>1, <1>2

\* The recursion has a solution, and Walk is one.
THEOREM WalkAt ==
  ASSUME NEW rank, IsRank(rank)
  PROVE  \A x \in Node : Walk[x] = Visit(x, [i \in DOMAIN Calls(x) |-> Walk[Calls(x)[i]]])
<1> DEFINE At(h, x) == Visit(x, [i \in DOMAIN Calls(x) |-> h[Calls(x)[i]]])
           Upto(h, n) == \A x \in Node : rank[x] <= n => h[x] = At(h, x)
           Solved(h) == h = [x \in Node |-> At(h, x)]
           Bad == {n \in Nat : ~ \E h : Upto(h, n)}
<1>1. /\ \A x \in Node : rank[x] \in Nat
      /\ \A x \in Node : \A i \in DOMAIN Calls(x) :
           Calls(x)[i] \in Node /\ rank[Calls(x)[i]] \in Nat /\ rank[Calls(x)[i]] < rank[x]
  BY DEF IsRank
<1>2. ASSUME NEW h, NEW k, NEW x \in Node, \A i \in DOMAIN Calls(x) : k[Calls(x)[i]] = h[Calls(x)[i]]
      PROVE  At(k, x) = At(h, x)
  <2>1. [i \in DOMAIN Calls(x) |-> k[Calls(x)[i]]] = [i \in DOMAIN Calls(x) |-> h[Calls(x)[i]]]
    BY <1>2
  <2> QED
    BY <2>1
<1>3. ASSUME NEW n \in Nat, NEW h, n # 0 => Upto(h, n - 1)
      PROVE  Upto([x \in Node |-> IF rank[x] = n THEN At(h, x) ELSE h[x]], n)
  <2> DEFINE k == [x \in Node |-> IF rank[x] = n THEN At(h, x) ELSE h[x]]
  <2> SUFFICES ASSUME NEW x \in Node, rank[x] <= n PROVE k[x] = At(k, x)
    OBVIOUS
  <2>1. \A i \in DOMAIN Calls(x) : k[Calls(x)[i]] = h[Calls(x)[i]]
    BY <1>1
  <2>2. At(k, x) = At(h, x)
    <3> HIDE DEF k, At
    <3> QED
      BY <1>2, <2>1
  <2>3. rank[x] # n => n # 0 /\ rank[x] <= n - 1
    BY <1>1
  <2>4. rank[x] # n => h[x] = At(h, x)
    <3> HIDE DEF At
    <3> QED
      BY <1>3, <2>3
  <2>5. k[x] = IF rank[x] = n THEN At(h, x) ELSE h[x]
    OBVIOUS
  <2> HIDE DEF k, At
  <2> QED
    BY <2>2, <2>4, <2>5
<1>4. Bad = {}
  <2> SUFFICES ASSUME Bad # {} PROVE FALSE
    OBVIOUS
  <2>1. PICK n \in Nat : n \in Bad /\ \A m \in Bad : ~(m < n)
    <3> HIDE DEF Bad
    <3>1. Bad \in SUBSET Nat
      BY DEF Bad
    <3> QED
      BY <3>1, LeastNumber
  <2> HIDE DEF Upto
  <2>2. PICK h : n # 0 => Upto(h, n - 1)
    <3>1. CASE n = 0
      BY <3>1
    <3>2. CASE n # 0
      <4>1. n - 1 \in Nat /\ n - 1 \notin Bad
        <5> HIDE DEF Bad
        <5> QED
          BY <2>1, <3>2
      <4> QED
        BY <4>1
    <3> QED
      BY <3>1, <3>2
  <2>3. \E k : Upto(k, n)
    BY <1>3, <2>2
  <2> QED
    BY <2>1, <2>3
<1>5. ASSUME NEW n \in Nat, NEW h, NEW k, Upto(h, n), Upto(k, n), NEW z \in Node, rank[z] <= n
      PROVE  h[z] = k[z]
  <2> DEFINE T == {x \in Node : rank[x] <= n /\ h[x] # k[x]}
  <2> SUFFICES ASSUME T # {} PROVE FALSE
    BY <1>5
  <2>1. PICK x \in T : \A y \in T : ~(rank[y] < rank[x])
    <3>1. rank \in [Node -> Nat] /\ T \in SUBSET Node
      BY DEF IsRank
    <3> HIDE DEF T
    <3> QED
      BY <3>1, Lowest
  <2>2. \A i \in DOMAIN Calls(x) : k[Calls(x)[i]] = h[Calls(x)[i]]
    BY <1>1, <2>1
  <2>3. x \in Node /\ h[x] = At(h, x) /\ k[x] = At(k, x)
    <3> HIDE DEF At
    <3> QED
      BY <1>5, <2>1
  <2>4. At(k, x) = At(h, x)
    <3> HIDE DEF At, T
    <3> QED
      BY <1>2, <2>2, <2>3
  <2> HIDE DEF At, Upto
  <2> QED
    BY <2>1, <2>3, <2>4
<1> DEFINE Sol(n) == CHOOSE h : Upto(h, n)
           w == [x \in Node |-> Sol(rank[x])[x]]
<1>6. \A n \in Nat : Upto(Sol(n), n)
  <2> HIDE DEF Upto
  <2> QED
    BY <1>4
<1>7. ASSUME NEW x \in Node PROVE w[x] = At(w, x)
  <2> DEFINE h == Sol(rank[x])
  <2>1. h[x] = At(h, x)
    <3> HIDE DEF Sol, At
    <3> QED
      BY <1>1, <1>6
  <2>2. ASSUME NEW i \in DOMAIN Calls(x) PROVE w[Calls(x)[i]] = h[Calls(x)[i]]
    <3> DEFINE c == Calls(x)[i]
    <3>1. c \in Node /\ rank[c] \in Nat /\ rank[x] \in Nat /\ rank[c] <= rank[x]
      BY <1>1
    <3>2. Upto(Sol(rank[c]), rank[c]) /\ Upto(h, rank[x])
      <4> HIDE DEF Upto, Sol, c
      <4> QED
        BY <1>6, <3>1
    <3>3. Upto(h, rank[c])
      <4> HIDE DEF Sol, At, c, h
      <4> QED
        BY <1>1, <3>1, <3>2
    <3>4. Sol(rank[c])[c] = h[c]
      <4> HIDE DEF Upto, Sol, c, h
      <4> QED
        BY <1>5, <3>1, <3>2, <3>3
    <3>5. w[c] = Sol(rank[c])[c]
      <4> HIDE DEF Sol, c
      <4> QED
        BY <3>1
    <3> QED
      BY <3>4, <3>5
  <2>3. At(w, x) = At(h, x)
    <3> HIDE DEF At, w, h
    <3> QED
      BY <1>2, <2>2
  <2>4. w[x] = h[x]
    <3> HIDE DEF Sol
    <3> QED
      OBVIOUS
  <2> HIDE DEF At, w, h
  <2> QED
    BY <2>1, <2>3, <2>4
<1>8. Solved(w)
  <2>1. w = [x \in Node |-> w[x]]
    <3> HIDE DEF Sol
    <3> QED
      OBVIOUS
  <2> HIDE DEF At, w
  <2> QED
    BY <1>7, <2>1
<1>9. Walk = CHOOSE h : Solved(h)
  BY DEF Walk
<1>10. Solved(Walk)
  <2> HIDE DEF Solved, w
  <2> QED
    BY <1>8, <1>9
<1> QED
  BY <1>10
=============================================================================
