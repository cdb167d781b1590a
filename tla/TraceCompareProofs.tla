-------------------------- MODULE TraceCompareProofs --------------------------
(***************************************************************************)
(* Theorems about TraceCompare, for call frames of any depth and any block *)
(* on either side.                                                         *)
(***************************************************************************)
EXTENDS TraceCompare, SequenceTheorems, FiniteSetTheorems, TLAPS

-----------------------------------------------------------------------------
(* What is made of a frame, from what is made of its calls.                *)

ConvertLaws == INSTANCE FrameWalkProofs WITH Node <- Frames, Calls <- CallsOf, Visit <- frame_to_proto
AnswerLaws == INSTANCE FrameWalkProofs WITH Node <- Frames, Calls <- CallsOf, Visit <- rpcFrame
CanonicalLaws == INSTANCE FrameWalkProofs WITH Node <- Frames, Calls <- CallsOf, Visit <- PlainFrame
SizeLaws == INSTANCE FrameWalkProofs WITH Node <- Frames, Calls <- CallsOf, Visit <- SizeWith

\* The calls of a frame are frames, less deep than it.
LEMMA FrameCalls ==
  ASSUME NEW f \in Frames
  PROVE  /\ f \in TracerFrame
         /\ f.calls \in Seq(Frames) /\ Len(f.calls) \in Nat /\ DOMAIN f.calls = 1..Len(f.calls)
         /\ \A i \in 1..Len(f.calls) : f.calls[i] \in Frames /\ Depth[f.calls[i]] < Depth[f]
<1>1. f \in TracerFrame /\ f.calls \in Seq(Frames)
  BY FrameAssumption DEF TracerFrame
<1> QED
  BY <1>1, FrameAssumption, LenProperties, ElementOfSeq

\* The four walks over frames, each as its body.
LEMMA ConvertAt ==
  ASSUME NEW f \in Frames
  PROVE  call_frame_to_proto(f) = frame_to_proto(f, [i \in DOMAIN f.calls |-> call_frame_to_proto(f.calls[i])])
<1>1. ConvertLaws!IsRank(Depth)
  BY FrameCalls, FrameAssumption DEF ConvertLaws!IsRank, CallsOf
<1>2. ConvertLaws!Walk[f] = frame_to_proto(f, [i \in DOMAIN CallsOf(f) |-> ConvertLaws!Walk[CallsOf(f)[i]]])
  BY <1>1, ConvertLaws!WalkAt
<1> QED
  BY <1>2 DEF call_frame_to_proto, CallsOf, Convert!Walk, ConvertLaws!Walk

LEMMA AnswerAt ==
  ASSUME NEW f \in Frames
  PROVE  rpcCallFrame(f) = rpcFrame(f, [i \in DOMAIN f.calls |-> rpcCallFrame(f.calls[i])])
<1>1. AnswerLaws!IsRank(Depth)
  BY FrameCalls, FrameAssumption DEF AnswerLaws!IsRank, CallsOf
<1>2. AnswerLaws!Walk[f] = rpcFrame(f, [i \in DOMAIN CallsOf(f) |-> AnswerLaws!Walk[CallsOf(f)[i]]])
  BY <1>1, AnswerLaws!WalkAt
<1> QED
  BY <1>2 DEF rpcCallFrame, CallsOf, Answer!Walk, AnswerLaws!Walk

LEMMA CanonicalAt ==
  ASSUME NEW f \in Frames
  PROVE  Canonical!Walk[f] = PlainFrame(f, [i \in DOMAIN f.calls |-> Canonical!Walk[f.calls[i]]])
<1>1. CanonicalLaws!IsRank(Depth)
  BY FrameCalls, FrameAssumption DEF CanonicalLaws!IsRank, CallsOf
<1>2. CanonicalLaws!Walk[f] = PlainFrame(f, [i \in DOMAIN CallsOf(f) |-> CanonicalLaws!Walk[CallsOf(f)[i]]])
  BY <1>1, CanonicalLaws!WalkAt
<1> QED
  BY <1>2 DEF CallsOf, Canonical!Walk, CanonicalLaws!Walk

LEMMA SizeAt ==
  ASSUME NEW f \in Frames
  PROVE  Size!Walk[f] = SizeWith(f, [i \in DOMAIN f.calls |-> Size!Walk[f.calls[i]]])
<1>1. SizeLaws!IsRank(Depth)
  BY FrameCalls, FrameAssumption DEF SizeLaws!IsRank, CallsOf
<1>2. SizeLaws!Walk[f] = SizeWith(f, [i \in DOMAIN CallsOf(f) |-> SizeLaws!Walk[CallsOf(f)[i]]])
  BY <1>1, SizeLaws!WalkAt
<1> QED
  BY <1>2 DEF CallsOf, Size!Walk, SizeLaws!Walk

-----------------------------------------------------------------------------
(* The encodings of single fields: when the two normal forms are equal.    *)

\* An option has at most one value.
LEMMA OptionValue ==
  ASSUME NEW S, NEW o \in Option(S), o # <<>>
  PROVE  o[1] \in S /\ o = <<o[1]>>
<1>1. o \in Seq(S) /\ Len(o) \in Nat /\ Len(o) <= 1 /\ Len(o) # 0
  BY LenProperties, EmptySeq DEF Option
<1>2. \A n \in Nat : n <= 1 /\ n # 0 => n = 1
  OBVIOUS
<1>3. Len(o) = 1
  BY <1>1, <1>2, Zenon
<1>4. o[1] \in S
  BY <1>1, <1>3, ElementOfSeq
<1> QED
  BY <1>1, <1>3, <1>4, SeqEqual

\* The prefix can be taken off again.
LEMMA HexIs ==
  ASSUME NEW S, NEW b \in Seq(S)
  PROVE  /\ Len(Hex(b)) = Len(b) + 1
         /\ Tail(Hex(b)) = b
         /\ Hex(b) # <<>>
         /\ Hex(b) = <<"0x">> <=> b = <<>>
         /\ \A c \in Seq(S) : Hex(b) = Hex(c) <=> b = c
<1> DEFINE T == S \cup {"0x"}
<1>1. b \in Seq(T) /\ <<"0x">> \in Seq(T) /\ Len(b) \in Nat
  <2>1. b \in Seq(T)
    BY SeqMonotonic
  <2>2. Len(b) \in Nat
    BY LenProperties
  <2>3. <<"0x">> \in Seq(T)
    OBVIOUS
  <2> QED
    BY <2>1, <2>2, <2>3
<1>2. /\ Hex(b) \in Seq(T)
      /\ Len(Hex(b)) = Len(b) + 1
      /\ \A i \in 1..Len(b) : Hex(b)[i + 1] = b[i]
  <2> HIDE DEF T
  <2> QED
    BY <1>1, ConcatProperties DEF Hex
<1>3. Hex(b) # <<>>
  BY <1>1, <1>2
<1>4. Tail(Hex(b)) = b
  <2>1. /\ Tail(Hex(b)) \in Seq(T)
        /\ Len(Tail(Hex(b))) = Len(b)
        /\ \A i \in 1..Len(b) : Tail(Hex(b))[i] = b[i]
    BY <1>1, <1>2, <1>3, HeadTailProperties
  <2> QED
    BY <1>1, <2>1, SeqEqual
<1>5. Hex(b) = <<"0x">> <=> b = <<>>
  <2>1. Hex(b) = <<"0x">> => Len(b) = 0
    BY <1>1, <1>2
  <2>2. Hex(<<>>) = <<"0x">>
    BY <1>1, ConcatEmptySeq DEF Hex
  <2> QED
    BY <2>1, <2>2, EmptySeq
<1>6. ASSUME NEW c \in Seq(S), Hex(b) = Hex(c) PROVE b = c
  <2>1. c \in Seq(T)
    BY SeqMonotonic
  <2> HIDE DEF T
  <2> QED
    BY <1>1, <1>6, <2>1, ConcatSimplifications DEF Hex
<1> QED
  BY <1>2, <1>3, <1>4, <1>5, <1>6

\* Lists of bytes, of which an absent and an empty one agree.
LEMMA BytesAgree ==
  ASSUME NEW S, NEW b \in Seq(S), NEW c \in Seq(S)
  PROVE  normalizeBytes(b) = normalizeHexStr(Hex(c)) <=> b = c
<1>1. normalizeBytes(b) = IF b = <<>> THEN <<>> ELSE Hex(b)
  BY DEF normalizeBytes
<1>2. normalizeHexStr(Hex(c)) = IF c = <<>> THEN <<>> ELSE Hex(c)
  BY HexIs DEF normalizeHexStr
<1>3. Hex(b) # <<>> /\ Hex(c) # <<>> /\ (Hex(b) = Hex(c) <=> b = c)
  BY HexIs
<1> QED
  BY <1>1, <1>2, <1>3

\* An absent string stays absent.
LEMMA NoHexStr == normalizeHexStr(<<>>) = <<>>
BY DEF normalizeHexStr

\* An option up to what stands for its absence.
LEMMA PlainAgrees ==
  ASSUME NEW S, NEW o \in Option(S), NEW p \in Option(S), NEW e
  PROVE  OrDefault(o, Id, e) = OrDefault(p, Id, e) <=> Plain(o, e) = Plain(p, e)
<1>1. (o # <<>> => o = <<o[1]>>) /\ (p # <<>> => p = <<p[1]>>)
  BY OptionValue
<1>2. ASSUME NEW q, q = <<>> \/ q = <<q[1]>>
      PROVE  Plain(q, e) = IF q = <<>> \/ q[1] = e THEN <<>> ELSE q
  <2>1. \A x : <<x>> # <<>> /\ (<<x>> = <<e>> <=> x = e)
    OBVIOUS
  <2>2. CASE q = <<>>
    BY <2>1, <2>2 DEF Plain, Some, None
  <2>3. CASE q = <<q[1]>>
    <3>1. q # <<>> /\ (q = <<e>> <=> q[1] = e)
      BY <2>1, <2>3, Zenon
    <3> QED
      BY <3>1 DEF Plain, Some, None
  <2> QED
    BY <1>2, <2>2, <2>3
<1>3. o # <<>> /\ p # <<>> => (o = p <=> o[1] = p[1])
  BY <1>1
<1>4. (IF o = <<>> THEN e ELSE o[1]) = (IF p = <<>> THEN e ELSE p[1]) <=> Plain(o, e) = Plain(p, e)
  BY <1>1, <1>2, <1>3
<1> QED
  BY <1>4 DEF OrDefault, IsSome, Id, None

LEMMA OptBytesAgree ==
  ASSUME NEW S, NEW o \in Option(Seq(S)), NEW p \in Option(Seq(S))
  PROVE  normalizeBytes(OrDefault(o, Id, <<>>)) = normalizeHexStr(OrDefault(p, Hex, <<>>))
         <=> Plain(o, <<>>) = Plain(p, <<>>)
<1> DEFINE b == OrDefault(o, Id, <<>>)
           c == OrDefault(p, Id, <<>>)
<1>1. b \in Seq(S) /\ c \in Seq(S)
  BY OptionValue, EmptySeq DEF OrDefault, IsSome, Id, None
<1>2. normalizeHexStr(OrDefault(p, Hex, <<>>)) = normalizeHexStr(Hex(c))
  <2>1. CASE p = <<>>
    <3>1. c = <<>> /\ OrDefault(p, Hex, <<>>) = <<>>
      BY <2>1 DEF OrDefault, IsSome, None
    <3>2. normalizeHexStr(Hex(<<>>)) = <<>>
      BY <1>1, <3>1, HexIs DEF normalizeHexStr
    <3> QED
      BY <3>1, <3>2, NoHexStr
  <2>2. CASE p # <<>>
    BY <2>2 DEF OrDefault, IsSome, Id, None
  <2> QED
    BY <2>1, <2>2
<1>3. normalizeBytes(b) = normalizeHexStr(Hex(c)) <=> b = c
  <2> HIDE DEF b, c
  <2> QED
    BY <1>1, BytesAgree
<1>4. b = c <=> Plain(o, <<>>) = Plain(p, <<>>)
  BY PlainAgrees
<1> HIDE DEF c
<1> QED
  BY <1>2, <1>3, <1>4

\* Addresses, and addresses that may be absent.
LEMMA AddressAgrees ==
  ASSUME NEW a \in Nat, NEW b \in Nat
  PROVE  normalizeBytes(addr_to_bytes(a)) = normalizeHexStr(JsonAddress(b)) <=> a = b
<1>1. <<a>> \in Seq(Nat) /\ <<b>> \in Seq(Nat) /\ (<<a>> = <<b>> <=> a = b)
  OBVIOUS
<1>2. normalizeBytes(<<a>>) = normalizeHexStr(Hex(<<b>>)) <=> <<a>> = <<b>>
  BY <1>1, BytesAgree
<1> QED
  BY <1>1, <1>2 DEF addr_to_bytes, JsonAddress

LEMMA OptAddressAgrees ==
  ASSUME NEW o \in Option(Nat), NEW p \in Option(Nat)
  PROVE  normalizeBytes(OrDefault(o, addr_to_bytes, <<>>)) = normalizeHexStr(OrDefault(p, JsonAddress, <<>>))
         <=> o = p
<1> DEFINE n == normalizeBytes(IF o = <<>> THEN <<>> ELSE addr_to_bytes(o[1]))
           m == normalizeHexStr(IF p = <<>> THEN <<>> ELSE JsonAddress(p[1]))
<1>1. (o # <<>> => o[1] \in Nat) /\ (p # <<>> => p[1] \in Nat)
  BY OptionValue
<1>2. o # <<>> /\ p # <<>> => (o = p <=> o[1] = p[1])
  BY OptionValue
<1>3. normalizeBytes(<<>>) = <<>>
  BY DEF normalizeBytes
<1>4. \A a \in Nat : normalizeBytes(addr_to_bytes(a)) # <<>> /\ normalizeHexStr(JsonAddress(a)) # <<>>
  <2>1. \A a \in Nat : <<a>> \in Seq(Nat) /\ <<a>> # <<>>
    OBVIOUS
  <2> QED
    BY <2>1, HexIs DEF normalizeBytes, normalizeHexStr, addr_to_bytes, JsonAddress
<1>5. \A a, b \in Nat : normalizeBytes(addr_to_bytes(a)) = normalizeHexStr(JsonAddress(b)) <=> a = b
  BY AddressAgrees
<1>6. n = m <=> o = p
  BY <1>1, <1>2, <1>3, <1>4, <1>5, NoHexStr
<1> QED
  BY <1>6 DEF OrDefault, IsSome, None

-----------------------------------------------------------------------------
(* Numbers.  Both sides end at the digits without leading zeros, of which  *)
(* zero keeps one.                                                         *)

\* k is where the leading zeros of b end.
Leads(b, k) ==
  /\ k \in 1..Len(b)
  /\ \A j \in 1..(k - 1) : b[j] = 0
  /\ k = Len(b) \/ b[k] # 0

\* There is such a place in any nonempty number.
LEMMA LeadExists ==
  ASSUME NEW b \in Digits, b # <<>>
  PROVE  \E k : Leads(b, k)
<1>1. Len(b) \in Nat /\ Len(b) # 0
  BY LenProperties, EmptySeq DEF Digits
<1> DEFINE T == {i \in 1..Len(b) : i = Len(b) \/ b[i] # 0}
<1>2. T \in SUBSET Nat /\ T # {}
  <2>1. Len(b) \in T
    BY <1>1
  <2> QED
    BY <1>1, <2>1
<1>3. PICK k \in T : \A i \in T : ~(i < k)
  <2> HIDE DEF T
  <2> QED
    BY <1>2, ConvertLaws!LeastNumber
<1> QED
  BY <1>1, <1>3 DEF Leads

\* It is where the minimal form begins.
LEMMA MinimalIs ==
  ASSUME NEW b \in Digits, NEW k, Leads(b, k)
  PROVE  /\ Minimal(b) = SubSeq(b, k, Len(b))
         /\ Minimal(b) \in Digits
         /\ Len(Minimal(b)) = Len(b) - k + 1
         /\ \A i \in 1..(Len(b) - k + 1) : Minimal(b)[i] = b[k + i - 1]
<1>1. Len(b) \in Nat /\ DOMAIN b = 1..Len(b) /\ \A i \in 1..Len(b) : b[i] \in 0..(Base - 1)
  BY LenProperties, ElementOfSeq DEF Digits
<1> DEFINE T == {i \in DOMAIN b : \A j \in 1..(i - 1) : b[j] = 0}
<1>2. k \in T /\ \A i \in T : k >= i
  <2>1. k \in 1..Len(b) /\ (\A j \in 1..(k - 1) : b[j] = 0) /\ (k = Len(b) \/ b[k] # 0)
    BY DEF Leads
  <2>2. k \in T
    BY <1>1, <2>1
  <2>3. ASSUME NEW i \in T, ~(k >= i) PROVE FALSE
    <3>1. i \in 1..Len(b) /\ \A j \in 1..(i - 1) : b[j] = 0
      BY <1>1
    <3>2. k \in 1..(i - 1) /\ k # Len(b)
      <4>1. k \in 1..Len(b) /\ i \in 1..Len(b) /\ Len(b) \in Nat /\ ~(k >= i)
        BY <1>1, <2>1, <2>3, <3>1
      <4> QED
        BY <4>1
    <3> QED
      BY <2>1, <3>1, <3>2
  <2> QED
    BY <2>2, <2>3
<1>3. Max(T) = k
  <2>1. Max(T) = CHOOSE x \in T : \A y \in T : x >= y
    BY DEF Max
  <2>2. T \subseteq Int
    BY <1>1
  <2>3. \A x, y \in Int : x >= y /\ y >= x => x = y
    OBVIOUS
  <2> HIDE DEF T
  <2> QED
    BY <1>2, <2>1, <2>2, <2>3
<1>4. Minimal(b) = SubSeq(b, k, Len(b))
  BY <1>3 DEF Minimal
<1>5. k \in 1..Len(b)
  BY DEF Leads
<1>6. \A i \in k..Len(b) : b[i] \in 0..(Base - 1)
  BY <1>1, <1>5
<1>7. /\ SubSeq(b, k, Len(b)) \in Seq(0..(Base - 1))
      /\ Len(SubSeq(b, k, Len(b))) = IF k <= Len(b) THEN Len(b) - k + 1 ELSE 0
      /\ \A i \in 1..(Len(b) - k + 1) : SubSeq(b, k, Len(b))[i] = b[k + i - 1]
  <2>1. k \in Int /\ Len(b) \in Int
    BY <1>1, <1>5
  <2> QED
    BY <1>6, <2>1, SubSeqProperties
<1> QED
  BY <1>1, <1>4, <1>5, <1>7 DEF Digits

\* Trimming zeros, and keeping one digit of zero, gives the minimal form.
LEMMA TrimIs ==
  ASSUME NEW b \in Digits, b # <<>>
  PROVE  (IF TrimZeros(b) = <<>> THEN <<0>> ELSE TrimZeros(b)) = Minimal(b)
<1>1. PICK k : Leads(b, k)
  BY LeadExists
<1>2. Len(b) \in Nat /\ \A i \in 1..Len(b) : b[i] \in 0..(Base - 1)
  BY LenProperties, ElementOfSeq DEF Digits
<1> DEFINE I == {i \in 1..Len(b) : b[i] # 0}
<1>3. TrimZeros(b) = IF (IF I # {} THEN Min(I) ELSE 0) = 0 THEN <<>>
                     ELSE SubSeq(b, IF I # {} THEN Min(I) ELSE 0, Len(b))
  BY DEF TrimZeros, SelectInSeq
<1>4. CASE b[k] = 0
  <2>1. k = Len(b) /\ I = {}
    BY <1>1, <1>2, <1>4 DEF Leads
  <2>2. TrimZeros(b) = <<>>
    BY <1>3, <2>1
  <2>3. Minimal(b) \in Seq(0..(Base - 1)) /\ Len(Minimal(b)) = 1 /\ Minimal(b)[1] = 0
    <3>1. /\ Minimal(b) \in Digits
          /\ Len(Minimal(b)) = Len(b) - k + 1
          /\ \A i \in 1..(Len(b) - k + 1) : Minimal(b)[i] = b[k + i - 1]
      BY <1>1, MinimalIs
    <3> QED
      BY <1>2, <1>4, <2>1, <3>1 DEF Digits
  <2>4. Minimal(b) = <<0>>
    <3>1. <<0>> \in Seq(0..(Base - 1)) /\ Len(<<0>>) = 1 /\ <<0>>[1] = 0
      BY DEF Base
    <3> QED
      BY <2>3, <3>1, SeqEqual
  <2> QED
    BY <2>2, <2>4
<1>5. CASE b[k] # 0
  <2>1. k \in I /\ \A i \in I : k =< i
    BY <1>1, <1>2, <1>5 DEF Leads
  <2>2. Min(I) = k
    <3>1. Min(I) = CHOOSE x \in I : \A y \in I : x =< y
      BY DEF Min
    <3>2. I \subseteq Int
      BY <1>2
    <3>3. \A x, y \in Int : x =< y /\ y =< x => x = y
      OBVIOUS
    <3> HIDE DEF I
    <3> QED
      BY <2>1, <3>1, <3>2, <3>3
  <2>3. TrimZeros(b) = SubSeq(b, k, Len(b))
    <3>1. k # 0 /\ I # {}
      BY <1>1, <1>2, <2>1
    <3> HIDE DEF I
    <3> QED
      BY <1>3, <2>2, <3>1
  <2>4. Minimal(b) = SubSeq(b, k, Len(b)) /\ Len(Minimal(b)) = Len(b) - k + 1
    BY <1>1, MinimalIs
  <2>5. Minimal(b) # <<>>
    <3>1. k \in 1..Len(b)
      BY <1>1 DEF Leads
    <3>2. Len(Minimal(b)) # 0
      BY <1>2, <2>4, <3>1
    <3> QED
      BY <3>2, EmptySeq
  <2> QED
    BY <2>3, <2>4, <2>5
<1> QED
  BY <1>4, <1>5

\* What has no leading zeros is left as it is.
LEMMA MinimalTwice ==
  ASSUME NEW b \in Digits, b # <<>>
  PROVE  Minimal(b) \in Digits /\ Minimal(b) # <<>> /\ Minimal(Minimal(b)) = Minimal(b)
<1>1. PICK k : Leads(b, k)
  BY LeadExists
<1>2. Len(b) \in Nat
  BY LenProperties DEF Digits
<1>3. /\ Minimal(b) \in Digits
      /\ Len(Minimal(b)) = Len(b) - k + 1
      /\ \A i \in 1..(Len(b) - k + 1) : Minimal(b)[i] = b[k + i - 1]
  BY <1>1, MinimalIs
<1>4. Leads(Minimal(b), 1)
  BY <1>1, <1>2, <1>3 DEF Leads
<1>5. Minimal(Minimal(b)) = SubSeq(Minimal(b), 1, Len(Minimal(b)))
  BY <1>3, <1>4, MinimalIs
<1>6. SubSeq(Minimal(b), 1, Len(Minimal(b))) = Minimal(b)
  BY <1>3, SubSeqFull DEF Digits
<1>7. Minimal(b) # <<>>
  BY <1>1, <1>2, <1>3, EmptySeq DEF Leads
<1> QED
  BY <1>3, <1>5, <1>6, <1>7

\* Numbers of one width with the same minimal form are equal.
LEMMA MinimalSame ==
  ASSUME NEW b \in Digits, NEW c \in Digits, b # <<>>, c # <<>>, Len(b) = Len(c),
         Minimal(b) = Minimal(c)
  PROVE  b = c
<1>1. PICK k : Leads(b, k)
  BY LeadExists
<1>2. PICK l : Leads(c, l)
  BY LeadExists
<1>3. Len(b) \in Nat
  BY LenProperties DEF Digits
<1>4. /\ Len(Minimal(b)) = Len(b) - k + 1
      /\ \A i \in 1..(Len(b) - k + 1) : Minimal(b)[i] = b[k + i - 1]
  BY <1>1, MinimalIs
<1>5. /\ Len(Minimal(b)) = Len(b) - l + 1
      /\ \A i \in 1..(Len(b) - l + 1) : Minimal(b)[i] = c[l + i - 1]
  BY <1>2, MinimalIs
<1>6. k \in 1..Len(b) /\ l = k
  BY <1>1, <1>2, <1>3, <1>4, <1>5 DEF Leads
<1>7. \A i \in 1..Len(b) : b[i] = c[i]
  <2> TAKE i \in 1..Len(b)
  <2>1. CASE i < k
    BY <1>1, <1>2, <1>3, <1>6, <2>1 DEF Leads
  <2>2. CASE i >= k
    <3>1. i - k + 1 \in 1..(Len(b) - k + 1) /\ k + (i - k + 1) - 1 = i
      BY <1>3, <1>6, <2>2
    <3> QED
      BY <1>4, <1>5, <1>6, <3>1
  <2> QED
    BY <1>3, <1>6, <2>1, <2>2
<1> QED
  BY <1>7, SeqEqual DEF Digits

\* A word is its digits.
LEMMA WordDigits ==
  ASSUME NEW v \in Words
  PROVE  /\ u256_to_bytes(v) \in Digits /\ u256_to_bytes(v) # <<>> /\ Len(u256_to_bytes(v)) = 3
         /\ \A w \in Words : u256_to_bytes(v) = u256_to_bytes(w) => v = w
<1>1. Words = 0..63
  <2>1. 4^3 = 64
    OBVIOUS
  <2> QED
    BY <2>1 DEF Words, Base
<1>2. ASSUME NEW w \in Words
      PROVE  /\ DOMAIN u256_to_bytes(w) = 1..3
             /\ u256_to_bytes(w)[1] = (w \div 16) % 4
             /\ u256_to_bytes(w)[2] = (w \div 4) % 4
             /\ u256_to_bytes(w)[3] = w % 4
             /\ u256_to_bytes(w) \in [1..3 -> 0..3]
  <2>1. u256_to_bytes(w) = [i \in 1..3 |-> (w \div 4^(3 - i)) % 4]
    BY DEF u256_to_bytes, ToBytes, Base
  <2>2. 4^(3 - 1) = 16 /\ 4^(3 - 2) = 4 /\ 4^(3 - 3) = 1
    <3>1. 4^2 = 16 /\ 4^1 = 4 /\ 4^0 = 1
      OBVIOUS
    <3>2. 3 - 1 = 2 /\ 3 - 2 = 1 /\ 3 - 3 = 0
      OBVIOUS
    <3> QED
      BY <3>1, <3>2
  <2>3. w \in 0..63 /\ w \div 1 = w
    BY <1>1
  <2>4. \A u \in Nat : u % 4 \in 0..3
    OBVIOUS
  <2>5. w \div 16 \in Nat /\ w \div 4 \in Nat /\ w \in Nat
    BY <2>3
  <2>6. /\ u256_to_bytes(w)[1] = (w \div 16) % 4
        /\ u256_to_bytes(w)[2] = (w \div 4) % 4
        /\ u256_to_bytes(w)[3] = w % 4
    <3>1. 1 \in 1..3 /\ 2 \in 1..3 /\ 3 \in 1..3
      OBVIOUS
    <3> QED
      BY <2>1, <2>2, <2>3, <3>1, Zenon
  <2>7. \A i \in 1..3 : i = 1 \/ i = 2 \/ i = 3
    OBVIOUS
  <2>8. \A i \in 1..3 : u256_to_bytes(w)[i] \in 0..3
    BY <2>4, <2>5, <2>6, <2>7
  <2> QED
    BY <2>1, <2>6, <2>8
<1>3. ASSUME NEW w \in Words
      PROVE  u256_to_bytes(w) \in Digits /\ Len(u256_to_bytes(w)) = 3
  <2>1. u256_to_bytes(w) \in [1..3 -> 0..3]
    BY <1>2
  <2>2. u256_to_bytes(w) \in Seq(0..3)
    <3>1. 3 \in Nat
      OBVIOUS
    <3> QED
      BY <2>1, <3>1, SeqDef, Zenon
  <2> QED
    BY <2>1, <2>2, LenProperties DEF Digits, Base
<1>4. ASSUME NEW w \in Words, u256_to_bytes(v) = u256_to_bytes(w) PROVE v = w
  <2>1. /\ (v \div 16) % 4 = (w \div 16) % 4
        /\ (v \div 4) % 4 = (w \div 4) % 4
        /\ v % 4 = w % 4
    BY <1>2, <1>4
  <2> QED
    BY <1>1, <2>1
<1> QED
  BY <1>3, <1>4, EmptySeq

\* Both sides normalise a number to its minimal form.
LEMMA NormalWord ==
  ASSUME NEW v \in Words
  PROVE  /\ normalizeU256grpc(u256_to_bytes(v)) = Hex(Minimal(u256_to_bytes(v)))
         /\ normalizeU256rpc(JsonQuantity(v)) = Hex(Minimal(u256_to_bytes(v)))
         /\ JsonQuantity(v) # <<>>
<1> DEFINE b == u256_to_bytes(v)
           m == Minimal(b)
<1>1. b \in Digits /\ b # <<>>
  BY WordDigits
<1> HIDE DEF b
<1>2. m \in Digits /\ m # <<>> /\ Minimal(m) = m
  BY <1>1, MinimalTwice
<1> HIDE DEF m
<1>3. normalizeU256grpc(b) = Hex(Minimal(b))
  BY <1>1, TrimIs DEF normalizeU256grpc
<1>4. Tail(Hex(m)) = m /\ Hex(m) # <<>>
  BY <1>2, HexIs DEF Digits
<1>5. normalizeU256rpc(Hex(m)) = Hex(Minimal(m))
  <2>1. (IF TrimZeros(m) = <<>> THEN <<0>> ELSE TrimZeros(m)) = Minimal(m)
    BY <1>2, TrimIs
  <2> QED
    BY <1>4, <2>1 DEF normalizeU256rpc
<1> QED
  BY <1>2, <1>3, <1>4, <1>5 DEF b, m, JsonQuantity

\* So two numbers agree exactly when they are equal.
LEMMA WordAgrees ==
  ASSUME NEW v \in Words, NEW w \in Words
  PROVE  normalizeU256grpc(u256_to_bytes(v)) = normalizeU256rpc(JsonQuantity(w)) <=> v = w
<1>1. u256_to_bytes(v) \in Digits /\ u256_to_bytes(v) # <<>> /\ Len(u256_to_bytes(v)) = 3
  BY WordDigits
<1>2. u256_to_bytes(w) \in Digits /\ u256_to_bytes(w) # <<>> /\ Len(u256_to_bytes(w)) = 3
  BY WordDigits
<1>3. ASSUME Hex(Minimal(u256_to_bytes(v))) = Hex(Minimal(u256_to_bytes(w))) PROVE v = w
  <2>1. Minimal(u256_to_bytes(v)) = Minimal(u256_to_bytes(w))
    <3>1. Minimal(u256_to_bytes(v)) \in Digits /\ Minimal(u256_to_bytes(w)) \in Digits
      BY <1>1, <1>2, MinimalTwice
    <3> QED
      BY <1>3, <3>1, HexIs DEF Digits
  <2>2. u256_to_bytes(v) = u256_to_bytes(w)
    BY <1>1, <1>2, <2>1, MinimalSame
  <2> QED
    BY <2>2, WordDigits
<1> QED
  BY <1>3, NormalWord

\* An absent number and zero differ on both sides.
LEMMA OptWordAgrees ==
  ASSUME NEW o \in Option(Words), NEW p \in Option(Words)
  PROVE  normalizeU256grpc(value_to_bytes(o)) = normalizeU256rpc(OrDefault(p, JsonQuantity, <<>>))
         <=> o = p
<1> DEFINE n == normalizeU256grpc(IF o = <<>> THEN <<>> ELSE u256_to_bytes(o[1]))
           m == normalizeU256rpc(IF p = <<>> THEN <<>> ELSE JsonQuantity(p[1]))
<1>1. (o # <<>> => o[1] \in Words) /\ (p # <<>> => p[1] \in Words)
  BY OptionValue
<1>2. o # <<>> /\ p # <<>> => (o = p <=> o[1] = p[1])
  BY OptionValue
<1>3. normalizeU256grpc(<<>>) = <<>> /\ normalizeU256rpc(<<>>) = <<>>
  BY DEF normalizeU256grpc, normalizeU256rpc
<1>4. \A w \in Words : normalizeU256grpc(u256_to_bytes(w)) # <<>> /\ normalizeU256rpc(JsonQuantity(w)) # <<>>
  <2>1. \A w \in Words : Minimal(u256_to_bytes(w)) \in Digits
    BY WordDigits, MinimalTwice
  <2>2. \A w \in Words : Hex(Minimal(u256_to_bytes(w))) # <<>>
    BY <2>1, HexIs DEF Digits
  <2> QED
    BY <2>2, NormalWord
<1>5. \A v, w \in Words : normalizeU256grpc(u256_to_bytes(v)) = normalizeU256rpc(JsonQuantity(w)) <=> v = w
  BY WordAgrees
<1>6. n = m <=> o = p
  BY <1>1, <1>2, <1>3, <1>4, <1>5
<1> QED
  BY <1>6 DEF value_to_bytes, OrDefault, IsSome, None

\* A flag and a value against a pointer.
LEMMA OptNatAgrees ==
  ASSUME NEW o \in Option(Nat), NEW p \in Option(Nat)
  PROVE  (IF IsSome(o) THEN Some(OrDefault(o, Id, 0)) ELSE None) = p <=> o = p
BY OptionValue DEF OrDefault, IsSome, Id, Some, None

-----------------------------------------------------------------------------
(* Lists and logs.                                                         *)

\* A check finds nothing exactly when the values are equal.
LEMMA NoneChecked ==
  ASSUME NEW field, NEW g, NEW r
  PROVE  check(field, g, r) = {} <=> g = r
BY DEF check

\* A pair of lists has no mismatch exactly when the lengths agree and no element has one.
LEMMA NoneInEach ==
  ASSUME NEW field, NEW gs, NEW rs, NEW found
  PROVE  each(field, gs, rs, found) = {} <=> Len(gs) = Len(rs) /\ \A i \in DOMAIN gs : found[i] = {}
<1> DEFINE paths(i) == {<<field, i>> \o path : path \in found[i]}
<1>1. \A i : paths(i) = {} <=> found[i] = {}
  OBVIOUS
<1> HIDE DEF paths
<1>2. UNION {paths(i) : i \in DOMAIN gs} = {} <=> \A i \in DOMAIN gs : paths(i) = {}
  OBVIOUS
<1>3. each(field, gs, rs, found) = IF Len(gs) # Len(rs) THEN {<<field>>} ELSE UNION {paths(i) : i \in DOMAIN gs}
  BY DEF each, paths
<1> QED
  BY <1>1, <1>2, <1>3

\* Topics agree exactly when the lists are equal.
LEMMA TopicsAgree ==
  ASSUME NEW s \in Seq(Nat), NEW t \in Seq(Nat)
  PROVE  each("topics", Each(s, b256_to_bytes), Each(t, JsonAddress),
              [i \in DOMAIN Each(s, b256_to_bytes) |->
                 check("topic", normalizeBytes(Each(s, b256_to_bytes)[i]),
                       normalizeHexStr(Each(t, JsonAddress)[i]))]) = {}
         <=> s = t
<1> DEFINE gs == [i \in DOMAIN s |-> b256_to_bytes(s[i])]
           rs == [i \in DOMAIN t |-> JsonAddress(t[i])]
           found == [i \in DOMAIN gs |-> check("topic", normalizeBytes(gs[i]), normalizeHexStr(rs[i]))]
<1>1. /\ Len(s) \in Nat /\ DOMAIN s = 1..Len(s) /\ \A i \in 1..Len(s) : s[i] \in Nat
      /\ Len(t) \in Nat /\ DOMAIN t = 1..Len(t) /\ \A i \in 1..Len(t) : t[i] \in Nat
  BY LenProperties, ElementOfSeq
<1>2. Len(gs) = Len(s) /\ Len(rs) = Len(t) /\ DOMAIN gs = 1..Len(s)
  BY <1>1
<1>3. ASSUME Len(s) = Len(t), NEW i \in 1..Len(s)
      PROVE  found[i] = {} <=> s[i] = t[i]
  <2>1. found[i] = check("topic", normalizeBytes(b256_to_bytes(s[i])), normalizeHexStr(JsonAddress(t[i])))
    BY <1>1, <1>2, <1>3
  <2>2. b256_to_bytes(s[i]) = addr_to_bytes(s[i])
    BY DEF b256_to_bytes, addr_to_bytes
  <2>3. s[i] \in Nat /\ t[i] \in Nat
    BY <1>1, <1>3
  <2>4. normalizeBytes(addr_to_bytes(s[i])) = normalizeHexStr(JsonAddress(t[i])) <=> s[i] = t[i]
    BY <2>3, AddressAgrees
  <2> HIDE DEF found
  <2> QED
    BY <2>1, <2>2, <2>4, NoneChecked
<1>4. each("topics", gs, rs, found) = {} <=> Len(s) = Len(t) /\ \A i \in 1..Len(s) : found[i] = {}
  <2> HIDE DEF found, gs, rs
  <2>1. each("topics", gs, rs, found) = {} <=> Len(gs) = Len(rs) /\ \A i \in DOMAIN gs : found[i] = {}
    BY NoneInEach, Zenon
  <2> QED
    BY <1>2, <2>1
<1>5. each("topics", gs, rs, found) = {} <=> s = t
  <2> HIDE DEF found, gs, rs
  <2>1. (Len(s) = Len(t) /\ \A i \in 1..Len(s) : s[i] = t[i]) <=> s = t
    BY SeqEqual
  <2> QED
    BY <1>3, <1>4, <2>1
<1> QED
  BY <1>5 DEF Each

\* Logs agree exactly when they are the same up to what neither encoding tells apart.
LEMMA LogAgrees ==
  ASSUME NEW l \in TracerLog, NEW m \in TracerLog
  PROVE  compareLog(call_log_frame_to_proto(l), rpcLogFrame(m)) = {} <=> PlainLog(l) = PlainLog(m)
<1>1. /\ l.address \in Option(Nat) /\ m.address \in Option(Nat)
      /\ l.topics \in Option(Seq(Nat)) /\ m.topics \in Option(Seq(Nat))
      /\ l.data \in Option(Seq(0..(Base - 1))) /\ m.data \in Option(Seq(0..(Base - 1)))
      /\ l.position \in Option(Nat) /\ m.position \in Option(Nat)
      /\ l.index \in Option(Nat) /\ m.index \in Option(Nat)
  BY DEF TracerLog, Digits
<1> DEFINE s == OrDefault(l.topics, Id, <<>>)
           t == OrDefault(m.topics, Id, <<>>)
           g == call_log_frame_to_proto(l)
           r == rpcLogFrame(m)
           found == [i \in DOMAIN g.topics |->
                       check("topic", normalizeBytes(g.topics[i]), normalizeHexStr(r.topics[i]))]
<1>2. s \in Seq(Nat) /\ t \in Seq(Nat)
  BY <1>1, OptionValue, EmptySeq DEF OrDefault, IsSome, Id, None
<1>3. g.topics = Each(s, b256_to_bytes) /\ r.topics = Each(t, JsonAddress)
  BY DEF call_log_frame_to_proto, rpcLogFrame, OrDefault, IsSome, Id, None, Each
<1>4. each("topics", g.topics, r.topics, found) = {} <=> Plain(l.topics, <<>>) = Plain(m.topics, <<>>)
  <2>1. each("topics", g.topics, r.topics, found) = {} <=> s = t
    <3> HIDE DEF s, t, g, r
    <3> QED
      BY <1>2, <1>3, TopicsAgree
  <2>2. s = t <=> Plain(l.topics, <<>>) = Plain(m.topics, <<>>)
    BY <1>1, PlainAgrees
  <2> QED
    BY <2>1, <2>2
<1>5. check("address", normalizeAddress(g.address), normalizeHexStr(r.address)) = {} <=> l.address = m.address
  <2>1. g.address = OrDefault(l.address, addr_to_bytes, <<>>) /\ r.address = OrDefault(m.address, JsonAddress, <<>>)
    BY DEF call_log_frame_to_proto, rpcLogFrame
  <2>2. normalizeBytes(OrDefault(l.address, addr_to_bytes, <<>>)) = normalizeHexStr(OrDefault(m.address, JsonAddress, <<>>))
        <=> l.address = m.address
    BY <1>1, OptAddressAgrees
  <2> QED
    BY <2>1, <2>2 DEF check, normalizeAddress
<1>6. check("data", normalizeBytes(g.data), normalizeHexStr(r.data)) = {}
      <=> Plain(l.data, <<>>) = Plain(m.data, <<>>)
  <2>1. g.data = OrDefault(l.data, Id, <<>>) /\ r.data = OrDefault(m.data, Hex, <<>>)
    BY DEF call_log_frame_to_proto, rpcLogFrame
  <2>2. normalizeBytes(OrDefault(l.data, Id, <<>>)) = normalizeHexStr(OrDefault(m.data, Hex, <<>>))
        <=> Plain(l.data, <<>>) = Plain(m.data, <<>>)
    BY <1>1, OptBytesAgree
  <2> QED
    BY <2>1, <2>2 DEF check
<1>7. checkOptional("position", g.has_position, g.position, r.position) = {} <=> l.position = m.position
  <2>1. g.has_position = IsSome(l.position) /\ g.position = OrDefault(l.position, Id, 0) /\ r.position = m.position
    BY DEF call_log_frame_to_proto, rpcLogFrame
  <2>2. (IF IsSome(l.position) THEN Some(OrDefault(l.position, Id, 0)) ELSE None) = m.position
        <=> l.position = m.position
    BY <1>1, OptNatAgrees
  <2> QED
    BY <2>1, <2>2 DEF checkOptional, check
<1>8. checkOptional("index", g.has_index, g.index, r.index) = {} <=> l.index = m.index
  <2>1. g.has_index = IsSome(l.index) /\ g.index = OrDefault(l.index, Id, 0) /\ r.index = m.index
    BY DEF call_log_frame_to_proto, rpcLogFrame
  <2>2. (IF IsSome(l.index) THEN Some(OrDefault(l.index, Id, 0)) ELSE None) = m.index
        <=> l.index = m.index
    BY <1>1, OptNatAgrees
  <2> QED
    BY <2>1, <2>2 DEF checkOptional, check
<1>9. PlainLog(l) = PlainLog(m)
      <=> /\ l.address = m.address /\ Plain(l.topics, <<>>) = Plain(m.topics, <<>>)
          /\ Plain(l.data, <<>>) = Plain(m.data, <<>>) /\ l.position = m.position /\ l.index = m.index
  <2>1. ASSUME NEW q \in TracerLog
        PROVE  PlainLog(q) = [address |-> q.address, topics |-> Plain(q.topics, <<>>),
                              data |-> Plain(q.data, <<>>), position |-> q.position, index |-> q.index]
    <3>1. q = [address |-> q.address, topics |-> q.topics, data |-> q.data,
               position |-> q.position, index |-> q.index]
      BY DEF TracerLog
    <3> DEFINE a == Plain(q.topics, <<>>)
               b == Plain(q.data, <<>>)
    <3>2. PlainLog(q) = [q EXCEPT !.topics = a, !.data = b]
      BY DEF PlainLog
    <3> HIDE DEF a, b
    <3>3. PlainLog(q) = [address |-> q.address, topics |-> a, data |-> b,
                         position |-> q.position, index |-> q.index]
      BY <3>1, <3>2
    <3> QED
      BY <3>3 DEF a, b
  <2> QED
    BY <2>1
<1>10. compareLog(g, r) = {}
       <=> /\ check("address", normalizeAddress(g.address), normalizeHexStr(r.address)) = {}
           /\ each("topics", g.topics, r.topics, found) = {}
           /\ check("data", normalizeBytes(g.data), normalizeHexStr(r.data)) = {}
           /\ checkOptional("position", g.has_position, g.position, r.position) = {}
           /\ checkOptional("index", g.has_index, g.index, r.index) = {}
  <2> HIDE DEF g, r
  <2> QED
    BY DEF compareLog
<1> HIDE DEF g, r, found
<1>11. compareLog(g, r) = {} <=> PlainLog(l) = PlainLog(m)
  BY <1>4, <1>5, <1>6, <1>7, <1>8, <1>9, <1>10
<1> QED
  BY <1>11 DEF g, r

\* Likewise lists of logs.
LEMMA LogsAgree ==
  ASSUME NEW s \in Seq(TracerLog), NEW t \in Seq(TracerLog)
  PROVE  each("logs", Each(s, call_log_frame_to_proto), Each(t, rpcLogFrame),
              [i \in DOMAIN Each(s, call_log_frame_to_proto) |->
                 compareLog(Each(s, call_log_frame_to_proto)[i], Each(t, rpcLogFrame)[i])]) = {}
         <=> Each(s, PlainLog) = Each(t, PlainLog)
<1> DEFINE gs == [i \in DOMAIN s |-> call_log_frame_to_proto(s[i])]
           rs == [i \in DOMAIN t |-> rpcLogFrame(t[i])]
           found == [i \in DOMAIN gs |-> compareLog(gs[i], rs[i])]
           ps == [i \in DOMAIN s |-> PlainLog(s[i])]
           pt == [i \in DOMAIN t |-> PlainLog(t[i])]
<1>1. /\ Len(s) \in Nat /\ DOMAIN s = 1..Len(s) /\ \A i \in 1..Len(s) : s[i] \in TracerLog
      /\ Len(t) \in Nat /\ DOMAIN t = 1..Len(t) /\ \A i \in 1..Len(t) : t[i] \in TracerLog
  BY LenProperties, ElementOfSeq
<1>2. Len(gs) = Len(s) /\ Len(rs) = Len(t) /\ DOMAIN gs = 1..Len(s)
  BY <1>1
<1>3. ASSUME Len(s) = Len(t), NEW i \in 1..Len(s)
      PROVE  found[i] = {} <=> PlainLog(s[i]) = PlainLog(t[i])
  <2>1. found[i] = compareLog(call_log_frame_to_proto(s[i]), rpcLogFrame(t[i]))
    BY <1>1, <1>2, <1>3
  <2>2. s[i] \in TracerLog /\ t[i] \in TracerLog
    BY <1>1, <1>3
  <2> HIDE DEF found
  <2> QED
    BY <2>1, <2>2, LogAgrees
<1>4. each("logs", gs, rs, found) = {} <=> Len(s) = Len(t) /\ \A i \in 1..Len(s) : found[i] = {}
  <2> HIDE DEF found, gs, rs
  <2>1. each("logs", gs, rs, found) = {} <=> Len(gs) = Len(rs) /\ \A i \in DOMAIN gs : found[i] = {}
    BY NoneInEach, Zenon
  <2> QED
    BY <1>2, <2>1
<1>5. ps = pt <=> Len(s) = Len(t) /\ \A i \in 1..Len(s) : PlainLog(s[i]) = PlainLog(t[i])
  <2>1. DOMAIN ps = 1..Len(s) /\ DOMAIN pt = 1..Len(t)
    BY <1>1
  <2>2. ps = pt => Len(s) = Len(t)
    <3>1. \A m, n \in Nat : 1..m = 1..n => m = n
      OBVIOUS
    <3> HIDE DEF ps, pt
    <3> QED
      BY <1>1, <2>1, <3>1
  <2>3. Len(s) = Len(t) => (ps = pt <=> \A i \in 1..Len(s) : PlainLog(s[i]) = PlainLog(t[i]))
    BY <1>1
  <2> QED
    BY <2>2, <2>3
<1>6. each("logs", gs, rs, found) = {} <=> ps = pt
  <2> HIDE DEF found, gs, rs, ps, pt
  <2> QED
    BY <1>3, <1>4, <1>5
<1> QED
  BY <1>6 DEF Each

-----------------------------------------------------------------------------
(* Frames.                                                                 *)

\* The frames agree in all but their calls and logs.
SameFields(f, e) ==
  /\ f.typ = e.typ /\ f.from = e.from /\ f.to = e.to /\ f.value = e.value
  /\ f.gas = e.gas /\ f.gas_used = e.gas_used /\ f.input = e.input
  /\ Plain(f.output, <<>>) = Plain(e.output, <<>>)
  /\ Plain(f.error, "") = Plain(e.error, "")
  /\ Plain(f.revert_reason, "") = Plain(e.revert_reason, "")

\* The checks of compareFrame on fields find nothing exactly in that case.
LEMMA FieldsAgree ==
  ASSUME NEW f \in TracerFrame, NEW e \in TracerFrame, NEW x, NEW y
  PROVE  compareFields(frame_to_proto(f, x), rpcFrame(e, y)) = {} <=> SameFields(f, e)
<1>1. /\ f.from \in Nat /\ f.to \in Option(Nat) /\ f.value \in Option(Words) /\ f.gas \in Words
      /\ f.gas_used \in Words /\ f.input \in Seq(0..(Base - 1)) /\ f.output \in Option(Seq(0..(Base - 1)))
      /\ f.error \in Option(STRING) /\ f.revert_reason \in Option(STRING)
  BY DEF TracerFrame, Digits
<1>2. /\ e.from \in Nat /\ e.to \in Option(Nat) /\ e.value \in Option(Words) /\ e.gas \in Words
      /\ e.gas_used \in Words /\ e.input \in Seq(0..(Base - 1)) /\ e.output \in Option(Seq(0..(Base - 1)))
      /\ e.error \in Option(STRING) /\ e.revert_reason \in Option(STRING)
  BY DEF TracerFrame, Digits
<1> DEFINE g == frame_to_proto(f, x)
           r == rpcFrame(e, y)
<1>3. /\ g.typ = f.typ /\ g.from = addr_to_bytes(f.from) /\ g.to = OrDefault(f.to, addr_to_bytes, <<>>)
      /\ g.value = value_to_bytes(f.value) /\ g.gas = u256_to_bytes(f.gas)
      /\ g.gas_used = u256_to_bytes(f.gas_used) /\ g.input = f.input
      /\ g.output = OrDefault(f.output, Id, <<>>) /\ g.error = OrDefault(f.error, Id, "")
      /\ g.revert_reason = OrDefault(f.revert_reason, Id, "")
  BY DEF frame_to_proto
<1>4. /\ r.typ = e.typ /\ r.from = JsonAddress(e.from) /\ r.to = OrDefault(e.to, JsonAddress, <<>>)
      /\ r.value = OrDefault(e.value, JsonQuantity, <<>>) /\ r.gas = JsonQuantity(e.gas)
      /\ r.gas_used = JsonQuantity(e.gas_used) /\ r.input = Hex(e.input)
      /\ r.output = OrDefault(e.output, Hex, <<>>) /\ r.error = OrDefault(e.error, Id, "")
      /\ r.revert_reason = OrDefault(e.revert_reason, Id, "")
  BY DEF rpcFrame
<1>5. normalizeAddress(g.from) = normalizeHexStr(r.from) <=> f.from = e.from
  <2>1. normalizeBytes(addr_to_bytes(f.from)) = normalizeHexStr(JsonAddress(e.from)) <=> f.from = e.from
    BY <1>1, <1>2, AddressAgrees
  <2> QED
    BY <1>3, <1>4, <2>1 DEF normalizeAddress
<1>6. normalizeAddress(g.to) = normalizeHexStr(r.to) <=> f.to = e.to
  <2>1. normalizeBytes(OrDefault(f.to, addr_to_bytes, <<>>)) = normalizeHexStr(OrDefault(e.to, JsonAddress, <<>>))
        <=> f.to = e.to
    BY <1>1, <1>2, OptAddressAgrees
  <2> QED
    BY <1>3, <1>4, <2>1 DEF normalizeAddress
<1>7. normalizeU256grpc(g.value) = normalizeU256rpc(r.value) <=> f.value = e.value
  <2>1. normalizeU256grpc(value_to_bytes(f.value)) = normalizeU256rpc(OrDefault(e.value, JsonQuantity, <<>>))
        <=> f.value = e.value
    BY <1>1, <1>2, OptWordAgrees
  <2> QED
    BY <1>3, <1>4, <2>1
<1>8. normalizeU256grpc(g.gas) = normalizeU256rpc(r.gas) <=> f.gas = e.gas
  <2>1. normalizeU256grpc(u256_to_bytes(f.gas)) = normalizeU256rpc(JsonQuantity(e.gas)) <=> f.gas = e.gas
    BY <1>1, <1>2, WordAgrees
  <2> QED
    BY <1>3, <1>4, <2>1
<1>9. normalizeU256grpc(g.gas_used) = normalizeU256rpc(r.gas_used) <=> f.gas_used = e.gas_used
  <2>1. normalizeU256grpc(u256_to_bytes(f.gas_used)) = normalizeU256rpc(JsonQuantity(e.gas_used)) <=> f.gas_used = e.gas_used
    BY <1>1, <1>2, WordAgrees
  <2> QED
    BY <1>3, <1>4, <2>1
<1>10. normalizeBytes(g.input) = normalizeHexStr(r.input) <=> f.input = e.input
  <2>1. normalizeBytes(f.input) = normalizeHexStr(Hex(e.input)) <=> f.input = e.input
    BY <1>1, <1>2, BytesAgree
  <2> QED
    BY <1>3, <1>4, <2>1
<1>11. normalizeBytes(g.output) = normalizeHexStr(r.output) <=> Plain(f.output, <<>>) = Plain(e.output, <<>>)
  <2>1. normalizeBytes(OrDefault(f.output, Id, <<>>)) = normalizeHexStr(OrDefault(e.output, Hex, <<>>))
        <=> Plain(f.output, <<>>) = Plain(e.output, <<>>)
    BY <1>1, <1>2, OptBytesAgree
  <2> QED
    BY <1>3, <1>4, <2>1
<1>12. g.error = r.error <=> Plain(f.error, "") = Plain(e.error, "")
  <2>1. OrDefault(f.error, Id, "") = OrDefault(e.error, Id, "") <=> Plain(f.error, "") = Plain(e.error, "")
    BY <1>1, <1>2, PlainAgrees
  <2> QED
    BY <1>3, <1>4, <2>1
<1>13. g.revert_reason = r.revert_reason <=> Plain(f.revert_reason, "") = Plain(e.revert_reason, "")
  <2>1. OrDefault(f.revert_reason, Id, "") = OrDefault(e.revert_reason, Id, "")
        <=> Plain(f.revert_reason, "") = Plain(e.revert_reason, "")
    BY <1>1, <1>2, PlainAgrees
  <2> QED
    BY <1>3, <1>4, <2>1
<1> HIDE DEF g, r
<1>14. compareFields(g, r) = {}
       <=> /\ g.typ = r.typ
           /\ normalizeAddress(g.from) = normalizeHexStr(r.from)
           /\ normalizeAddress(g.to) = normalizeHexStr(r.to)
           /\ normalizeU256grpc(g.value) = normalizeU256rpc(r.value)
           /\ normalizeU256grpc(g.gas) = normalizeU256rpc(r.gas)
           /\ normalizeU256grpc(g.gas_used) = normalizeU256rpc(r.gas_used)
           /\ normalizeBytes(g.input) = normalizeHexStr(r.input)
           /\ normalizeBytes(g.output) = normalizeHexStr(r.output)
           /\ g.error = r.error
           /\ g.revert_reason = r.revert_reason
  <2>1. compareFields(g, r) = {}
        <=> /\ check("typ", g.typ, r.typ) = {}
            /\ check("from", normalizeAddress(g.from), normalizeHexStr(r.from)) = {}
            /\ check("to", normalizeAddress(g.to), normalizeHexStr(r.to)) = {}
            /\ check("value", normalizeU256grpc(g.value), normalizeU256rpc(r.value)) = {}
            /\ check("gas", normalizeU256grpc(g.gas), normalizeU256rpc(r.gas)) = {}
            /\ check("gasUsed", normalizeU256grpc(g.gas_used), normalizeU256rpc(r.gas_used)) = {}
            /\ check("input", normalizeBytes(g.input), normalizeHexStr(r.input)) = {}
            /\ check("output", normalizeBytes(g.output), normalizeHexStr(r.output)) = {}
            /\ check("error", g.error, r.error) = {}
            /\ check("revertReason", g.revert_reason, r.revert_reason) = {}
    BY DEF compareFields
  <2>2. \A field, u, v : check(field, u, v) = {} <=> u = v
    BY NoneChecked
  <2> QED
    BY <2>1, <2>2
<1>15. g.typ = r.typ <=> f.typ = e.typ
  BY <1>3, <1>4
<1>16. compareFields(g, r) = {} <=> SameFields(f, e)
  BY <1>5, <1>6, <1>7, <1>8, <1>9, <1>10, <1>11, <1>12, <1>13, <1>14, <1>15 DEF SameFields
<1> QED
  BY <1>16 DEF g, r

\* A frame with these in place of what PlainFrame replaces.
Replaced(q, o, err, rev, calls, logs) ==
  [typ |-> q.typ, from |-> q.from, to |-> q.to, value |-> q.value, gas |-> q.gas,
   gas_used |-> q.gas_used, input |-> q.input, output |-> o, error |-> err,
   revert_reason |-> rev, calls |-> calls, logs |-> logs]

\* What PlainFrame makes of a frame, written out.
LEMMA PlainFrameIs ==
  ASSUME NEW f \in TracerFrame, NEW x
  PROVE  PlainFrame(f, x)
         = Replaced(f, Plain(f.output, <<>>), Plain(f.error, ""), Plain(f.revert_reason, ""), x,
                    Each(f.logs, PlainLog))
<1> DEFINE o == Plain(f.output, <<>>)
           err == Plain(f.error, "")
           rev == Plain(f.revert_reason, "")
           ls == Each(f.logs, PlainLog)
           f1 == [f EXCEPT !.output = o]
           f2 == [f1 EXCEPT !.error = err]
           f3 == [f2 EXCEPT !.revert_reason = rev]
           f4 == [f3 EXCEPT !.calls = x]
           f5 == [f4 EXCEPT !.logs = ls]
<1>1. PlainFrame(f, x) = f5
  <2>1. PlainFrame(f, x) = [f EXCEPT !.output = o, !.error = err, !.revert_reason = rev, !.calls = x, !.logs = ls]
    BY DEF PlainFrame
  <2> HIDE DEF o, err, rev, ls
  <2> QED
    BY <2>1
<1> HIDE DEF o, err, rev, ls, f1, f2, f3, f4, f5
<1>2. f = Replaced(f, f.output, f.error, f.revert_reason, f.calls, f.logs)
  BY DEF TracerFrame, Replaced
<1>3. f1 = Replaced(f, o, f.error, f.revert_reason, f.calls, f.logs)
  BY <1>2 DEF Replaced, f1
<1>4. f2 = Replaced(f, o, err, f.revert_reason, f.calls, f.logs)
  BY <1>3 DEF Replaced, f2
<1>5. f3 = Replaced(f, o, err, rev, f.calls, f.logs)
  BY <1>4 DEF Replaced, f3
<1>6. f4 = Replaced(f, o, err, rev, x, f.logs)
  BY <1>5 DEF Replaced, f4
<1>7. f5 = Replaced(f, o, err, rev, x, ls)
  BY <1>6 DEF Replaced, f5
<1> QED
  BY <1>1, <1>7 DEF o, err, rev, ls

\* Frames are the same trace when they agree in their fields, calls and logs.
LEMMA PlainFrameSame ==
  ASSUME NEW f \in TracerFrame, NEW e \in TracerFrame, NEW x, NEW y
  PROVE  PlainFrame(f, x) = PlainFrame(e, y)
         <=> SameFields(f, e) /\ x = y /\ Each(f.logs, PlainLog) = Each(e.logs, PlainLog)
<1>1. /\ PlainFrame(f, x)
         = Replaced(f, Plain(f.output, <<>>), Plain(f.error, ""), Plain(f.revert_reason, ""), x,
                    Each(f.logs, PlainLog))
      /\ PlainFrame(e, y)
         = Replaced(e, Plain(e.output, <<>>), Plain(e.error, ""), Plain(e.revert_reason, ""), y,
                    Each(e.logs, PlainLog))
  BY PlainFrameIs
<1>2. ASSUME PlainFrame(f, x) = PlainFrame(e, y)
      PROVE  SameFields(f, e) /\ x = y /\ Each(f.logs, PlainLog) = Each(e.logs, PlainLog)
  <2> DEFINE r == PlainFrame(f, x)
  <2> HIDE DEF r
  <2>1. /\ r.typ = f.typ /\ r.from = f.from /\ r.to = f.to /\ r.value = f.value /\ r.gas = f.gas
        /\ r.gas_used = f.gas_used /\ r.input = f.input /\ r.output = Plain(f.output, <<>>)
        /\ r.error = Plain(f.error, "") /\ r.revert_reason = Plain(f.revert_reason, "")
        /\ r.calls = x /\ r.logs = Each(f.logs, PlainLog)
    <3>1. r = Replaced(f, Plain(f.output, <<>>), Plain(f.error, ""), Plain(f.revert_reason, ""), x,
                       Each(f.logs, PlainLog))
      BY <1>1 DEF r
    <3> QED
      BY <3>1 DEF Replaced
  <2>2. /\ r.typ = e.typ /\ r.from = e.from /\ r.to = e.to /\ r.value = e.value /\ r.gas = e.gas
        /\ r.gas_used = e.gas_used /\ r.input = e.input /\ r.output = Plain(e.output, <<>>)
        /\ r.error = Plain(e.error, "") /\ r.revert_reason = Plain(e.revert_reason, "")
        /\ r.calls = y /\ r.logs = Each(e.logs, PlainLog)
    <3>1. r = Replaced(e, Plain(e.output, <<>>), Plain(e.error, ""), Plain(e.revert_reason, ""), y,
                       Each(e.logs, PlainLog))
      BY <1>1, <1>2 DEF r
    <3> QED
      BY <3>1 DEF Replaced
  <2> QED
    BY <2>1, <2>2 DEF SameFields
<1>3. ASSUME SameFields(f, e), x = y, Each(f.logs, PlainLog) = Each(e.logs, PlainLog)
      PROVE  PlainFrame(f, x) = PlainFrame(e, y)
  BY <1>1, <1>3 DEF SameFields, Replaced
<1> QED
  BY <1>2, <1>3

-----------------------------------------------------------------------------
(* Pairs of frames.                                                        *)

CompareLaws == INSTANCE FrameWalkProofs WITH Node <- FramePairs, Calls <- PairedCalls, Visit <- compareWith

\* The least depth of a frame with this message.
Depths(g) == {Depth[f] : f \in {f \in Frames : call_frame_to_proto(f) = g}}
PairRank == [p \in FramePairs |-> CHOOSE n \in Depths(p[1]) : \A m \in Depths(p[1]) : ~(m < n)]

\* The calls of a pair of messages are the messages of the calls.
LEMMA PairCalls ==
  ASSUME NEW f \in Frames, NEW e \in Frames
  PROVE  /\ <<call_frame_to_proto(f), rpcCallFrame(e)>> \in FramePairs
         /\ call_frame_to_proto(f).calls = [i \in 1..Len(f.calls) |-> call_frame_to_proto(f.calls[i])]
         /\ rpcCallFrame(e).calls = [i \in 1..Len(e.calls) |-> rpcCallFrame(e.calls[i])]
         /\ Len(call_frame_to_proto(f).calls) = Len(f.calls)
         /\ Len(rpcCallFrame(e).calls) = Len(e.calls)
         /\ PairedCalls(<<call_frame_to_proto(f), rpcCallFrame(e)>>)
            = IF Len(f.calls) # Len(e.calls) THEN <<>>
              ELSE [i \in 1..Len(f.calls) |-> <<call_frame_to_proto(f.calls[i]), rpcCallFrame(e.calls[i])>>]
<1>1. Len(f.calls) \in Nat /\ DOMAIN f.calls = 1..Len(f.calls)
  BY FrameCalls
<1>2. Len(e.calls) \in Nat /\ DOMAIN e.calls = 1..Len(e.calls)
  BY FrameCalls
<1> DEFINE g == call_frame_to_proto(f)
           r == rpcCallFrame(e)
<1>3. g.calls = [i \in 1..Len(f.calls) |-> call_frame_to_proto(f.calls[i])]
  <2> DEFINE calls == [i \in DOMAIN f.calls |-> call_frame_to_proto(f.calls[i])]
  <2>1. g = frame_to_proto(f, calls)
    BY ConvertAt
  <2>2. calls = [i \in 1..Len(f.calls) |-> call_frame_to_proto(f.calls[i])]
    BY <1>1
  <2> HIDE DEF g, calls
  <2>3. g.calls = calls
    BY <2>1 DEF frame_to_proto
  <2> QED
    BY <2>2, <2>3
<1>4. r.calls = [i \in 1..Len(e.calls) |-> rpcCallFrame(e.calls[i])]
  <2> DEFINE calls == [i \in DOMAIN e.calls |-> rpcCallFrame(e.calls[i])]
  <2>1. r = rpcFrame(e, calls)
    BY AnswerAt
  <2>2. calls = [i \in 1..Len(e.calls) |-> rpcCallFrame(e.calls[i])]
    BY <1>2
  <2> HIDE DEF r, calls
  <2>3. r.calls = calls
    BY <2>1 DEF rpcFrame
  <2> QED
    BY <2>2, <2>3
<1>5. <<g, r>> \in FramePairs
  BY DEF FramePairs
<1> HIDE DEF g, r
<1>6. Len(g.calls) = Len(f.calls) /\ DOMAIN g.calls = 1..Len(f.calls)
  BY <1>1, <1>3
<1>7. Len(r.calls) = Len(e.calls)
  BY <1>2, <1>4
<1>8. PairedCalls(<<g, r>>) = IF Len(g.calls) # Len(r.calls) THEN <<>>
                              ELSE [i \in DOMAIN g.calls |-> <<g.calls[i], r.calls[i]>>]
  BY DEF PairedCalls
<1>9. Len(f.calls) = Len(e.calls) =>
        [i \in DOMAIN g.calls |-> <<g.calls[i], r.calls[i]>>]
        = [i \in 1..Len(f.calls) |-> <<call_frame_to_proto(f.calls[i]), rpcCallFrame(e.calls[i])>>]
  BY <1>3, <1>4, <1>6
<1> QED
  BY <1>3, <1>4, <1>5, <1>6, <1>7, <1>8, <1>9 DEF g, r

\* It falls from a pair to the pairs of its calls.
LEMMA PairRanks == CompareLaws!IsRank(PairRank)
<1>1. ASSUME NEW f \in Frames, NEW e \in Frames, NEW g, g = call_frame_to_proto(f)
      PROVE  /\ PairRank[<<g, rpcCallFrame(e)>>] \in Nat
             /\ ~(Depth[f] < PairRank[<<g, rpcCallFrame(e)>>])
             /\ \E h \in Frames : call_frame_to_proto(h) = g /\ Depth[h] = PairRank[<<g, rpcCallFrame(e)>>]
  <2> DEFINE p == <<g, rpcCallFrame(e)>>
  <2>1. p \in FramePairs /\ p[1] = g
    BY <1>1, PairCalls
  <2>2. Depths(g) \in SUBSET Nat /\ Depth[f] \in Depths(g)
    BY <1>1, FrameAssumption DEF Depths
  <2>3. \E n \in Depths(g) : \A m \in Depths(g) : ~(m < n)
    <3>1. Depths(g) # {}
      BY <2>2
    <3> QED
      BY <2>2, <3>1, ConvertLaws!LeastNumber
  <2>4. PairRank[p] = CHOOSE n \in Depths(g) : \A m \in Depths(g) : ~(m < n)
    BY <2>1 DEF PairRank
  <2>5. PairRank[p] \in Depths(g) /\ \A m \in Depths(g) : ~(m < PairRank[p])
    BY <2>3, <2>4
  <2> HIDE DEF p
  <2>6. \E h \in Frames : call_frame_to_proto(h) = g /\ Depth[h] = PairRank[p]
    BY <2>5 DEF Depths
  <2> QED
    BY <2>2, <2>5, <2>6 DEF p
<1>2. ASSUME NEW p \in FramePairs
      PROVE  /\ PairRank[p] \in Nat
             /\ \A i \in DOMAIN PairedCalls(p) :
                  PairedCalls(p)[i] \in FramePairs /\ PairRank[PairedCalls(p)[i]] < PairRank[p]
  <2>1. PICK f0 \in Frames, e \in Frames : p = <<call_frame_to_proto(f0), rpcCallFrame(e)>>
    BY DEF FramePairs
  <2>2. PICK f \in Frames : call_frame_to_proto(f) = call_frame_to_proto(f0) /\ Depth[f] = PairRank[p]
    BY <1>1, <2>1
  <2>3. p = <<call_frame_to_proto(f), rpcCallFrame(e)>>
    BY <2>1, <2>2
  <2>4. ASSUME NEW i \in DOMAIN PairedCalls(p)
        PROVE  PairedCalls(p)[i] \in FramePairs /\ PairRank[PairedCalls(p)[i]] < PairRank[p]
    <3>1. /\ Len(f.calls) = Len(e.calls) /\ i \in 1..Len(f.calls)
          /\ PairedCalls(p)[i] = <<call_frame_to_proto(f.calls[i]), rpcCallFrame(e.calls[i])>>
      <4>1. PairedCalls(p)
            = IF Len(f.calls) # Len(e.calls) THEN <<>>
              ELSE [j \in 1..Len(f.calls) |-> <<call_frame_to_proto(f.calls[j]), rpcCallFrame(e.calls[j])>>]
        BY <2>3, PairCalls
      <4>2. DOMAIN <<>> = {}
        OBVIOUS
      <4> QED
        BY <2>4, <4>1, <4>2
    <3>2. f.calls[i] \in Frames /\ Depth[f.calls[i]] < Depth[f]
      BY <3>1, FrameCalls
    <3>3. e.calls[i] \in Frames
      BY <3>1, FrameCalls
    <3>4. PairedCalls(p)[i] \in FramePairs
      BY <3>1, <3>2, <3>3, PairCalls
    <3>5. PairRank[PairedCalls(p)[i]] \in Nat /\ ~(Depth[f.calls[i]] < PairRank[PairedCalls(p)[i]])
      BY <1>1, <3>1, <3>2, <3>3
    <3>6. Depth[f.calls[i]] \in Nat /\ Depth[f] \in Nat
      BY <3>2, FrameAssumption
    <3> QED
      BY <2>2, <3>2, <3>4, <3>5, <3>6
  <2>5. PairRank[p] \in Nat
    BY <2>2, FrameAssumption
  <2> QED
    BY <2>4, <2>5
<1>3. PairRank \in [FramePairs -> Nat]
  BY <1>2 DEF PairRank
<1> QED
  BY <1>2, <1>3 DEF CompareLaws!IsRank

\* The walk over pairs, as its body.
LEMMA CompareAt ==
  ASSUME NEW f \in Frames, NEW e \in Frames
  PROVE  compareFrame(call_frame_to_proto(f), rpcCallFrame(e))
         = compareWith(<<call_frame_to_proto(f), rpcCallFrame(e)>>,
                       IF Len(f.calls) # Len(e.calls) THEN <<>>
                       ELSE [i \in 1..Len(f.calls) |->
                               compareFrame(call_frame_to_proto(f.calls[i]), rpcCallFrame(e.calls[i]))])
<1> DEFINE p == <<call_frame_to_proto(f), rpcCallFrame(e)>>
           of == IF Len(f.calls) # Len(e.calls) THEN <<>>
                 ELSE [i \in 1..Len(f.calls) |->
                         compareFrame(call_frame_to_proto(f.calls[i]), rpcCallFrame(e.calls[i]))]
<1>1. p \in FramePairs
  BY PairCalls
<1>2. Compare!Walk[p] = compareWith(p, [i \in DOMAIN PairedCalls(p) |-> Compare!Walk[PairedCalls(p)[i]]])
  <2>1. CompareLaws!Walk[p] = compareWith(p, [i \in DOMAIN PairedCalls(p) |-> CompareLaws!Walk[PairedCalls(p)[i]]])
    <3> HIDE DEF p
    <3> QED
      BY <1>1, PairRanks, CompareLaws!WalkAt
  <2> QED
    BY <2>1 DEF Compare!Walk, CompareLaws!Walk
<1>3. [i \in DOMAIN PairedCalls(p) |-> Compare!Walk[PairedCalls(p)[i]]] = of
  <2>1. PairedCalls(p)
        = IF Len(f.calls) # Len(e.calls) THEN <<>>
          ELSE [i \in 1..Len(f.calls) |-> <<call_frame_to_proto(f.calls[i]), rpcCallFrame(e.calls[i])>>]
    BY PairCalls
  <2> HIDE DEF p
  <2>2. CASE Len(f.calls) # Len(e.calls)
    BY <2>1, <2>2
  <2>3. CASE Len(f.calls) = Len(e.calls)
    BY <2>1, <2>3 DEF compareFrame
  <2> QED
    BY <2>2, <2>3
<1>4. compareFrame(call_frame_to_proto(f), rpcCallFrame(e)) = Compare!Walk[p]
  BY DEF compareFrame
<1> HIDE DEF p, of
<1>5. compareFrame(call_frame_to_proto(f), rpcCallFrame(e)) = compareWith(p, of)
  BY <1>2, <1>3, <1>4
<1> QED
  BY <1>5 DEF p, of

\* What makes a pair of frames differ.
LEMMA MismatchesOf ==
  ASSUME NEW f \in Frames, NEW e \in Frames
  PROVE  compareFrame(call_frame_to_proto(f), rpcCallFrame(e)).mismatches = {}
         <=> /\ SameFields(f, e)
             /\ Len(f.calls) = Len(e.calls)
             /\ \A i \in 1..Len(f.calls) :
                  compareFrame(call_frame_to_proto(f.calls[i]), rpcCallFrame(e.calls[i])).mismatches = {}
             /\ Each(f.logs, PlainLog) = Each(e.logs, PlainLog)
<1> DEFINE g == call_frame_to_proto(f)
           r == rpcCallFrame(e)
           ofCall(i) == compareFrame(call_frame_to_proto(f.calls[i]), rpcCallFrame(e.calls[i]))
           of == IF Len(f.calls) # Len(e.calls) THEN <<>> ELSE [i \in 1..Len(f.calls) |-> ofCall(i)]
           found == [i \in DOMAIN of |-> of[i].mismatches]
           logs == [i \in DOMAIN g.logs |-> compareLog(g.logs[i], r.logs[i])]
<1>1. /\ f \in TracerFrame /\ Len(f.calls) \in Nat /\ f.logs \in Seq(TracerLog)
      /\ e \in TracerFrame /\ Len(e.calls) \in Nat /\ e.logs \in Seq(TracerLog)
  BY FrameCalls DEF TracerFrame
<1>2. compareFrame(g, r) = compareWith(<<g, r>>, of)
  BY CompareAt
<1>3. compareFrame(g, r).mismatches
      = compareFields(g, r) \cup each("calls", g.calls, r.calls, found) \cup each("logs", g.logs, r.logs, logs)
  <2> HIDE DEF g, r, of
  <2> QED
    BY <1>2 DEF compareWith
<1>4. compareFields(g, r) = {} <=> SameFields(f, e)
  <2> DEFINE x == [i \in DOMAIN f.calls |-> call_frame_to_proto(f.calls[i])]
             y == [i \in DOMAIN e.calls |-> rpcCallFrame(e.calls[i])]
  <2>1. g = frame_to_proto(f, x) /\ r = rpcFrame(e, y)
    BY ConvertAt, AnswerAt
  <2> HIDE DEF g, r, x, y
  <2> QED
    BY <1>1, <2>1, FieldsAgree
<1>5. each("logs", g.logs, r.logs, logs) = {} <=> Each(f.logs, PlainLog) = Each(e.logs, PlainLog)
  <2>1. g.logs = Each(f.logs, call_log_frame_to_proto)
    <3> DEFINE x == [i \in DOMAIN f.calls |-> call_frame_to_proto(f.calls[i])]
    <3>1. g = frame_to_proto(f, x)
      BY ConvertAt
    <3> HIDE DEF g, x
    <3> QED
      BY <3>1 DEF frame_to_proto
  <2>2. r.logs = Each(e.logs, rpcLogFrame)
    <3> DEFINE y == [i \in DOMAIN e.calls |-> rpcCallFrame(e.calls[i])]
    <3>1. r = rpcFrame(e, y)
      BY AnswerAt
    <3> HIDE DEF r, y
    <3> QED
      BY <3>1 DEF rpcFrame
  <2>3. each("logs", Each(f.logs, call_log_frame_to_proto), Each(e.logs, rpcLogFrame),
             [i \in DOMAIN Each(f.logs, call_log_frame_to_proto) |->
                compareLog(Each(f.logs, call_log_frame_to_proto)[i], Each(e.logs, rpcLogFrame)[i])]) = {}
        <=> Each(f.logs, PlainLog) = Each(e.logs, PlainLog)
    BY <1>1, LogsAgree
  <2> HIDE DEF g, r
  <2> QED
    BY <2>1, <2>2, <2>3
<1>6. each("calls", g.calls, r.calls, found) = {}
      <=> Len(f.calls) = Len(e.calls) /\ \A i \in 1..Len(f.calls) : ofCall(i).mismatches = {}
  <2>1. Len(g.calls) = Len(f.calls) /\ Len(r.calls) = Len(e.calls) /\ DOMAIN g.calls = 1..Len(f.calls)
    <3>1. /\ g.calls = [i \in 1..Len(f.calls) |-> call_frame_to_proto(f.calls[i])]
          /\ Len(g.calls) = Len(f.calls) /\ Len(r.calls) = Len(e.calls)
      BY PairCalls
    <3> HIDE DEF g, r
    <3> QED
      BY <3>1
  <2> HIDE DEF g, r, ofCall
  <2>2. Len(f.calls) = Len(e.calls) => \A i \in 1..Len(f.calls) : found[i] = ofCall(i).mismatches
    OBVIOUS
  <2> HIDE DEF found
  <2>3. each("calls", g.calls, r.calls, found) = {}
        <=> Len(g.calls) = Len(r.calls) /\ \A i \in DOMAIN g.calls : found[i] = {}
    BY NoneInEach, Zenon
  <2> QED
    BY <2>1, <2>2, <2>3
<1> HIDE DEF g, r, of, found, logs
<1>7. compareFrame(g, r).mismatches = {}
      <=> /\ compareFields(g, r) = {}
          /\ each("calls", g.calls, r.calls, found) = {}
          /\ each("logs", g.logs, r.logs, logs) = {}
  BY <1>3
<1> QED
  BY <1>4, <1>5, <1>6, <1>7 DEF g, r

\* Two frames give no mismatch exactly when they are the same trace.
LEMMA FramesAgree ==
  \A f, e \in Frames :
    compareFrame(call_frame_to_proto(f), rpcCallFrame(e)).mismatches = {}
    <=> Canonical!Walk[f] = Canonical!Walk[e]
<1> DEFINE Agree(f, e) == compareFrame(call_frame_to_proto(f), rpcCallFrame(e)).mismatches = {}
           T == {f \in Frames : \A e \in Frames : Agree(f, e) <=> Canonical!Walk[f] = Canonical!Walk[e]}
<1>1. ConvertLaws!IsRank(Depth)
  BY FrameCalls, FrameAssumption DEF ConvertLaws!IsRank, CallsOf
<1>2. ASSUME NEW f \in Frames, \A i \in 1..Len(f.calls) : f.calls[i] \in T
      PROVE  f \in T
  <2> SUFFICES ASSUME NEW e \in Frames PROVE Agree(f, e) <=> Canonical!Walk[f] = Canonical!Walk[e]
    OBVIOUS
  <2> DEFINE x == [i \in 1..Len(f.calls) |-> Canonical!Walk[f.calls[i]]]
             y == [i \in 1..Len(e.calls) |-> Canonical!Walk[e.calls[i]]]
  <2>1. /\ f \in TracerFrame /\ Len(f.calls) \in Nat /\ DOMAIN f.calls = 1..Len(f.calls)
        /\ e \in TracerFrame /\ Len(e.calls) \in Nat /\ DOMAIN e.calls = 1..Len(e.calls)
        /\ \A i \in 1..Len(e.calls) : e.calls[i] \in Frames
    BY FrameCalls
  <2>2. Canonical!Walk[f] = PlainFrame(f, x) /\ Canonical!Walk[e] = PlainFrame(e, y)
    <3>1. Canonical!Walk[f] = PlainFrame(f, [i \in DOMAIN f.calls |-> Canonical!Walk[f.calls[i]]])
      BY CanonicalAt
    <3>2. Canonical!Walk[e] = PlainFrame(e, [i \in DOMAIN e.calls |-> Canonical!Walk[e.calls[i]]])
      BY CanonicalAt
    <3> QED
      BY <2>1, <3>1, <3>2
  <2>3. Canonical!Walk[f] = Canonical!Walk[e]
        <=> SameFields(f, e) /\ x = y /\ Each(f.logs, PlainLog) = Each(e.logs, PlainLog)
    <3> HIDE DEF x, y
    <3> QED
      BY <2>1, <2>2, PlainFrameSame
  <2>4. Agree(f, e)
        <=> /\ SameFields(f, e) /\ Len(f.calls) = Len(e.calls)
            /\ \A i \in 1..Len(f.calls) : Agree(f.calls[i], e.calls[i])
            /\ Each(f.logs, PlainLog) = Each(e.logs, PlainLog)
    BY MismatchesOf
  <2>5. Len(f.calls) = Len(e.calls) =>
          \A i \in 1..Len(f.calls) :
            Agree(f.calls[i], e.calls[i]) <=> Canonical!Walk[f.calls[i]] = Canonical!Walk[e.calls[i]]
    <3> HIDE DEF Agree
    <3> QED
      BY <1>2, <2>1
  <2>6. x = y <=> Len(f.calls) = Len(e.calls)
                  /\ \A i \in 1..Len(f.calls) : Canonical!Walk[f.calls[i]] = Canonical!Walk[e.calls[i]]
    <3>1. DOMAIN x = 1..Len(f.calls) /\ DOMAIN y = 1..Len(e.calls)
      OBVIOUS
    <3>2. \A m, n \in Nat : 1..m = 1..n => m = n
      OBVIOUS
    <3>3. x = y => Len(f.calls) = Len(e.calls)
      <4> HIDE DEF x, y
      <4> QED
        BY <2>1, <3>1, <3>2
    <3>4. Len(f.calls) = Len(e.calls) =>
            (x = y <=> \A i \in 1..Len(f.calls) : Canonical!Walk[f.calls[i]] = Canonical!Walk[e.calls[i]])
      OBVIOUS
    <3> QED
      BY <3>3, <3>4
  <2> HIDE DEF Agree, x, y
  <2> QED
    BY <2>3, <2>4, <2>5, <2>6
<1>3. T = Frames
  <2>1. \A f \in Frames : (\A i \in DOMAIN CallsOf(f) : CallsOf(f)[i] \in T) => f \in T
    <3> HIDE DEF T
    <3> QED
      BY <1>2, FrameCalls DEF CallsOf
  <2>2. T \in SUBSET Frames
    OBVIOUS
  <2> HIDE DEF T
  <2> QED
    BY <1>1, <2>1, <2>2, ConvertLaws!Induction
<1> QED
  BY <1>3

\* Two frames without a mismatch are counted with all the frames and logs in them.
LEMMA FramesCounted ==
  \A f, e \in Frames :
    LET c == compareFrame(call_frame_to_proto(f), rpcCallFrame(e))
    IN  c.mismatches = {} => c.frames = Size!Walk[f].frames /\ c.logs = Size!Walk[f].logs
<1> DEFINE C(f, e) == compareFrame(call_frame_to_proto(f), rpcCallFrame(e))
           Counted(f, e) == C(f, e).frames = Size!Walk[f].frames /\ C(f, e).logs = Size!Walk[f].logs
           T == {f \in Frames : \A e \in Frames : C(f, e).mismatches = {} => Counted(f, e)}
<1>1. ConvertLaws!IsRank(Depth)
  BY FrameCalls, FrameAssumption DEF ConvertLaws!IsRank, CallsOf
<1>2. ASSUME NEW f \in Frames, \A i \in 1..Len(f.calls) : f.calls[i] \in T
      PROVE  f \in T
  <2> SUFFICES ASSUME NEW e \in Frames, C(f, e).mismatches = {} PROVE Counted(f, e)
    OBVIOUS
  <2> DEFINE g == call_frame_to_proto(f)
             r == rpcCallFrame(e)
             of == [i \in 1..Len(f.calls) |-> C(f.calls[i], e.calls[i])]
             sizes == [i \in DOMAIN f.calls |-> Size!Walk[f.calls[i]]]
  <2>1. /\ Len(f.calls) \in Nat /\ DOMAIN f.calls = 1..Len(f.calls)
        /\ \A i \in 1..Len(e.calls) : e.calls[i] \in Frames
    BY FrameCalls
  <2>2. /\ Len(f.calls) = Len(e.calls)
        /\ \A i \in 1..Len(f.calls) : C(f.calls[i], e.calls[i]).mismatches = {}
        /\ Each(f.logs, PlainLog) = Each(e.logs, PlainLog)
    BY MismatchesOf
  <2>3. C(f, e) = compareWith(<<g, r>>, of)
    <3>1. C(f, e) = compareWith(<<g, r>>, IF Len(f.calls) # Len(e.calls) THEN <<>> ELSE of)
      BY CompareAt
    <3> HIDE DEF C, g, r, of
    <3> QED
      BY <2>2, <3>1
  <2>4. Size!Walk[f] = SizeWith(f, sizes)
    BY SizeAt
  <2>5. /\ DOMAIN of = 1..Len(f.calls) /\ DOMAIN sizes = 1..Len(f.calls)
        /\ \A i \in 1..Len(f.calls) : of[i].frames = sizes[i].frames /\ of[i].logs = sizes[i].logs
    <3>1. \A i \in 1..Len(f.calls) : Counted(f.calls[i], e.calls[i])
      <4> HIDE DEF C, Counted
      <4> QED
        BY <1>2, <2>1, <2>2
    <3>2. DOMAIN of = 1..Len(f.calls) /\ DOMAIN sizes = 1..Len(f.calls)
      BY <2>1
    <3>3. \A i \in 1..Len(f.calls) : of[i] = C(f.calls[i], e.calls[i]) /\ sizes[i] = Size!Walk[f.calls[i]]
      <4> HIDE DEF C
      <4> QED
        BY <2>1
    <3> HIDE DEF C, of, sizes
    <3> QED
      BY <3>1, <3>2, <3>3
  <2>6. Len(g.logs) = Len(f.logs) /\ Len(r.logs) = Len(f.logs)
    <3>1. f.logs \in Seq(TracerLog) /\ e.logs \in Seq(TracerLog)
      BY FrameCalls DEF TracerFrame
    <3>2. Len(f.logs) \in Nat /\ DOMAIN f.logs = 1..Len(f.logs) /\ Len(e.logs) \in Nat /\ DOMAIN e.logs = 1..Len(e.logs)
      BY <3>1, LenProperties
    <3>3. g.logs = [i \in DOMAIN f.logs |-> call_log_frame_to_proto(f.logs[i])]
      <4> DEFINE x == [i \in DOMAIN f.calls |-> call_frame_to_proto(f.calls[i])]
      <4>1. g = frame_to_proto(f, x)
        BY ConvertAt
      <4> HIDE DEF g, x
      <4> QED
        BY <4>1 DEF frame_to_proto, Each
    <3>4. r.logs = [i \in DOMAIN e.logs |-> rpcLogFrame(e.logs[i])]
      <4> DEFINE y == [i \in DOMAIN e.calls |-> rpcCallFrame(e.calls[i])]
      <4>1. r = rpcFrame(e, y)
        BY AnswerAt
      <4> HIDE DEF r, y
      <4> QED
        BY <4>1 DEF rpcFrame, Each
    <3>5. Len(f.logs) = Len(e.logs)
      <4>1. [i \in DOMAIN f.logs |-> PlainLog(f.logs[i])] = [i \in DOMAIN e.logs |-> PlainLog(e.logs[i])]
        BY <2>2 DEF Each
      <4>2. DOMAIN [i \in DOMAIN f.logs |-> PlainLog(f.logs[i])] = DOMAIN f.logs
            /\ DOMAIN [i \in DOMAIN e.logs |-> PlainLog(e.logs[i])] = DOMAIN e.logs
        OBVIOUS
      <4>3. DOMAIN f.logs = DOMAIN e.logs
        BY <4>1, <4>2, Zenon
      <4>4. \A m, n \in Nat : 1..m = 1..n => m = n
        OBVIOUS
      <4> QED
        BY <3>2, <4>3, <4>4
    <3> HIDE DEF g, r
    <3> QED
      BY <3>2, <3>3, <3>4, <3>5
  <2> HIDE DEF C, g, r, of, sizes
  <2>7. /\ [i \in DOMAIN of |-> of[i].frames] = [i \in DOMAIN sizes |-> sizes[i].frames]
        /\ [i \in DOMAIN of |-> of[i].logs] = [i \in DOMAIN sizes |-> sizes[i].logs]
    BY <2>5
  <2>8. C(f, e).frames = 1 + Total([i \in DOMAIN of |-> of[i].frames])
        /\ C(f, e).logs = Total([i \in DOMAIN of |-> of[i].logs]) + Len(f.logs)
    BY <2>3, <2>6 DEF compareWith, logCount
  <2>9. Size!Walk[f].frames = 1 + Total([i \in DOMAIN sizes |-> sizes[i].frames])
        /\ Size!Walk[f].logs = Total([i \in DOMAIN sizes |-> sizes[i].logs]) + Len(f.logs)
    BY <2>4 DEF SizeWith
  <2> QED
    BY <2>7, <2>8, <2>9
<1>3. T = Frames
  <2>1. \A f \in Frames : (\A i \in DOMAIN CallsOf(f) : CallsOf(f)[i] \in T) => f \in T
    <3> HIDE DEF T
    <3> QED
      BY <1>2, FrameCalls DEF CallsOf
  <2>2. T \in SUBSET Frames
    OBVIOUS
  <2> HIDE DEF T
  <2> QED
    BY <1>1, <2>1, <2>2, ConvertLaws!Induction
<1> QED
  BY <1>3

-----------------------------------------------------------------------------
(* Blocks.                                                                 *)

\* The comparison of two blocks, from those of their transactions.
LEMMA BlocksAgree ==
  ASSUME NEW fs \in Seq(Frames), NEW es \in Seq(Frames)
  PROVE  LET c == compareBlock(Each(fs, call_frame_to_proto), Each(es, rpcCallFrame))
         IN  /\ c.mismatches = {}
                <=> [i \in DOMAIN fs |-> Canonical!Walk[fs[i]]] = [i \in DOMAIN es |-> Canonical!Walk[es[i]]]
             /\ c.mismatches = {} => /\ c.frames = Total([i \in DOMAIN fs |-> Size!Walk[fs[i]].frames])
                                     /\ c.logs = Total([i \in DOMAIN fs |-> Size!Walk[fs[i]].logs])
<1> DEFINE gs == [i \in DOMAIN fs |-> call_frame_to_proto(fs[i])]
           rs == [i \in DOMAIN es |-> rpcCallFrame(es[i])]
           c == compareBlock(gs, rs)
           C(i) == compareFrame(call_frame_to_proto(fs[i]), rpcCallFrame(es[i]))
           ofTxs == [i \in DOMAIN gs |-> compareFrame(gs[i], rs[i])]
           found == [i \in DOMAIN gs |-> ofTxs[i].mismatches]
           x == [i \in DOMAIN fs |-> Canonical!Walk[fs[i]]]
           y == [i \in DOMAIN es |-> Canonical!Walk[es[i]]]
<1>1. /\ Len(fs) \in Nat /\ DOMAIN fs = 1..Len(fs) /\ \A i \in 1..Len(fs) : fs[i] \in Frames
      /\ Len(es) \in Nat /\ DOMAIN es = 1..Len(es) /\ \A i \in 1..Len(es) : es[i] \in Frames
  BY LenProperties, ElementOfSeq
<1>2. Len(gs) = Len(fs) /\ Len(rs) = Len(es) /\ DOMAIN gs = 1..Len(fs)
  BY <1>1
<1>3. Len(fs) # Len(es) => c.mismatches # {}
  <2> HIDE DEF gs, rs
  <2> QED
    BY <1>2 DEF compareBlock
<1>4. Len(fs) = Len(es) => /\ c.mismatches = each("tx", gs, rs, found)
                           /\ c.frames = Total([i \in DOMAIN gs |-> ofTxs[i].frames])
                           /\ c.logs = Total([i \in DOMAIN gs |-> ofTxs[i].logs])
  <2> HIDE DEF gs, rs
  <2> QED
    BY <1>2 DEF compareBlock
<1>5. Len(fs) = Len(es) => \A i \in 1..Len(fs) : ofTxs[i] = C(i)
  BY <1>1, <1>2
<1>6. Len(fs) = Len(es) => (c.mismatches = {} <=> \A i \in 1..Len(fs) : C(i).mismatches = {})
  <2> HIDE DEF gs, rs, c, C, ofTxs
  <2>1. Len(fs) = Len(es) => \A i \in 1..Len(fs) : found[i] = C(i).mismatches
    BY <1>2, <1>5
  <2> HIDE DEF found
  <2>2. each("tx", gs, rs, found) = {} <=> Len(gs) = Len(rs) /\ \A i \in DOMAIN gs : found[i] = {}
    BY NoneInEach, Zenon
  <2> QED
    BY <1>2, <1>4, <2>1, <2>2
<1>7. Len(fs) = Len(es) => \A i \in 1..Len(fs) :
        /\ C(i).mismatches = {} <=> Canonical!Walk[fs[i]] = Canonical!Walk[es[i]]
        /\ C(i).mismatches = {} => C(i).frames = Size!Walk[fs[i]].frames /\ C(i).logs = Size!Walk[fs[i]].logs
  BY <1>1, FramesAgree, FramesCounted
<1>8. x = y <=> Len(fs) = Len(es) /\ \A i \in 1..Len(fs) : Canonical!Walk[fs[i]] = Canonical!Walk[es[i]]
  <2>1. DOMAIN x = 1..Len(fs) /\ DOMAIN y = 1..Len(es)
    BY <1>1
  <2>2. \A m, n \in Nat : 1..m = 1..n => m = n
    OBVIOUS
  <2>3. x = y => Len(fs) = Len(es)
    <3> HIDE DEF x, y
    <3> QED
      BY <1>1, <2>1, <2>2
  <2>4. Len(fs) = Len(es) => (x = y <=> \A i \in 1..Len(fs) : Canonical!Walk[fs[i]] = Canonical!Walk[es[i]])
    BY <1>1
  <2> QED
    BY <2>3, <2>4
<1>9. c.mismatches = {} <=> x = y
  <2> HIDE DEF c, C, x, y
  <2> QED
    BY <1>3, <1>6, <1>7, <1>8
<1>10. ASSUME c.mismatches = {}
       PROVE  /\ c.frames = Total([i \in DOMAIN fs |-> Size!Walk[fs[i]].frames])
              /\ c.logs = Total([i \in DOMAIN fs |-> Size!Walk[fs[i]].logs])
  <2> HIDE DEF gs, rs, c, C, ofTxs
  <2>1. Len(fs) = Len(es)
    BY <1>3, <1>10
  <2>2. \A i \in 1..Len(fs) : ofTxs[i].frames = Size!Walk[fs[i]].frames /\ ofTxs[i].logs = Size!Walk[fs[i]].logs
    BY <1>5, <1>6, <1>7, <1>10, <2>1
  <2>3. /\ [i \in DOMAIN gs |-> ofTxs[i].frames] = [i \in DOMAIN fs |-> Size!Walk[fs[i]].frames]
        /\ [i \in DOMAIN gs |-> ofTxs[i].logs] = [i \in DOMAIN fs |-> Size!Walk[fs[i]].logs]
    BY <1>1, <1>2, <2>2
  <2> QED
    BY <1>4, <2>1, <2>3
<1>11. c = compareBlock(Each(fs, call_frame_to_proto), Each(es, rpcCallFrame))
  BY DEF Each
<1> HIDE DEF c, x, y
<1>12. /\ c.mismatches = {} <=> x = y
       /\ c.mismatches = {} => /\ c.frames = Total([i \in DOMAIN fs |-> Size!Walk[fs[i]].frames])
                               /\ c.logs = Total([i \in DOMAIN fs |-> Size!Walk[fs[i]].logs])
  BY <1>9, <1>10
<1> QED
  BY <1>11, <1>12 DEF x, y

\* A result is of the two blocks in hand.
ResultOfBoth ==
  /\ IsSome(work) => work[1] \in Pushed
  /\ IsSome(rpcFrames) => IsSome(work) /\ rpcFrames[1] \in Traced
  /\ IsSome(result) =>
       /\ IsSome(rpcFrames)
       /\ result[1] = compareBlock(Each(work[1], call_frame_to_proto), Each(rpcFrames[1], rpcCallFrame))

\* Every step of the worker keeps it.
LEMMA ResultNext == ResultOfBoth /\ [Next]_vars => ResultOfBoth'
<1> SUFFICES ASSUME ResultOfBoth, [Next]_vars PROVE ResultOfBoth'
  OBVIOUS
<1>1. \A x : IsSome(Some(x)) /\ Some(x)[1] = x
  BY DEF IsSome, Some, None
<1>2. ~IsSome(None)
  BY DEF IsSome
<1>3. ASSUME NEW fs \in Pushed, Take(fs) PROVE ResultOfBoth'
  BY <1>1, <1>2, <1>3 DEF ResultOfBoth, Take, IsSome
<1>4. ASSUME NEW fs \in Traced, Fetch(fs) PROVE ResultOfBoth'
  BY <1>1, <1>2, <1>4 DEF ResultOfBoth, Fetch, IsSome
<1>5. CASE CompareBlocks
  <2> DEFINE c == compareBlock(Each(work[1], call_frame_to_proto), Each(rpcFrames[1], rpcCallFrame))
  <2>1. result' = Some(c) /\ work' = work /\ rpcFrames' = rpcFrames /\ IsSome(rpcFrames)
    BY <1>5 DEF CompareBlocks
  <2>2. result'[1] = c
    BY <1>1, <2>1
  <2>3. c' = c
    BY <2>1
  <2> HIDE DEF c
  <2>4. result'[1] = c'
    BY <2>2, <2>3
  <2> QED
    BY <2>1, <2>4 DEF ResultOfBoth, c
<1>6. CASE Send
  BY <1>2, <1>6 DEF ResultOfBoth, Send
<1>7. CASE UNCHANGED vars
  BY <1>7 DEF ResultOfBoth, vars
<1> QED
  BY <1>3, <1>4, <1>5, <1>6, <1>7 DEF Next

\* A result is always that of the block from the stream and the answer of the
\* RPC node that the worker holds (workerLoop).
THEOREM ResultIsOfBoth == Spec => []ResultOfBoth
<1>1. Init => ResultOfBoth
  BY DEF Init, ResultOfBoth, IsSome
<1> QED
  BY <1>1, ResultNext, PTL DEF Spec

\* What holds of the result in any state.
LEMMA ResultTells == ResultOfBoth => NoFalseAlarm /\ NothingMissed /\ CountsComplete
<1> SUFFICES ASSUME ResultOfBoth, IsSome(result)
             PROVE  /\ SameTrace <=> result[1].mismatches = {}
                    /\ result[1].mismatches = {} =>
                         /\ result[1].frames = Total(Each(work[1], LAMBDA f : Size!Walk[f].frames))
                         /\ result[1].logs = Total(Each(work[1], LAMBDA f : Size!Walk[f].logs))
  BY DEF NoFalseAlarm, NothingMissed, CountsComplete
<1>1. work[1] \in Seq(Frames) /\ rpcFrames[1] \in Seq(Frames)
  BY BlockAssumption DEF ResultOfBoth
<1>2. result[1] = compareBlock(Each(work[1], call_frame_to_proto), Each(rpcFrames[1], rpcCallFrame))
  BY DEF ResultOfBoth
<1>3. /\ result[1].mismatches = {} <=> SameTrace
      /\ result[1].mismatches = {} =>
           /\ result[1].frames = Total([i \in DOMAIN work[1] |-> Size!Walk[work[1][i]].frames])
           /\ result[1].logs = Total([i \in DOMAIN work[1] |-> Size!Walk[work[1][i]].logs])
  <2> DEFINE fs == work[1]
             es == rpcFrames[1]
             c == compareBlock(Each(fs, call_frame_to_proto), Each(es, rpcCallFrame))
  <2>1. SameTrace <=> [i \in DOMAIN fs |-> Canonical!Walk[fs[i]]] = [i \in DOMAIN es |-> Canonical!Walk[es[i]]]
    BY DEF SameTrace
  <2>2. result[1] = c /\ fs \in Seq(Frames) /\ es \in Seq(Frames)
    BY <1>1, <1>2
  <2> HIDE DEF fs, es
  <2>3. /\ c.mismatches = {}
           <=> [i \in DOMAIN fs |-> Canonical!Walk[fs[i]]] = [i \in DOMAIN es |-> Canonical!Walk[es[i]]]
        /\ c.mismatches = {} => /\ c.frames = Total([i \in DOMAIN fs |-> Size!Walk[fs[i]].frames])
                                /\ c.logs = Total([i \in DOMAIN fs |-> Size!Walk[fs[i]].logs])
    BY <2>2, BlocksAgree
  <2> HIDE DEF c
  <2>4. /\ result[1].mismatches = {} <=> SameTrace
        /\ result[1].mismatches = {} => /\ result[1].frames = Total([i \in DOMAIN fs |-> Size!Walk[fs[i]].frames])
                                        /\ result[1].logs = Total([i \in DOMAIN fs |-> Size!Walk[fs[i]].logs])
    BY <2>1, <2>2, <2>3
  <2> QED
    BY <2>4 DEF fs
<1> QED
  BY <1>3 DEF Each

\* The verifier never reports a difference between two equal traces, however
\* deep they are and whatever in them is absent, empty or zero (compareFrame).
THEOREM NeverFalseAlarm == Spec => []NoFalseAlarm
BY ResultIsOfBoth, ResultTells, PTL

\* It never passes two traces that differ in a field, a log or a call at any
\* depth, an absent value against a zero one included (compareFrame).
THEOREM NeverMissed == Spec => []NothingMissed
BY ResultIsOfBoth, ResultTells, PTL

\* The counts of a block that passes are of all its frames and logs (compareBlock).
THEOREM CountedInFull == Spec => []CountsComplete
BY ResultIsOfBoth, ResultTells, PTL
=============================================================================
