--------------------------- MODULE MCTraceCompare ---------------------------
(* Frames that differ from one another in one field, at the root or in a   *)
(* child, every optional field absent, empty, zero and set.                *)
EXTENDS TraceCompare

Call ==
  [typ |-> "CALL", from |-> 1, to |-> Some(2), value |-> Some(5), gas |-> 27, gas_used |-> 6,
   input |-> <<1>>, output |-> Some(<<0, 1>>), error |-> None, revert_reason |-> None,
   calls |-> <<>>, logs |-> <<>>]
Log ==
  [address |-> Some(1), topics |-> Some(<<2>>), data |-> Some(<<3>>), position |-> Some(1), index |-> Some(1)]

LogVariants ==
  {Log}
  \cup {[Log EXCEPT !.address = a] : a \in {None, Some(0)}}
  \cup {[Log EXCEPT !.topics = t] : t \in {None, Some(<<>>), Some(<<0>>), Some(<<2, 2>>)}}
  \cup {[Log EXCEPT !.data = d] : d \in {None, Some(<<>>), Some(<<0>>), Some(<<0, 3>>)}}
  \cup {[Log EXCEPT !.position = p] : p \in {None, Some(0)}}
  \cup {[Log EXCEPT !.index = i] : i \in {None, Some(0)}}

Variants ==
  {Call}
  \cup {[Call EXCEPT !.typ = "CREATE"], [Call EXCEPT !.from = 0], [Call EXCEPT !.gas = 0],
        [Call EXCEPT !.gas_used = 0], [Call EXCEPT !.gas_used = 24]}
  \cup {[Call EXCEPT !.to = t] : t \in {None, Some(0)}}
  \cup {[Call EXCEPT !.value = v] : v \in {None, Some(0), Some(20)}}
  \cup {[Call EXCEPT !.input = b] : b \in {<<>>, <<0>>, <<0, 1>>}}
  \cup {[Call EXCEPT !.output = o] : o \in {None, Some(<<>>), Some(<<1>>)}}
  \cup {[Call EXCEPT !.error = e] : e \in {Some(""), Some("e")}}
  \cup {[Call EXCEPT !.revert_reason = e] : e \in {Some(""), Some("e")}}
  \cup {[Call EXCEPT !.logs = <<l>>] : l \in LogVariants}
  \cup {[Call EXCEPT !.logs = <<Log, Log>>]}

Nested ==
  {[Call EXCEPT !.calls = <<f>>, !.logs = <<Log>>] : f \in Variants}
  \cup {[Call EXCEPT !.calls = <<Call, f>>] : f \in {Call, [Call EXCEPT !.calls = <<Call>>]}}

\* Empty blocks are not sent to the workers; the answer can be empty.
Few == {Call, [Call EXCEPT !.value = None], [Call EXCEPT !.calls = <<Call>>]}
PushedBlocks == {<<f>> : f \in Variants \cup Nested} \cup {<<f, g>> : f, g \in Few}
TracedBlocks == {<<>>} \cup PushedBlocks

\* All their frames, and the calls in them.
AllFrames == Variants \cup Nested \cup Few
RECURSIVE Height(_)
Height(f) == IF f.calls = <<>> THEN 0 ELSE 1 + Max({Height(c) : c \in Range(f.calls)})
AllDepths == [f \in AllFrames |-> Height(f)]
=============================================================================
