---------------------------- MODULE TraceCompare ----------------------------
(***************************************************************************)
(* examples/go-trace-verifier/compare.go: a worker takes a block's call    *)
(* frames from the stream, asks the RPC node for its traces of the block,  *)
(* and compares the two field by field.                                    *)
(*                                                                         *)
(* The frames on either side start as frames of the tracer, with the gas   *)
(* limit of the transaction in the root.  The stream's are converted by    *)
(* call_frame_to_proto, the RPC node's by the JSON encoding of the same    *)
(* type, which leaves out what is None.  A string is a sequence, "" the    *)
(* empty one and <<"0x">> followed by digits a number or bytes.  The       *)
(* mismatches are a set of paths: the sequence of the steps to where the   *)
(* two differ, from the number of the transaction on.                      *)
(***************************************************************************)
EXTENDS ProtoConvert, SequencesExt

CONSTANTS Pushed,       \* the blocks, as sequences of frames, the stream can hold
          Traced        \* the blocks the RPC node can answer with

ASSUME BlockAssumption == Pushed \cup Traced \subseteq Seq(Frames)

VARIABLES work,         \* the block in the stream, as frames of the tracer: an Option
          rpcFrames,    \* the block of the RPC node, likewise
          result        \* blockResult: an Option

vars == <<work, rpcFrames, result>>

-----------------------------------------------------------------------------
(* The JSON of the RPC node (external): quantities without leading zeros.  *)

Hex(bytes) == <<"0x">> \o bytes

\* What follows the leading zeros, or the last digit.
Minimal(bytes) ==
  SubSeq(bytes, Max({i \in DOMAIN bytes : \A j \in 1..(i - 1) : bytes[j] = 0}), Len(bytes))

JsonQuantity(v) == Hex(Minimal(u256_to_bytes(v)))
JsonAddress(a) == Hex(addr_to_bytes(a))

\* Assumed of the node: it sends logs, although the request (rpc.go:66) sets no
\* withLog, and their position and index as JSON numbers, as *uint64 (rpc.go:38)
\* wants them.  A node that sends no logs leaves the log half of the comparison
\* idle; one that writes these two in hexadecimal, as it writes quantities, makes
\* json.Unmarshal fail (rpc.go:98): no answer to compare, but the failed call of
\* TraceVerifier.
rpcLogFrame(l) ==
  [address |-> OrDefault(l.address, JsonAddress, <<>>),
   topics  |-> OrDefault(l.topics, LAMBDA ts : Each(ts, JsonAddress), <<>>),
   data    |-> OrDefault(l.data, Hex, <<>>), position |-> l.position, index |-> l.index]

\* A frame's JSON, given that of its calls.
rpcFrame(f, calls) ==
  [typ |-> f.typ, from |-> JsonAddress(f.from), to |-> OrDefault(f.to, JsonAddress, <<>>),
   value |-> OrDefault(f.value, JsonQuantity, <<>>),
   gas |-> JsonQuantity(f.gas), gas_used |-> JsonQuantity(f.gas_used),
   input |-> Hex(f.input), output |-> OrDefault(f.output, Hex, <<>>),
   error |-> OrDefault(f.error, Id, ""), revert_reason |-> OrDefault(f.revert_reason, Id, ""),
   calls |-> calls, logs |-> Each(f.logs, rpcLogFrame)]

Answer == INSTANCE FrameWalk WITH Node <- Frames, Calls <- CallsOf, Visit <- rpcFrame
rpcCallFrame(f) == Answer!Walk[f]

-----------------------------------------------------------------------------
(* Normalisation.                                                          *)

TrimZeros(digits) == LET from == SelectInSeq(digits, LAMBDA d : d # 0)
                     IN  IF from = 0 THEN <<>> ELSE SubSeq(digits, from, Len(digits))

normalizeBytes(b) == IF b = <<>> THEN <<>> ELSE Hex(b)
normalizeAddress(b) == normalizeBytes(b)

\* Zero keeps one digit, to stay distinct from the absent value.
normalizeU256grpc(b) ==
  IF b = <<>> THEN <<>> ELSE Hex(IF TrimZeros(b) = <<>> THEN <<0>> ELSE TrimZeros(b))

\* The same trimming, of the digits after the prefix.
normalizeU256rpc(s) ==
  IF s = <<>> THEN <<>> ELSE Hex(IF TrimZeros(Tail(s)) = <<>> THEN <<0>> ELSE TrimZeros(Tail(s)))

normalizeHexStr(s) == IF s = <<"0x">> THEN <<>> ELSE s

-----------------------------------------------------------------------------
(* Comparison.                                                             *)

check(field, gVal, rVal) == IF gVal = rVal THEN {} ELSE {<<field>>}

\* A pair of lists is compared element by element when their lengths agree;
\* found has what differs in the elements.
each(field, gs, rs, found) ==
  IF Len(gs) # Len(rs) THEN {<<field>>}
  ELSE UNION {{<<field, i>> \o path : path \in found[i]} : i \in DOMAIN gs}

\* Bug: a value only the stream has goes unreported.
checkWhenPresent(field, has, gVal, rVal) ==
  IF rVal = None THEN {} ELSE check(field, IF has THEN Some(gVal) ELSE None, rVal)

\* The has_ flag and value of a message against a *uint64.
checkOptional(field, has, gVal, rVal) ==
  check(field, IF has THEN Some(gVal) ELSE None, rVal)

compareLog(g, r) ==
  check("address", normalizeAddress(g.address), normalizeHexStr(r.address))
  \cup each("topics", g.topics, r.topics,
            [i \in DOMAIN g.topics |->
               check("topic", normalizeBytes(g.topics[i]), normalizeHexStr(r.topics[i]))])
  \cup check("data", normalizeBytes(g.data), normalizeHexStr(r.data))
  \cup checkOptional("position", g.has_position, g.position, r.position)
  \cup checkOptional("index", g.has_index, g.index, r.index)

compareFields(g, r) ==
  check("typ", g.typ, r.typ)
  \cup check("from", normalizeAddress(g.from), normalizeHexStr(r.from))
  \cup check("to", normalizeAddress(g.to), normalizeHexStr(r.to))
  \cup check("value", normalizeU256grpc(g.value), normalizeU256rpc(r.value))
  \cup check("gas", normalizeU256grpc(g.gas), normalizeU256rpc(r.gas))
  \cup check("gasUsed", normalizeU256grpc(g.gas_used), normalizeU256rpc(r.gas_used))
  \cup check("input", normalizeBytes(g.input), normalizeHexStr(r.input))
  \cup check("output", normalizeBytes(g.output), normalizeHexStr(r.output))
  \cup check("error", g.error, r.error)
  \cup check("revertReason", g.revert_reason, r.revert_reason)

\* The sum of a count over the frames of a list.
Total(counts) == FoldLeft(+, 0, counts)

\* Bug: only the logs of the root frame are counted.
logCountRoot(g, r, ofCalls) == IF Len(g.logs) = Len(r.logs) THEN Len(g.logs) ELSE 0

logCount(g, r, ofCalls) ==
  Total([i \in DOMAIN ofCalls |-> ofCalls[i].logs])
  + IF Len(g.logs) = Len(r.logs) THEN Len(g.logs) ELSE 0

\* Two frames, of the stream and of the RPC node, are compared together with
\* their calls, those only when there are as many on either side.
FramePairs == {call_frame_to_proto(f) : f \in Frames} \X {rpcCallFrame(f) : f \in Frames}
PairedCalls(p) ==
  IF Len(p[1].calls) # Len(p[2].calls) THEN <<>>
  ELSE [i \in DOMAIN p[1].calls |-> <<p[1].calls[i], p[2].calls[i]>>]

\* The mismatches and the counts of frames and of logs in a pair, given those of
\* the paired calls.
compareWith(p, ofCalls) ==
  LET g == p[1]
      r == p[2]
  IN  [mismatches |->
         compareFields(g, r)
         \cup each("calls", g.calls, r.calls, [i \in DOMAIN ofCalls |-> ofCalls[i].mismatches])
         \cup each("logs", g.logs, r.logs, [i \in DOMAIN g.logs |-> compareLog(g.logs[i], r.logs[i])]),
       frames |-> 1 + Total([i \in DOMAIN ofCalls |-> ofCalls[i].frames]),
       logs   |-> logCount(g, r, ofCalls)]

Compare == INSTANCE FrameWalk WITH Node <- FramePairs, Calls <- PairedCalls, Visit <- compareWith
compareFrame(g, r) == Compare!Walk[<<g, r>>]

compareBlock(gs, rs) ==
  IF Len(gs) # Len(rs)
    THEN [mismatches |-> {<<"tx count">>}, frames |-> 0, logs |-> 0]
    ELSE LET ofTxs == [i \in DOMAIN gs |-> compareFrame(gs[i], rs[i])]
         IN  [mismatches |-> each("tx", gs, rs, [i \in DOMAIN gs |-> ofTxs[i].mismatches]),
              frames     |-> Total([i \in DOMAIN gs |-> ofTxs[i].frames]),
              logs       |-> Total([i \in DOMAIN gs |-> ofTxs[i].logs])]

-----------------------------------------------------------------------------
(* The worker.                                                             *)

Init == work = None /\ rpcFrames = None /\ result = None

Take(fs) ==
  /\ work = None
  /\ work' = Some(fs)
  /\ UNCHANGED <<rpcFrames, result>>

Fetch(fs) ==
  /\ IsSome(work) /\ rpcFrames = None
  /\ rpcFrames' = Some(fs)
  /\ UNCHANGED <<work, result>>

CompareBlocks ==
  /\ IsSome(rpcFrames) /\ result = None
  /\ result' = Some(compareBlock(Each(work[1], call_frame_to_proto), Each(rpcFrames[1], rpcCallFrame)))
  /\ UNCHANGED <<work, rpcFrames>>

\* The result goes to resultCh, and the loop starts over.
Send ==
  /\ IsSome(result)
  /\ work' = None /\ rpcFrames' = None /\ result' = None

Next ==
  \/ \E fs \in Pushed : Take(fs)
  \/ \E fs \in Traced : Fetch(fs)
  \/ CompareBlocks
  \/ Send

Spec == Init /\ [][Next]_vars

-----------------------------------------------------------------------------
(* Properties.                                                             *)

\* A frame up to what neither encoding can tell apart: an absent and an
\* empty list of bytes or string.
Plain(o, empty) == IF o = Some(empty) THEN None ELSE o

PlainLog(l) == [l EXCEPT !.topics = Plain(@, <<>>), !.data = Plain(@, <<>>)]
PlainFrame(f, calls) ==
  [f EXCEPT !.output = Plain(@, <<>>), !.error = Plain(@, ""), !.revert_reason = Plain(@, ""),
            !.calls  = calls,
            !.logs   = Each(@, PlainLog)]

Canonical == INSTANCE FrameWalk WITH Node <- Frames, Calls <- CallsOf, Visit <- PlainFrame

SameTrace == [i \in DOMAIN work[1] |-> Canonical!Walk[work[1][i]]]
             = [i \in DOMAIN rpcFrames[1] |-> Canonical!Walk[rpcFrames[1][i]]]

\* How many frames, and logs, there are in a tree.
SizeWith(f, ofCalls) ==
  [frames |-> 1 + Total([i \in DOMAIN ofCalls |-> ofCalls[i].frames]),
   logs   |-> Total([i \in DOMAIN ofCalls |-> ofCalls[i].logs]) + Len(f.logs)]

Size == INSTANCE FrameWalk WITH Node <- Frames, Calls <- CallsOf, Visit <- SizeWith

\* The same trace on both sides is never reported as a mismatch, whatever
\* is absent, empty or zero in it (call_frame_to_proto, compareFrame).
NoFalseAlarm == IsSome(result) /\ SameTrace => result[1].mismatches = {}

\* Two traces that differ anywhere, a zero value and an absent one
\* included, give at least one mismatch (compareFrame, normalizeU256grpc).
NothingMissed == IsSome(result) /\ ~SameTrace => result[1].mismatches # {}

\* A block that passes is counted in full: every frame and every log at
\* every depth (compareFrame's counts, which the summary adds up).
CountsComplete ==
  IsSome(result) /\ result[1].mismatches = {} =>
    /\ result[1].frames = Total(Each(work[1], LAMBDA f : Size!Walk[f].frames))
    /\ result[1].logs = Total(Each(work[1], LAMBDA f : Size!Walk[f].logs))
=============================================================================
