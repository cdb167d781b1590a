---------------------------- MODULE BenchResults ----------------------------
(***************************************************************************)
(* What the main goroutine of a latency bench prints: a line for each      *)
(* block whose two sides it has paired, and the summary.  LatencyBench has *)
(* the control of the whole program and leaves out what is measured; here  *)
(* arrivals carry their times and what the gRPC side took from the         *)
(* message, and the subscribers are only the order in which they deliver.  *)
(*                                                                         *)
(* The four programs share this code.  They differ in the check of the     *)
(* flag, in the sign of the delta and in what an arrival carries beside    *)
(* its number: txCount and gasUsed of go-internal-txs-bench, accounts of   *)
(* go-state-diff-bench.  This payload is abstracted to the time stamp of   *)
(* the notification it was taken from; 0 is Go's zero value.               *)
(*                                                                         *)
(* A time unit is the ticker's interval; time starts at 1, as 0 is the     *)
(* code's "not yet arrived".                                               *)
(***************************************************************************)
EXTENDS Integers, SequencesExt

CONSTANTS
  Programs,     \* the benches, see below
  Flags,        \* values of --blocks
  Numbers,      \* bound: block numbers that arrive
  Timeout,      \* matchTimeout
  MaxArrivals,  \* bound: arrivals per side
  MaxLag,       \* bound: time an arrival waits for main
  MaxTickLag,   \* bound: time a tick waits for main
  MaxTime       \* bound: time

ASSUME ProgramAssumption == Programs \subseteq {"latency", "receipts", "internal-txs", "state-diff"}
ASSUME BoundAssumption ==
  /\ Flags \subseteq Int
  /\ {Timeout, MaxArrivals, MaxLag, MaxTickLag, MaxTime} \subseteq Nat

VARIABLES
  program, blocks,  \* the program and its --blocks
  now,              \* the clock
  arrived,          \* arrivals so far, per side
  ch,               \* per side, arrivals on their way to main
  tick,             \* the time in ticker.C, 0: none
  pending,          \* block number -> partialArrival
  lines,            \* the lines printed for matched blocks; a line has its delta
  unmatched,        \* blocks printed as timed out
  main,             \* "flags", "loop", "exit0", "exit1"
  summary           \* what printStats printed: <<>> or one record

feedVars == <<arrived, ch>>
tableVars == <<pending, lines, unmatched>>
vars == <<program, blocks, now, feedVars, tick, tableVars, main, summary>>

Sides == {"ws", "grpc"}
Other(s) == IF s = "ws" THEN "grpc" ELSE "ws"

HasPayload == program \in {"internal-txs", "state-diff"}
RefusesNegative == program # "latency"

-----------------------------------------------------------------------------
(* Statistics.                                                             *)

\* Go's integer division rounds toward zero.
Quotient(a, b) == IF a >= 0 THEN a \div b ELSE -((-a) \div b)

Least(a, b) == IF a < b THEN a ELSE b
Greatest(a, b) == IF a > b THEN a ELSE b

\* Bug: the extremes begin at zero and not at the first delta.
StatsFromZero(ls, lost) ==
  LET deltas == [i \in DOMAIN ls |-> ls[i].delta] IN
  [matched |-> Len(ls), unmatched |-> lost,
   data |-> IF ls = <<>> THEN <<>>
            ELSE <<[min |-> FoldSeq(Least, 0, deltas), max |-> FoldSeq(Greatest, 0, deltas),
                    avg |-> Quotient(FoldSeq(+, 0, deltas), Len(deltas))]>>]

printStats(ls, lost) ==
  LET deltas == [i \in DOMAIN ls |-> ls[i].delta] IN
  [matched |-> Len(ls), unmatched |-> lost,
   data |-> IF ls = <<>> THEN <<>>
            ELSE <<[min |-> FoldSeq(Least, deltas[1], deltas),
                    max |-> FoldSeq(Greatest, deltas[1], deltas),
                    avg |-> Quotient(FoldSeq(+, 0, deltas), Len(deltas))]>>]

\* printStats and os.Exit(0).
Finish(ls, lost) == main' = "exit0" /\ summary' = <<printStats(ls, lost)>>

-----------------------------------------------------------------------------
(* Time and deliveries.                                                    *)

Init ==
  /\ program \in Programs /\ blocks \in Flags
  /\ now = 1
  /\ arrived = [s \in Sides |-> 0]
  /\ ch = [s \in Sides |-> <<>>]
  /\ tick = 0
  /\ pending = <<>> /\ lines = <<>> /\ unmatched = 0
  /\ main = "flags"
  /\ summary = <<>>

\* The flag check: a target below zero is refused, but by go-latency-bench,
\* which then has a target that is never met; zero prints an empty summary.
Start ==
  /\ main = "flags"
  /\ \/ blocks < 0 /\ RefusesNegative /\ main' = "exit1" /\ UNCHANGED summary
     \/ blocks = 0 /\ Finish(<<>>, 0)
     \/ (blocks > 0 \/ (blocks < 0 /\ ~RefusesNegative)) /\ main' = "loop" /\ UNCHANGED summary
  /\ UNCHANGED <<program, blocks, now, feedVars, tick, tableVars>>

\* The ticker drops a tick that finds the last one unread.
TimePasses ==
  /\ main = "loop"
  /\ now < MaxTime
  /\ tick # 0 => now - tick < MaxTickLag
  /\ \A s \in Sides : \A a \in Range(ch[s]) : now - a.at < MaxLag
  /\ now' = now + 1
  /\ tick' = IF tick = 0 THEN now + 1 ELSE tick
  /\ UNCHANGED <<program, blocks, feedVars, tableVars, main, summary>>

\* A subscriber stamps what it has read and sends it.  A number can arrive
\* more than once: newHeads announces it again after a reorg, the gRPC stream
\* commits it again after a revert.
Arrive(s) ==
  \E n \in Numbers :
    /\ main = "loop"
    /\ arrived[s] < MaxArrivals
    /\ arrived' = [arrived EXCEPT ![s] = @ + 1]
    /\ ch' = [ch EXCEPT ![s] = Append(@,
                [num |-> n, at |-> now, payload |-> IF s = "grpc" /\ HasPayload THEN now ELSE 0])]
    /\ UNCHANGED <<program, blocks, now, tick, tableVars, main, summary>>

-----------------------------------------------------------------------------
(* The select loop.                                                        *)

getOrCreate(n) ==
  IF n \in DOMAIN pending THEN pending[n]
  ELSE [ms |-> [s \in Sides |-> 0], since |-> now, payload |-> 0]

Delete(n) == [m \in DOMAIN pending \ {n} |-> pending[m]]

\* Bug: both arms write the payload.
NotedTwice(p, s, a) == [p EXCEPT !.ms[s] = a.at, !.payload = a.payload]

\* A later arrival overwrites the time of an earlier one; only the gRPC arm
\* writes the payload.
Noted(p, s, a) ==
  [p EXCEPT !.ms[s] = a.at, !.payload = IF s = "grpc" THEN a.payload ELSE @]

\* Negative deltas mean that gRPC was faster; in go-latency-bench positive ones.
DeltaOf(p) ==
  IF program = "latency" THEN p.ms["ws"] - p.ms["grpc"] ELSE p.ms["grpc"] - p.ms["ws"]

emit(n, p) ==
  Append(lines, [num |-> n, payload |-> p.payload, grpc |-> p.ms["grpc"], ws |-> p.ms["ws"],
                 delta |-> DeltaOf(p)])

\* The arms of grpcCh and of rpcCh (wsCh).
Take(s) ==
  /\ main = "loop"
  /\ ch[s] # <<>>
  /\ LET a == Head(ch[s])
         p == Noted(getOrCreate(a.num), s, a)
     IN  IF p.ms[Other(s)] = 0
           THEN /\ pending' = [n \in DOMAIN pending \cup {a.num} |->
                                 IF n = a.num THEN p ELSE pending[n]]
                /\ UNCHANGED <<lines, main, summary>>
           ELSE /\ lines' = emit(a.num, p)
                /\ pending' = Delete(a.num)
                /\ IF Len(lines') = blocks THEN Finish(lines', unmatched)
                   ELSE UNCHANGED <<main, summary>>
  /\ ch' = [ch EXCEPT ![s] = Tail(@)]
  /\ UNCHANGED <<program, blocks, now, arrived, tick, unmatched>>

\* Bug: the entry is reported and stays in the table.
ScanKeeps ==
  /\ main = "loop"
  /\ tick # 0
  /\ unmatched' = unmatched + Cardinality({n \in DOMAIN pending : tick - pending[n].since > Timeout})
  /\ tick' = 0
  /\ UNCHANGED <<program, blocks, now, feedVars, pending, lines, main, summary>>

\* The ticker's arm, with the time the tick was fired at.
Scan ==
  /\ main = "loop"
  /\ tick # 0
  /\ LET late == {n \in DOMAIN pending : tick - pending[n].since > Timeout} IN
     /\ unmatched' = unmatched + Cardinality(late)
     /\ pending' = [n \in DOMAIN pending \ late |-> pending[n]]
  /\ tick' = 0
  /\ UNCHANGED <<program, blocks, now, feedVars, lines, main, summary>>

\* The arm of ctx.Done(), after a signal.
Interrupted ==
  /\ main = "loop"
  /\ Finish(lines, unmatched)
  /\ UNCHANGED <<program, blocks, now, feedVars, tick, tableVars>>

\* The arm of errCh: no summary is printed.
SubscriberFails ==
  /\ main = "loop"
  /\ main' = "exit1"
  /\ UNCHANGED <<program, blocks, now, feedVars, tick, tableVars, summary>>

Next ==
  \/ Start
  \/ TimePasses
  \/ \E s \in Sides : Arrive(s) \/ Take(s)
  \/ Scan
  \/ Interrupted
  \/ SubscriberFails

Spec == Init /\ [][Next]_vars

-----------------------------------------------------------------------------
(* Properties.                                                             *)

\* A printed delta never exceeds the matching window, by how late the scan
\* and the arrivals are served: neither an arrival that overwrites the time
\* of an earlier one, nor an entry made again after a timeout, pairs times
\* further apart (the two arms, the ticker's arm and getOrCreate).
DeltaInBounds ==
  \A i \in DOMAIN lines :
    LET window == Timeout + 1 + 2 * MaxTickLag + MaxLag
    IN  lines[i].delta \in -window..window

\* A line shows the txs, gas or accounts of the very gRPC notification whose
\* time it shows, whichever side came first, and never the zero of the WS
\* side (the two arms and emit of go-internal-txs-bench and
\* go-state-diff-bench).
PayloadFromStream ==
  HasPayload => \A i \in DOMAIN lines : lines[i].payload = lines[i].grpc

\* A summary is printed on every exit with status 0 and on no other; it counts
\* the lines printed before it, at most as many as asked for, and a run does
\* not go on past its target (the flag check, the test of matched == target).
SummaryCounts ==
  /\ main = "exit0" <=> summary # <<>>
  /\ main = "loop" /\ blocks >= 0 => Len(lines) < blocks
  /\ summary # <<>> =>
       LET stats == summary[1]
       IN  /\ stats.matched = Len(lines) /\ stats.unmatched = unmatched
           /\ blocks >= 0 => stats.matched <= blocks
           /\ stats.data = <<>> <=> lines = <<>>

\* The extremes of a summary are deltas of the lines printed, with all the
\* others and the average between them, also where the deltas are all
\* negative (printStats).
SummaryExtremes ==
  summary # <<>> /\ lines # <<>> =>
    LET data   == summary[1].data[1]
        deltas == {lines[i].delta : i \in DOMAIN lines}
    IN  /\ {data.min, data.max} \subseteq deltas
        /\ data.avg \in data.min..data.max
        /\ deltas \subseteq data.min..data.max

\* A summary is printed when it should be, counts what was printed and sums up
\* those lines and no others (printStats, the test of matched == target).
SummaryHonest == SummaryCounts /\ SummaryExtremes
=============================================================================
