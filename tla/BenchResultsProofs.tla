------------------------- MODULE BenchResultsProofs -------------------------
(***************************************************************************)
(* Theorems about BenchResults, for the four programs, every value of the  *)
(* flag, and any number of arrivals in any order, late or not; and about   *)
(* what the folds of printStats compute, for any lines and any deltas.     *)
(***************************************************************************)
EXTENDS BenchResults, SequenceTheorems, FiniteSetTheorems, WellFoundedInduction, TLAPS

-----------------------------------------------------------------------------
(* The inductive invariant.                                                *)

Message == [num : Numbers, at : Nat, payload : Nat]
Partial == [ms : [Sides -> Nat], since : Nat, payload : Nat]

\* What the bench keeps: times are natural numbers, a delta may be negative.
TypeOK ==
  /\ program \in Programs /\ blocks \in Int
  /\ now \in Nat /\ tick \in Nat
  /\ ch \in [Sides -> Seq(Message)]
  /\ \A n \in DOMAIN pending : pending[n] \in Partial
  /\ lines \in Seq([num : Numbers, payload : Nat, grpc : Nat, ws : Nat, delta : Int])
  /\ main \in {"flags", "loop", "exit0", "exit1"}

\* An arrival waits at most MaxLag, and its time is not Go's zero.
ArrivalsFresh ==
  \A s \in Sides : \A i \in DOMAIN ch[s] :
    0 < ch[s][i].at /\ ch[s][i].at <= now /\ now - ch[s][i].at <= MaxLag

\* A tick waits at most MaxTickLag.
TickFresh == 0 < now /\ (tick # 0 => tick <= now /\ now - tick <= MaxTickLag)

\* How old an entry can be at the tick that waits, or, with none waiting, now:
\* the scan leaves what is at most Timeout older than its tick.
EntriesYoung ==
  \A n \in DOMAIN pending :
    /\ pending[n].since <= now
    /\ tick # 0 => tick - pending[n].since <= Timeout + MaxTickLag + 1
    /\ tick = 0 => now - pending[n].since <= Timeout + MaxTickLag

\* A time noted in an entry is of an arrival that was on its way, at the
\* earliest, when the entry was made.
MarksRecent ==
  \A n \in DOMAIN pending : \A s \in Sides :
    LET t == pending[n].ms[s] IN t # 0 => t <= now /\ pending[n].since - t <= MaxLag

\* The payload of an entry is of the gRPC message whose time it has.
PayloadNoted ==
  HasPayload =>
    /\ \A i \in DOMAIN ch["grpc"] : ch["grpc"][i].payload = ch["grpc"][i].at
    /\ \A n \in DOMAIN pending : pending[n].payload = pending[n].ms["grpc"]

\* Nothing has been printed while the flags are read.
NothingYet == main = "flags" => lines = <<>> /\ unmatched = 0

IInv ==
  /\ TypeOK /\ ArrivalsFresh /\ TickFresh /\ EntriesYoung /\ MarksRecent
  /\ PayloadNoted /\ NothingYet
  /\ DeltaInBounds /\ PayloadFromStream /\ SummaryCounts

-----------------------------------------------------------------------------
(* The entry an arrival is noted in.                                       *)

LEMMA Limits ==
  Timeout \in Nat /\ MaxLag \in Nat /\ MaxTickLag \in Nat /\ Flags \subseteq Int
BY BoundAssumption

\* The entry that is there, or one made now, with the arrival's time and,
\* from the gRPC side, its payload.
LEMMA NotedEffect ==
  ASSUME TypeOK, NEW s \in Sides, NEW a \in Message, NEW p, p = Noted(getOrCreate(a.num), s, a)
  PROVE  /\ p \in Partial /\ p.ms[s] = a.at
         /\ s = "grpc" => p.payload = a.payload
         /\ \/ /\ a.num \in DOMAIN pending /\ p.since = pending[a.num].since
               /\ p.ms[Other(s)] = pending[a.num].ms[Other(s)]
               /\ s = "ws" => p.payload = pending[a.num].payload
            \/ /\ a.num \notin DOMAIN pending /\ p.since = now
               /\ p.ms[Other(s)] = 0
               /\ s = "ws" => p.payload = 0
<1> DEFINE q == getOrCreate(a.num)
<1>1. /\ q \in Partial
      /\ \/ a.num \in DOMAIN pending /\ q = pending[a.num]
         \/ a.num \notin DOMAIN pending /\ q = [ms |-> [t \in Sides |-> 0], since |-> now, payload |-> 0]
  BY DEF getOrCreate, TypeOK, Partial
<1>2. p = [q EXCEPT !.ms[s] = a.at, !.payload = IF s = "grpc" THEN a.payload ELSE q.payload]
  BY DEF Noted
<1>3. a.at \in Nat /\ a.payload \in Nat
  BY DEF Message
<1>4. Other(s) \in Sides /\ Other(s) # s
  BY DEF Other, Sides
<1> HIDE DEF q
<1>5. /\ p \in Partial /\ p.ms[s] = a.at /\ p.since = q.since
      /\ p.ms[Other(s)] = q.ms[Other(s)]
      /\ s = "grpc" => p.payload = a.payload
      /\ s # "grpc" => p.payload = q.payload
  <2>1. /\ q.ms \in [Sides -> Nat] /\ q.since \in Nat /\ q.payload \in Nat
        /\ q = [ms |-> q.ms, since |-> q.since, payload |-> q.payload]
    BY <1>1 DEF Partial
  <2>2. p = [ms |-> [q.ms EXCEPT ![s] = a.at], since |-> q.since,
             payload |-> IF s = "grpc" THEN a.payload ELSE q.payload]
    BY <1>2, <2>1
  <2>3. /\ [q.ms EXCEPT ![s] = a.at] \in [Sides -> Nat]
        /\ [q.ms EXCEPT ![s] = a.at][s] = a.at
        /\ [q.ms EXCEPT ![s] = a.at][Other(s)] = q.ms[Other(s)]
    BY <1>3, <1>4, <2>1
  <2> QED
    BY <1>3, <2>1, <2>2, <2>3 DEF Partial
<1> QED
  BY <1>1, <1>4, <1>5

\* What the arm of side s does with arrival a, which makes its entry p: note it,
\* or print a line and drop the entry, and with the last line the summary.
Taken(s, a, p) ==
  /\ ch[s] # <<>> /\ a = Head(ch[s]) /\ p = Noted(getOrCreate(a.num), s, a)
  /\ ch' = [ch EXCEPT ![s] = Tail(ch[s])]
  /\ UNCHANGED <<program, blocks, now, tick, unmatched>> /\ main = "loop"
  /\ \/ /\ p.ms[Other(s)] = 0
        /\ pending' = [n \in DOMAIN pending \cup {a.num} |->
                         IF n = a.num THEN p ELSE pending[n]]
        /\ UNCHANGED <<lines, main, summary>>
     \/ /\ p.ms[Other(s)] # 0
        /\ lines' = Append(lines, [num |-> a.num, payload |-> p.payload,
                                   grpc |-> p.ms["grpc"], ws |-> p.ms["ws"],
                                   delta |-> DeltaOf(p)])
        /\ pending' = [n \in DOMAIN pending \ {a.num} |-> pending[n]]
        /\ \/ Len(lines') = blocks /\ Finish(lines', unmatched)
           \/ Len(lines') # blocks /\ UNCHANGED <<main, summary>>

LEMMA TakeEffect ==
  ASSUME TypeOK, NEW s \in Sides, Take(s)
  PROVE  \E a \in Message, p \in Partial : Taken(s, a, p)
<1> DEFINE a == Head(ch[s])
           p == Noted(getOrCreate(a.num), s, a)
<1>1. ch[s] # <<>> /\ ch[s] \in Seq(Message)
  BY DEF Take, TypeOK
<1>2. a \in Message
  BY <1>1
<1>3. p \in Partial
  BY <1>2, NotedEffect
<1>4. /\ ch' = [ch EXCEPT ![s] = Tail(ch[s])]
      /\ UNCHANGED <<program, blocks, now, tick, unmatched>> /\ main = "loop"
  BY DEF Take
<1>5. CASE p.ms[Other(s)] = 0
  <2>1. /\ pending' = [n \in DOMAIN pending \cup {a.num} |->
                         IF n = a.num THEN p ELSE pending[n]]
        /\ UNCHANGED <<lines, main, summary>>
    BY <1>5 DEF Take
  <2> QED
    BY <1>1, <1>2, <1>3, <1>4, <1>5, <2>1 DEF Taken
<1>6. CASE p.ms[Other(s)] # 0
  <2>1. /\ lines' = Append(lines, [num |-> a.num, payload |-> p.payload,
                                   grpc |-> p.ms["grpc"], ws |-> p.ms["ws"],
                                   delta |-> DeltaOf(p)])
        /\ pending' = [n \in DOMAIN pending \ {a.num} |-> pending[n]]
        /\ \/ Len(lines') = blocks /\ Finish(lines', unmatched)
           \/ Len(lines') # blocks /\ UNCHANGED <<main, summary>>
    BY <1>6 DEF Take, emit, Delete
  <2> QED
    BY <1>1, <1>2, <1>3, <1>4, <1>6, <2>1 DEF Taken
<1> QED
  BY <1>5, <1>6

\* The scan leaves the entries that are not late at its tick.
LEMMA ScanEffect ==
  ASSUME Scan
  PROVE  /\ pending' = [n \in {m \in DOMAIN pending : ~(tick - pending[m].since > Timeout)} |->
                          pending[n]]
         /\ tick # 0 /\ tick' = 0 /\ main = "loop"
         /\ UNCHANGED <<program, blocks, now, feedVars, lines, main, summary>>
<1> DEFINE late == {n \in DOMAIN pending : tick - pending[n].since > Timeout}
<1>1. pending' = [n \in DOMAIN pending \ late |-> pending[n]]
  BY DEF Scan
<1>2. DOMAIN pending \ late = {m \in DOMAIN pending : ~(tick - pending[m].since > Timeout)}
  OBVIOUS
<1> QED
  BY <1>1, <1>2 DEF Scan

\* A subscriber sends what it has just stamped.
LEMMA ArriveEffect ==
  ASSUME TypeOK, NEW s \in Sides, Arrive(s)
  PROVE  \E a \in Message :
           /\ a.at = now /\ (s = "grpc" /\ HasPayload => a.payload = now)
           /\ ch' = [ch EXCEPT ![s] = Append(ch[s], a)]
           /\ UNCHANGED <<program, blocks, now, tick, tableVars, main, summary>>
           /\ main = "loop"
<1>1. PICK n \in Numbers :
        /\ main = "loop"
        /\ ch' = [ch EXCEPT ![s] = Append(ch[s],
                    [num |-> n, at |-> now,
                     payload |-> IF s = "grpc" /\ HasPayload THEN now ELSE 0])]
        /\ UNCHANGED <<program, blocks, now, tick, tableVars, main, summary>>
  BY DEF Arrive
<1> DEFINE a == [num |-> n, at |-> now, payload |-> IF s = "grpc" /\ HasPayload THEN now ELSE 0]
<1>2. /\ a \in Message /\ a.at = now /\ (s = "grpc" /\ HasPayload => a.payload = now)
  BY DEF TypeOK, Message
<1> QED
  BY <1>1, <1>2

\* The channel of a side after an arrival is sent, and after one is taken.
LEMMA QueueEffect ==
  ASSUME TypeOK, NEW s \in Sides
  PROVE  /\ ch[s] \in Seq(Message)
         /\ \A a \in Message :
              /\ Append(ch[s], a) \in Seq(Message)
              /\ \A i \in DOMAIN Append(ch[s], a) :
                   (i \in DOMAIN ch[s] /\ Append(ch[s], a)[i] = ch[s][i]) \/ Append(ch[s], a)[i] = a
         /\ ch[s] # <<>> =>
              /\ Tail(ch[s]) \in Seq(Message)
              /\ \A i \in DOMAIN Tail(ch[s]) : i + 1 \in DOMAIN ch[s] /\ Tail(ch[s])[i] = ch[s][i + 1]
              /\ 1 \in DOMAIN ch[s] /\ Head(ch[s]) = ch[s][1]
<1>1. ch[s] \in Seq(Message)
  BY DEF TypeOK
<1>2. ASSUME NEW a \in Message
      PROVE  /\ Append(ch[s], a) \in Seq(Message)
             /\ \A i \in DOMAIN Append(ch[s], a) :
                  (i \in DOMAIN ch[s] /\ Append(ch[s], a)[i] = ch[s][i]) \/ Append(ch[s], a)[i] = a
  BY <1>1, AppendProperties, LenProperties
<1>3. ch[s] # <<>> =>
        /\ Tail(ch[s]) \in Seq(Message)
        /\ \A i \in DOMAIN Tail(ch[s]) : i + 1 \in DOMAIN ch[s] /\ Tail(ch[s])[i] = ch[s][i + 1]
        /\ 1 \in DOMAIN ch[s] /\ Head(ch[s]) = ch[s][1]
  BY <1>1
<1> QED
  BY <1>1, <1>2, <1>3

-----------------------------------------------------------------------------
(* Types.                                                                  *)

Line == [num : Numbers, payload : Nat, grpc : Nat, ws : Nat, delta : Int]

LEMMA TypeInit == Init => TypeOK
<1> SUFFICES ASSUME Init PROVE TypeOK
  OBVIOUS
<1>1. blocks \in Int
  BY Limits DEF Init
<1>2. lines \in Seq(Line) /\ ch \in [Sides -> Seq(Message)] /\ DOMAIN pending = {}
  BY DEF Init
<1> QED
  BY <1>1, <1>2 DEF Init, TypeOK, Line

LEMMA TypeNext == TypeOK /\ [Next]_vars => TypeOK'
<1> SUFFICES ASSUME TypeOK, [Next]_vars PROVE TypeOK'
  OBVIOUS
<1>1. ASSUME NEW s \in Sides, Take(s) PROVE TypeOK'
  <2>1. PICK a \in Message, p \in Partial : Taken(s, a, p)
    BY <1>1, TakeEffect
  <2>2. ch' \in [Sides -> Seq(Message)]
    BY <2>1, QueueEffect DEF TypeOK, Taken
  <2>3. \A n \in DOMAIN pending' : pending'[n] \in Partial
    BY <2>1 DEF TypeOK, Taken
  <2>4. lines' \in Seq(Line)
    <3> DEFINE l == [num |-> a.num, payload |-> p.payload, grpc |-> p.ms["grpc"],
                     ws |-> p.ms["ws"], delta |-> DeltaOf(p)]
    <3>1. /\ a.num \in Numbers /\ p.payload \in Nat
          /\ p.ms["grpc"] \in Nat /\ p.ms["ws"] \in Nat
      BY DEF Message, Partial, Sides
    <3>2. DeltaOf(p) \in Int
      BY <3>1 DEF DeltaOf
    <3>3. l \in Line
      BY <3>1, <3>2 DEF Line
    <3>4. lines \in Seq(Line)
      BY DEF TypeOK, Line
    <3>5. lines' = lines \/ lines' = Append(lines, l)
      BY <2>1 DEF Taken
    <3> HIDE DEF l
    <3> QED
      BY <3>3, <3>4, <3>5, AppendProperties
  <2>5. main' \in {"loop", "exit0"}
    BY <2>1 DEF Taken, Finish
  <2> QED
    BY <2>1, <2>2, <2>3, <2>4, <2>5 DEF TypeOK, Line, Taken
<1>2. ASSUME NEW s \in Sides, Arrive(s) PROVE TypeOK'
  <2>1. PICK a \in Message :
          /\ ch' = [ch EXCEPT ![s] = Append(ch[s], a)]
          /\ UNCHANGED <<program, blocks, now, tick, tableVars, main, summary>>
    BY <1>2, ArriveEffect
  <2>2. ch' \in [Sides -> Seq(Message)]
    BY <2>1, QueueEffect DEF TypeOK
  <2> QED
    BY <2>1, <2>2 DEF TypeOK, tableVars
<1>3. CASE Scan
  <2>1. \A n \in DOMAIN pending' : pending'[n] \in Partial
    BY <1>3, ScanEffect DEF TypeOK
  <2> QED
    BY <1>3, <2>1, ScanEffect DEF TypeOK, feedVars
<1>4. CASE TimePasses
  BY <1>4 DEF TimePasses, TypeOK, feedVars, tableVars
<1>5. CASE Start \/ Interrupted \/ SubscriberFails
  BY <1>5 DEF Start, Interrupted, SubscriberFails, Finish, TypeOK, feedVars, tableVars
<1>6. CASE UNCHANGED vars
  BY <1>6 DEF vars, TypeOK, feedVars, tableVars
<1> QED
  BY <1>1, <1>2, <1>3, <1>4, <1>5, <1>6 DEF Next

-----------------------------------------------------------------------------
(* Times.                                                                  *)

Timely == ArrivalsFresh /\ TickFresh /\ EntriesYoung /\ MarksRecent

LEMMA TimelyInit == Init => Timely
BY Limits DEF Init, Timely, ArrivalsFresh, TickFresh, EntriesYoung, MarksRecent

\* The times of the state are numbers.
LEMMA TimeTypes ==
  ASSUME TypeOK
  PROVE  /\ now \in Nat /\ tick \in Nat
         /\ \A s \in Sides : \A i \in DOMAIN ch[s] : ch[s][i] \in Message /\ ch[s][i].at \in Nat
         /\ \A n \in DOMAIN pending :
              /\ pending[n].since \in Nat /\ pending[n].payload \in Nat
              /\ \A s \in Sides : pending[n].ms[s] \in Nat
<1>1. now \in Nat /\ tick \in Nat
  BY DEF TypeOK
<1>2. \A s \in Sides : \A i \in DOMAIN ch[s] : ch[s][i] \in Message
  <2>1. \A s \in Sides : ch[s] \in Seq(Message)
    BY DEF TypeOK
  <2> QED
    BY <2>1, ElementOfSeq, LenProperties
<1>3. \A n \in DOMAIN pending :
        /\ pending[n].since \in Nat /\ pending[n].payload \in Nat
        /\ \A s \in Sides : pending[n].ms[s] \in Nat
  BY DEF TypeOK, Partial
<1> QED
  BY <1>1, <1>2, <1>3 DEF Message

\* Time passes only while no arrival and no tick waits longer than it may.
LEMMA TimelyPasses ==
  ASSUME TypeOK, Timely, TimePasses
  PROVE  Timely'
<1>0. /\ now' = now + 1 /\ tick' = IF tick = 0 THEN now + 1 ELSE tick
      /\ ch' = ch /\ pending' = pending
      /\ tick # 0 => now - tick < MaxTickLag
      /\ \A s \in Sides : \A a \in Range(ch[s]) : now - a.at < MaxLag
  BY DEF TimePasses, feedVars, tableVars
<1>1. ArrivalsFresh'
  <2>1. \A s \in Sides : \A i \in DOMAIN ch[s] : now - ch[s][i].at < MaxLag
    BY <1>0 DEF Range
  <2>2. \A s \in Sides : \A i \in DOMAIN ch[s] :
          0 < ch[s][i].at /\ ch[s][i].at <= now + 1 /\ now + 1 - ch[s][i].at <= MaxLag
    <3> TAKE s \in Sides
    <3> TAKE i \in DOMAIN ch[s]
    <3>1. /\ ch[s][i].at \in Nat /\ now \in Nat /\ now - ch[s][i].at < MaxLag
          /\ 0 < ch[s][i].at /\ ch[s][i].at <= now
      BY <2>1, TimeTypes DEF Timely, ArrivalsFresh
    <3>2. \A t \in Nat : 0 < t /\ t <= now /\ now - t < MaxLag
                           => 0 < t /\ t <= now + 1 /\ now + 1 - t <= MaxLag
      BY <3>1, Limits
    <3> QED
      BY <3>1, <3>2
  <2> QED
    BY <1>0, <2>2, TimeTypes DEF ArrivalsFresh
<1>2. TickFresh'
  BY <1>0, TimeTypes, Limits DEF Timely, TickFresh
<1>3. EntriesYoung'
  <2>1. ASSUME NEW n \in DOMAIN pending
        PROVE  pending[n].since <= now' /\ tick' - pending[n].since <= Timeout + MaxTickLag + 1
    <3>1. /\ pending[n].since \in Nat /\ pending[n].since <= now
          /\ tick # 0 => tick - pending[n].since <= Timeout + MaxTickLag + 1
          /\ tick = 0 => now - pending[n].since <= Timeout + MaxTickLag
      BY TimeTypes DEF Timely, EntriesYoung
    <3>2. CASE tick = 0
      BY <1>0, <3>1, <3>2, TimeTypes, Limits
    <3>3. CASE tick # 0
      BY <1>0, <3>1, <3>3, TimeTypes, Limits
    <3> QED
      BY <3>2, <3>3
  <2>2. tick' # 0
    BY <1>0, TimeTypes
  <2> QED
    BY <1>0, <2>1, <2>2 DEF EntriesYoung
<1>4. MarksRecent'
  BY <1>0, TimeTypes DEF Timely, MarksRecent
<1> QED
  BY <1>1, <1>2, <1>3, <1>4 DEF Timely

\* The scan leaves what is at most Timeout older than its tick, which is at
\* most MaxTickLag old.
LEMMA TimelyScan ==
  ASSUME TypeOK, Timely, Scan
  PROVE  Timely'
<1>0. /\ pending' = [n \in {m \in DOMAIN pending : ~(tick - pending[m].since > Timeout)} |->
                       pending[n]]
      /\ tick # 0 /\ tick' = 0 /\ now' = now /\ ch' = ch
  BY ScanEffect DEF feedVars
<1>1. ArrivalsFresh' /\ TickFresh'
  BY <1>0 DEF Timely, ArrivalsFresh, TickFresh
<1>2. \A n \in DOMAIN pending : ~(tick - pending[n].since > Timeout) =>
        now - pending[n].since <= Timeout + MaxTickLag
  BY <1>0, TimeTypes, Limits DEF Timely, TickFresh
<1>3. EntriesYoung'
  BY <1>0, <1>2 DEF Timely, EntriesYoung
<1>4. MarksRecent'
  BY <1>0 DEF Timely, MarksRecent
<1> QED
  BY <1>1, <1>3, <1>4 DEF Timely

\* An entry made now is young, and the mark put in an entry is of an arrival
\* that has waited at most MaxLag.
LEMMA TimelyTake ==
  ASSUME TypeOK, Timely, NEW s \in Sides, Take(s)
  PROVE  Timely'
<1>1. PICK a \in Message, p \in Partial : Taken(s, a, p)
  BY TakeEffect
<1>2. /\ now' = now /\ tick' = tick /\ ch[s] # <<>> /\ ch' = [ch EXCEPT ![s] = Tail(ch[s])]
      /\ a = Head(ch[s]) /\ p = Noted(getOrCreate(a.num), s, a)
      /\ \/ pending' = [n \in DOMAIN pending \cup {a.num} |-> IF n = a.num THEN p ELSE pending[n]]
         \/ pending' = [n \in DOMAIN pending \ {a.num} |-> pending[n]]
  BY <1>1 DEF Taken
<1>3. /\ 1 \in DOMAIN ch[s] /\ a = ch[s][1]
      /\ \A i \in DOMAIN Tail(ch[s]) : i + 1 \in DOMAIN ch[s] /\ Tail(ch[s])[i] = ch[s][i + 1]
  BY <1>2, QueueEffect
<1>4. a.at \in Nat /\ a.at <= now /\ now - a.at <= MaxLag
  BY <1>3, TimeTypes DEF Timely, ArrivalsFresh
<1>5. ArrivalsFresh'
  <2>1. \A t \in Sides : ch'[t] = IF t = s THEN Tail(ch[s]) ELSE ch[t]
    BY <1>2 DEF TypeOK
  <2> QED
    BY <1>2, <1>3, <2>1 DEF Timely, ArrivalsFresh
<1>6. TickFresh'
  BY <1>2 DEF Timely, TickFresh
<1>7. /\ p.since \in Nat /\ p.since <= now
      /\ tick # 0 => tick - p.since <= Timeout + MaxTickLag + 1
      /\ tick = 0 => now - p.since <= Timeout + MaxTickLag
  <2>1. CASE a.num \in DOMAIN pending /\ p.since = pending[a.num].since
    BY <2>1, TimeTypes DEF Timely, EntriesYoung
  <2>2. CASE p.since = now
    BY <2>2, TimeTypes, Limits DEF Timely, TickFresh
  <2> QED
    BY <1>2, <2>1, <2>2, NotedEffect
<1>8. \A t \in Sides : p.ms[t] # 0 => p.ms[t] <= now /\ p.since - p.ms[t] <= MaxLag
  <2>1. p.ms[s] = a.at /\ (p.ms[Other(s)] # 0 => a.num \in DOMAIN pending
          /\ p.since = pending[a.num].since /\ p.ms[Other(s)] = pending[a.num].ms[Other(s)])
    BY <1>2, NotedEffect
  <2>2. Other(s) \in Sides /\ \A t \in Sides : t = s \/ t = Other(s)
    BY DEF Sides, Other
  <2>3. a.at <= now /\ p.since - a.at <= MaxLag
    BY <1>4, <1>7, TimeTypes, Limits
  <2>4. p.ms[Other(s)] # 0 => p.ms[Other(s)] <= now /\ p.since - p.ms[Other(s)] <= MaxLag
    BY <2>1, <2>2 DEF Timely, MarksRecent
  <2> QED
    BY <2>1, <2>2, <2>3, <2>4
<1>9. EntriesYoung'
  BY <1>2, <1>7 DEF Timely, EntriesYoung
<1>10. MarksRecent'
  BY <1>2, <1>8 DEF Timely, MarksRecent
<1> QED
  BY <1>5, <1>6, <1>9, <1>10 DEF Timely

LEMMA TimelyNext == TypeOK /\ Timely /\ [Next]_vars => Timely'
<1> SUFFICES ASSUME TypeOK, Timely, [Next]_vars PROVE Timely'
  OBVIOUS
<1>1. ASSUME NEW s \in Sides, Arrive(s) PROVE Timely'
  <2>1. PICK a \in Message :
          /\ a.at = now /\ ch' = [ch EXCEPT ![s] = Append(ch[s], a)]
          /\ UNCHANGED <<program, blocks, now, tick, tableVars, main, summary>>
    BY <1>1, ArriveEffect
  <2>2. ArrivalsFresh'
    <3>1. \A t \in Sides : ch'[t] = IF t = s THEN Append(ch[s], a) ELSE ch[t]
      BY <2>1 DEF TypeOK
    <3>2. 0 < now /\ now \in Nat /\ now <= now /\ now - now <= MaxLag
      BY TimeTypes, Limits DEF Timely, TickFresh
    <3>3. \A i \in DOMAIN Append(ch[s], a) :
            (i \in DOMAIN ch[s] /\ Append(ch[s], a)[i] = ch[s][i]) \/ Append(ch[s], a)[i] = a
      BY QueueEffect
    <3> QED
      BY <2>1, <3>1, <3>2, <3>3 DEF Timely, ArrivalsFresh
  <2>3. TickFresh' /\ EntriesYoung' /\ MarksRecent'
    BY <2>1 DEF Timely, TickFresh, EntriesYoung, MarksRecent, tableVars
  <2> QED
    BY <2>2, <2>3 DEF Timely
<1>2. CASE Start \/ Interrupted \/ SubscriberFails \/ UNCHANGED vars
  <2>1. UNCHANGED <<now, ch, tick, pending>>
    BY <1>2 DEF Start, Interrupted, SubscriberFails, vars, feedVars, tableVars
  <2> QED
    BY <2>1 DEF Timely, ArrivalsFresh, TickFresh, EntriesYoung, MarksRecent
<1> QED
  BY <1>1, <1>2, TimelyPasses, TimelyScan, TimelyTake DEF Next

-----------------------------------------------------------------------------
(* Lines.                                                                  *)

\* A line is printed by an arm of the select and by nothing else.
LEMMA LineSteps ==
  ASSUME TypeOK, [Next]_vars
  PROVE  (\E s \in Sides : Take(s)) \/ (lines' = lines /\ program' = program)
<1>1. CASE Start \/ TimePasses \/ Scan \/ Interrupted \/ SubscriberFails \/ UNCHANGED vars
  BY <1>1 DEF Start, TimePasses, Scan, Interrupted, SubscriberFails, vars, feedVars, tableVars
<1>2. CASE \E s \in Sides : Arrive(s)
  BY <1>2 DEF Arrive, tableVars
<1> QED
  BY <1>1, <1>2 DEF Next

\* The line an arm prints is of an entry with both times, which are within the
\* window of the time the entry was made.
LEMMA LinePrinted ==
  ASSUME TypeOK, NEW s \in Sides, NEW a \in Message, NEW p \in Partial, Taken(s, a, p)
  PROVE  \/ lines' = lines
         \/ /\ p.ms[Other(s)] # 0 /\ p.ms[s] = a.at
            /\ \A i \in DOMAIN lines' :
                 \/ i \in DOMAIN lines /\ lines'[i] = lines[i]
                 \/ lines'[i] = [num |-> a.num, payload |-> p.payload, grpc |-> p.ms["grpc"],
                                 ws |-> p.ms["ws"], delta |-> DeltaOf(p)]
<1> DEFINE l == [num |-> a.num, payload |-> p.payload, grpc |-> p.ms["grpc"],
                 ws |-> p.ms["ws"], delta |-> DeltaOf(p)]
<1>1. lines' = lines \/ (p.ms[Other(s)] # 0 /\ lines' = Append(lines, l))
  BY DEF Taken
<1>2. p.ms[s] = a.at
  BY NotedEffect DEF Taken
<1>3. l \in Line
  <2>1. /\ a.num \in Numbers /\ p.payload \in Nat /\ p.ms["grpc"] \in Nat /\ p.ms["ws"] \in Nat
    BY DEF Message, Partial, Sides
  <2> QED
    BY <2>1 DEF Line, DeltaOf
<1> HIDE DEF l
<1>4. \A i \in DOMAIN Append(lines, l) :
        (i \in DOMAIN lines /\ Append(lines, l)[i] = lines[i]) \/ Append(lines, l)[i] = l
  <2>1. lines \in Seq(Line)
    BY DEF TypeOK, Line
  <2> QED
    BY <1>3, <2>1, AppendProperties, LenProperties
<1> QED
  BY <1>1, <1>2, <1>4 DEF l

\* Both times of a line lie between the entry's birth, less MaxLag, and now,
\* and an entry that the scan has spared is at most one window old.
LEMMA DeltaNext == TypeOK /\ Timely /\ DeltaInBounds /\ [Next]_vars => DeltaInBounds'
<1> SUFFICES ASSUME TypeOK, Timely, DeltaInBounds, NEW s \in Sides, Take(s) PROVE DeltaInBounds'
  BY LineSteps DEF DeltaInBounds
<1>1. PICK a \in Message, p \in Partial : Taken(s, a, p)
  BY TakeEffect
<1> DEFINE window == Timeout + 1 + 2 * MaxTickLag + MaxLag
<1>2. now \in Nat /\ window \in Nat
  BY TimeTypes, Limits
<1>3. ASSUME p.ms[Other(s)] # 0, p.ms[s] = a.at PROVE DeltaOf(p) \in -window..window
  <2>1. a.num \in DOMAIN pending /\ p.ms[Other(s)] = pending[a.num].ms[Other(s)]
    BY <1>1, <1>3, NotedEffect DEF Taken
  <2>2. /\ a.at \in Nat /\ a.at <= now /\ now - a.at <= MaxLag
    <3>1. 1 \in DOMAIN ch[s] /\ a = ch[s][1]
      BY <1>1, QueueEffect DEF Taken
    <3> QED
      BY <3>1, TimeTypes DEF Timely, ArrivalsFresh
  <2>3. /\ Other(s) \in Sides
        /\ DeltaOf(p) \in {p.ms[s] - p.ms[Other(s)], p.ms[Other(s)] - p.ms[s]}
    BY DEF Other, Sides, DeltaOf
  <2> DEFINE t == p.ms[Other(s)]
             b == pending[a.num].since
  <2>4. /\ t \in Nat /\ t <= now /\ b - t <= MaxLag
    BY <1>3, <2>1, <2>3, TimeTypes DEF Timely, MarksRecent
  <2>5. b \in Nat /\ b <= now /\ now - b <= Timeout + 1 + 2 * MaxTickLag
    <3>1. CASE tick = 0
      BY <2>1, <3>1, TimeTypes, Limits DEF Timely, EntriesYoung
    <3>2. CASE tick # 0
      BY <2>1, <3>2, TimeTypes, Limits DEF Timely, EntriesYoung, TickFresh
    <3> QED
      BY <3>1, <3>2
  <2> HIDE DEF t, b
  <2>6. a.at - t <= window /\ t - a.at <= window /\ a.at - t \in Int
    BY <1>2, <2>2, <2>4, <2>5, Limits
  <2>7. a.at - t \in -window..window /\ t - a.at \in -window..window
    BY <1>2, <2>2, <2>4, <2>6
  <2> QED
    BY <1>3, <2>3, <2>7 DEF t
<1> HIDE DEF window
<1>4. \A i \in DOMAIN lines' : lines'[i].delta \in -window..window
  <2>1. \A i \in DOMAIN lines : lines[i].delta \in -window..window
    BY DEF DeltaInBounds, window
  <2> QED
    BY <1>1, <1>3, <2>1, LinePrinted
<1> QED
  BY <1>4 DEF DeltaInBounds, window

\* The gRPC arm writes the payload with the time, the WS arm neither.
LEMMA PayloadNext ==
  TypeOK /\ PayloadNoted /\ PayloadFromStream /\ [Next]_vars => PayloadNoted' /\ PayloadFromStream'
<1> SUFFICES ASSUME TypeOK, PayloadNoted, PayloadFromStream, [Next]_vars
             PROVE  PayloadNoted' /\ PayloadFromStream'
  OBVIOUS
<1>1. ASSUME NEW s \in Sides, Take(s) PROVE PayloadNoted' /\ PayloadFromStream'
  <2>1. PICK a \in Message, p \in Partial : Taken(s, a, p)
    BY <1>1, TakeEffect
  <2>2. /\ ch[s] # <<>> /\ ch' = [ch EXCEPT ![s] = Tail(ch[s])] /\ program' = program
        /\ p = Noted(getOrCreate(a.num), s, a) /\ a = Head(ch[s])
        /\ \/ pending' = [n \in DOMAIN pending \cup {a.num} |-> IF n = a.num THEN p ELSE pending[n]]
           \/ pending' = [n \in DOMAIN pending \ {a.num} |-> pending[n]]
    BY <2>1 DEF Taken
  <2>3. HasPayload' = HasPayload
    BY <2>2 DEF HasPayload
  <2>4. /\ 1 \in DOMAIN ch[s] /\ a = ch[s][1]
        /\ \A i \in DOMAIN Tail(ch[s]) : i + 1 \in DOMAIN ch[s] /\ Tail(ch[s])[i] = ch[s][i + 1]
    BY <2>2, QueueEffect
  <2>5. HasPayload => p.payload = p.ms["grpc"]
    <3> SUFFICES ASSUME HasPayload PROVE p.payload = p.ms["grpc"]
      OBVIOUS
    <3>1. CASE s = "grpc"
      <4>1. a.payload = a.at
        BY <2>4, <3>1 DEF PayloadNoted
      <4> QED
        BY <2>2, <3>1, <4>1, NotedEffect
    <3>2. CASE s = "ws"
      <4>1. Other(s) = "grpc"
        BY <3>2 DEF Other
      <4> QED
        BY <2>2, <3>2, <4>1, NotedEffect DEF PayloadNoted
    <3> QED
      BY <3>1, <3>2 DEF Sides
  <2>6. PayloadNoted'
    <3> SUFFICES ASSUME HasPayload
                 PROVE  /\ \A i \in DOMAIN ch'["grpc"] : ch'["grpc"][i].payload = ch'["grpc"][i].at
                        /\ \A n \in DOMAIN pending' : pending'[n].payload = pending'[n].ms["grpc"]
      BY <2>3 DEF PayloadNoted
    <3>1. ch'["grpc"] = IF s = "grpc" THEN Tail(ch["grpc"]) ELSE ch["grpc"]
      BY <2>2 DEF TypeOK, Sides
    <3>2. \A i \in DOMAIN ch'["grpc"] : ch'["grpc"][i].payload = ch'["grpc"][i].at
      BY <2>4, <3>1 DEF PayloadNoted
    <3>3. \A n \in DOMAIN pending' : pending'[n].payload = pending'[n].ms["grpc"]
      BY <2>2, <2>5 DEF PayloadNoted
    <3> QED
      BY <3>2, <3>3
  <2>7. HasPayload => \A i \in DOMAIN lines' : lines'[i].payload = lines'[i].grpc
    BY <2>1, <2>5, LinePrinted DEF PayloadFromStream
  <2> QED
    BY <2>3, <2>6, <2>7 DEF PayloadFromStream
<1>2. ASSUME NEW s \in Sides, Arrive(s) PROVE PayloadNoted' /\ PayloadFromStream'
  <2>1. PICK a \in Message :
          /\ a.at = now /\ (s = "grpc" /\ HasPayload => a.payload = now)
          /\ ch' = [ch EXCEPT ![s] = Append(ch[s], a)]
          /\ UNCHANGED <<program, blocks, now, tick, tableVars, main, summary>>
    BY <1>2, ArriveEffect
  <2>2. /\ HasPayload' = HasPayload /\ pending' = pending /\ lines' = lines
        /\ ch'["grpc"] = IF s = "grpc" THEN Append(ch["grpc"], a) ELSE ch["grpc"]
    BY <2>1 DEF HasPayload, tableVars, TypeOK, Sides
  <2>3. \A i \in DOMAIN Append(ch[s], a) :
          (i \in DOMAIN ch[s] /\ Append(ch[s], a)[i] = ch[s][i]) \/ Append(ch[s], a)[i] = a
    BY QueueEffect
  <2>4. HasPayload => \A i \in DOMAIN ch'["grpc"] : ch'["grpc"][i].payload = ch'["grpc"][i].at
    BY <2>1, <2>2, <2>3 DEF PayloadNoted
  <2> QED
    BY <2>2, <2>4 DEF PayloadNoted, PayloadFromStream
<1>3. CASE Scan
  BY <1>3, ScanEffect DEF PayloadNoted, PayloadFromStream, HasPayload, feedVars
<1>4. CASE Start \/ TimePasses \/ Interrupted \/ SubscriberFails \/ UNCHANGED vars
  <2>1. UNCHANGED <<program, ch, pending, lines>>
    BY <1>4 DEF Start, TimePasses, Interrupted, SubscriberFails, vars, feedVars, tableVars
  <2> QED
    BY <2>1 DEF PayloadNoted, PayloadFromStream, HasPayload
<1> QED
  BY <1>1, <1>2, <1>3, <1>4 DEF Next

-----------------------------------------------------------------------------
(* The summary.                                                            *)

\* What printStats counts.
LEMMA StatsCount ==
  ASSUME NEW ls, NEW lost
  PROVE  LET stats == printStats(ls, lost)
         IN  stats.matched = Len(ls) /\ stats.unmatched = lost /\ (stats.data = <<>> <=> ls = <<>>)
BY DEF printStats

LEMMA CountsNext == TypeOK /\ NothingYet /\ SummaryCounts /\ [Next]_vars => NothingYet' /\ SummaryCounts'
<1> SUFFICES ASSUME TypeOK, NothingYet, SummaryCounts, [Next]_vars
             PROVE  NothingYet' /\ SummaryCounts'
  OBVIOUS
<1>0. /\ main = "exit0" <=> summary # <<>>
      /\ main = "loop" /\ blocks >= 0 => Len(lines) < blocks
      /\ lines \in Seq(Line) /\ Len(lines) \in Nat /\ blocks \in Int
  BY LenProperties DEF SummaryCounts, TypeOK, Line
<1>1. ASSUME NEW ls \in Seq(Line), NEW lost, Finish(ls, lost), lines' = ls, unmatched' = lost,
             blocks' = blocks, blocks >= 0 => Len(ls) <= blocks
      PROVE  NothingYet' /\ SummaryCounts'
  <2>1. main' = "exit0" /\ summary' = <<printStats(ls, lost)>>
    BY <1>1 DEF Finish
  <2>2. summary' # <<>> /\ summary'[1] = printStats(ls, lost)
    BY <2>1
  <2> QED
    BY <1>1, <2>1, <2>2, StatsCount DEF NothingYet, SummaryCounts
<1>2. ASSUME NEW s \in Sides, Take(s) PROVE NothingYet' /\ SummaryCounts'
  <2>1. PICK a \in Message, p \in Partial : Taken(s, a, p)
    BY <1>2, TakeEffect
  <2>2. TypeOK'
    BY TypeNext
  <2>3. lines' \in Seq(Line) /\ Len(lines') \in Nat
    BY <2>2, LenProperties DEF TypeOK, Line
  <2>4. CASE UNCHANGED <<lines, main, summary>>
    BY <1>0, <2>1, <2>4 DEF Taken, NothingYet, SummaryCounts
  <2>5. CASE Len(lines') = blocks /\ Finish(lines', unmatched)
    <3>1. unmatched' = unmatched /\ blocks' = blocks /\ Len(lines') <= blocks
      BY <1>0, <2>1, <2>3, <2>5 DEF Taken
    <3> QED
      BY <1>1, <2>3, <2>5, <3>1
  <2>6. ASSUME Len(lines') # blocks, UNCHANGED <<main, summary>>, Len(lines') = Len(lines) + 1
        PROVE  NothingYet' /\ SummaryCounts'
    <3>1. main = "loop" /\ blocks' = blocks /\ summary = <<>>
      BY <1>0, <2>1 DEF Taken
    <3>2. blocks >= 0 => Len(lines') < blocks
      BY <1>0, <2>6, <3>1
    <3> QED
      BY <2>6, <3>1, <3>2 DEF NothingYet, SummaryCounts
  <2>7. lines' = lines \/ Len(lines') = Len(lines) + 1
    <3>1. \A l : Len(Append(lines, l)) = Len(lines) + 1
      BY <1>0
    <3> QED
      BY <2>1, <3>1 DEF Taken
  <2> QED
    BY <2>1, <2>4, <2>5, <2>6, <2>7 DEF Taken
<1>3. CASE Start
  <2>1. /\ main = "flags" /\ lines = <<>> /\ unmatched = 0 /\ summary = <<>>
        /\ UNCHANGED <<lines, unmatched, blocks>>
    BY <1>0, <1>3 DEF Start, NothingYet, tableVars
  <2>2. CASE blocks = 0 /\ Finish(<<>>, 0)
    BY <1>0, <1>1, <2>1, <2>2
  <2>3. CASE blocks < 0 /\ main' = "exit1" /\ UNCHANGED summary
    BY <2>1, <2>3 DEF NothingYet, SummaryCounts
  <2>4. CASE /\ blocks > 0 \/ blocks < 0
             /\ main' = "loop" /\ UNCHANGED summary
    <3>1. Len(lines) = 0 /\ (blocks >= 0 => 0 < blocks)
      BY <1>0, <2>1, <2>4
    <3> QED
      BY <2>1, <2>4, <3>1 DEF NothingYet, SummaryCounts
  <2> QED
    BY <1>3, <2>2, <2>3, <2>4 DEF Start
<1>4. CASE Interrupted
  <2>1. Finish(lines, unmatched) /\ main = "loop" /\ UNCHANGED <<lines, unmatched, blocks>>
    BY <1>4 DEF Interrupted, tableVars
  <2>2. blocks >= 0 => Len(lines) <= blocks
    BY <1>0, <2>1
  <2> QED
    BY <1>0, <1>1, <2>1, <2>2
<1>5. CASE SubscriberFails
  <2>1. main = "loop" /\ main' = "exit1" /\ UNCHANGED <<lines, unmatched, blocks, summary>>
    BY <1>5 DEF SubscriberFails, tableVars
  <2> QED
    BY <1>0, <2>1 DEF NothingYet, SummaryCounts
<1>6. CASE Scan
  <2>1. main = "loop" /\ UNCHANGED <<lines, main, blocks, summary>>
    BY <1>6, ScanEffect
  <2> QED
    BY <1>0, <2>1 DEF NothingYet, SummaryCounts
<1>7. CASE TimePasses \/ (\E s \in Sides : Arrive(s)) \/ UNCHANGED vars
  <2>1. UNCHANGED <<lines, unmatched, main, blocks, summary>>
    BY <1>7 DEF TimePasses, Arrive, vars, feedVars, tableVars
  <2> QED
    BY <2>1 DEF NothingYet, SummaryCounts
<1> QED
  BY <1>2, <1>3, <1>4, <1>5, <1>6, <1>7 DEF Next

-----------------------------------------------------------------------------
(* The theorems.                                                           *)

\* The table, the queues and what was printed stay as the arms of the select
\* leave them: every step keeps the invariant.
THEOREM Invariance == Spec => []IInv
<1>1. Init => IInv
  <2>1. Init => PayloadNoted /\ NothingYet /\ DeltaInBounds /\ PayloadFromStream /\ SummaryCounts
    BY DEF Init, PayloadNoted, NothingYet, DeltaInBounds, PayloadFromStream, SummaryCounts, Sides
  <2> QED
    BY <2>1, TypeInit, TimelyInit DEF IInv, Timely
<1>2. IInv /\ [Next]_vars => IInv'
  BY TypeNext, TimelyNext, PayloadNext, DeltaNext, CountsNext DEF IInv, Timely
<1> QED
  BY <1>1, <1>2, PTL DEF Spec

\* No line pairs times further apart than the matching window and what the
\* scan and the arrivals may be late (getOrCreate, the scan of the ticker's arm
\* and emit), whatever arrives and in whatever order.
THEOREM PairsAreClose == Spec => []DeltaInBounds
<1>1. IInv => DeltaInBounds
  BY DEF IInv
<1> QED
  BY <1>1, Invariance, PTL

\* A line shows the payload of the gRPC notification whose time it shows,
\* whichever side came first and however often a side announces the block.
THEOREM PayloadIsStreams == Spec => []PayloadFromStream
<1>1. IInv => PayloadFromStream
  BY DEF IInv
<1> QED
  BY <1>1, Invariance, PTL

-----------------------------------------------------------------------------
(* Induction.  A claim about every number, or every finite set, is proved  *)
(* from a least counterexample.                                            *)

\* A nonempty set of natural numbers has a least element.
LEMMA LeastNumber ==
  ASSUME NEW T \in SUBSET Nat, T # {}
  PROVE  \E n \in T : \A m \in T : ~(m < n)
<1> DEFINE R == OpToRel(<, Nat)
<1>1. \E n \in T : \A m \in T : ~(<<m, n>> \in R)
  <2> HIDE DEF R
  <2>1. IsWellFoundedOn(R, Nat)
    BY NatLessThanWellFounded DEF R
  <2> QED
    BY <2>1, WFMin
<1> QED
  BY <1>1 DEF OpToRel

\* Of subsets of a finite set, one has none of the others inside it.
LEMMA SmallestSet ==
  ASSUME NEW S, IsFiniteSet(S), NEW T \in SUBSET SUBSET S, T # {}
  PROVE  \E s \in T : \A x \in s : s \ {x} \notin T
<1> DEFINE sizes == {Cardinality(s) : s \in T}
<1>1. \A s \in T : IsFiniteSet(s) /\ Cardinality(s) \in Nat
  BY FS_Subset, FS_CardinalityType
<1>2. PICK n \in sizes : \A m \in sizes : ~(m < n)
  <2>1. sizes \in SUBSET Nat /\ sizes # {}
    BY <1>1
  <2> HIDE DEF sizes
  <2> QED
    BY <2>1, LeastNumber
<1>3. PICK s \in T : n = Cardinality(s)
  BY <1>2
<1>4. ASSUME NEW x \in s, s \ {x} \in T PROVE FALSE
  <2>1. Cardinality(s \ {x}) = Cardinality(s) - 1
    BY <1>1, FS_RemoveElement
  <2> QED
    BY <1>1, <1>2, <1>3, <1>4, <2>1
<1> QED
  BY <1>3, <1>4

-----------------------------------------------------------------------------
(* Folds.  A fold takes the elements of a set in some order.               *)

Pick(s) == CHOOSE x \in s : TRUE

\* Function h folds f with g, on every subset of S.
Folds(h, S, g, f, base) ==
  h = [s \in SUBSET S |-> IF s = {} THEN base ELSE g[<<f[Pick(s)], h[s \ {Pick(s)}]>>]]

\* There is a function that folds: the recursion of the library's definition
\* has a solution.
LEMMA FoldExists ==
  ASSUME NEW S, IsFiniteSet(S), NEW D, NEW g \in [D \X D -> D], NEW f \in [S -> D], NEW base \in D
  PROVE  \E h \in [SUBSET S -> D] : Folds(h, S, g, f, base)
<1> DEFINE Result(h, s) == IF s = {} THEN base ELSE g[<<f[Pick(s)], h[s \ {Pick(s)}]>>]
           Upto(h, n) == \A s \in SUBSET S : Cardinality(s) <= n => h[s] = Result(h, s)
           Bad == {n \in Nat : ~ \E h \in [SUBSET S -> D] : Upto(h, n)}
<1>1. \A s \in SUBSET S : IsFiniteSet(s) /\ Cardinality(s) \in Nat /\ (Cardinality(s) = 0 <=> s = {})
  BY FS_Subset, FS_CardinalityType, FS_EmptySet
<1>2. \A s \in SUBSET S : s # {} => Pick(s) \in s /\ Cardinality(s \ {Pick(s)}) = Cardinality(s) - 1
  BY <1>1, FS_RemoveElement DEF Pick
<1>3. \A h \in [SUBSET S -> D], s \in SUBSET S : Result(h, s) \in D
  BY <1>2
<1>4. Bad = {}
  <2> SUFFICES ASSUME Bad # {} PROVE FALSE
    OBVIOUS
  <2>1. PICK n \in Nat : n \in Bad /\ \A m \in Bad : ~(m < n)
    <3> HIDE DEF Bad
    <3>1. Bad \in SUBSET Nat
      BY DEF Bad
    <3> QED
      BY <3>1, LeastNumber
  <2>2. PICK h \in [SUBSET S -> D] : n # 0 => Upto(h, n - 1)
    <3>1. CASE n = 0
      <4>1. [s \in SUBSET S |-> base] \in [SUBSET S -> D]
        OBVIOUS
      <4> QED
        BY <3>1, <4>1
    <3>2. CASE n # 0
      <4>1. n - 1 \in Nat /\ n - 1 \notin Bad
        <5> HIDE DEF Bad
        <5> QED
          BY <2>1, <3>2
      <4> QED
        BY <4>1
    <3> QED
      BY <3>1, <3>2
  <2> DEFINE k == [s \in SUBSET S |-> IF Cardinality(s) = n THEN Result(h, s) ELSE h[s]]
  <2>3. k \in [SUBSET S -> D]
    BY <1>3
  <2>4. ASSUME NEW s \in SUBSET S, Cardinality(s) <= n PROVE k[s] = Result(k, s)
    <3>1. k[s] = Result(h, s)
      <4>1. CASE Cardinality(s) = n
        BY <4>1
      <4>2. CASE Cardinality(s) # n
        <5>1. n # 0 /\ Cardinality(s) <= n - 1
          <6> HIDE DEF Bad
          <6> QED
            BY <1>1, <2>1, <2>4, <4>2
        <5>2. h[s] = Result(h, s)
          BY <2>2, <5>1
        <5> QED
          BY <4>2, <5>2
      <4> QED
        BY <4>1, <4>2
    <3>2. s # {} => k[s \ {Pick(s)}] = h[s \ {Pick(s)}]
      BY <1>1, <1>2, <2>1, <2>4
    <3> QED
      BY <3>1, <3>2
  <2> QED
    BY <2>1, <2>3, <2>4
<1>5. PICK h \in [SUBSET S -> D] : Upto(h, Cardinality(S))
  <2>1. Cardinality(S) \in Nat /\ Cardinality(S) \notin Bad
    BY <1>1, <1>4
  <2> QED
    BY <2>1
<1>6. \A s \in SUBSET S : h[s] = Result(h, s)
  BY <1>5, FS_Subset
<1>7. h = [s \in SUBSET S |-> Result(h, s)]
  BY <1>5, <1>6
<1> QED
  BY <1>7 DEF Folds

\* The functions that fold with Least, as the library defines folding.
FoldsLeast(h, S, f, base) ==
  h = [s \in SUBSET S |->
         IF s = {} THEN base
         ELSE LET x == CHOOSE x \in s : TRUE IN Least(f[x], h[s \ {x}])]

LEMMA LeastExists ==
  ASSUME NEW S, IsFiniteSet(S), NEW f \in [S -> Int], NEW base \in Int
  PROVE  \E h : FoldsLeast(h, S, f, base)
<1> DEFINE g == [p \in Int \X Int |-> Least(p[1], p[2])]
<1>1. g \in [Int \X Int -> Int] /\ \A a, b \in Int : g[<<a, b>>] = Least(a, b)
  BY DEF Least
<1> HIDE DEF g
<1>2. PICK h \in [SUBSET S -> Int] : Folds(h, S, g, f, base)
  BY <1>1, FoldExists
<1>3. ASSUME NEW s \in SUBSET S, s # {}
      PROVE  g[<<f[Pick(s)], h[s \ {Pick(s)}]>>] = Least(f[Pick(s)], h[s \ {Pick(s)}])
  <2>1. Pick(s) \in S /\ f[Pick(s)] \in Int /\ h[s \ {Pick(s)}] \in Int
    BY <1>3 DEF Pick
  <2> QED
    BY <1>1, <2>1
<1>4. h = [s \in SUBSET S |->
             IF s = {} THEN base ELSE Least(f[Pick(s)], h[s \ {Pick(s)}])]
  BY <1>2, <1>3 DEF Folds
<1>5. FoldsLeast(h, S, f, base)
  BY <1>4 DEF FoldsLeast, Pick
<1> QED
  BY <1>5

\* A lower bound of the base and of the elements, and one of them.
IsLeastOf(m, s, f, base) ==
  m \in {base} \cup {f[i] : i \in s} /\ m <= base /\ \A i \in s : m <= f[i]

LEMMA LeastBounds ==
  ASSUME NEW S, IsFiniteSet(S), NEW f \in [S -> Int], NEW base \in Int,
         NEW h, FoldsLeast(h, S, f, base)
  PROVE  IsLeastOf(h[S], S, f, base)
<1>1. ASSUME NEW s \in SUBSET S, s # {}
      PROVE  Pick(s) \in s /\ h[s] = Least(f[Pick(s)], h[s \ {Pick(s)}])
  BY <1>1 DEF Pick, FoldsLeast
<1>2. h[{}] = base
  BY DEF FoldsLeast
<1> DEFINE Bad == {s \in SUBSET S : ~IsLeastOf(h[s], s, f, base)}
<1>3. Bad = {}
  <2> SUFFICES ASSUME Bad # {} PROVE FALSE
    OBVIOUS
  <2>1. PICK s \in SUBSET S : s \in Bad /\ \A x \in s : s \ {x} \notin Bad
    <3> HIDE DEF Bad
    <3>1. Bad \in SUBSET SUBSET S
      BY DEF Bad
    <3> QED
      BY <3>1, SmallestSet
  <2>2. ~IsLeastOf(h[s], s, f, base)
    BY <2>1
  <2>3. s # {}
    BY <1>2, <2>2 DEF IsLeastOf
  <2> DEFINE x == Pick(s)
  <2>4. x \in s /\ f[x] \in Int /\ h[s] = Least(f[x], h[s \ {x}])
    BY <1>1, <2>3
  <2>5. IsLeastOf(h[s \ {x}], s \ {x}, f, base)
    BY <2>1, <2>4
  <2> HIDE DEF x, Bad
  <2>6. h[s \ {x}] \in Int
    BY <2>5 DEF IsLeastOf
  <2>7. h[s] \in {base} \cup {f[i] : i \in s}
    BY <2>4, <2>5 DEF IsLeastOf, Least
  <2>8. h[s] <= f[x] /\ h[s] <= h[s \ {x}] /\ h[s] \in Int
    BY <2>4, <2>6 DEF Least
  <2>9. h[s] <= base /\ \A i \in s : h[s] <= f[i]
    BY <2>5, <2>6, <2>8 DEF IsLeastOf
  <2> QED
    BY <2>2, <2>7, <2>9 DEF IsLeastOf
<1> QED
  BY <1>3

\* What the loop over the deltas that keeps the least one finds.
LEMMA LeastFold ==
  ASSUME NEW S, IsFiniteSet(S), NEW f \in [S -> Int], NEW base \in Int
  PROVE  IsLeastOf(FoldSeq(Least, base, f), S, f, base)
<1>1. FoldSeq(Least, base, f) = (CHOOSE h : FoldsLeast(h, S, f, base))[S]
  <2>1. DOMAIN f = S
    OBVIOUS
  <2> QED
    BY <2>1 DEF FoldSeq, FoldFunction, FoldFunctionOnSet, MapThenFoldSet, FoldsLeast
<1>2. FoldsLeast(CHOOSE h : FoldsLeast(h, S, f, base), S, f, base)
  BY LeastExists
<1> QED
  BY <1>1, <1>2, LeastBounds

\* The functions that fold with Greatest.
FoldsGreatest(h, S, f, base) ==
  h = [s \in SUBSET S |->
         IF s = {} THEN base
         ELSE LET x == CHOOSE x \in s : TRUE IN Greatest(f[x], h[s \ {x}])]

LEMMA GreatestExists ==
  ASSUME NEW S, IsFiniteSet(S), NEW f \in [S -> Int], NEW base \in Int
  PROVE  \E h : FoldsGreatest(h, S, f, base)
<1> DEFINE g == [p \in Int \X Int |-> Greatest(p[1], p[2])]
<1>1. g \in [Int \X Int -> Int] /\ \A a, b \in Int : g[<<a, b>>] = Greatest(a, b)
  BY DEF Greatest
<1> HIDE DEF g
<1>2. PICK h \in [SUBSET S -> Int] : Folds(h, S, g, f, base)
  BY <1>1, FoldExists
<1>3. ASSUME NEW s \in SUBSET S, s # {}
      PROVE  g[<<f[Pick(s)], h[s \ {Pick(s)}]>>] = Greatest(f[Pick(s)], h[s \ {Pick(s)}])
  <2>1. Pick(s) \in S /\ f[Pick(s)] \in Int /\ h[s \ {Pick(s)}] \in Int
    BY <1>3 DEF Pick
  <2> QED
    BY <1>1, <2>1
<1>4. h = [s \in SUBSET S |->
             IF s = {} THEN base ELSE Greatest(f[Pick(s)], h[s \ {Pick(s)}])]
  BY <1>2, <1>3 DEF Folds
<1>5. FoldsGreatest(h, S, f, base)
  BY <1>4 DEF FoldsGreatest, Pick
<1> QED
  BY <1>5

\* An upper bound of the base and of the elements, and one of them.
IsGreatestOf(m, s, f, base) ==
  m \in {base} \cup {f[i] : i \in s} /\ base <= m /\ \A i \in s : f[i] <= m

LEMMA GreatestBounds ==
  ASSUME NEW S, IsFiniteSet(S), NEW f \in [S -> Int], NEW base \in Int,
         NEW h, FoldsGreatest(h, S, f, base)
  PROVE  IsGreatestOf(h[S], S, f, base)
<1>1. ASSUME NEW s \in SUBSET S, s # {}
      PROVE  Pick(s) \in s /\ h[s] = Greatest(f[Pick(s)], h[s \ {Pick(s)}])
  BY <1>1 DEF Pick, FoldsGreatest
<1>2. h[{}] = base
  BY DEF FoldsGreatest
<1> DEFINE Bad == {s \in SUBSET S : ~IsGreatestOf(h[s], s, f, base)}
<1>3. Bad = {}
  <2> SUFFICES ASSUME Bad # {} PROVE FALSE
    OBVIOUS
  <2>1. PICK s \in SUBSET S : s \in Bad /\ \A x \in s : s \ {x} \notin Bad
    <3> HIDE DEF Bad
    <3>1. Bad \in SUBSET SUBSET S
      BY DEF Bad
    <3> QED
      BY <3>1, SmallestSet
  <2>2. ~IsGreatestOf(h[s], s, f, base)
    BY <2>1
  <2>3. s # {}
    BY <1>2, <2>2 DEF IsGreatestOf
  <2> DEFINE x == Pick(s)
  <2>4. x \in s /\ f[x] \in Int /\ h[s] = Greatest(f[x], h[s \ {x}])
    BY <1>1, <2>3
  <2>5. IsGreatestOf(h[s \ {x}], s \ {x}, f, base)
    BY <2>1, <2>4
  <2> HIDE DEF x, Bad
  <2>6. h[s \ {x}] \in Int
    BY <2>5 DEF IsGreatestOf
  <2>7. h[s] \in {base} \cup {f[i] : i \in s}
    BY <2>4, <2>5 DEF IsGreatestOf, Greatest
  <2>8. f[x] <= h[s] /\ h[s \ {x}] <= h[s] /\ h[s] \in Int
    BY <2>4, <2>6 DEF Greatest
  <2>9. base <= h[s] /\ \A i \in s : f[i] <= h[s]
    BY <2>5, <2>6, <2>8 DEF IsGreatestOf
  <2> QED
    BY <2>2, <2>7, <2>9 DEF IsGreatestOf
<1> QED
  BY <1>3

\* What the loop over the deltas that keeps the greatest one finds.
LEMMA GreatestFold ==
  ASSUME NEW S, IsFiniteSet(S), NEW f \in [S -> Int], NEW base \in Int
  PROVE  IsGreatestOf(FoldSeq(Greatest, base, f), S, f, base)
<1>1. FoldSeq(Greatest, base, f) = (CHOOSE h : FoldsGreatest(h, S, f, base))[S]
  <2>1. DOMAIN f = S
    OBVIOUS
  <2> QED
    BY <2>1 DEF FoldSeq, FoldFunction, FoldFunctionOnSet, MapThenFoldSet, FoldsGreatest
<1>2. FoldsGreatest(CHOOSE h : FoldsGreatest(h, S, f, base), S, f, base)
  BY GreatestExists
<1> QED
  BY <1>1, <1>2, GreatestBounds

\* The functions that sum up.
FoldsSum(h, S, f) ==
  h = [s \in SUBSET S |->
         IF s = {} THEN 0
         ELSE LET x == CHOOSE x \in s : TRUE IN f[x] + h[s \ {x}]]

LEMMA SumExists ==
  ASSUME NEW S, IsFiniteSet(S), NEW f \in [S -> Int]
  PROVE  \E h : FoldsSum(h, S, f)
<1> DEFINE g == [p \in Int \X Int |-> p[1] + p[2]]
<1>1. g \in [Int \X Int -> Int] /\ \A a, b \in Int : g[<<a, b>>] = a + b
  OBVIOUS
<1>2. PICK h \in [SUBSET S -> Int] : Folds(h, S, g, f, 0)
  <2> DEFINE zero == 0
  <2> HIDE DEF g, zero
  <2>1. zero \in Int
    BY DEF zero
  <2>2. \E h \in [SUBSET S -> Int] : Folds(h, S, g, f, zero)
    BY <1>1, <2>1, FoldExists
  <2> QED
    BY <2>2 DEF zero
<1> HIDE DEF g
<1>3. ASSUME NEW s \in SUBSET S, s # {}
      PROVE  g[<<f[Pick(s)], h[s \ {Pick(s)}]>>] = f[Pick(s)] + h[s \ {Pick(s)}]
  <2>1. Pick(s) \in S /\ f[Pick(s)] \in Int /\ h[s \ {Pick(s)}] \in Int
    BY <1>3 DEF Pick
  <2> QED
    BY <1>1, <2>1
<1>4. h = [s \in SUBSET S |->
             IF s = {} THEN 0 ELSE f[Pick(s)] + h[s \ {Pick(s)}]]
  BY <1>2, <1>3 DEF Folds
<1>5. FoldsSum(h, S, f)
  BY <1>4 DEF FoldsSum, Pick
<1> QED
  BY <1>5

\* A sum of n integers between lo and hi.
IsSumOf(m, n, lo, hi) == m \in Int /\ n * lo <= m /\ m <= n * hi

LEMMA SumBounds ==
  ASSUME NEW S, IsFiniteSet(S), NEW lo \in Int, NEW hi \in Int, NEW f \in [S -> Int],
         \A i \in S : lo <= f[i] /\ f[i] <= hi,
         NEW h, FoldsSum(h, S, f)
  PROVE  IsSumOf(h[S], Cardinality(S), lo, hi)
<1>1. ASSUME NEW s \in SUBSET S, s # {}
      PROVE  Pick(s) \in s /\ h[s] = f[Pick(s)] + h[s \ {Pick(s)}]
  BY <1>1 DEF Pick, FoldsSum
<1>2. h[{}] = 0
  BY DEF FoldsSum
<1> DEFINE Bad == {s \in SUBSET S : ~IsSumOf(h[s], Cardinality(s), lo, hi)}
<1>3. Bad = {}
  <2> SUFFICES ASSUME Bad # {} PROVE FALSE
    OBVIOUS
  <2>1. PICK s \in SUBSET S : s \in Bad /\ \A x \in s : s \ {x} \notin Bad
    <3> HIDE DEF Bad
    <3>1. Bad \in SUBSET SUBSET S
      BY DEF Bad
    <3> QED
      BY <3>1, SmallestSet
  <2>2. ~IsSumOf(h[s], Cardinality(s), lo, hi)
    BY <2>1
  <2>3. s # {}
    <3>1. IsSumOf(0, 0, lo, hi)
      BY DEF IsSumOf
    <3> QED
      BY <1>2, <2>2, <3>1, FS_EmptySet
  <2> DEFINE x == Pick(s)
             n == Cardinality(s)
  <2>4. x \in s /\ f[x] \in Int /\ lo <= f[x] /\ f[x] <= hi /\ h[s] = f[x] + h[s \ {x}]
    BY <1>1, <2>3
  <2>5. n \in Nat /\ Cardinality(s \ {x}) = n - 1
    BY <2>4, FS_Subset, FS_RemoveElement, FS_CardinalityType
  <2>6. IsSumOf(h[s \ {x}], n - 1, lo, hi)
    BY <2>1, <2>4, <2>5
  <2> HIDE DEF x, n, Bad
  <2>7. (n - 1) * lo + lo = n * lo /\ (n - 1) * hi + hi = n * hi
    BY <2>5
  <2>8. /\ (n - 1) * lo \in Int /\ (n - 1) * hi \in Int /\ n * lo \in Int /\ n * hi \in Int
        /\ h[s \ {x}] \in Int /\ (n - 1) * lo <= h[s \ {x}] /\ h[s \ {x}] <= (n - 1) * hi
    BY <2>5, <2>6 DEF IsSumOf
  <2>9. IsSumOf(h[s], n, lo, hi)
    BY <2>4, <2>7, <2>8 DEF IsSumOf
  <2> QED
    BY <2>2, <2>9 DEF n
<1> QED
  BY <1>3

Sum(f) == FoldSeq(+, 0, f)

\* What the loop over the deltas that adds them up finds.
LEMMA SumFold ==
  ASSUME NEW S, IsFiniteSet(S), NEW lo \in Int, NEW hi \in Int, NEW f \in [S -> Int],
         \A i \in S : lo <= f[i] /\ f[i] <= hi
  PROVE  IsSumOf(Sum(f), Cardinality(S), lo, hi)
<1>1. Sum(f) = (CHOOSE h : FoldsSum(h, S, f))[S]
  <2>1. DOMAIN f = S
    OBVIOUS
  <2> QED
    BY <2>1 DEF Sum, FoldSeq, FoldFunction, FoldFunctionOnSet, MapThenFoldSet, FoldsSum
<1>2. FoldsSum(CHOOSE h : FoldsSum(h, S, f), S, f)
  BY SumExists
<1> QED
  BY <1>1, <1>2, SumBounds

\* An average is between the least and the greatest, although Go's division
\* rounds toward zero.
LEMMA AverageBetween ==
  ASSUME NEW lo \in Int, NEW hi \in Int, NEW n \in Nat \ {0}, NEW m, IsSumOf(m, n, lo, hi)
  PROVE  Quotient(m, n) \in lo..hi
<1>1. m \in Int /\ n * lo <= m /\ m <= n * hi
  BY DEF IsSumOf
<1>2. CASE m >= 0
  <2> DEFINE q == m \div n
  <2>1. q \in Int /\ q * n <= m /\ m < (q + 1) * n
    BY <1>1, <1>2
  <2>2. Quotient(m, n) = q
    BY <1>2 DEF Quotient
  <2> HIDE DEF q
  <2>3. lo <= q /\ q <= hi
    BY <1>1, <2>1
  <2> QED
    BY <2>1, <2>2, <2>3
<1>3. CASE m < 0
  <2> DEFINE q == (-m) \div n
  <2>1. q \in Int /\ q * n <= -m /\ -m < (q + 1) * n
    BY <1>1, <1>3
  <2>2. Quotient(m, n) = -q
    BY <1>1, <1>3 DEF Quotient
  <2> HIDE DEF q
  <2>3. lo <= -q /\ -q <= hi
    BY <1>1, <2>1
  <2> QED
    BY <2>1, <2>2, <2>3
<1> QED
  BY <1>1, <1>2, <1>3

-----------------------------------------------------------------------------
(* The summary.                                                            *)

ExtremesOf(ls, data) ==
  LET deltas == {ls[i].delta : i \in DOMAIN ls}
  IN  /\ {data.min, data.max} \subseteq deltas
      /\ data.avg \in data.min..data.max
      /\ deltas \subseteq data.min..data.max

\* What printStats says of the lines it is given.
LEMMA StatsExtremes ==
  ASSUME NEW ls \in Seq(Line), ls # <<>>, NEW lost
  PROVE  ExtremesOf(ls, printStats(ls, lost).data[1])
<1> DEFINE S == DOMAIN ls
           f == [i \in S |-> ls[i].delta]
           lo == FoldSeq(Least, f[1], f)
           hi == FoldSeq(Greatest, f[1], f)
           sum == Sum(f)
           n == Len(ls)
<1>1. /\ S = 1..n /\ n \in Nat \ {0} /\ 1 \in S
      /\ IsFiniteSet(S) /\ Cardinality(S) = n
  <2>1. S = 1..n /\ n \in Nat \ {0}
    OBVIOUS
  <2> QED
    BY <2>1, FS_Interval
<1>2. f \in [S -> Int] /\ Len(f) = n /\ \A i \in S : f[i] = ls[i].delta /\ f[i] \in Int
  <2>1. \A i \in S : ls[i].delta \in Int
    <3>1. \A i \in S : ls[i] \in Line
      OBVIOUS
    <3>2. \A l \in Line : l.delta \in Int
      BY DEF Line
    <3> QED
      BY <3>1, <3>2
  <2>2. f \in Seq(Int) /\ DOMAIN f = 1..n
    BY <1>1, <2>1
  <2>3. Len(f) = n
    BY <1>1, <2>2, LenProperties
  <2> QED
    BY <2>1, <2>3
<1>3. printStats(ls, lost).data[1] = [min |-> lo, max |-> hi, avg |-> Quotient(sum, Len(f))]
  BY DEF printStats, Sum
<1> HIDE DEF S, f, n
<1>4. IsLeastOf(lo, S, f, f[1]) /\ IsGreatestOf(hi, S, f, f[1])
  BY <1>1, <1>2, LeastFold, GreatestFold
<1> HIDE DEF lo, hi
<1>5. /\ lo \in Int /\ hi \in Int /\ \A i \in S : lo <= f[i] /\ f[i] <= hi
      /\ lo \in {f[i] : i \in S} /\ hi \in {f[i] : i \in S}
  BY <1>1, <1>2, <1>4 DEF IsLeastOf, IsGreatestOf
<1>6. IsSumOf(sum, n, lo, hi)
  <2>1. f \in [S -> Int] /\ IsFiniteSet(S) /\ lo \in Int /\ hi \in Int
        /\ \A i \in S : lo <= f[i] /\ f[i] <= hi
    BY <1>1, <1>2, <1>5
  <2>2. IsSumOf(Sum(f), Cardinality(S), lo, hi)
    BY ONLY <2>1, SumFold
  <2> QED
    BY <1>1, <2>2
<1> HIDE DEF sum
<1>7. Quotient(sum, Len(f)) \in lo..hi
  BY <1>1, <1>2, <1>5, <1>6, AverageBetween
<1> QED
  BY <1>2, <1>3, <1>5, <1>7 DEF ExtremesOf, S

LEMMA ExtremesNext ==
  IInv /\ SummaryExtremes /\ [Next]_vars => SummaryExtremes'
<1> SUFFICES ASSUME IInv, SummaryExtremes, [Next]_vars PROVE SummaryExtremes'
  OBVIOUS
<1>0. /\ TypeOK /\ lines \in Seq(Line) /\ (main = "exit0" <=> summary # <<>>)
      /\ main = "flags" => lines = <<>>
  BY DEF IInv, TypeOK, Line, SummaryCounts, NothingYet
<1>1. ASSUME NEW ls \in Seq(Line), NEW lost, Finish(ls, lost), lines' = ls
      PROVE  SummaryExtremes'
  <2>1. summary' = <<printStats(ls, lost)>>
    BY <1>1 DEF Finish
  <2>2. summary'[1] = printStats(ls, lost)
    BY <2>1
  <2>3. ls # <<>> => ExtremesOf(ls, summary'[1].data[1])
    BY <2>2, StatsExtremes
  <2> QED
    BY <1>1, <2>3 DEF SummaryExtremes, ExtremesOf
<1>2. ASSUME summary = <<>>, summary' = summary PROVE SummaryExtremes'
  BY <1>2 DEF SummaryExtremes
<1>3. ASSUME NEW s \in Sides, Take(s) PROVE SummaryExtremes'
  <2>1. PICK a \in Message, p \in Partial : Taken(s, a, p)
    BY <1>0, <1>3, TakeEffect
  <2>2. lines' \in Seq(Line)
    BY <1>0, TypeNext DEF TypeOK, Line
  <2>3. CASE Finish(lines', unmatched)
    BY <1>1, <2>2, <2>3
  <2>4. CASE UNCHANGED summary
    BY <1>0, <1>2, <2>1, <2>4 DEF Taken
  <2> QED
    BY <2>1, <2>3, <2>4 DEF Taken
<1>4. CASE Start
  <2>1. main = "flags" /\ lines' = lines /\ (Finish(<<>>, 0) \/ UNCHANGED summary)
    BY <1>4 DEF Start, tableVars
  <2> QED
    BY <1>0, <1>1, <1>2, <2>1
<1>5. CASE Interrupted
  <2>1. Finish(lines, unmatched) /\ lines' = lines
    BY <1>5 DEF Interrupted, tableVars
  <2> QED
    BY <1>0, <1>1, <2>1
<1>6. CASE SubscriberFails \/ Scan \/ TimePasses \/ (\E s \in Sides : Arrive(s)) \/ UNCHANGED vars
  <2>1. UNCHANGED <<lines, summary>>
    BY <1>6 DEF SubscriberFails, Scan, TimePasses, Arrive, vars, feedVars, tableVars
  <2> QED
    BY <2>1 DEF SummaryExtremes
<1> QED
  BY <1>3, <1>4, <1>5, <1>6 DEF Next

\* A summary is printed on an exit with status 0 and on no other, no run goes on
\* past its target, and what is printed are the counts, the extremes and the
\* average of the lines before it, however many and whatever their signs (the
\* flag check, emit's test of matched and printStats), for every --blocks.
THEOREM HonestSummary == Spec => []SummaryHonest
<1>1. Init => SummaryExtremes
  BY DEF Init, SummaryExtremes
<1>2. IInv /\ SummaryExtremes => SummaryHonest
  BY DEF IInv, SummaryHonest
<1> QED
  BY <1>1, <1>2, ExtremesNext, Invariance, PTL DEF Spec
=============================================================================
