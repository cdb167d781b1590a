-------------------------- MODULE RemoteExExProofs --------------------------
(***************************************************************************)
(* Theorems about RemoteExEx, for every set of calls and every capacity.   *)
(***************************************************************************)
EXTENDS RemoteExEx, TLAPS

-----------------------------------------------------------------------------
(* Type correctness.                                                       *)

\* A notification in hand is a real one.
InHand ==
  /\ exex \in {"finish", "bcast", "failed"} => canonPos >= 1
  /\ node = "off" => exex = "ended"

LEMMA TypeInit == Init => TypeOK /\ InHand
  BY BoundAssumption DEF Init, TypeOK, LoopTypeOK, CallTypeOK, InHand

\* Every step keeps the types of the loop's variables.
LEMMA LoopTypeNext == LoopTypeOK /\ InHand /\ [Next]_vars => (LoopTypeOK /\ InHand)'
<1> SUFFICES ASSUME LoopTypeOK, InHand, [Next]_vars PROVE (LoopTypeOK /\ InHand)'
  OBVIOUS
<1> USE DEF LoopTypeOK, InHand
<1>a. Len(canon) \in Nat
  OBVIOUS
<1>1. CASE CanonNotify
  <2>1. /\ canon' \in Seq({"commit", "reorg"})
        /\ Len(canon') = Len(canon) + 1
    BY <1>1, KindsAssumption DEF CanonNotify
  <2>2. UNCHANGED <<node, launches, conn, exex, canonPos, finished, unseen, log>>
    BY <1>1 DEF CanonNotify, nodeVars, exexVars
  <2> QED
    BY <1>a, <2>1, <2>2
<1>2. CASE ServerStart \/ ServerStop \/ NodeExit \/ NodeLaunch
  <2>1. UNCHANGED <<canon, canonPos, finished, unseen, log>>
    BY <1>2 DEF ServerStart, ServerStop, NodeExit, NodeLaunch, exexVars
  <2>2. /\ node' \in {"launching", "serving", "stopping", "off"}
        /\ launches' \in Nat
        /\ conn' \subseteq Subs
        /\ exex' \in {exex, "init", "ended"}
        /\ node' = "off" => exex' = "ended"
    BY <1>2 DEF ServerStart, ServerStop, NodeExit, NodeLaunch, exexVars
  <2> QED
    BY <2>1, <2>2
<1>3. CASE ExExStart
  <2>1. UNCHANGED <<canon, node, launches, conn, finished, log>>
    BY <1>3 DEF ExExStart, nodeVars
  <2>2. canonPos' = Len(canon) /\ canonPos <= canonPos'
    BY <1>3, <1>a DEF ExExStart
  <2>5. unseen' = unseen \union (canonPos + 1 .. Len(canon))
    BY <1>3 DEF ExExStart
  <2>3. unseen' \subseteq 1 .. canonPos'
    <3>1. ASSUME NEW i \in unseen' PROVE i \in 1 .. Len(canon)
      <4>1. CASE i \in unseen
        BY <1>a, <2>2, <4>1
      <4>2. CASE i \in canonPos + 1 .. Len(canon)
        BY <1>a, <4>2
      <4> QED
        BY <2>5, <4>1, <4>2
    <3> QED
      BY <2>2, <3>1
  <2>4. exex' = "recv" /\ node # "off"
    BY <1>3 DEF ExExStart
  <2> QED
    BY <1>a, <2>1, <2>2, <2>3, <2>4
<1>4. CASE ExExRecv
  <2> DEFINE skipTo == IF canonPos < Len(canon) - CanonCap
                       THEN Len(canon) - CanonCap ELSE canonPos
  <2>1. skipTo \in canonPos .. Len(canon) - 1
    BY <1>4, <1>a, CapAssumption DEF ExExRecv
  <2>2. canonPos' = skipTo + 1 /\ unseen' = unseen \union (canonPos + 1 .. skipTo)
    BY <1>4 DEF ExExRecv
  <2>3. UNCHANGED <<canon, node, launches, conn, finished, log>> /\ exex' = "finish"
    BY <1>4 DEF ExExRecv, nodeVars
  <2>4. node # "off"
    BY <1>4 DEF ExExRecv
  <2> HIDE DEF skipTo
  <2>5. canonPos' \in 1 .. Len(canon) /\ canonPos <= canonPos'
    BY <1>a, <2>1, <2>2
  <2>6. unseen' \subseteq 1 .. canonPos'
    BY <1>a, <2>1, <2>2
  <2> QED
    BY <1>a, <2>3, <2>4, <2>5, <2>6
<1>5. CASE ExExFinish
  BY <1>5, <1>a DEF ExExFinish, nodeVars
<1>6. CASE ExExFinishFails \/ ExExStreamEnd
  BY <1>6 DEF ExExFinishFails, ExExStreamEnd, nodeVars
<1>7. CASE ExExBroadcast
  <2>1. log' \in Seq(Nat)
    BY <1>7 DEF ExExBroadcast
  <2> QED
    BY <1>7, <2>1 DEF ExExBroadcast, nodeVars
<1>8. ASSUME NEW s \in Subs,
             Subscribe(s) \/ TaskStep(s) \/ ClientRecv(s) \/ ClientCancel(s) \/ ClientDisconnect(s)
      PROVE  UNCHANGED <<canon, node, launches, exexVars>> /\ conn' \subseteq Subs
  BY <1>8 DEF Subscribe, TaskStep, TaskRecv, TaskLagged, TaskSend, TaskSendFails,
     TaskClosed, ClientRecv, ClientCancel, ClientDisconnect, nodeVars
<1>9. CASE UNCHANGED <<canon, node, launches, exexVars>> /\ conn' \subseteq Subs
  BY <1>9 DEF exexVars
<1>10. CASE UNCHANGED vars
  BY <1>9, <1>10 DEF vars, nodeVars
<1> QED
  BY <1>1, <1>2, <1>3, <1>4, <1>5, <1>6, <1>7, <1>8, <1>9, <1>10
  DEF Next, ExExStep

\* Every step keeps the types of the calls' variables.
LEMMA CallTypeNext == TypeOK /\ InHand /\ [Next]_vars => CallTypeOK'
<1> SUFFICES ASSUME LoopTypeOK, CallTypeOK, InHand, [Next]_vars PROVE CallTypeOK'
  BY DEF TypeOK
<1> USE DEF CallTypeOK
<1>a. Len(log) \in Nat /\ Handled \in Nat /\ Overwritten \in Int
  BY CapAssumption DEF LoopTypeOK, InHand, Handled, Overwritten
<1>1. CASE UNCHANGED subVars
  BY <1>1 DEF subVars
<1>2. CASE NodeExit
  BY <1>2 DEF NodeExit
<1>3. ASSUME NEW s \in Subs, Subscribe(s) PROVE CallTypeOK'
  BY <1>3, <1>a DEF Subscribe
<1>4. ASSUME NEW s \in Subs, TaskRecv(s) PROVE CallTypeOK'
  BY <1>4 DEF TaskRecv
<1>5. ASSUME NEW s \in Subs, TaskLagged(s) PROVE CallTypeOK'
  BY SMTT(30), <1>5, <1>a DEF TaskLagged
<1>6. ASSUME NEW s \in Subs, TaskSend(s) PROVE CallTypeOK'
  BY <1>6 DEF TaskSend
<1>7. ASSUME NEW s \in Subs, TaskSendFails(s) \/ TaskClosed(s) PROVE CallTypeOK'
  BY <1>7 DEF TaskSendFails, TaskClosed
<1>9. ASSUME NEW s \in Subs, ClientRecv(s) PROVE CallTypeOK'
  BY <1>9 DEF ClientRecv
<1>10. ASSUME NEW s \in Subs, ClientCancel(s) \/ ClientDisconnect(s) PROVE CallTypeOK'
  BY <1>10 DEF ClientCancel, ClientDisconnect
<1>8. CASE CanonNotify \/ ServerStart \/ ServerStop \/ NodeLaunch \/ ExExStep
           \/ ExExFinishFails
  BY <1>1, <1>8 DEF CanonNotify, ServerStart, ServerStop, NodeLaunch, ExExStep,
     ExExStart, ExExRecv, ExExFinish, ExExFinishFails, ExExBroadcast, ExExStreamEnd
<1> QED
  BY <1>1, <1>2, <1>3, <1>4, <1>5, <1>6, <1>7, <1>8, <1>9, <1>10 DEF Next, TaskStep, vars

\* Type correctness of the server.
THEOREM TypeCorrect == Spec => []TypeOK
<1>1. TypeOK /\ InHand /\ [Next]_vars => (TypeOK /\ InHand)'
  BY LoopTypeNext, CallTypeNext DEF TypeOK
<1> QED
  BY <1>1, TypeInit, PTL DEF Spec

-----------------------------------------------------------------------------
(* The rest of the inductive invariant.                                    *)

\* A call that has not been made has left no trace.
Unused ==
  \A s \in Subs : stream[s] = "none" =>
    task[s] = "none" /\ sent[s] = <<>> /\ taken[s] = 0 /\ lost[s] = 0

\* A call comes over a connection, and runs no longer than it.
Connected ==
  \A s \in Subs :
    /\ stream[s] = "open" => s \in conn
    /\ s \in conn => stream[s] # "none"

\* A task reads between its start and the end of the channel.
Cursors ==
  \A s \in Subs :
    /\ start[s] <= next[s] /\ next[s] <= Len(log)
    /\ task[s] = "send" => start[s] < next[s]
    /\ taken[s] <= Len(sent[s])

\* The channel holds the canonical notifications in order, each at most once,
\* and never the one the loop still has in hand.
LogOrder ==
  /\ \A k \in 1 .. Len(log) :
       /\ log[k] \in 1 .. canonPos
       /\ exex \in {"finish", "bcast", "failed"} => log[k] < canonPos
  /\ \A j, k \in 1 .. Len(log) : j < k => log[j] < log[k]

\* What a task has sent is in order, after its start, and behind its cursor;
\* strictly behind while it still holds the message at its cursor.
SentOrder ==
  \A s \in Subs :
    /\ \A j \in 1 .. Len(sent[s]) :
         /\ start[s] < sent[s][j] /\ sent[s][j] <= next[s]
         /\ task[s] = "send" => sent[s][j] < next[s]
    /\ \A j, k \in 1 .. Len(sent[s]) : j < k => sent[s][j] < sent[s][k]

\* Between the FinishedHeight of a Commit and its broadcast, it is the last.
FinishedInHand ==
  exex = "bcast" /\ canon[canonPos] = "commit" => finished = canonPos

IInv ==
  /\ TypeOK /\ InHand /\ Connected /\ Unused /\ Cursors /\ LogOrder /\ SentOrder
  /\ EveryGapCounted /\ FinishedInHand /\ FinishedBeforeVisible
  /\ NoUnexplainedGap /\ StreamStaysOpen

LEMMA IInvInit == Init => IInv
<1> SUFFICES ASSUME Init PROVE IInv
  OBVIOUS
<1>1. TypeOK /\ InHand
  BY TypeInit
<1>2. Connected /\ Unused /\ Cursors
  BY DEF Init, Connected, Unused, Cursors
<1>3. LogOrder /\ SentOrder
  BY DEF Init, LogOrder, SentOrder
<1>4. Receivers = {} /\ StreamStaysOpen
  BY DEF Init, Receivers, StreamStaysOpen
<1>5. EveryGapCounted /\ NoUnexplainedGap
  BY <1>4 DEF EveryGapCounted, NoUnexplainedGap
<1>6. FinishedInHand /\ FinishedBeforeVisible
  BY DEF Init, FinishedInHand, FinishedBeforeVisible
<1> QED
  BY <1>1, <1>2, <1>3, <1>4, <1>5, <1>6 DEF IInv

\* Only the broadcast changes the log, and by one entry; it changes no call.
LEMMA LogStep ==
  ASSUME TypeOK, InHand, [Next]_vars
  PROVE  \/ UNCHANGED log
         \/ /\ ExExBroadcast
            /\ log' = Append(log, canonPos)
            /\ Receivers # {}
            /\ UNCHANGED <<canon, canonPos, subVars>>
<1>1. CASE ExExBroadcast
  BY <1>1 DEF ExExBroadcast
<1>2. CASE ~ ExExBroadcast
  BY <1>2 DEF Next, vars, exexVars, CanonNotify, ServerStart, ServerStop, NodeExit,
     NodeLaunch, ExExStep, ExExStart, ExExRecv, ExExFinish, ExExFinishFails,
     ExExStreamEnd, Subscribe, TaskStep, TaskRecv, TaskLagged, TaskSend,
     TaskSendFails, TaskClosed, ClientRecv, ClientCancel, ClientDisconnect
<1> QED
  BY <1>1, <1>2

\* A step of a call changes that call only, and nothing of the loop.
CallStep(s) ==
  Subscribe(s) \/ TaskStep(s) \/ ClientRecv(s) \/ ClientCancel(s) \/ ClientDisconnect(s)

LEMMA CallFrame ==
  ASSUME TypeOK, NEW s \in Subs, CallStep(s)
  PROVE  /\ UNCHANGED <<canon, node, launches, exexVars>>
         /\ \A r \in Subs \ {s} :
              /\ stream'[r] = stream[r] /\ task'[r] = task[r]
              /\ start'[r] = start[r] /\ from'[r] = from[r]
              /\ next'[r] = next[r] /\ sent'[r] = sent[r]
              /\ taken'[r] = taken[r] /\ lost'[r] = lost[r]
<1> USE DEF TypeOK, CallTypeOK, nodeVars
<1>1. CASE Subscribe(s)
  BY <1>1 DEF Subscribe
<1>2. CASE TaskRecv(s)
  BY <1>2 DEF TaskRecv
<1>3. CASE TaskLagged(s)
  BY <1>3 DEF TaskLagged
<1>4. CASE TaskSend(s)
  BY <1>4 DEF TaskSend
<1>5. CASE TaskSendFails(s) \/ TaskClosed(s)
  BY <1>5 DEF TaskSendFails, TaskClosed
<1>6. CASE ClientRecv(s)
  BY <1>6 DEF ClientRecv
<1>7. CASE ClientCancel(s) \/ ClientDisconnect(s)
  BY <1>7 DEF ClientCancel, ClientDisconnect
<1> QED
  BY <1>1, <1>2, <1>3, <1>4, <1>5, <1>6, <1>7 DEF CallStep, TaskStep

\* What is left of Next: steps that leave every call alone, and NodeExit.
LEMMA NextSplit ==
  ASSUME [Next]_vars
  PROVE  UNCHANGED subVars \/ NodeExit \/ \E s \in Subs : CallStep(s)
  BY DEF Next, CallStep, vars, CanonNotify, ServerStart, ServerStop, NodeLaunch,
     ExExStep, ExExStart, ExExRecv, ExExFinish, ExExFinishFails, ExExBroadcast,
     ExExStreamEnd

\* What a step of call s does to s, one disjunct per action.
KeepsPosition(s) == start'[s] = start[s] /\ from'[s] = from[s]
KeepsQueue(s) == sent'[s] = sent[s] /\ taken'[s] = taken[s]

Opens(s) ==
  /\ stream[s] = "none" /\ stream'[s] = "open" /\ task'[s] = "recv"
  /\ start'[s] = Len(log) /\ next'[s] = Len(log) /\ from'[s] = Handled
  /\ KeepsQueue(s) /\ lost'[s] = lost[s]

Reads(s) ==
  /\ task[s] = "recv" /\ task'[s] = "send" /\ stream'[s] = stream[s]
  /\ next[s] < Len(log) /\ next[s] >= Overwritten /\ next'[s] = next[s] + 1
  /\ KeepsPosition(s) /\ KeepsQueue(s) /\ lost'[s] = lost[s]

Lags(s) ==
  /\ task[s] = "recv" /\ task'[s] = task[s] /\ stream'[s] = stream[s]
  /\ next[s] < Overwritten /\ next'[s] = Overwritten
  /\ lost'[s] = lost[s] + (Overwritten - next[s])
  /\ KeepsPosition(s) /\ KeepsQueue(s)

Sends(s) ==
  /\ task[s] = "send" /\ task'[s] = "recv"
  /\ stream[s] = "open" /\ stream'[s] = "open"
  /\ sent'[s] = Append(sent[s], next[s]) /\ taken'[s] = taken[s]
  /\ KeepsPosition(s) /\ next'[s] = next[s] /\ lost'[s] = lost[s]

Ends(s) ==
  /\ task[s] \in {"recv", "send"} /\ task'[s] = "done"
  /\ stream[s] # "open" /\ stream'[s] = stream[s]
  /\ KeepsPosition(s) /\ KeepsQueue(s) /\ next'[s] = next[s] /\ lost'[s] = lost[s]

Takes(s) ==
  /\ stream[s] = "open" /\ stream'[s] = "open" /\ task'[s] = task[s]
  /\ taken[s] < Len(sent[s]) /\ taken'[s] = taken[s] + 1 /\ sent'[s] = sent[s]
  /\ KeepsPosition(s) /\ next'[s] = next[s] /\ lost'[s] = lost[s]

Leaves(s) ==
  /\ stream[s] # "none" /\ stream'[s] = "closed" /\ task'[s] = task[s]
  /\ KeepsPosition(s) /\ KeepsQueue(s) /\ next'[s] = next[s] /\ lost'[s] = lost[s]

CallEffect(s) ==
  Opens(s) \/ Reads(s) \/ Lags(s) \/ Sends(s) \/ Ends(s) \/ Takes(s) \/ Leaves(s)

LEMMA CallEffects ==
  ASSUME TypeOK, Connected, NEW s \in Subs, CallStep(s)
  PROVE  CallEffect(s)
<1> USE DEF TypeOK, CallTypeOK, CallEffect, KeepsPosition, KeepsQueue
<1>a. Len(log) \in Nat
  BY DEF LoopTypeOK
<1>1. CASE Subscribe(s)
  BY <1>1 DEF Subscribe, Opens
<1>2. CASE TaskRecv(s)
  BY <1>2, <1>a DEF TaskRecv, Unread, Reads
<1>3. CASE TaskLagged(s)
  BY <1>3, <1>a, CapAssumption DEF TaskLagged, Overwritten, Lags
<1>4. CASE TaskSend(s)
  BY <1>4 DEF TaskSend, Sends
<1>5. CASE TaskSendFails(s)
  BY <1>5 DEF TaskSendFails, Ends
<1>6. CASE TaskClosed(s)
  BY <1>6 DEF TaskClosed, SendersGone, Connected, Ends
<1>7. CASE ClientRecv(s)
  BY <1>7 DEF ClientRecv, Queued, Takes
<1>8. CASE ClientCancel(s) \/ ClientDisconnect(s)
  BY <1>8 DEF ClientCancel, ClientDisconnect, Connected, Leaves
<1> QED
  BY <1>1, <1>2, <1>3, <1>4, <1>5, <1>6, <1>7, <1>8 DEF CallStep, TaskStep

\* NodeExit ends every call that was made and moves nothing else of it.
LEMMA ExitEffect ==
  ASSUME TypeOK, NodeExit
  PROVE  /\ UNCHANGED <<canon, canonPos, finished, unseen, log>>
         /\ UNCHANGED <<start, from, next, sent, taken, lost>>
         /\ exex' = "ended"
         /\ \A s \in Subs :
              /\ stream'[s] = IF stream[s] = "none" THEN "none" ELSE "closed"
              /\ task'[s] = IF task[s] = "none" THEN "none" ELSE "done"
  BY DEF TypeOK, CallTypeOK, NodeExit

\* A connection begins with its call, and ends it.
LEMMA ConnectedNext == TypeOK /\ Connected /\ [Next]_vars => Connected'
<1> SUFFICES ASSUME TypeOK, Connected, [Next]_vars PROVE Connected'
  OBVIOUS
<1> USE DEF Connected
<1>1. CASE UNCHANGED <<conn, stream>>
  BY <1>1
<1>2. CASE NodeExit
  BY <1>2, ExitEffect DEF NodeExit
<1>3. ASSUME NEW s \in Subs, Subscribe(s) PROVE Connected'
  BY <1>3 DEF Subscribe, TypeOK, CallTypeOK
<1>4. ASSUME NEW s \in Subs, ClientCancel(s) PROVE Connected'
  BY <1>4 DEF ClientCancel, TypeOK, CallTypeOK, nodeVars
<1>5. ASSUME NEW s \in Subs, ClientDisconnect(s) PROVE Connected'
  BY <1>5 DEF ClientDisconnect, TypeOK, CallTypeOK
<1>6. CASE CanonNotify \/ ServerStart \/ ServerStop \/ NodeLaunch \/ ExExStep
           \/ ExExFinishFails \/ UNCHANGED vars
  <2>1. UNCHANGED <<conn, stream>>
    BY <1>6 DEF CanonNotify, ServerStart, ServerStop, NodeLaunch, ExExStep, ExExStart, ExExRecv,
       ExExFinish, ExExFinishFails, ExExBroadcast, ExExStreamEnd, vars, nodeVars, subVars
  <2> QED
    BY <1>1, <2>1
<1>7. ASSUME NEW s \in Subs, TaskStep(s) \/ ClientRecv(s) PROVE Connected'
  <2>1. UNCHANGED <<conn, stream>>
    BY <1>7 DEF TaskStep, TaskRecv, TaskLagged, TaskSend, TaskSendFails, TaskClosed, ClientRecv,
       nodeVars
  <2> QED
    BY <1>1, <2>1
<1> QED
  BY <1>2, <1>3, <1>4, <1>5, <1>6, <1>7 DEF Next

LEMMA UnusedNext == TypeOK /\ Connected /\ Unused /\ [Next]_vars => Unused'
<1> SUFFICES ASSUME TypeOK, Connected, Unused, [Next]_vars PROVE Unused'
  OBVIOUS
<1> USE DEF Unused
<1>1. CASE UNCHANGED subVars
  BY <1>1 DEF subVars
<1>2. CASE NodeExit
  BY <1>2, ExitEffect DEF TypeOK, CallTypeOK
<1>3. ASSUME NEW s \in Subs, CallStep(s) PROVE Unused'
  <2>1. stream'[s] # "none"
    BY <1>3, CallEffects
    DEF CallEffect, Opens, Reads, Lags, Sends, Ends, Takes, Leaves
  <2> QED
    BY <1>3, <2>1, CallFrame
<1> QED
  BY <1>1, <1>2, <1>3, NextSplit

LEMMA OpenNext ==
  TypeOK /\ Connected /\ StreamStaysOpen /\ [Next]_vars => StreamStaysOpen'
<1> SUFFICES ASSUME TypeOK, Connected, StreamStaysOpen, [Next]_vars
             PROVE  StreamStaysOpen'
  OBVIOUS
<1> USE DEF StreamStaysOpen, Receivers
<1>1. CASE UNCHANGED subVars
  BY <1>1 DEF subVars
<1>2. CASE NodeExit
  BY <1>2, ExitEffect
<1>3. ASSUME NEW s \in Subs, CallStep(s) PROVE StreamStaysOpen'
  <2>1. stream'[s] = "open" => task'[s] \in {"recv", "send"}
    BY <1>3, CallEffects
    DEF CallEffect, Opens, Reads, Lags, Sends, Ends, Takes, Leaves
  <2> QED
    BY <1>3, <2>1, CallFrame
<1> QED
  BY <1>1, <1>2, <1>3, NextSplit

LEMMA CursorsNext ==
  TypeOK /\ Connected /\ InHand /\ Unused /\ Cursors /\ [Next]_vars => Cursors'
<1> SUFFICES ASSUME TypeOK, Connected, InHand, Unused, Cursors, [Next]_vars PROVE Cursors'
  OBVIOUS
<1> USE DEF Cursors
<1>a. Len(log) \in Nat /\ Len(log)' \in Nat /\ Len(log) <= Len(log)'
  <2>1. canonPos \in Nat /\ log \in Seq(Nat)
    BY DEF TypeOK, LoopTypeOK
  <2> QED
    BY <2>1, LogStep
<1>1. CASE UNCHANGED subVars
  BY <1>1, <1>a DEF subVars, TypeOK, CallTypeOK
<1>2. CASE NodeExit
  BY <1>2, ExitEffect
<1>3. ASSUME NEW s \in Subs, CallStep(s) PROVE Cursors'
  <2>1. UNCHANGED log
    BY <1>3, CallFrame DEF exexVars
  <2>2. /\ start[s] \in Nat /\ next[s] \in Nat /\ sent[s] \in Seq(Nat)
        /\ taken[s] \in Nat /\ Overwritten \in Int /\ Overwritten <= Len(log)
    BY <1>a, CapAssumption DEF TypeOK, CallTypeOK, Overwritten
  <2>3. /\ start'[s] <= next'[s] /\ next'[s] <= Len(log)
        /\ task'[s] = "send" => start'[s] < next'[s]
        /\ taken'[s] <= Len(sent'[s])
    <3> USE <1>a, <2>2 DEF KeepsPosition, KeepsQueue
    <3>1. CASE Opens(s)
      BY <3>1 DEF Opens
    <3>2. CASE Reads(s)
      BY <3>2 DEF Reads
    <3>3. CASE Lags(s)
      BY <3>3 DEF Lags
    <3>4. CASE Sends(s)
      BY <3>4 DEF Sends
    <3>5. CASE Ends(s) \/ Takes(s) \/ Leaves(s)
      BY <3>5 DEF Ends, Takes, Leaves
    <3> QED
      BY <1>3, <3>1, <3>2, <3>3, <3>4, <3>5, CallEffects DEF CallEffect
  <2> QED
    BY <1>3, <2>1, <2>3, CallFrame
<1> QED
  BY <1>1, <1>2, <1>3, NextSplit

LEMMA GapNext ==
  TypeOK /\ Connected /\ Unused /\ Cursors /\ EveryGapCounted /\ [Next]_vars => EveryGapCounted'
<1> SUFFICES ASSUME TypeOK, Connected, Unused, Cursors, EveryGapCounted, [Next]_vars
             PROVE  EveryGapCounted'
  OBVIOUS
<1>a. \A s \in Subs : task[s] \in {"recv", "send"} =>
        Len(sent[s]) + lost[s] + (IF task[s] = "send" THEN 1 ELSE 0)
          = next[s] - start[s]
  BY DEF EveryGapCounted, Receivers
<1>1. CASE UNCHANGED subVars
  BY <1>1 DEF subVars, EveryGapCounted, Receivers
<1>2. CASE NodeExit
  BY <1>2, ExitEffect DEF EveryGapCounted, Receivers
<1>3. ASSUME NEW s \in Subs, CallStep(s) PROVE EveryGapCounted'
  <2>2. /\ start[s] \in Nat /\ next[s] \in Nat /\ sent[s] \in Seq(Nat)
        /\ lost[s] \in Nat /\ Overwritten \in Int /\ Len(log) \in Nat
    BY CapAssumption DEF TypeOK, CallTypeOK, LoopTypeOK, Overwritten
  <2>4. /\ task[s] = "recv" => Len(sent[s]) + lost[s] = next[s] - start[s]
        /\ task[s] = "send" => Len(sent[s]) + lost[s] + 1 = next[s] - start[s]
    <3>1. task[s] \in {"recv", "send"} =>
            Len(sent[s]) + lost[s] + (IF task[s] = "send" THEN 1 ELSE 0)
              = next[s] - start[s]
      BY <1>a
    <3> QED
      BY <2>2, <3>1
  <2>3. task'[s] \in {"recv", "send"} =>
          Len(sent'[s]) + lost'[s] + (IF task'[s] = "send" THEN 1 ELSE 0)
            = next'[s] - start'[s]
    <3> USE DEF KeepsPosition, KeepsQueue
    <3>1. CASE Opens(s)
      BY <2>2, <3>1 DEF Opens, Unused
    <3>2. CASE Reads(s)
      BY <2>2, <2>4, <3>2 DEF Reads
    <3>3. CASE Lags(s)
      <4>1. /\ task'[s] = "recv" /\ task[s] = "recv"
            /\ sent'[s] = sent[s] /\ start'[s] = start[s]
            /\ next'[s] = Overwritten
            /\ lost'[s] = lost[s] + (Overwritten - next[s])
        BY <3>3 DEF Lags
      <4>2. PICK l \in Nat, o \in Int : l = Len(sent[s]) /\ o = Overwritten
        BY <2>2
      <4>3. l + lost[s] = next[s] - start[s]
        BY <2>4, <4>1, <4>2
      <4>4. l + (lost[s] + (o - next[s])) = o - start[s]
        <5>1. lost[s] \in Nat /\ next[s] \in Nat /\ start[s] \in Nat
          BY <2>2
        <5> QED
          BY <4>3, <5>1
      <4>5. l + lost'[s] = next'[s] - start'[s]
        BY <4>1, <4>2, <4>4
      <4> QED
        BY <4>1, <4>2, <4>5, <2>2
    <3>4. CASE Sends(s)
      BY <2>2, <2>4, <3>4 DEF Sends
    <3>5. CASE Ends(s) \/ Takes(s) \/ Leaves(s)
      BY <2>2, <2>4, <3>5 DEF Ends, Takes, Leaves
    <3> QED
      BY <1>3, <3>1, <3>2, <3>3, <3>4, <3>5, CallEffects DEF CallEffect
  <2> QED
    BY <1>3, <1>a, <2>3, CallFrame DEF EveryGapCounted, Receivers
<1> QED
  BY <1>1, <1>2, <1>3, NextSplit

LEMMA LogOrderNext ==
  TypeOK /\ InHand /\ LogOrder /\ [Next]_vars => LogOrder'
<1> SUFFICES ASSUME TypeOK, InHand, LogOrder, [Next]_vars PROVE LogOrder'
  OBVIOUS
<1> USE DEF LogOrder
<1>a. /\ canonPos \in Nat /\ canonPos' \in Nat /\ canonPos <= canonPos'
      /\ log \in Seq(Nat) /\ Len(log) \in Nat
  <2>1. (LoopTypeOK /\ InHand)'
    BY LoopTypeNext DEF TypeOK
  <2>2. /\ canonPos \in Nat /\ canonPos' \in Nat
        /\ Len(canon) \in Nat /\ canonPos <= Len(canon)
    BY <2>1 DEF TypeOK, LoopTypeOK
  <2>3. canonPos' \in {canonPos, Len(canon)} \/ ExExRecv
    BY DEF Next, vars, exexVars, CanonNotify, ServerStart, ServerStop, NodeExit,
       NodeLaunch, ExExStep, ExExStart, ExExFinish, ExExFinishFails,
       ExExBroadcast, ExExStreamEnd, Subscribe, TaskStep, TaskRecv, TaskLagged,
       TaskSend, TaskSendFails, TaskClosed, ClientRecv, ClientCancel, ClientDisconnect
  <2>4. ExExRecv => canonPos <= canonPos'
    BY <2>2, CapAssumption DEF ExExRecv
  <2> QED
    BY <2>2, <2>3, <2>4 DEF TypeOK, LoopTypeOK
<1>b. \A k \in 1 .. Len(log) :
        log[k] \in Nat /\ 1 <= log[k] /\ log[k] <= canonPos
  BY <1>a
<1>1. CASE UNCHANGED log
  <2>1. ASSUME NEW k \in 1 .. Len(log)
        PROVE  exex' \in {"finish", "bcast", "failed"} => log[k] < canonPos'
    <3>1. CASE ExExRecv
      <4>1. canonPos < canonPos'
        BY <3>1, <1>a, CapAssumption DEF ExExRecv, TypeOK, LoopTypeOK
      <4> QED
        BY <1>a, <1>b, <4>1
    <3>2. CASE ~ ExExRecv
      <4>1. exex' \in {"finish", "bcast", "failed"} =>
              exex \in {"finish", "bcast", "failed"}
        BY <3>2 DEF Next, vars, exexVars, CanonNotify, ServerStart, ServerStop,
           NodeExit, NodeLaunch, ExExStep, ExExStart, ExExFinish, ExExFinishFails,
           ExExBroadcast, ExExStreamEnd, Subscribe, TaskStep, TaskRecv, TaskLagged,
           TaskSend, TaskSendFails, TaskClosed, ClientRecv, ClientCancel, ClientDisconnect
      <4> QED
        BY <1>a, <1>b, <4>1
    <3> QED
      BY <3>1, <3>2
  <2> QED
    BY <1>1, <1>a, <1>b, <2>1
<1>2. CASE /\ ExExBroadcast
           /\ log' = Append(log, canonPos)
           /\ canonPos' = canonPos
  <2>1. \A k \in 1 .. Len(log) : log[k] < canonPos
    BY <1>2 DEF ExExBroadcast
  <2>2. exex' = "recv" /\ canonPos >= 1
    BY <1>2 DEF ExExBroadcast, InHand
  <2>3. /\ Len(log') = Len(log) + 1
        /\ \A k \in 1 .. Len(log) : log'[k] = log[k]
        /\ log'[Len(log) + 1] = canonPos
    BY <1>2, <1>a
  <2> QED
    BY <1>2, <1>a, <1>b, <2>1, <2>2, <2>3
<1> QED
  BY <1>1, <1>2, LogStep

LEMMA SentOrderNext ==
  TypeOK /\ Connected /\ Unused /\ Cursors /\ SentOrder /\ [Next]_vars => SentOrder'
<1> SUFFICES ASSUME TypeOK, Connected, Unused, Cursors, SentOrder, [Next]_vars
             PROVE  SentOrder'
  OBVIOUS
<1>1. CASE UNCHANGED subVars
  BY <1>1 DEF subVars, SentOrder
<1>2. CASE NodeExit
  BY <1>2, ExitEffect DEF SentOrder
<1>3. ASSUME NEW s \in Subs, CallStep(s) PROVE SentOrder'
  <2> DEFINE Ok(q, b, n, t) ==
        /\ \A j \in 1 .. Len(q) :
             b < q[j] /\ q[j] <= n /\ (t = "send" => q[j] < n)
        /\ \A j, k \in 1 .. Len(q) : j < k => q[j] < q[k]
  <2>1. Ok(sent[s], start[s], next[s], task[s])
    BY DEF SentOrder
  <2>2. /\ start[s] \in Nat /\ next[s] \in Nat /\ sent[s] \in Seq(Nat)
        /\ Len(sent[s]) \in Nat /\ Overwritten \in Int /\ Len(log) \in Nat
        /\ \A j \in 1 .. Len(sent[s]) : sent[s][j] \in Nat
    BY SMTT(30), CapAssumption DEF TypeOK, CallTypeOK, LoopTypeOK, Overwritten
  <2>3. Ok(sent'[s], start'[s], next'[s], task'[s])
    <3> USE DEF KeepsPosition, KeepsQueue
    <3>1. CASE Opens(s)
      <4>1. sent'[s] = <<>>
        BY <3>1 DEF Opens, Unused
      <4> QED
        BY <4>1
    <3>2. CASE Reads(s)
      <4>1. /\ task[s] = "recv" /\ next'[s] = next[s] + 1
            /\ start'[s] = start[s] /\ sent'[s] = sent[s]
        BY <3>2 DEF Reads
      <4>2. \A j \in 1 .. Len(sent[s]) : sent[s][j] < next'[s]
        BY <2>1, <2>2, <4>1
      <4> QED
        BY <2>1, <2>2, <4>1, <4>2
    <3>3. CASE Lags(s)
      <4>1. /\ task'[s] = "recv" /\ next[s] < next'[s] /\ next'[s] \in Int
            /\ start'[s] = start[s] /\ sent'[s] = sent[s]
        BY <2>2, <3>3 DEF Lags
      <4>2. \A j \in 1 .. Len(sent[s]) : sent[s][j] <= next'[s]
        BY <2>1, <2>2, <4>1
      <4> QED
        BY <2>1, <4>1, <4>2
    <3>4. CASE Sends(s)
      <4>1. /\ sent'[s] = Append(sent[s], next[s])
            /\ start'[s] = start[s] /\ next'[s] = next[s] /\ task'[s] = "recv"
        BY <3>4 DEF Sends
      <4>2. start[s] < next[s] /\ \A j \in 1 .. Len(sent[s]) : sent[s][j] < next[s]
        BY <2>1, <3>4 DEF Sends, Cursors
      <4>3. /\ Len(sent'[s]) = Len(sent[s]) + 1
            /\ \A j \in 1 .. Len(sent[s]) : sent'[s][j] = sent[s][j]
            /\ sent'[s][Len(sent[s]) + 1] = next[s]
        BY <2>2, <4>1
      <4> QED
        BY SMTT(30), <2>1, <2>2, <4>1, <4>2, <4>3
    <3>5. CASE Ends(s) \/ Takes(s) \/ Leaves(s)
      BY <2>1, <2>2, <3>5 DEF Ends, Takes, Leaves
    <3> QED
      BY <1>3, <3>1, <3>2, <3>3, <3>4, <3>5, CallEffects DEF CallEffect
  <2> QED
    BY <1>3, <2>3, CallFrame DEF SentOrder
<1> QED
  BY <1>1, <1>2, <1>3, NextSplit

\* How the loop's variables move, whatever the step.
LEMMA LoopStep ==
  ASSUME TypeOK, InHand, [Next]_vars
  PROVE  /\ \A i \in 1 .. canonPos : canon'[i] = canon[i]
         /\ finished <= finished'
         /\ exex' = "bcast" =>
              \/ ExExFinish
              \/ exex = "bcast" /\ UNCHANGED <<canonPos, finished>>
<1> USE DEF TypeOK, LoopTypeOK
<1>1. CASE CanonNotify
  <2>1. \A i \in 1 .. Len(canon) : canon'[i] = canon[i]
    BY <1>1, KindsAssumption DEF CanonNotify
  <2> QED
    BY <1>1, <2>1 DEF CanonNotify, exexVars
<1>2. CASE ExExFinish
  BY <1>2 DEF ExExFinish
<1>3. CASE ~ CanonNotify /\ ~ ExExFinish
  <2>1. UNCHANGED <<canon, finished>>
    BY <1>3 DEF Next, vars, exexVars, ServerStart, ServerStop, NodeExit, NodeLaunch,
       ExExStep, ExExStart, ExExRecv, ExExFinishFails, ExExBroadcast, ExExStreamEnd,
       Subscribe, TaskStep, TaskRecv, TaskLagged, TaskSend, TaskSendFails, TaskClosed,
       ClientRecv, ClientCancel, ClientDisconnect
  <2>2. exex' = "bcast" => exex = "bcast" /\ UNCHANGED canonPos
    BY <1>3 DEF Next, vars, exexVars, ServerStart, ServerStop, NodeExit, NodeLaunch,
       ExExStep, ExExStart, ExExRecv, ExExFinishFails, ExExBroadcast, ExExStreamEnd,
       Subscribe, TaskStep, TaskRecv, TaskLagged, TaskSend, TaskSendFails, TaskClosed,
       ClientRecv, ClientCancel, ClientDisconnect
  <2> QED
    BY <2>1, <2>2
<1> QED
  BY <1>1, <1>2, <1>3

LEMMA FinishedNext ==
  /\ TypeOK /\ InHand /\ LogOrder /\ FinishedInHand /\ FinishedBeforeVisible
  /\ [Next]_vars
  => (FinishedInHand /\ FinishedBeforeVisible)'
<1> SUFFICES ASSUME TypeOK, InHand, LogOrder, FinishedInHand, FinishedBeforeVisible,
                    [Next]_vars
             PROVE  (FinishedInHand /\ FinishedBeforeVisible)'
  OBVIOUS
<1>a. /\ canonPos \in Nat /\ finished \in Nat /\ finished' \in Nat
      /\ finished <= finished' /\ Len(log) \in Nat /\ log \in Seq(Nat)
  BY LoopStep, LoopTypeNext DEF TypeOK, LoopTypeOK
<1>b. \A i \in 1 .. canonPos : canon'[i] = canon[i]
  BY LoopStep
<1>1. FinishedInHand'
  <2> SUFFICES ASSUME exex' = "bcast", canon'[canonPos'] = "commit"
               PROVE  finished' = canonPos'
    BY DEF FinishedInHand
  <2>1. CASE ExExFinish
    BY <2>1 DEF ExExFinish
  <2>2. CASE exex = "bcast" /\ UNCHANGED <<canonPos, finished>>
    <3>1. canonPos \in 1 .. canonPos
      BY <1>a, <2>2 DEF InHand
    <3> QED
      BY <1>b, <2>2, <3>1 DEF FinishedInHand
  <2> QED
    BY <2>1, <2>2, LoopStep
<1>2. \A k \in 1 .. Len(log) : log[k] \in Nat /\ canon'[log[k]] = canon[log[k]]
  BY <1>a, <1>b DEF LogOrder
<1>3. \A k \in 1 .. Len(log) : canon'[log[k]] = "commit" => log[k] <= finished'
  BY <1>a, <1>2 DEF FinishedBeforeVisible
<1>4. CASE UNCHANGED log
  BY <1>1, <1>3, <1>4 DEF FinishedBeforeVisible
<1>5. CASE ExExBroadcast /\ log' = Append(log, canonPos)
  <2>1. canon' = canon /\ finished' = finished /\ exex = "bcast"
    BY <1>5 DEF ExExBroadcast
  <2>2. canon[canonPos] = "commit" => canonPos <= finished
    BY <1>a, <2>1 DEF FinishedInHand
  <2>3. /\ Len(log') = Len(log) + 1
        /\ \A k \in 1 .. Len(log) : log'[k] = log[k]
        /\ log'[Len(log) + 1] = canonPos
    BY <1>a, <1>5
  <2> QED
    BY <1>1, <1>a, <1>3, <2>1, <2>2, <2>3 DEF FinishedBeforeVisible
<1> QED
  BY <1>4, <1>5, LogStep

LEMMA NoUnexplainedGapNext ==
  TypeOK /\ Connected /\ InHand /\ Cursors /\ NoUnexplainedGap /\ [Next]_vars => NoUnexplainedGap'
<1> SUFFICES ASSUME TypeOK, Connected, InHand, Cursors, NoUnexplainedGap, [Next]_vars
             PROVE  NoUnexplainedGap'
  OBVIOUS
<1> DEFINE Explained(s, i) == i \in unseen \/ \E k \in start[s] + 1 .. Len(log) : log[k] = i
<1>a. \A s \in Receivers : \A i \in from[s] + 1 .. Handled : Explained(s, i)
  BY DEF NoUnexplainedGap
<1>b. /\ canonPos \in Nat /\ Len(canon) \in Nat /\ canonPos <= Len(canon)
      /\ log \in Seq(Nat) /\ Len(log) \in Nat /\ Handled \in Int
      /\ \A s \in Subs : from[s] \in Nat /\ start[s] \in Nat
  BY DEF TypeOK, LoopTypeOK, CallTypeOK, Handled
<1>1. CASE UNCHANGED <<Receivers, start, from, unseen, log, Handled>>
  BY <1>1 DEF NoUnexplainedGap
<1>2. CASE Receivers' = {}
  BY <1>2 DEF NoUnexplainedGap
<1>3. CASE ExExStart \/ ExExRecv
  <2>1. UNCHANGED <<log, start, from, task>>
    BY <1>3 DEF ExExStart, ExExRecv, subVars
  <2>2. /\ Handled = canonPos /\ Handled' \in Int
        /\ unseen' = unseen \union (canonPos + 1 .. Handled')
    BY <1>3, <1>b, CapAssumption DEF ExExStart, ExExRecv, Handled
  <2>3. Receivers' = Receivers
    BY <2>1 DEF Receivers
  <2> SUFFICES ASSUME NEW s \in Receivers, NEW i \in from[s] + 1 .. Handled'
               PROVE  i \in unseen' \/ \E k \in start[s] + 1 .. Len(log) : log[k] = i
    BY <2>1, <2>3 DEF NoUnexplainedGap
  <2>4. s \in Subs
    BY DEF Receivers
  <2>5. i \in from[s] + 1 .. Handled \/ i \in canonPos + 1 .. Handled'
    BY <1>b, <2>2, <2>4
  <2> QED
    BY <1>a, <2>2, <2>5
<1>4. CASE ExExBroadcast
  <2>1. UNCHANGED <<unseen, start, from, task>> /\ canonPos' = canonPos
    BY <1>4 DEF ExExBroadcast, subVars
  <2>2. Receivers' = Receivers
    BY <2>1 DEF Receivers
  <2>3. Handled = canonPos - 1 /\ Handled' = canonPos
    BY <1>4 DEF ExExBroadcast, Handled
  <2> SUFFICES ASSUME NEW s \in Receivers, NEW i \in from[s] + 1 .. canonPos
               PROVE  i \in unseen \/ \E k \in start[s] + 1 .. Len(log') : log'[k] = i
    BY <2>1, <2>2, <2>3 DEF NoUnexplainedGap
  <2>4. /\ s \in Subs
        /\ log' = Append(log, canonPos)
    BY <1>4 DEF Receivers, ExExBroadcast
  <2>5. /\ Len(log') = Len(log) + 1
        /\ \A k \in 1 .. Len(log) : log'[k] = log[k]
        /\ log'[Len(log) + 1] = canonPos
    BY <1>b, <2>4
  <2>6. CASE i = canonPos
    <3>1. Len(log) + 1 \in start[s] + 1 .. Len(log')
      BY <1>b, <2>4, <2>5 DEF Cursors, TypeOK, CallTypeOK
    <3> QED
      BY <2>5, <2>6, <3>1
  <2>7. CASE i # canonPos
    <3>1. i \in from[s] + 1 .. Handled
      BY <1>b, <2>3, <2>4, <2>7
    <3>2. i \in unseen \/ \E k \in start[s] + 1 .. Len(log) : log[k] = i
      BY <1>a, <3>1
    <3> QED
      BY <1>b, <2>4, <2>5, <3>2
  <2> QED
    BY <2>6, <2>7
<1>5. ASSUME NEW s \in Subs, CallStep(s) PROVE NoUnexplainedGap'
  <2>1. UNCHANGED <<unseen, log, Handled>>
    BY <1>5, CallFrame DEF exexVars, Handled
  <2>2. \/ start'[s] = start[s] /\ from'[s] = from[s] /\ (s \in Receivers' => s \in Receivers)
        \/ from'[s] = Handled
    BY <1>5, CallEffects DEF CallEffect, KeepsPosition, Opens, Reads, Lags, Sends,
       Ends, Takes, Leaves, Receivers
  <2>3. \A r \in Receivers' \ {s} :
          r \in Receivers /\ start'[r] = start[r] /\ from'[r] = from[r]
    BY <1>5, CallFrame DEF Receivers
  <2> SUFFICES ASSUME NEW r \in Receivers', NEW i \in from'[r] + 1 .. Handled
               PROVE  i \in unseen \/ \E k \in start'[r] + 1 .. Len(log) : log[k] = i
    BY <2>1 DEF NoUnexplainedGap
  <2>4. CASE r \in Receivers /\ start'[r] = start[r] /\ from'[r] = from[r]
    BY <1>a, <2>4
  <2>5. CASE from'[r] = Handled
    <3>1. i \in Handled + 1 .. Handled
      BY <2>5
    <3> QED
      BY <1>b, <3>1
  <2> QED
    BY <2>2, <2>3, <2>4, <2>5
<1>6. CASE CanonNotify \/ ServerStart \/ ServerStop \/ ExExFinish \/ ExExFinishFails
           \/ ExExStreamEnd \/ UNCHANGED vars
  <2>1. UNCHANGED <<task, start, from, unseen, log, canonPos>>
    BY <1>6 DEF CanonNotify, ServerStart, ServerStop, ExExFinish, ExExFinishFails,
       ExExStreamEnd, vars, exexVars, subVars
  <2>2. UNCHANGED Handled
    BY <1>6 DEF CanonNotify, ServerStart, ServerStop, ExExFinish, ExExFinishFails,
       ExExStreamEnd, vars, exexVars, Handled
  <2> QED
    BY <1>1, <2>1, <2>2 DEF Receivers
<1>7. CASE NodeExit
  BY <1>2, <1>7, ExitEffect DEF Receivers
<1>8. CASE NodeLaunch
  <2>1. exex = "ended" /\ exex' = "init" /\ UNCHANGED <<task, start, from, unseen, log, canonPos>>
    BY <1>8 DEF NodeLaunch, InHand, subVars
  <2> QED
    BY <1>1, <2>1 DEF Receivers, Handled
<1> QED
  BY <1>3, <1>4, <1>5, <1>6, <1>7, <1>8 DEF Next, ExExStep, CallStep

LEMMA IInvNext == IInv /\ [Next]_vars => IInv'
  BY LoopTypeNext, CallTypeNext, ConnectedNext, UnusedNext, CursorsNext, LogOrderNext, SentOrderNext,
     GapNext, FinishedNext, NoUnexplainedGapNext, OpenNext DEF IInv, TypeOK

THEOREM Invariance == Spec => []IInv
  BY IInvInit, IInvNext, PTL DEF Spec

-----------------------------------------------------------------------------
(* The safety properties.                                                  *)

\* What a client has taken lies between its call and the end of the channel.
LEMMA TakenPositions ==
  ASSUME IInv, NEW s \in Subs, NEW j \in 1 .. taken[s]
  PROVE  /\ j \in 1 .. Len(sent[s])
         /\ sent[s][j] \in Nat /\ start[s] \in Nat /\ start[s] < sent[s][j]
         /\ sent[s][j] \in 1 .. Len(log)
<1>1. /\ taken[s] \in Nat /\ sent[s] \in Seq(Nat) /\ taken[s] <= Len(sent[s])
      /\ start[s] \in Nat /\ next[s] \in Nat /\ next[s] <= Len(log) /\ Len(log) \in Nat
  BY DEF IInv, TypeOK, LoopTypeOK, CallTypeOK, Cursors
<1>2. j \in 1 .. Len(sent[s])
  BY <1>1
<1>3. sent[s][j] \in Nat
  BY <1>1, <1>2
<1>4. start[s] < sent[s][j] /\ sent[s][j] <= next[s]
  BY <1>2 DEF IInv, SentOrder
<1>5. 1 <= sent[s][j] /\ sent[s][j] <= Len(log)
  BY <1>1, <1>3, <1>4
<1> QED
  BY <1>1, <1>2, <1>3, <1>4, <1>5

\* No call ever receives a notification twice or out of order.
THEOREM InOrder == Spec => []DeliveredInOrder
<1>1. IInv => DeliveredInOrder
  <2> SUFFICES ASSUME IInv, NEW s \in Subs,
                      NEW j \in 1 .. taken[s], NEW k \in 1 .. taken[s], j < k
               PROVE  log[sent[s][j]] < log[sent[s][k]]
    BY DEF DeliveredInOrder
  <2>1. /\ j \in 1 .. Len(sent[s]) /\ k \in 1 .. Len(sent[s])
        /\ sent[s][j] \in 1 .. Len(log) /\ sent[s][k] \in 1 .. Len(log)
    BY TakenPositions
  <2>2. sent[s][j] < sent[s][k]
    BY <2>1 DEF IInv, SentOrder
  <2> QED
    BY <2>1, <2>2 DEF IInv, LogOrder
<1> QED
  BY <1>1, Invariance, PTL

\* A reconnecting client never gets a notification a second time.
THEOREM NoRepeat == Spec => []ReconnectNeverRepeats
<1>1. IInv => ReconnectNeverRepeats
  <2> SUFFICES ASSUME IInv, NEW r \in Subs, NEW s \in Subs,
                      NEW j \in 1 .. taken[r], NEW k \in 1 .. taken[s],
                      sent[r][j] <= start[s]
               PROVE  log[sent[r][j]] < log[sent[s][k]]
    BY DEF ReconnectNeverRepeats
  <2>1. /\ sent[r][j] \in 1 .. Len(log) /\ sent[r][j] \in Nat
        /\ sent[s][k] \in 1 .. Len(log) /\ sent[s][k] \in Nat
        /\ start[s] \in Nat /\ start[s] < sent[s][k]
    BY TakenPositions
  <2>2. sent[r][j] < sent[s][k]
    BY <2>1
  <2> QED
    BY <2>1, <2>2 DEF IInv, LogOrder
<1> QED
  BY <1>1, Invariance, PTL

\* The Lagged counts account for every notification a call was not sent.
THEOREM GapsCounted == Spec => []EveryGapCounted
<1>1. IInv => EveryGapCounted
  BY DEF IInv
<1> QED
  BY <1>1, Invariance, PTL

\* No Commit is visible before its FinishedHeight has been sent.
THEOREM FinishedFirst == Spec => []FinishedBeforeVisible
<1>1. IInv => FinishedBeforeVisible
  BY DEF IInv
<1> QED
  BY <1>1, Invariance, PTL

\* Nothing the loop has handled is withheld from a running task.
THEOREM GapsExplained == Spec => []NoUnexplainedGap
<1>1. IInv => NoUnexplainedGap
  BY DEF IInv
<1> QED
  BY <1>1, Invariance, PTL

\* The server never ends the stream of a client that is still there: neither a
\* lag nor a full queue nor the end of the loop or of the server makes the task
\* return, since its own connection holds a sender (it may be silent for ever).
THEOREM NeverHungUp == Spec => []StreamStaysOpen
<1>1. IInv => StreamStaysOpen
  BY DEF IInv
<1> QED
  BY <1>1, Invariance, PTL

-----------------------------------------------------------------------------
(* The server implements NotificationFeed.                                 *)

\* The position before the j-th message of a call.
Before(s, j) == IF j = 1 THEN start[s] ELSE sent[s][j - 1]

\* From position p to position q nothing young is passed over.
Step(p, q) == q = p + 1 \/ q - 1 <= Overwritten

\* Every message a task has sent follows the one before it, or what lies between
\* has been overwritten; likewise for the message at the task's cursor.
WindowInv ==
  \A s \in Subs :
    /\ \A j \in 1 .. Len(sent[s]) : Step(Before(s, j), sent[s][j])
    /\ task[s] = "recv" => Step(Before(s, Len(sent[s]) + 1), next[s] + 1)
    /\ task[s] = "send" => Step(Before(s, Len(sent[s]) + 1), next[s])

LEMMA WindowInit == Init => WindowInv
<1> SUFFICES ASSUME Init, NEW s \in Subs
             PROVE  /\ \A j \in 1 .. Len(sent[s]) : Step(Before(s, j), sent[s][j])
                    /\ task[s] = "none"
  BY DEF WindowInv
<1> QED
  BY DEF Init

LEMMA WindowNext ==
  TypeOK /\ Connected /\ InHand /\ Unused /\ Cursors /\ WindowInv /\ [Next]_vars => WindowInv'
<1> SUFFICES ASSUME TypeOK, Connected, InHand, Unused, Cursors, WindowInv, [Next]_vars
             PROVE  WindowInv'
  OBVIOUS
<1> DEFINE Ok(b, q, n, t, o) ==
      /\ \A j \in 1 .. Len(q) :
           q[j] = (IF j = 1 THEN b ELSE q[j - 1]) + 1 \/ q[j] - 1 <= o
      /\ t = "recv" =>
           n + 1 = (IF Len(q) + 1 = 1 THEN b ELSE q[(Len(q) + 1) - 1]) + 1 \/ (n + 1) - 1 <= o
      /\ t = "send" =>
           n = (IF Len(q) + 1 = 1 THEN b ELSE q[(Len(q) + 1) - 1]) + 1 \/ n - 1 <= o
<1>a. \A s \in Subs : Ok(start[s], sent[s], next[s], task[s], Overwritten)
  BY DEF WindowInv, Step, Before
<1>b. (\A s \in Subs : Ok(start'[s], sent'[s], next'[s], task'[s], Overwritten')) => WindowInv'
  BY DEF WindowInv, Step, Before
<1>c. /\ Len(log) \in Nat /\ Overwritten \in Int
      /\ \A s \in Subs : /\ start[s] \in Nat /\ next[s] \in Nat /\ sent[s] \in Seq(Nat)
                         /\ Len(sent[s]) \in Nat
                         /\ \A j \in 1 .. Len(sent[s]) : sent[s][j] \in Nat
  BY SMTT(30), CapAssumption DEF TypeOK, LoopTypeOK, CallTypeOK, Overwritten
<1>1. CASE UNCHANGED subVars
  <2>1. Overwritten' \in Int /\ Overwritten <= Overwritten'
    <3>1. Len(log') \in Nat /\ Len(log) <= Len(log')
      <4>1. canonPos \in Nat /\ log \in Seq(Nat)
        BY DEF TypeOK, LoopTypeOK
      <4> QED
        BY <1>c, <4>1, LogStep
    <3> QED
      BY <1>c, <3>1, CapAssumption DEF Overwritten
  <2> SUFFICES ASSUME NEW s \in Subs
               PROVE  Ok(start[s], sent[s], next[s], task[s], Overwritten')
    BY <1>1, <1>b DEF subVars
  <2> QED
    BY SMTT(30), <1>a, <1>c, <2>1
<1>2. CASE NodeExit
  <2>1. UNCHANGED <<start, sent, next, Overwritten>>
    BY <1>2, ExitEffect DEF Overwritten
  <2>2. \A s \in Subs : task'[s] \in {"none", "done"}
    BY <1>2, ExitEffect
  <2> QED
    BY <1>a, <1>b, <2>1, <2>2
<1>3. ASSUME NEW s \in Subs, CallStep(s) PROVE WindowInv'
  <2>1. UNCHANGED Overwritten
    BY <1>3, CallFrame DEF exexVars, Overwritten
  <2>2. Ok(start'[s], sent'[s], next'[s], task'[s], Overwritten)
    <3> USE DEF KeepsPosition, KeepsQueue
    <3>1. CASE Opens(s)
      <4>1. /\ sent'[s] = <<>> /\ task'[s] = "recv" /\ start'[s] = next'[s]
            /\ start'[s] = Len(log)
        BY <3>1 DEF Opens, Unused
      <4> QED
        BY <1>c, <4>1
    <3>2. CASE Reads(s)
      <4>1. /\ task[s] = "recv" /\ task'[s] = "send" /\ next'[s] = next[s] + 1
            /\ start'[s] = start[s] /\ sent'[s] = sent[s]
        BY <3>2 DEF Reads
      <4> QED
        BY <1>a, <4>1
    <3>3. CASE Lags(s)
      <4>1. /\ task'[s] = "recv" /\ next'[s] = Overwritten
            /\ start'[s] = start[s] /\ sent'[s] = sent[s]
        BY <3>3 DEF Lags
      <4> QED
        BY <1>a, <1>c, <4>1
    <3>4. CASE Sends(s)
      <4>1. /\ sent'[s] = Append(sent[s], next[s]) /\ task[s] = "send"
            /\ start'[s] = start[s] /\ next'[s] = next[s] /\ task'[s] = "recv"
        BY <3>4 DEF Sends
      <4>2. /\ Len(sent'[s]) = Len(sent[s]) + 1
            /\ \A j \in 1 .. Len(sent[s]) : sent'[s][j] = sent[s][j]
            /\ sent'[s][Len(sent[s]) + 1] = next[s]
        BY <1>c, <4>1
      <4>3. ASSUME NEW j \in 1 .. Len(sent'[s])
            PROVE  \/ sent'[s][j] = (IF j = 1 THEN start[s] ELSE sent'[s][j - 1]) + 1
                   \/ sent'[s][j] - 1 <= Overwritten
        <5>1. CASE j \in 1 .. Len(sent[s])
          <6>1. j # 1 => j - 1 \in 1 .. Len(sent[s])
            BY <1>c, <5>1
          <6> QED
            BY <1>a, <4>2, <5>1, <6>1
        <5>2. CASE j = Len(sent[s]) + 1
          <6>1. j # 1 => Len(sent[s]) \in 1 .. Len(sent[s]) /\ j - 1 = Len(sent[s])
            BY <1>c, <5>2
          <6>2. \/ next[s] = (IF j = 1 THEN start[s] ELSE sent[s][j - 1]) + 1
                \/ next[s] - 1 <= Overwritten
            BY <1>a, <4>1, <5>2
          <6> QED
            BY <4>2, <5>2, <6>1, <6>2
        <5> QED
          BY <1>c, <4>2, <5>1, <5>2
      <4>4. /\ Len(sent'[s]) + 1 # 1
            /\ (Len(sent'[s]) + 1) - 1 = Len(sent[s]) + 1
        BY <1>c, <4>2
      <4>5. next'[s] + 1 = sent'[s][(Len(sent'[s]) + 1) - 1] + 1
        BY <4>1, <4>2, <4>4
      <4> QED
        BY <4>1, <4>3, <4>4, <4>5
    <3>5. CASE Ends(s)
      <4>1. task'[s] = "done" /\ start'[s] = start[s] /\ sent'[s] = sent[s]
        BY <3>5 DEF Ends
      <4> QED
        BY <1>a, <4>1
    <3>6. CASE Takes(s) \/ Leaves(s)
      BY <1>a, <3>6 DEF Takes, Leaves
    <3> QED
      BY <1>3, <3>1, <3>2, <3>3, <3>4, <3>5, <3>6, CallEffects DEF CallEffect
  <2>3. \A r \in Subs \ {s} :
          /\ start'[r] = start[r] /\ sent'[r] = sent[r]
          /\ next'[r] = next[r] /\ task'[r] = task[r]
    BY <1>3, CallFrame
  <2> QED
    BY <1>a, <1>b, <2>1, <2>2, <2>3
<1> QED
  BY <1>1, <1>2, <1>3, NextSplit

\* Every step of the server is a step of the feed or none.
LEMMA FeedStep ==
  TypeOK /\ Connected /\ InHand /\ Unused /\ Cursors /\ SentOrder /\ WindowInv /\ [Next]_vars
    => [Feed!Next]_(Feed!feedVars)
<1> SUFFICES ASSUME TypeOK, Connected, InHand, Unused, Cursors, SentOrder, WindowInv, [Next]_vars
             PROVE  Feed!Next \/ UNCHANGED Feed!feedVars
  OBVIOUS
<1> DEFINE Last(s) == IF taken[s] = 0 THEN start[s] ELSE sent[s][taken[s]]
           last == [s \in Subs |-> Last(s)]
<1>c. /\ log \in Seq(Nat) /\ Len(log) \in Nat /\ canonPos \in Nat
      /\ stream \in [Subs -> {"none", "open", "closed"}]
      /\ \A s \in Subs : /\ start[s] \in Nat /\ next[s] \in Nat /\ taken[s] \in Nat
                         /\ sent[s] \in Seq(Nat) /\ Len(sent[s]) \in Nat
                         /\ taken[s] <= Len(sent[s])
  BY DEF TypeOK, LoopTypeOK, CallTypeOK, Cursors
<1>1. CASE UNCHANGED subVars
  <2>1. UNCHANGED <<stream, last>>
    BY <1>1 DEF subVars
  <2>2. CASE UNCHANGED log
    BY <2>1, <2>2 DEF Feed!feedVars
  <2>3. CASE log' = Append(log, canonPos)
    <3>1. Len(log)' = Len(log) + 1
      BY <1>c, <2>3
    <3> QED
      BY <2>1, <3>1 DEF Feed!Next, Feed!Publish
  <2> QED
    BY <2>2, <2>3, LogStep
<1>2. CASE NodeExit
  <2> DEFINE S == {s \in Subs : stream[s] = "open"}
  <2>1. UNCHANGED <<log, last>>
    BY <1>2, ExitEffect
  <2>2. stream' = [s \in Subs |-> IF s \in S THEN "closed" ELSE stream[s]]
    BY <1>2, <1>c DEF NodeExit
  <2>3. Feed!Close(S)
    BY <2>1, <2>2 DEF Feed!Close
  <2> QED
    BY <2>3 DEF Feed!Next
<1>3. ASSUME NEW s \in Subs, CallStep(s)
      PROVE  Feed!Next \/ UNCHANGED Feed!feedVars
  <2>1. UNCHANGED log
    BY <1>3, CallFrame DEF exexVars
  <2>2. stream' = [stream EXCEPT ![s] = stream'[s]]
    <3>1. stream' \in [Subs -> {"none", "open", "closed"}]
      BY CallTypeNext DEF TypeOK, CallTypeOK
    <3> QED
      BY <1>3, <1>c, <3>1, CallFrame
  <2>3. last' = [last EXCEPT ![s] = Last(s)']
    BY ZenonT(30), <1>3, CallFrame
  <2>4. CASE Opens(s)
    <3>1. stream[s] = "none" /\ stream'[s] = "open" /\ Last(s)' = Len(log)
      BY <2>4 DEF Opens, KeepsQueue, Unused
    <3>2. Feed!Open(s)
      BY <2>1, <2>2, <2>3, <3>1 DEF Feed!Open
    <3> QED
      BY <3>2 DEF Feed!Next
  <2>5. CASE Leaves(s)
    <3>1. stream[s] \in {"open", "closed"} /\ stream'[s] = "closed" /\ Last(s)' = Last(s)
      BY <1>c, <2>5 DEF Leaves, KeepsPosition, KeepsQueue
    <3>2. UNCHANGED last
      BY <2>3, <3>1
    <3>3. CASE stream[s] = "open"
      <4>1. stream' = [r \in Subs |-> IF r \in {s} THEN "closed" ELSE stream[r]]
        BY <1>c, <2>2, <3>1
      <4>2. Feed!Close({s})
        BY <2>1, <3>2, <3>3, <4>1 DEF Feed!Close
      <4> QED
        BY <4>2 DEF Feed!Next
    <3>4. CASE stream[s] = "closed"
      <4>1. UNCHANGED stream
        BY <1>c, <2>2, <3>1, <3>4
      <4> QED
        BY <2>1, <3>2, <4>1 DEF Feed!feedVars
    <3> QED
      BY <3>1, <3>3, <3>4
  <2>6. CASE Takes(s)
    <3> DEFINE p == sent[s][taken[s] + 1]
    <3>1. /\ stream[s] = "open" /\ stream'[s] = "open" /\ sent'[s] = sent[s]
          /\ taken'[s] = taken[s] + 1 /\ taken[s] + 1 \in 1 .. Len(sent[s])
      BY <1>c, <2>6 DEF Takes
    <3>2. Last(s)' = p
      BY <1>c, <3>1
    <3>3. Before(s, taken[s] + 1) = Last(s)
      BY <1>c DEF Before
    <3>4. p \in Nat /\ Last(s) \in Nat
      BY SMTT(30), <1>c, <3>1
    <3>5. Last(s) < p /\ p <= Len(log)
      <4>1. p <= next[s] /\ start[s] < p
        BY <3>1 DEF SentOrder
      <4>2. taken[s] # 0 => sent[s][taken[s]] < p
        <5>1. taken[s] # 0 =>
                taken[s] \in 1 .. Len(sent[s]) /\ taken[s] < taken[s] + 1
          BY <1>c, <3>1
        <5> QED
          BY <3>1, <5>1 DEF SentOrder
      <4>3. next[s] <= Len(log)
        BY DEF Cursors
      <4> QED
        BY <1>c, <3>4, <4>1, <4>2, <4>3
    <3>6. p = Last(s) + 1 \/ p - 1 <= Len(log) - BroadcastCap
      BY <3>1, <3>3 DEF WindowInv, Step, Overwritten
    <3>7. UNCHANGED stream
      BY <1>c, <2>2, <3>1
    <3>8. last[s] = Last(s)
      OBVIOUS
    <3>9. PICK q \in 1 .. Len(log) : q = p
      BY SMTT(30), <1>c, <3>4, <3>5
    <3>10. Feed!Deliver(s, q)
      BY <2>1, <2>3, <3>1, <3>2, <3>5, <3>6, <3>7, <3>8, <3>9 DEF Feed!Deliver
    <3>11. \E k \in 1 .. Len(log) : Feed!Deliver(s, k)
      BY <3>10, Zenon
    <3> QED
      BY <3>11, Zenon DEF Feed!Next
  <2>7. CASE Reads(s) \/ Lags(s) \/ Sends(s) \/ Ends(s)
    <3>1. stream'[s] = stream[s]
      BY <2>7 DEF Reads, Lags, Sends, Ends
    <3>2. Last(s)' = Last(s)
      <4>1. CASE Sends(s)
        <5>1. /\ taken'[s] = taken[s] /\ start'[s] = start[s]
              /\ sent'[s] = Append(sent[s], next[s])
          BY <4>1 DEF Sends, KeepsPosition
        <5>2. taken[s] # 0 => sent'[s][taken[s]] = sent[s][taken[s]]
          <6>1. taken[s] # 0 => taken[s] \in 1 .. Len(sent[s])
            BY <1>c
          <6> QED
            BY <1>c, <5>1, <6>1
        <5> QED
          BY <5>1, <5>2
      <4>2. CASE Reads(s) \/ Lags(s) \/ Ends(s)
        BY <4>2 DEF Reads, Lags, Ends, KeepsPosition, KeepsQueue
      <4> QED
        BY <2>7, <4>1, <4>2
    <3>3. UNCHANGED <<stream, last>>
      BY ZenonT(30), <1>c, <2>2, <2>3, <3>1, <3>2
    <3> QED
      BY <2>1, <3>3 DEF Feed!feedVars
  <2> QED
    BY <1>3, <2>4, <2>5, <2>6, <2>7, CallEffects DEF CallEffect
<1> QED
  BY <1>1, <1>2, <1>3, NextSplit

\* The server keeps the feed's promise: in order, once, and passing over only
\* what is at least BroadcastCap notifications old.
THEOREM ImplementsFeed == Spec => FeedSpec
<1>1. Init => Feed!Init
  BY DEF Init, Feed!Init
<1>2. TypeOK /\ Connected /\ InHand /\ Unused /\ Cursors /\ WindowInv /\ [Next]_vars => WindowInv'
  BY WindowNext
<1>3. IInv => TypeOK /\ Connected /\ InHand /\ Unused /\ Cursors /\ SentOrder
  BY DEF IInv
<1> QED
  BY <1>1, <1>2, <1>3, WindowInit, FeedStep, Invariance, PTL DEF Spec, FeedSpec, Feed!Spec

=============================================================================
