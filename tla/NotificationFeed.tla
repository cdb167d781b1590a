-------------------------- MODULE NotificationFeed --------------------------
(***************************************************************************)
(* What a Subscribe call promises, seen from outside: one publisher, and   *)
(* for each call a position that moves forward through what is published   *)
(* after the call.  A position is passed over only when it is at least     *)
(* Window notifications old; everything younger is delivered, in order and *)
(* once.  Nothing is promised about when.                                  *)
(***************************************************************************)
EXTENDS Integers

CONSTANTS Subs, Window

VARIABLES
  published,   \* how many notifications have been published
  state,       \* per call: "none", "open" or "closed"
  last         \* per call, the last position delivered (where it began, if none)

feedVars == <<published, state, last>>

Init ==
  /\ published = 0
  /\ state = [s \in Subs |-> "none"]
  /\ last = [s \in Subs |-> 0]

Publish ==
  /\ published' = published + 1
  /\ UNCHANGED <<state, last>>

Open(s) ==
  /\ state[s] = "none"
  /\ state' = [state EXCEPT ![s] = "open"]
  /\ last' = [last EXCEPT ![s] = published]
  /\ UNCHANGED published

\* Deliver position p, the next one unless all those in between are old.
Deliver(s, p) ==
  /\ state[s] = "open"
  /\ last[s] < p /\ p <= published
  /\ p = last[s] + 1 \/ p - 1 <= published - Window
  /\ last' = [last EXCEPT ![s] = p]
  /\ UNCHANGED <<published, state>>

\* One call ends, or several at once with the process.
Close(S) ==
  /\ \A s \in S : state[s] = "open"
  /\ state' = [s \in Subs |-> IF s \in S THEN "closed" ELSE state[s]]
  /\ UNCHANGED <<published, last>>

Next ==
  \/ Publish
  \/ \E s \in Subs : Open(s) \/ \E p \in 1 .. published : Deliver(s, p)
  \/ \E S \in SUBSET Subs : Close(S)

Spec == Init /\ [][Next]_feedVars

=============================================================================
