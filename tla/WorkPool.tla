------------------------------ MODULE WorkPool ------------------------------
(***************************************************************************)
(* What go-trace-verifier promises, whatever its channels and workers do:  *)
(* it takes up to N blocks on, each once, gives each one verdict, and      *)
(* returns when every block it took on has one, with the exit code that    *)
(* tells whether they all passed.                                          *)
(***************************************************************************)
EXTENDS Naturals, Sequences

CONSTANTS N, Block, Verdicts

VARIABLES
  taken,     \* the blocks taken on, in order
  reported,  \* [block, verdict] of each that has been reported
  outcome    \* "range" while it runs, then "exit0" or "exit1"

vars == <<taken, reported, outcome>>

Taken == {taken[i] : i \in DOMAIN taken}
Reported == {reported[i].block : i \in DOMAIN reported}

Init == taken = <<>> /\ reported = <<>> /\ outcome = "range"

Take ==
  /\ outcome = "range"
  /\ Len(taken) < N
  /\ \E b \in Block \ Taken : taken' = Append(taken, b)
  /\ UNCHANGED <<reported, outcome>>

Report ==
  /\ outcome = "range"
  /\ \E b \in Taken \ Reported, v \in Verdicts :
       reported' = Append(reported, [block |-> b, verdict |-> v])
  /\ UNCHANGED <<taken, outcome>>

Return ==
  /\ outcome = "range"
  /\ Taken = Reported
  /\ outcome' = IF \A i \in DOMAIN reported : reported[i].verdict = "pass"
                THEN "exit0" ELSE "exit1"
  /\ UNCHANGED <<taken, reported>>

Next == Take \/ Report \/ Return

Spec == Init /\ [][Next]_vars

-----------------------------------------------------------------------------
(* What follows for whoever reads the report.                              *)

\* At most N blocks are taken on, each once; each has at most one line in the
\* report, and exactly one when the program has returned; and the exit code is
\* 0 just when every one of them passed.
Promise ==
  /\ Len(taken) <= N
  /\ \A i, j \in DOMAIN taken : i # j => taken[i] # taken[j]
  /\ \A i, j \in DOMAIN reported : i # j => reported[i].block # reported[j].block
  /\ Reported \subseteq Taken
  /\ outcome # "range" =>
       /\ Reported = Taken
       /\ outcome = "exit0" <=> \A i \in DOMAIN reported : reported[i].verdict = "pass"
=============================================================================
