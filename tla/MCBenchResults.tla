--------------------------- MODULE MCBenchResults ---------------------------
(* One program of each kind: with the sign of go-latency-bench, and with a *)
(* payload and the sign of the others.                                     *)
EXTENDS BenchResults

SomePrograms == {"latency", "state-diff"}
SomeFlags == {-1, 0, 1, 2}
=============================================================================
