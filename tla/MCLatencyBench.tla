--------------------------- MODULE MCLatencyBench ---------------------------
(* LatencyBench on small instances; the .cfg files give the constants.     *)
EXTENDS LatencyBench
=============================================================================
