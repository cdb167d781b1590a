--------------------------- MODULE MCTraceVerifier ---------------------------
(* TraceVerifier on small instances.  The workers run the same code and are  *)
(* interchangeable.                                                        *)
EXTENDS TraceVerifier, TLC

CONSTANTS w1, w2

WorkerSymmetry == Permutations(Workers)
=============================================================================
