---------------------------- MODULE MCRemoteExEx ----------------------------
(* Instances of RemoteExEx for TLC.                                        *)
EXTENDS RemoteExEx, TLC

\* Two calls are alike as long as neither is singled out as a Reader.
CallSymmetry == Permutations(Subs)

=============================================================================
