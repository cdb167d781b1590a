------------------------------ MODULE FrameWalk ------------------------------
(***************************************************************************)
(* Recursion over call frames, or over pairs of them: what is made of a    *)
(* frame and of what has been made of the calls in it.                     *)
(***************************************************************************)
EXTENDS Naturals, Sequences

CONSTANTS Node,         \* the frames
          Calls(_),     \* the calls of a frame, in order
          Visit(_, _)   \* what is made of a frame, given the results for its calls

Walk[x \in Node] == Visit(x, [i \in DOMAIN Calls(x) |-> Walk[Calls(x)[i]]])
=============================================================================
