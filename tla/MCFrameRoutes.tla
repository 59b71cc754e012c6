---------------------------- MODULE MCFrameRoutes ----------------------------
(* An instance of FrameRoutes for TLC: a frame inside a frame, a session each. *)
EXTENDS FrameRoutes, TLC

CONSTANTS top, outer, inner, A, B, page

MCParentOf == [f \in {outer, inner} |-> IF f = outer THEN top ELSE outer]

Symmetric == Permutations({A, B})
=============================================================================
