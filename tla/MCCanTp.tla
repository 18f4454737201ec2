------------------------------- MODULE MCCanTp -------------------------------
(* One node sends a message of two blocks, and another, or its peer a short  *)
(* one and a single frame.                                                   *)
EXTENDS CanTp

MCNodes == {"a", "b"}
MCPlans == {[a |-> <<3, 1>>, b |-> <<0>>], [a |-> <<3>>, b |-> <<1, 0>>]}
MCMissed == {"SF", "CF", "FC"}

\* What the refinement theorem about CanTp assumes holds of this instance.
ASSUME MCConfiguration == FirstFramesArrive
=============================================================================
