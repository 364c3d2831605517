----------------------------- MODULE MCLifecycle -----------------------------
(***************************************************************************)
(* Finite instances of Lifecycle: two reports, two frames, two callers.    *)
(***************************************************************************)
EXTENDS Lifecycle, TLC

Symmetry == Permutations(Ids) \cup Permutations(Frames) \cup Permutations(Callers)
=============================================================================
