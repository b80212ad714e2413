---------------------------- MODULE MCLifecycle ----------------------------
(* Lifecycle for TLC: the callers and capability entities are model values. *)
EXTENDS Lifecycle, TLC

Symmetry == Permutations(Callers) \cup Permutations(Caps)
=============================================================================
