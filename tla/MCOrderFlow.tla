---------------------------- MODULE MCOrderFlow -----------------------------
(* OrderFlow for TLC: the symmetry of its model values. *)
EXTENDS OrderFlow, TLC

Symmetry == Permutations(Orders) \cup Permutations(Items)

=============================================================================
