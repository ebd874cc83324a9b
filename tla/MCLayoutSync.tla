---------------------------- MODULE MCLayoutSync ----------------------------
(* Instances of LayoutSync for TLC. *)
EXTENDS LayoutSync, TLC

Symmetry == Permutations(Objects) \cup Permutations(Choices)

=============================================================================
