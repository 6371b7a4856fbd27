-------------------------- MODULE MCAuditorService --------------------------
(* Finite instances of AuditorService for TLC. *)
EXTENDS AuditorService, TLC

Symmetry == Permutations(Jobs) \cup Permutations(Inputs) \cup Permutations(Workers)

=============================================================================
