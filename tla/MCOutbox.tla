------------------------------ MODULE MCOutbox ------------------------------
(* Finite instances of Outbox for TLC. *)
EXTENDS Outbox, TLC

Symmetry == Permutations(Events) \cup Permutations(Publishers)

=============================================================================
