---------------------------- MODULE MCProcessing ----------------------------
(* Finite instances of Processing for TLC. *)
EXTENDS Processing, TLC

CONSTANTS c1, c2, u1

\* A user's corpora, or one of a user beside a platform corpus.
OneUsers == [c \in Corpora |-> u1]
Mixed == [c \in Corpora |-> IF c = c2 THEN NoUser ELSE u1]

Symmetry == Permutations(Tasks) \cup Permutations(Workers)

=============================================================================
