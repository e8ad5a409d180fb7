--------------------------- MODULE MCDeadLetters ---------------------------
(***************************************************************************)
(* Request slots and keys are interchangeable.                             *)
(***************************************************************************)
EXTENDS DeadLetters, TLC

CONSTANTS q1, q2, u1, k1, k2

Symmetry == Permutations({q1, q2}) \cup Permutations({k1, k2})
=============================================================================
