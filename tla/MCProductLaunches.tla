-------------------------- MODULE MCProductLaunches --------------------------
(***************************************************************************)
(* Instances of ProductLaunches for TLC.                                   *)
(***************************************************************************)
EXTENDS ProductLaunches, TLC

CONSTANTS w1, w2, u1, u2

Symmetry == Permutations({w1, w2}) \cup Permutations({u1, u2})
=============================================================================
