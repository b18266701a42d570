------------------------------ MODULE MCQueue ------------------------------
(* Instances of Queue for TLC. *)
EXTENDS Queue, TLC

CONSTANTS w1, w2, m1, m2, bad

MCSymmetry == Permutations(Workers)
=============================================================================
