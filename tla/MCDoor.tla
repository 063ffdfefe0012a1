------------------------------- MODULE MCDoor -------------------------------
(* Door on a small ward, with every box anyone could send it.              *)
EXTENDS Door, TLC

CONSTANTS h1, k1, k2

KeySymmetry == Permutations({k1, k2})
=============================================================================
