------------------------------ MODULE MCGuacd ------------------------------
(* Guacd for TLC: interchangeable connections, so they may be permuted in   *)
(* runs without liveness properties.                                       *)
EXTENDS Guacd, TLC

ConnSymmetry == Permutations(Conns)
=============================================================================
