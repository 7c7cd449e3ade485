----------------------------- MODULE MCLfsxPeer -----------------------------
(***************************************************************************)
(* Instances of LfsxPeer for TLC.  The workers, and the connections to the *)
(* application, are interchangeable.                                       *)
(***************************************************************************)
EXTENDS LfsxPeer, TLC

Symmetry == Permutations(Workers) \cup Permutations(Conns)
====
