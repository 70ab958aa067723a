----------------------------- MODULE MCCalypso ------------------------------
(* Two browsers of the owner, and a user who may or may not read.           *)
EXTENDS Calypso, TLC

CONSTANTS b1, b2, r1

MCGet == [a \in Agent |-> IF a = r1 THEN 1 ELSE 0]
Symmetry == Permutations(Browser) \cup Permutations(File)
=============================================================================
