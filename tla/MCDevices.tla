------------------------------ MODULE MCDevices ------------------------------
(* Small instances of Devices: who holds the key of which darc.              *)
EXTENDS Devices, TLC

CONSTANTS c1, c2, h1, d1, d2, d3, r1, n1, n2, a1, a2

\* Two browsers of two devices; d2 is there from the start or created by c1.
\* The helper signs with the recovery r1.
MCOwn == [a \in Agent |-> CASE a = c1 -> d1 [] a = c2 -> d2 [] a = h1 -> r1]
=============================================================================
