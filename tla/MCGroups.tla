------------------------------ MODULE MCGroups ------------------------------
(* Small instances of Groups: u1 creates the group, and u2, whom he may      *)
(* put in it; their address books hold nobody else.                          *)
EXTENDS Groups, TLC

CONSTANTS u1, u2, g1, n1, n2

MCKnown == [u \in User |-> {u}]
MCMaker == [g \in Group |-> u1]
MCFirstName == [g \in Group |-> n1]
=============================================================================
