---------------------------- MODULE MCTxBuilder ----------------------------
(* Small instances of TxBuilder: two builders of one browser and one of      *)
(* another device; a spawn that costs, one that costs more, a transfer.      *)
EXTENDS TxBuilder, TLC

CONSTANTS b1, b2, b3, k1, k2, darc, write, transfer

MCKeyOf == [b \in Builder |-> IF b = b3 THEN k2 ELSE k1]
MCPrice == [i \in Item |-> CASE i = darc -> 1 [] i = write -> 2 [] i = transfer -> 0]
MCAmount == [i \in Item |-> IF i = transfer THEN 2 ELSE 0]
=============================================================================
