--------------------------- MODULE MCBlockStream ----------------------------
(***************************************************************************)
(* BlockStream on a chain that has one, two or six blocks when the webapp  *)
(* starts and gets up to nine.                                             *)
(***************************************************************************)
EXTENDS BlockStream

MCFirst == {0, 1, 5}
=============================================================================
