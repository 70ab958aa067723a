------------------------------- MODULE MCLists -------------------------------
(* Small instances of Lists: two browsers of an account that may create a    *)
(* group, next to one that somebody else has made.                           *)
EXTENDS Lists

CONSTANTS w1, w2, own, other

\* A new account, and one that its maker has put on a list.
MCBegin == {Absent, <<other>>}
=============================================================================
