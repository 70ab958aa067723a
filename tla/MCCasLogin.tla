----------------------------- MODULE MCCasLogin -----------------------------
(* Small instances of CasLogin: two URLs of two actions, and one unknown.    *)
EXTENDS CasLogin, TLC

CONSTANTS u1, u2, blog, chat, other, a1, a2, c1, c2

MCActionOf == [s \in Url |-> CASE s = blog -> a1 [] s = chat -> a2 [] s = other -> NoAction]
=============================================================================
