--------------------------- MODULE MCRegistration ---------------------------
(* Small instances of Registration: l1 is a link to register, l2 one for a   *)
(* second device of the same account, l3 the account of an old database.     *)
EXTENDS Registration, TLC

CONSTANTS t1, t2, br1, br2, l1, l2, l3, u, v, k1, k2

MCApart == [t \in Tab |-> IF t = t1 THEN br1 ELSE br2]
MCTogether == [t \in Tab |-> br1]
MCOf == [l \in Link |-> IF l = l3 THEN v ELSE u]
MCNothingOld == [b \in Browser |-> NoLink]
MCOld == [b \in Browser |-> IF b = br1 THEN l3 ELSE NoLink]
=============================================================================
