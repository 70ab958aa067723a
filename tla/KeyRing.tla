------------------------------ MODULE KeyRing ------------------------------
(***************************************************************************)
(* What the signer darc of an account promises, apart from how the wallets *)
(* of its devices get there: which darcs may sign for the account, which   *)
(* may change that list, and how the two lists may move.  dynacred never   *)
(* writes this down; it is the contract that CSTypesBS.create, link and    *)
(* unlink, Migrate.updateRecovery and the recovery of a contact together   *)
(* have to keep.                                                           *)
(***************************************************************************)
CONSTANTS Device,    \* base IDs of device darcs
          Recovery,  \* base IDs of recovery darcs: other accounts and groups
          Founders   \* the darcs that sign for the account at the start

VARIABLES sign,    \* the identities of the _sign rule of the signer darc
          evolve,  \* the identities of its invoke:darc.evolve rule
          known    \* the device darcs that have been spawned so far

rights == <<sign, evolve, known>>

Id == Device \cup Recovery

RingInit == /\ sign = Founders
            /\ evolve = Founders
            /\ known = Founders \cap Device

\* A new device gets both rights, in the transaction that spawns its darc.
Grant(d) == /\ d \notin known
            /\ sign' = sign \cup {d}
            /\ evolve' = evolve \cup {d}
            /\ known' = known \cup {d}

\* A recovery may change the devices of the account but never sign for it.
Delegate(r) == /\ evolve' = evolve \cup {r}
               /\ UNCHANGED <<sign, known>>

\* A device or a recovery loses every right; somebody can still sign.
Withdraw(i) == /\ sign' = sign \ {i}
               /\ evolve' = evolve \ {i}
               /\ sign' # {}
               /\ UNCHANGED known

\* A recovery of the first kind, which could sign, keeps only the recovery.
Downgrade(r) == /\ sign' = sign \ {r}
                /\ sign' # {}
                /\ UNCHANGED <<evolve, known>>

RingNext == \/ \E d \in Device : Grant(d)
            \/ \E r \in Recovery : Delegate(r) \/ Downgrade(r)
            \/ \E i \in Id : Withdraw(i)

RingSpec == RingInit /\ [][RingNext]_rights
=============================================================================
