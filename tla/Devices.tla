------------------------------ MODULE Devices ------------------------------
(***************************************************************************)
(* The devices and recoveries of one account, managed at the same time     *)
(* from several browsers.                                                  *)
(*                                                                         *)
(* The account is kept in two instances on the chain.  The signer darc     *)
(* holds the rights; it is evolved, and the chain takes an evolution only  *)
(* if its version follows the stored one.  The credential holds the names  *)
(* of the devices and recoveries next to the other attributes; an update   *)
(* carries the whole struct and the chain takes the last one it gets.      *)
(* Every wallet works on copies of the two, which the chain refreshes one  *)
(* at a time and later.  The copy of the credential is changed in place    *)
(* while a transaction is put together, whatever becomes of it.            *)
(***************************************************************************)
EXTENDS Naturals, FiniteSets

CONSTANTS Client,    \* browsers that hold the key of a device of this account
          Helper,    \* wallets of other people, asked to recover this account
          Device,    \* base IDs of device darcs
          Recovery,  \* base IDs of recovery darcs
          Own,       \* the darc whose key an agent signs with
          Founders,  \* devices and old recoveries that the account starts with
          Name,      \* names that users choose
          FirstName, \* the name of the founders, and
          NoName,    \* of what is not listed
          Alias,     \* values of any other attribute of the credential
          MaxEvolve, \* bound: evolutions of the signer darc
          MaxUpdate, \* bound: updates of the credential
          MaxSent    \* bound: transactions on their way at one moment

Agent == Client \cup Helper
Id == Device \cup Recovery

ASSUME AgentsDiffer == Client \cap Helper = {}
ASSUME IdsDiffer == Device \cap Recovery = {}
ASSUME OwnAssumption == /\ Own \in [Agent -> Id]
                        /\ \A c \in Client : Own[c] \in Device
                        /\ \A h \in Helper : Own[h] \in Recovery
ASSUME FoundersAssumption == /\ Founders \subseteq Id
                             /\ Founders \cap Device # {}
ASSUME NamesAssumption == NoName \notin Name \cup {FirstName}
ASSUME BoundsAssumption == /\ MaxEvolve \in Nat
                           /\ MaxUpdate \in Nat
                           /\ MaxSent \in Nat

VARIABLES signer,   \* the signer darc on the chain
          exists,   \* the device darcs on the chain
          cred,     \* the credential on the chain
          updates,  \* the version of the credential's instance
          sent,     \* transactions sent and neither included nor given up
          online,   \* agents whose wallet is loaded
          view,     \* the copies of the signer darc and the credential
          listed,   \* the darcs behind the devices it shows (DarcsBS)
          asking,   \* what the user is asked to confirm the removal of
          granted   \* the device that a helper added and has still to name

chain == <<signer, exists, cred, updates>>
vars == <<signer, exists, cred, updates, sent, online, view, listed, asking,
          granted>>

Darc == [version : Nat, sign : SUBSET Id, evolve : SUBSET Id]
CredStruct == [name : [Id -> Name \cup {FirstName, NoName}], alias : Alias]
Tx == [from : Agent, by : Id, spawn : SUBSET Device,
       evolve : SUBSET Darc, update : SUBSET CredStruct, wait : BOOLEAN]
View == [signer : Darc, cred : CredStruct, seen : Nat]

TypeOK == /\ signer \in Darc
          /\ exists \subseteq Device
          /\ cred \in CredStruct
          /\ updates \in Nat
          /\ sent \subseteq Tx
          /\ online \subseteq Agent
          /\ view \in [Agent -> View]
          /\ listed \in [Client -> SUBSET Device]
          /\ asking \in [Client -> SUBSET Id]
          /\ granted \in [Helper -> SUBSET Device]

-----------------------------------------------------------------------------
(* Darcs and credentials, as the library changes them.                     *)

\* Mutant: the next version of the chain, with the rights of the copy.
EvolvedLatest(darc, sign, evolve) ==
    [version |-> signer.version + 1, sign |-> sign, evolve |-> evolve]

\* DarcBS.evolve: the next version, counted from the copy.
Evolved(darc, sign, evolve) ==
    [version |-> darc.version + 1, sign |-> sign, evolve |-> evolve]

AddSignEvolve(darc, signs, evolves) ==
    Evolved(darc, darc.sign \cup signs, darc.evolve \cup evolves)

\* An identity that is missing in a rule is only a warning in the log.
RmSignEvolve(darc, i) == Evolved(darc, darc.sign \ {i}, darc.evolve \ {i})

SetEntry(cs, n, i) == [cs EXCEPT !.name[i] = n]
\* Mutant: an entry that stays.
RmEntryForgotten(cs, i) == cs

RmEntry(cs, i) == [cs EXCEPT !.name[i] = NoName]
HasEntry(cs, i) == cs.name[i] # NoName
Entries(cs) == {i \in Id : HasEntry(cs, i)}

\* The names of the map that i belongs to: devices or recoveries.
NamesBeside(cs, i) ==
    {cs.name[j] : j \in IF i \in Device THEN Device ELSE Recovery}

-----------------------------------------------------------------------------
(* The wallet of an agent.                                                 *)

\* The window of showTransactions is modal as long as it waits for its block.
Idle(a) == /\ a \in online
           /\ \A t \in sent : t.from = a => ~t.wait
           /\ a \in Client => asking[a] = {}

MayStart(a) == /\ Idle(a)
               /\ signer.version < MaxEvolve
               /\ updates < MaxUpdate

\* The transaction leaves; the copy of the credential has been changed.
Send(a, by, spawn, evolve, update, wait) ==
    /\ Cardinality(sent) < MaxSent
    /\ sent' = sent \cup {[from |-> a, by |-> by, spawn |-> spawn,
                           evolve |-> evolve, update |-> update, wait |-> wait]}
    /\ \/ update = {} /\ UNCHANGED view
       \/ \E cs \in update : view' = [view EXCEPT ![a].cred = cs]

\* CSTypesBS.create, from deviceCreate: a new darc, its rights and its name.
DeviceCreate(c, d, n) ==
    /\ MayStart(c)
    /\ d \notin exists
    /\ \A t \in sent : d \notin t.spawn
    /\ \A a \in Agent : ~HasEntry(view[a].cred, d)
    /\ Send(c, Own[c], {d}, {AddSignEvolve(view[c].signer, {d}, {d})},
            {SetEntry(view[c].cred, n, d)}, TRUE)
    /\ UNCHANGED <<chain, online, listed, asking, granted>>

\* CSTypesBS.link with the flag of a recovery, from recoveryCreate.
RecoveryCreate(c, r, n) ==
    /\ MayStart(c)
    /\ Send(c, Own[c], {}, {AddSignEvolve(view[c].signer, {}, {r})},
            {SetEntry(view[c].cred, n, r)}, TRUE)
    /\ UNCHANGED <<chain, online, listed, asking, granted>>

\* Mutants: the browser's own device can be revoked; so can the last one.
AskRevokeOwn(c, d) ==
    /\ MayStart(c)
    /\ d \in listed[c]
    /\ HasEntry(view[c].cred, d)
    /\ Cardinality(listed[c]) > 1
    /\ asking' = [asking EXCEPT ![c] = {d}]
    /\ UNCHANGED <<chain, sent, online, view, listed, granted>>
AskRevokeLast(c, d) ==
    /\ MayStart(c)
    /\ d \in listed[c]
    /\ HasEntry(view[c].cred, d)
    /\ asking' = [asking EXCEPT ![c] = {d}]
    /\ UNCHANGED <<chain, sent, online, view, listed, granted>>

\* deviceRevoke up to its confirmation dialog.
AskRevoke(c, d) ==
    /\ MayStart(c)
    /\ d \in listed[c]
    /\ HasEntry(view[c].cred, d)
    /\ Cardinality(listed[c]) > 1
    /\ d # Own[c]
    /\ asking' = [asking EXCEPT ![c] = {d}]
    /\ UNCHANGED <<chain, sent, online, view, listed, granted>>

\* recoveryDelete up to its confirmation dialog.
AskDelete(c, r) ==
    /\ MayStart(c)
    /\ HasEntry(view[c].cred, r)
    /\ asking' = [asking EXCEPT ![c] = {r}]
    /\ UNCHANGED <<chain, sent, online, view, listed, granted>>

\* CSTypesBS.unlink: without an entry in the copy nothing is sent.
Confirm(c) ==
    \E i \in asking[c] :
       /\ asking' = [asking EXCEPT ![c] = {}]
       /\ IF HasEntry(view[c].cred, i)
            THEN Send(c, Own[c], {}, {RmSignEvolve(view[c].signer, i)},
                      {RmEntry(view[c].cred, i)}, TRUE)
            ELSE UNCHANGED <<sent, view>>
       /\ UNCHANGED <<chain, online, listed, granted>>

Cancel(c) ==
    /\ asking[c] # {}
    /\ asking' = [asking EXCEPT ![c] = {}]
    /\ UNCHANGED <<chain, sent, online, view, listed, granted>>

\* CSTypesBS.rename; the rights are not touched.
Rename(c, i, n) ==
    /\ MayStart(c)
    /\ HasEntry(view[c].cred, i)
    /\ n \notin NamesBeside(view[c].cred, i)
    /\ Send(c, Own[c], {}, {}, {SetEntry(view[c].cred, n, i)}, TRUE)
    /\ UNCHANGED <<chain, online, listed, asking, granted>>

\* Mutant: the wrong one of the two rules is shortened.
RecoveryUpdateEvolve(c, r) ==
    /\ MayStart(c)
    /\ HasEntry(view[c].cred, r)
    /\ r \in view[c].signer.sign
    /\ Send(c, Own[c], {},
            {Evolved(view[c].signer, view[c].signer.sign,
                     view[c].signer.evolve \ {r})}, {}, TRUE)
    /\ UNCHANGED <<chain, online, listed, asking, granted>>

\* Migrate.updateRecovery, for a recovery that may still sign.
RecoveryUpdate(c, r) ==
    /\ MayStart(c)
    /\ HasEntry(view[c].cred, r)
    /\ r \in view[c].signer.sign
    /\ Send(c, Own[c], {},
            {Evolved(view[c].signer, view[c].signer.sign \ {r},
                     view[c].signer.evolve)}, {}, TRUE)
    /\ UNCHANGED <<chain, online, listed, asking, granted>>

\* storeUserCredential: any other attribute; it does not wait for the block.
UpdateCredential(c, v) ==
    /\ MayStart(c)
    /\ Send(c, Own[c], {}, {}, {[view[c].cred EXCEPT !.alias = v]}, FALSE)
    /\ UNCHANGED <<chain, online, listed, asking, granted>>

\* contactRecover, first transaction: the rights of a new device, signed with
\* the right of the helper to evolve the signer darc.
Recover(h, d) ==
    /\ MayStart(h)
    /\ granted[h] = {}
    /\ Own[h] \in signer.sign \cup signer.evolve
    /\ d \notin exists
    /\ \A t \in sent : d \notin t.spawn
    /\ \A a \in Agent : ~HasEntry(view[a].cred, d)
    /\ Send(h, Own[h], {d}, {AddSignEvolve(view[h].signer, {d}, {d})}, {}, TRUE)
    /\ UNCHANGED <<chain, online, listed, asking, granted>>

\* contactRecover, second transaction: its name, signed with its own key.
Attach(h, n) ==
    \E d \in granted[h] :
       /\ Idle(h)
       /\ Send(h, d, {}, {}, {SetEntry(view[h].cred, n, d)}, TRUE)
       /\ granted' = [granted EXCEPT ![h] = {}]
       /\ UNCHANGED <<chain, online, listed, asking>>

-----------------------------------------------------------------------------
(* The chain.                                                              *)

\* Every instruction of a transaction has to be authorised by the signer
\* darc: an update by its _sign rule, an evolution by its evolve rule.
Acceptable(t) ==
    /\ t.spawn \cap exists = {}
    /\ t.update # {} => t.by \in signer.sign
    /\ \A e \in t.evolve : /\ t.by \in signer.evolve
                           /\ e.version = signer.version + 1

\* Transactions that a key has signed at the same time carry the same counter.
SignedWith(t) == {s \in sent : s.from = t.from /\ s.by = t.by}

\* All instructions of a transaction are applied, or none.  Of the others of
\* its key those with its counter are out.
Include(t) ==
    /\ Acceptable(t)
    /\ \E S \in SUBSET SignedWith(t) : sent' = sent \ ({t} \cup S)
    /\ exists' = exists \cup t.spawn
    /\ IF t.evolve = {} THEN UNCHANGED signer ELSE signer' \in t.evolve
    /\ IF t.update = {} THEN UNCHANGED <<cred, updates>>
                        ELSE /\ cred' \in t.update
                             /\ updates' = updates + 1
    /\ granted' = IF t.from \in Helper /\ t.wait
                    THEN [granted EXCEPT ![t.from] = t.spawn] ELSE granted
    /\ UNCHANGED <<online, view, listed, asking>>

Refuse(t) ==
    /\ ~Acceptable(t)
    /\ sent' = sent \ {t}
    /\ UNCHANGED <<chain, online, view, listed, asking, granted>>

\* The nodes cannot be reached, or the block never comes.
Lose(t) ==
    /\ sent' = sent \ {t}
    /\ UNCHANGED <<chain, online, view, listed, asking, granted>>

\* After ten blocks, or when its page is left, the wallet stops to wait for a
\* transaction that the nodes may still include.
Abandon(t) ==
    /\ t.wait
    /\ sent' = (sent \ {t}) \cup {[t EXCEPT !.wait = FALSE]}
    /\ UNCHANGED <<chain, online, view, listed, asking, granted>>

-----------------------------------------------------------------------------
(* Copies: each follows its instance when the instance's version changed.  *)

FollowSigner(a) ==
    /\ a \in online
    /\ view[a].signer.version # signer.version
    /\ view' = [view EXCEPT ![a].signer = signer]
    /\ UNCHANGED <<chain, sent, online, listed, asking, granted>>

FollowCred(a) ==
    /\ a \in online
    /\ view[a].seen # updates
    /\ view' = [view EXCEPT ![a].cred = cred, ![a].seen = updates]
    /\ listed' = IF a \in Client THEN [listed EXCEPT ![a] = Entries(cred) \cap exists]
                                ELSE listed
    /\ UNCHANGED <<chain, sent, online, asking, granted>>

\* A wallet is loaded or reloaded: copies and lists come from the chain, and
\* what was on the screen is gone.  A device without rights is signed out.
Load(a) ==
    /\ \A t \in sent : t.from = a => ~t.wait
    /\ Own[a] \in exists \cup Recovery
    /\ IF a \in Helper \/ Own[a] \in signer.sign \cup signer.evolve
         THEN /\ online' = online \cup {a}
              /\ view' = [view EXCEPT ![a] =
                     [signer |-> signer, cred |-> cred, seen |-> updates]]
         ELSE /\ online' = online \ {a}
              /\ UNCHANGED view
    /\ IF a \in Client
         THEN /\ listed' = [listed EXCEPT ![a] = Entries(cred) \cap exists]
              /\ asking' = [asking EXCEPT ![a] = {}]
              /\ UNCHANGED granted
         ELSE /\ granted' = [granted EXCEPT ![a] = {}]
              /\ UNCHANGED <<listed, asking>>
    /\ UNCHANGED <<chain, sent>>

\* The browser of a helper is closed, possibly between its two transactions.
Leave(h) ==
    /\ h \in online
    /\ \A t \in sent : t.from = h => ~t.wait
    /\ online' = online \ {h}
    /\ granted' = [granted EXCEPT ![h] = {}]
    /\ UNCHANGED <<chain, sent, view, listed, asking>>

-----------------------------------------------------------------------------

FirstCred(v) ==
    [name |-> [i \in Id |-> IF i \in Founders THEN FirstName ELSE NoName],
     alias |-> v]

Init == /\ signer = [version |-> 0, sign |-> Founders, evolve |-> Founders]
        /\ exists = Founders \cap Device
        /\ \E v \in Alias : cred = FirstCred(v)
        /\ updates = 0
        /\ sent = {}
        /\ online = {a \in Agent : Own[a] \in Founders}
        /\ view = [a \in Agent |->
                     [signer |-> signer, cred |-> cred, seen |-> 0]]
        /\ listed = [c \in Client |-> Founders \cap Device]
        /\ asking = [c \in Client |-> {}]
        /\ granted = [h \in Helper |-> {}]

UserStep(c) ==
    \/ \E d \in Device, n \in Name : DeviceCreate(c, d, n)
    \/ \E r \in Recovery, n \in Name : RecoveryCreate(c, r, n)
    \/ \E d \in Device : AskRevoke(c, d)
    \/ \E r \in Recovery : AskDelete(c, r) \/ RecoveryUpdate(c, r)
    \/ Confirm(c)
    \/ Cancel(c)
    \/ \E i \in Id, n \in Name : Rename(c, i, n)
    \/ \E v \in Alias : UpdateCredential(c, v)

HelperStep(h) == \/ \E d \in Device : Recover(h, d)
                 \/ \E n \in Name : Attach(h, n)

Settle(t) == Include(t) \/ Refuse(t) \/ Lose(t)

Follow(a) == FollowSigner(a) \/ FollowCred(a)

Next == \/ \E c \in Client : UserStep(c)
        \/ \E h \in Helper : HelperStep(h) \/ Leave(h)
        \/ \E t \in sent : Settle(t) \/ Abandon(t)
        \/ \E a \in Agent : Follow(a) \/ Load(a)

Spec == Init /\ [][Next]_vars

-----------------------------------------------------------------------------
(* Why the rights are safe: the invariant that the proofs rest on.         *)

\* A device that may change the rights may also sign.
DevicesSign == signer.evolve \cap Device \subseteq signer.sign

\* A copy of the signer darc is the darc of the chain or an older version.
CopiesAreOld ==
    \A a \in Agent : /\ view[a].signer.version <= signer.version
                     /\ view[a].signer.version = signer.version
                            => view[a].signer = signer

\* Nobody is asked to confirm the removal of his own darc.
OthersAsked == \A c \in Client : Own[c] \notin asking[c]

\* What an evolution that fits the chain does to the rights.
Grants(t, e) == \E d \in Device : /\ t.spawn = {d}
                                  /\ e.sign = signer.sign \cup {d}
                                  /\ e.evolve = signer.evolve \cup {d}
Delegates(t, e) == \E r \in Recovery : /\ t.spawn = {}
                                       /\ e.sign = signer.sign
                                       /\ e.evolve = signer.evolve \cup {r}
Withdraws(t, e) == \E i \in Id : /\ t.spawn = {}
                                 /\ t.update # {}
                                 /\ t.by # i
                                 /\ e.sign = signer.sign \ {i}
                                 /\ e.evolve = signer.evolve \ {i}
Downgrades(t, e) == \E r \in Recovery : /\ t.spawn = {}
                                        /\ t.by \in Device
                                        /\ e.sign = signer.sign \ {r}
                                        /\ e.evolve = signer.evolve

Legal(t, e) == \/ Grants(t, e) \/ Delegates(t, e)
               \/ Withdraws(t, e) \/ Downgrades(t, e)

\* An evolution on its way is too old for the chain, or does one legal thing
\* to the darc of the chain as it is now.
SentAreLegal ==
    \A t \in sent : /\ t.evolve = {} => t.spawn = {}
                    /\ \A e \in t.evolve :
                         /\ e.version <= signer.version + 1
                         /\ e.version = signer.version + 1 => Legal(t, e)

-----------------------------------------------------------------------------
(* Properties.                                                             *)

\* Some darc can always sign for the account, whatever devices revoke each
\* other at the same time: deviceRevoke refuses the browser's own device, and
\* the chain refuses the transaction of a device that has just been removed.
NeverLockedOut == signer.sign # {}

\* NeverLockedOut with what makes it inductive.
RightsInv == /\ TypeOK
             /\ NeverLockedOut
             /\ DevicesSign
             /\ CopiesAreOld
             /\ OthersAsked
             /\ SentAreLegal

\* A darc that was on the chain before a step gains the right to sign in no
\* step: a revoked device stays revoked although other wallets still evolve
\* copies of the signer darc that list it, and a recovery never signs.
NoRightsRegained ==
    [][\A i \in exists \cup Recovery : i \in signer'.sign => i \in signer.sign]_vars

\* The rights move only as the key ring allows (KeyRing.tla).
Ring == INSTANCE KeyRing WITH sign <- signer.sign, evolve <- signer.evolve,
                              known <- exists
RingSpec == Ring!RingSpec

\* Rights and names change together, in one transaction: whoever loses the
\* right to change the devices loses his name in the same step, and whoever
\* gets it from a device is named in the step that gives it.
NamesMoveWithRights ==
    [][/\ \A i \in signer.evolve \ signer'.evolve : cred'.name[i] = NoName
       /\ \A i \in signer'.evolve \ signer.evolve :
             cred'.name[i] # NoName \/ \E t \in sent : t.from \in Helper /\ i \in t.spawn]_vars

\* credentialStructBS.ts: the devices of the credential point to all darcs
\* that have access to it, the recoveries to all that may recover it.
AccessIsNamed == signer.evolve \subseteq Entries(cred)
=============================================================================
