-------------------------------- MODULE Lists --------------------------------
(***************************************************************************)
(* A list of one account, of its groups, its actions or its contacts,      *)
(* shown in several browsers.                                              *)
(*                                                                         *)
(* The credential keeps the IDs of the list in one attribute, which an     *)
(* account has only after the first of them.  Each wallet holds it three   *)
(* times: in its copy of the credential, as the set that link and unlink   *)
(* change in place, and as the buffer that it passed on last.  Only a      *)
(* buffer that is there and differs from that one replaces the set and     *)
(* starts a lookup of its instances, and only those found are shown.  A    *)
(* lookup does not wait for an older one, nor end it, so the answers come  *)
(* in any order and the page shows the one that came last.                 *)
(***************************************************************************)
EXTENDS Naturals, Sequences, FiniteSets, SequencesExt

CONSTANTS Wallet,    \* browsers with a device of the account
          Item,      \* IDs; a darc's name and signer always give the same
          Absent,    \* an account without the attribute
          Begin,     \* lists that an account may have when the model starts
          Checks,    \* TRUE: groups and actions, FALSE: contacts
          Own,       \* those that the account may create
          Founded,   \* those that are on the chain when the model starts
          MaxUpdate, \* bound: updates of the credential
          MaxSent    \* bound: transactions on their way at one moment

\* An InstanceSet keeps the order in which its IDs were added.
InstanceSet == {s \in UNION {[1..n -> Item] : n \in 0..Cardinality(Item)} :
                  IsInjective(s)}
List == InstanceSet \cup {Absent}

\* An ID has 32 bytes, so there are finitely many.
ASSUME ItemsAssumption == /\ IsFiniteSet(Item)
                          /\ Own \subseteq Item /\ Founded \subseteq Item
ASSUME ListsAssumption == /\ Absent \notin InstanceSet
                          /\ Begin \subseteq List
                          /\ Checks \subseteq BOOLEAN
ASSUME BoundsAssumption == MaxUpdate \in Nat /\ MaxSent \in Nat

VARIABLES checked, \* whether the page looks an ID up before it links it
          exists,  \* the instances on the chain
          stored,  \* the list in the credential on the chain
          updates, \* the version of the credential's instance
          sent,    \* transactions sent and neither included nor given up
          seen,    \* the version that a wallet has seen
          attr,    \* the list in its copy of the credential
          set,     \* the list that link and unlink change
          last,    \* the list that was passed on last, if any
          lookups, \* lookups that have not been answered
          shown,   \* the instances that the page shows
          late     \* history: and if a newer lookup was answered before

chain == <<exists, stored, updates>>
lists == <<attr, set, last>>
page == <<shown, late>>
vars == <<checked, exists, stored, updates, sent, seen, attr, set, last, lookups,
          shown, late>>

Tx == [from : Wallet, spawn : SUBSET Item, attr : List, wait : BOOLEAN]

\* The version of the list that a lookup is for, what it asks for, which of them
\* existed when it was started; and if a newer one has been answered meanwhile.
Lookup == [at : Nat, ids : SUBSET Item, found : SUBSET Item, old : BOOLEAN]

TypeOK == /\ checked \in BOOLEAN
          /\ exists \subseteq Item
          /\ stored \in List
          /\ updates \in Nat
          /\ sent \subseteq Tx
          /\ seen \in [Wallet -> Nat]
          /\ attr \in [Wallet -> List]
          /\ set \in [Wallet -> InstanceSet]
          /\ last \in [Wallet -> List]
          /\ lookups \in [Wallet -> SUBSET Lookup]
          /\ shown \in [Wallet -> SUBSET Item]
          /\ late \in [Wallet -> BOOLEAN]

-----------------------------------------------------------------------------
(* What the user does.                                                     *)

\* Mutant: an ID that is in the list already is added again.
AddTwice(s, i) == Append(s, i)

\* The IDs of a list; the set that is made of it.
SetOf(s) == IF s = Absent THEN <<>> ELSE s
Ids(s) == Range(SetOf(s))

Add(s, i) == IF i \in Range(s) THEN s ELSE Append(s, i)
Rm(s, i) == RemoveFirst(s, i)

MayStart(w) == /\ updates < MaxUpdate
               /\ Cardinality(sent) < MaxSent
               /\ \A t \in sent : t.from = w => ~t.wait

Send(w, spawn, s, wait) ==
    sent' = sent \cup {[from |-> w, spawn |-> spawn, attr |-> s, wait |-> wait]}

\* setInstanceSet: the set has been changed, and so is the copy of the
\* credential, whatever becomes of the transaction.
SetInstanceSet(w, spawn, s) ==
    /\ Send(w, spawn, s, TRUE)
    /\ set' = [set EXCEPT ![w] = s]
    /\ attr' = [attr EXCEPT ![w] = s]
    /\ UNCHANGED <<checked, chain, seen, last, lookups, page>>

\* groupCreate: the new darc and its place in the list, in one transaction.
Create(w, i) ==
    /\ checked
    /\ MayStart(w)
    /\ SetInstanceSet(w, {i}, Add(set[w], i))

\* linkDarcInstance, for a darc that exists and is not shown.
Link(w, i) ==
    /\ checked
    /\ MayStart(w)
    /\ i \in exists \ shown[w]
    /\ SetInstanceSet(w, {}, Add(set[w], i))

\* contactLink: any ID, whether it exists or is there already.
LinkContact(w, i) ==
    /\ ~checked
    /\ MayStart(w)
    /\ SetInstanceSet(w, {}, Add(set[w], i))

\* groupUnlink, actionUnlink, contactUnlink.
Unlink(w, i) ==
    /\ MayStart(w)
    /\ i \in shown[w]
    /\ SetInstanceSet(w, {}, Rm(set[w], i))

\* storeUserCredential: another attribute of the credential, sent with the
\* list as it is in the copy.
OtherUpdate(w) ==
    /\ MayStart(w)
    /\ Send(w, {}, attr[w], FALSE)
    /\ UNCHANGED <<checked, chain, seen, lists, lookups, page>>

-----------------------------------------------------------------------------
(* The chain.                                                              *)

Acceptable(t) == t.spawn \cap exists = {}

\* Transactions that a key has signed at the same time carry the same counter:
\* of those of the wallet the ones with this counter are out.
Include(t) ==
    /\ Acceptable(t)
    /\ \E S \in SUBSET {s \in sent : s.from = t.from} : sent' = sent \ ({t} \cup S)
    /\ exists' = exists \cup t.spawn
    /\ stored' = t.attr
    /\ updates' = updates + 1
    /\ UNCHANGED <<checked, seen, lists, lookups, page>>

Refuse(t) ==
    /\ ~Acceptable(t)
    /\ sent' = sent \ {t}
    /\ UNCHANGED <<checked, chain, seen, lists, lookups, page>>

Lose(t) ==
    /\ sent' = sent \ {t}
    /\ UNCHANGED <<checked, chain, seen, lists, lookups, page>>

\* The wallet stops to wait; the nodes may still include the transaction.
Abandon(t) ==
    /\ t.wait
    /\ sent' = (sent \ {t}) \cup {[t EXCEPT !.wait = FALSE]}
    /\ UNCHANGED <<checked, chain, seen, lists, lookups, page>>

-----------------------------------------------------------------------------
(* What the wallet shows.                                                  *)

\* Mutant: an empty list is filtered out like a missing attribute.
EmitsFull(old, new) == new \notin {Absent, <<>>} /\ new # old

\* getAttributeBS: a missing attribute is filtered out, and so is a buffer
\* that is equal to the last one.
Emits(old, new) == new # Absent /\ new # old

LookUp(ids) ==
    [at |-> updates, ids |-> ids, found |-> ids \cap exists, old |-> FALSE]

\* A new version of the credential reaches the wallet, whatever it still looks
\* up for an older one.
Follow(w) ==
    /\ seen[w] # updates
    /\ seen' = [seen EXCEPT ![w] = updates]
    /\ attr' = [attr EXCEPT ![w] = stored]
    /\ IF Emits(last[w], stored)
         THEN /\ last' = [last EXCEPT ![w] = stored]
              /\ set' = [set EXCEPT ![w] = stored]
              /\ lookups' = [lookups EXCEPT ![w] = @ \cup {LookUp(Range(stored))}]
         ELSE UNCHANGED <<last, set, lookups>>
    /\ UNCHANGED <<checked, chain, sent, page>>

\* Mutant: what is not found stays in the list.
ResultsUnfiltered(l) == {l.ids}

\* A darc that comes while the lookup runs may be found or not.
Results(l) == {F \in SUBSET (l.ids \cap exists) : l.found \subseteq F}

\* The lookups that are left when one has been answered.
Rest(L, at) == {[m EXCEPT !.old = @ \/ m.at < at] : m \in L}

\* All darcs of a lookup have been asked for: it sets the list of the page.
Answer(w, l) ==
    /\ \E F \in Results(l) : shown' = [shown EXCEPT ![w] = F]
    /\ late' = [late EXCEPT ![w] = l.old]
    /\ lookups' = [lookups EXCEPT ![w] = Rest(@ \ {l}, l.at)]
    /\ UNCHANGED <<checked, chain, sent, seen, lists>>

\* The page is loaded again.
Load(w) ==
    /\ \A t \in sent : t.from = w => ~t.wait
    /\ seen' = [seen EXCEPT ![w] = updates]
    /\ attr' = [attr EXCEPT ![w] = stored]
    /\ set' = [set EXCEPT ![w] = SetOf(stored)]
    /\ last' = [last EXCEPT ![w] = stored]
    /\ lookups' = [lookups EXCEPT ![w] = {}]
    /\ shown' = [shown EXCEPT ![w] = Ids(stored) \cap exists]
    /\ late' = [late EXCEPT ![w] = FALSE]
    /\ UNCHANGED <<checked, chain, sent>>

-----------------------------------------------------------------------------

Init == /\ checked \in Checks
        /\ exists = Founded
        /\ stored \in Begin
        /\ updates = 0
        /\ sent = {}
        /\ seen = [w \in Wallet |-> 0]
        /\ attr = [w \in Wallet |-> stored]
        /\ set = [w \in Wallet |-> SetOf(stored)]
        /\ last = [w \in Wallet |-> stored]
        /\ lookups = [w \in Wallet |-> {}]
        /\ shown = [w \in Wallet |-> Ids(stored) \cap exists]
        /\ late = [w \in Wallet |-> FALSE]

UserStep(w) == \/ \E i \in Own : Create(w, i)
               \/ \E i \in Item : Link(w, i) \/ LinkContact(w, i) \/ Unlink(w, i)
               \/ OtherUpdate(w)

Settle(t) == Include(t) \/ Refuse(t) \/ Lose(t) \/ Abandon(t)

LookedUp(w) == \E l \in lookups[w] : Answer(w, l)

Next == \/ \E w \in Wallet : UserStep(w) \/ Follow(w) \/ LookedUp(w) \/ Load(w)
        \/ \E t \in sent : Settle(t)

Spec == Init /\ [][Next]_vars

\* Wallets are told of new blocks, and the nodes answer them.
Fairness == \A w \in Wallet : WF_vars(Follow(w)) /\ WF_vars(LookedUp(w))

FairSpec == Spec /\ Fairness

-----------------------------------------------------------------------------
(* Properties.                                                             *)

\* A page never shows a darc that is not on the chain, although the list may
\* name one: the ID of a group whose creation was refused stays in the copy and
\* goes to the chain with the next update.
ShownExists == \A w \in Wallet : shown[w] \subseteq exists

\* What is out of the stored list for good goes from every page for good,
\* whichever browser removed it and whatever was refused in between.  Only two
\* things keep it there: another browser's update that takes the attribute away
\* as a whole, and an older lookup that was answered after the newest one.
UnlinkedGoes ==
    \A w \in Wallet, i \in Item :
       <>[](stored # Absent /\ i \notin Ids(stored))
          => <>[](i \notin shown[w] \/ late[w])

\* addressBook.ts: if an element is added, all observers are told.  A darc that
\* is in the stored list and on the chain for good comes to every page.
LinkedComes ==
    \A w \in Wallet, i \in Item :
       <>[](i \in Ids(stored) \cap exists) => <>(i \in shown[w])
=============================================================================
