------------------------------- MODULE Groups -------------------------------
(***************************************************************************)
(* Groups and actions: darcs that several accounts change.                 *)
(*                                                                         *)
(* Whoever is in the evolve rule of a group may rename it, put new         *)
(* contacts in it and choose its members in a window.  Each of these       *)
(* writes the whole darc, made from a copy: a rename and a new contact use *)
(* the copy as it is when they send, the window the one from when it was   *)
(* opened, whatever happened to the group since.                           *)
(***************************************************************************)
EXTENDS Naturals, FiniteSets

CONSTANTS User,        \* accounts
          Contact,     \* those that others create while the model runs
          Group,
          Maker,       \* the account that creates a group,
          FirstName,   \* under this name: both are in its ID
          Name,        \* descriptions of groups
          Known,       \* the accounts in the address book of a user, and he
          NoDarc, NoWindow,
          MaxEvolve,   \* bound: evolutions of one group
          MaxSent,     \* bound: transactions on their way at one moment
          MaxOpen      \* bound: windows open at one moment

ASSUME KnownAssumption == /\ Known \in [User -> SUBSET User]
                          /\ \A u \in User : u \in Known[u]
ASSUME GroupsAssumption == /\ Contact \subseteq User
                           /\ Maker \in [Group -> User \ Contact]
                           /\ FirstName \in [Group -> Name]
                           /\ NoDarc \notin [version : Nat, sign : SUBSET User,
                                             evolve : SUBSET User, name : Name]
ASSUME BoundsAssumption == {MaxEvolve, MaxSent, MaxOpen} \subseteq Nat

VARIABLES darc,    \* the groups on the chain
          exists,  \* the accounts on the chain
          sent,    \* transactions sent and neither included nor given up
          copy,    \* each user's copies of the groups
          window   \* the window in which a user chooses members

chain == <<darc, exists>>
vars == <<darc, exists, sent, copy, window>>

Rule == {"sign", "evolve"}
Darc == [version : Nat, sign : SUBSET User, evolve : SUBSET User, name : Name]

\* A new darc and the darc that it was made from.  A window lists the accounts
\* of the address book, those that it has from the rule only, and the chosen.
Change == [group : Group, old : Darc, new : Darc]
Window == [group : Group, old : Darc, new : Darc, rule : Rule,
           items : SUBSET User, unknown : SUBSET User, chosen : SUBSET User]
Tx == [from : User, spawn : SUBSET Group, create : SUBSET Contact,
       changes : SUBSET Change, wait : BOOLEAN]

TypeOK == /\ darc \in [Group -> Darc \cup {NoDarc}]
          /\ exists \subseteq User
          /\ sent \subseteq Tx
          /\ copy \in [User -> [Group -> Darc \cup {NoDarc}]]
          /\ window \in [User -> Window \cup {NoWindow}]

-----------------------------------------------------------------------------
(* What a user does.                                                       *)

Idle(u) == /\ u \in exists
           /\ window[u] = NoWindow
           /\ \A t \in sent : t.from = u => ~t.wait

\* The user sees the group, and it can still evolve in this instance.
Sees(u, g) == copy[u][g] # NoDarc /\ copy[u][g].version < MaxEvolve

\* The bounds on what is on its way; it counts against those on a group's
\* evolutions, too.
Room == /\ Cardinality(sent) < MaxSent
        /\ \A g \in Group : darc[g] # NoDarc =>
              darc[g].version + Cardinality(sent) <= MaxEvolve

Send(u, spawn, create, changes) ==
    /\ Room
    /\ sent' = sent \cup {[from |-> u, spawn |-> spawn, create |-> create,
                           changes |-> changes, wait |-> TRUE]}

\* Darc.evolve: the next version of the same darc.
Next1(d) == [d EXCEPT !.version = @ + 1]

\* groupCreate, actionCreate.
Create(g) ==
    /\ Idle(Maker[g])
    /\ Send(Maker[g], {g}, {}, {})
    /\ UNCHANGED <<chain, copy, window>>

\* groupRename.
Rename(u, g, n) ==
    /\ Idle(u)
    /\ Sees(u, g)
    /\ Send(u, {}, {}, {[group |-> g, old |-> copy[u][g],
                         new |-> [Next1(copy[u][g]) EXCEPT !.name = n]]})
    /\ UNCHANGED <<chain, copy, window>>

\* Mutant: an undefined idEvolve is appended like any other.
JoinedUndefined(d, c) ==
    [Next1(d) EXCEPT !.sign = @ \cup {c}, !.evolve = @ \cup {NoDarc}]

\* DarcBS.addSignEvolve: undefined for idEvolve takes the default, idSign.
Joined(d, c) == [Next1(d) EXCEPT !.sign = @ \cup {c}, !.evolve = @ \cup {c}]

Joining(u, c, G) == {[group |-> g, old |-> copy[u][g],
                      new |-> Joined(copy[u][g], c)] : g \in G}

\* Mutant: the rules are not cloned, and the copy has the new contact, too.
ContactNewInPlace(u, c, G) ==
    /\ Idle(u)
    /\ c \notin exists
    /\ \A t \in sent : c \notin t.create
    /\ \A g \in G : Sees(u, g)
    /\ Send(u, {}, {c}, Joining(u, c, G))
    /\ copy' = [copy EXCEPT ![u] = [g \in Group |->
                  IF g \in G THEN [Joined(copy[u][g], c) EXCEPT
                                     !.version = copy[u][g].version]
                             ELSE copy[u][g]]]
    /\ UNCHANGED <<chain, window>>

\* contactNew: one transaction creates the account and puts it in its groups.
\* Its key is new each time; an account that was not created leaves nothing
\* behind, so that it can stand for the next one.
ContactNew(u, c, G) ==
    /\ Idle(u)
    /\ c \notin exists
    /\ \A t \in sent : c \notin t.create
    /\ \A g \in G : Sees(u, g)
    /\ Send(u, {}, {c}, Joining(u, c, G))
    /\ UNCHANGED <<chain, copy, window>>

-----------------------------------------------------------------------------
(* The window.                                                             *)

\* groupEdit: it opens without items, they are looked up.
OpenEdit(u, g) ==
    /\ Idle(u)
    /\ Sees(u, g)
    /\ Cardinality({v \in User : window[v] # NoWindow}) < MaxOpen
    /\ window' = [window EXCEPT ![u] =
           [group |-> g, old |-> copy[u][g], new |-> Next1(copy[u][g]),
            rule |-> "sign", items |-> {}, unknown |-> {}, chosen |-> {}]]
    /\ UNCHANGED <<chain, sent, copy>>

\* The library's getRule and setRule, on the two rules of the window.
RuleOf(d, r) == IF r = "sign" THEN d.sign ELSE d.evolve
SetRule(d, r, ids) == IF r = "sign" THEN [d EXCEPT !.sign = ids]
                                    ELSE [d EXCEPT !.evolve = ids]

\* ruleChange: the members of the rule are chosen, and those that are listed
\* from another rule only are gone.
Ruled(w, r, items) == [w EXCEPT !.rule = r, !.items = items, !.unknown = {},
                                !.chosen = RuleOf(w.new, r)]

ItemsFound(u) ==
    /\ window[u] # NoWindow
    /\ window[u].items = {}
    /\ window' = [window EXCEPT ![u] = Ruled(@, @.rule, Known[u] \cap exists)]
    /\ UNCHANGED <<chain, sent, copy>>

RuleChange(u, r) ==
    /\ window[u] # NoWindow
    /\ window[u].rule # r
    /\ window' = [window EXCEPT ![u] = Ruled(@, r, @.items)]
    /\ UNCHANGED <<chain, sent, copy>>

\* Mutant: an empty choice is written, too.
UpdatedAlways(w) == [w EXCEPT !.new = SetRule(@, w.rule, w.chosen)]

\* updateDarc: an empty choice leaves the rule as it was.
Updated(w) ==
    IF w.chosen = {} THEN w ELSE [w EXCEPT !.new = SetRule(@, w.rule, w.chosen)]

\* add and remove move an item between the two lists of the window.
Chosen(w, i) == [w EXCEPT !.chosen = @ \cup {i}]
Unchosen(w, i) == [w EXCEPT !.chosen = @ \ {i},
                            !.unknown = @ \cup ({i} \ w.items)]

AddItem(u, i) ==
    /\ window[u] # NoWindow
    /\ i \in (window[u].items \cup window[u].unknown) \ window[u].chosen
    /\ window' = [window EXCEPT ![u] = Updated(Chosen(window[u], i))]
    /\ UNCHANGED <<chain, sent, copy>>

RemoveItem(u, i) ==
    /\ window[u] # NoWindow
    /\ i \in window[u].chosen
    /\ window' = [window EXCEPT ![u] = Updated(Unchosen(window[u], i))]
    /\ UNCHANGED <<chain, sent, copy>>

\* Mutant: only the rules are taken from the window, the version and the rest
\* from the copy as it is now.
ApplyOnTop(u) ==
    /\ window[u] # NoWindow
    /\ LET w == Updated(window[u])
           d == copy[u][w.group]
       IN Send(u, {}, {}, {[group |-> w.group, old |-> w.old,
                            new |-> [Next1(d) EXCEPT !.sign = w.new.sign,
                                                     !.evolve = w.new.evolve]]})
    /\ window' = [window EXCEPT ![u] = NoWindow]
    /\ UNCHANGED <<chain, copy>>

\* DarcBS.evolve with the darc of the window, its version included.
Apply(u) ==
    /\ window[u] # NoWindow
    /\ LET w == Updated(window[u])
       IN Send(u, {}, {}, {[group |-> w.group, old |-> w.old, new |-> w.new]})
    /\ window' = [window EXCEPT ![u] = NoWindow]
    /\ UNCHANGED <<chain, copy>>

CancelEdit(u) ==
    /\ window[u] # NoWindow
    /\ window' = [window EXCEPT ![u] = NoWindow]
    /\ UNCHANGED <<chain, sent, copy>>

-----------------------------------------------------------------------------
(* The chain.                                                              *)

First(g) == [version |-> 0, sign |-> {Maker[g]}, evolve |-> {Maker[g]},
             name |-> FirstName[g]]

Acceptable(t) ==
    /\ \A g \in t.spawn : darc[g] = NoDarc
    /\ t.create \cap exists = {}
    /\ \A e \in t.changes : /\ darc[e.group] # NoDarc
                            /\ t.from \in darc[e.group].evolve
                            /\ e.new.version = darc[e.group].version + 1

\* What the darc of a group is after a transaction.
After(t, g) ==
    IF \E e \in t.changes : e.group = g
      THEN (CHOOSE e \in t.changes : e.group = g).new
      ELSE IF g \in t.spawn THEN First(g) ELSE darc[g]

\* Transactions that a key has signed at the same time carry the same counter:
\* of those of the user the ones with this counter are out.
Include(t) ==
    /\ Acceptable(t)
    /\ \E S \in SUBSET {s \in sent : s.from = t.from} : sent' = sent \ ({t} \cup S)
    /\ darc' = [g \in Group |-> After(t, g)]
    /\ exists' = exists \cup t.create
    /\ UNCHANGED <<copy, window>>

Refuse(t) ==
    /\ ~Acceptable(t)
    /\ sent' = sent \ {t}
    /\ UNCHANGED <<chain, copy, window>>

Lose(t) ==
    /\ sent' = sent \ {t}
    /\ UNCHANGED <<chain, copy, window>>

\* The user stops to wait; the nodes may still include the transaction.
Abandon(t) ==
    /\ t.wait
    /\ sent' = (sent \ {t}) \cup {[t EXCEPT !.wait = FALSE]}
    /\ UNCHANGED <<chain, copy, window>>

\* DarcBS follows its instance, also behind an open window.
Follow(u, g) ==
    /\ copy[u][g] # darc[g]
    /\ copy' = [copy EXCEPT ![u][g] = darc[g]]
    /\ UNCHANGED <<chain, sent, window>>

-----------------------------------------------------------------------------

Init == /\ darc = [g \in Group |-> NoDarc]
        /\ exists = User \ Contact
        /\ sent = {}
        /\ copy = [u \in User |-> [g \in Group |-> NoDarc]]
        /\ window = [u \in User |-> NoWindow]

Edit(u) == \/ \E g \in Group : OpenEdit(u, g)
           \/ ItemsFound(u)
           \/ \E r \in Rule : RuleChange(u, r)
           \/ \E i \in User : AddItem(u, i) \/ RemoveItem(u, i)
           \/ Apply(u)
           \/ CancelEdit(u)

UserStep(u) == \/ \E g \in Group, n \in Name : Rename(u, g, n)
               \/ \E c \in Contact, G \in SUBSET Group : ContactNew(u, c, G)
               \/ Edit(u)

Settle(t) == Include(t) \/ Refuse(t) \/ Lose(t) \/ Abandon(t)

Next == \/ \E u \in User : UserStep(u)
        \/ \E g \in Group : Create(g)
        \/ \E t \in sent : Settle(t)
        \/ \E u \in User, g \in Group : Follow(u, g)

Spec == Init /\ [][Next]_vars

-----------------------------------------------------------------------------
(* Why the groups are safe: the invariant that the proofs rest on.         *)

\* A darc that the group has now, or had before.
Past(g, d) == /\ darc[g] # NoDarc
              /\ d.version <= darc[g].version
              /\ d.version = darc[g].version => d = darc[g]

\* Somebody is in each rule, and all members are accounts of the chain.
Sane(d, accounts) == /\ d.sign # {} /\ d.evolve # {}
                     /\ d.sign \cup d.evolve \subseteq accounts

ChainIsSane == /\ User \ Contact \subseteq exists
               /\ \A g \in Group : darc[g] # NoDarc => Sane(darc[g], exists)

CopiesArePast ==
    \A u \in User, g \in Group :
       copy[u][g] # NoDarc => Past(g, copy[u][g]) /\ Sane(copy[u][g], exists)

WindowsFollowPast ==
    \A u \in User : window[u] # NoWindow =>
       /\ Past(window[u].group, window[u].old)
       /\ window[u].new.version = window[u].old.version + 1
       /\ Sane(window[u].new, exists)
       /\ window[u].items \cup window[u].unknown \cup window[u].chosen \subseteq exists

\* A new contact is only in the darcs of the transaction that creates him.
SentFollowPast ==
    \A t \in sent : \A e \in t.changes :
       /\ Past(e.group, e.old)
       /\ e.new.version = e.old.version + 1
       /\ Sane(e.new, exists \cup t.create)

GroupsInv == /\ TypeOK
             /\ ChainIsSane
             /\ CopiesArePast
             /\ WindowsFollowPast
             /\ SentFollowPast

-----------------------------------------------------------------------------
(* Properties.                                                             *)

\* Every rule of every group keeps a member: a window in which all members
\* were removed leaves the rule as it was.
NeverOrphaned ==
    \A g \in Group : darc[g] # NoDarc => darc[g].sign # {} /\ darc[g].evolve # {}

\* Members of a group are accounts that are on the chain: when contactNew fails
\* no later change of the group may bring the contact in that it wanted to add.
MembersExist ==
    \A g \in Group : darc[g] # NoDarc => darc[g].sign \cup darc[g].evolve \subseteq exists

\* A group is only changed by a darc that was made from the one it replaces:
\* nobody undoes a change that he has not seen, however long a window is open.
NoLostUpdate ==
    [][\A g \in Group : darc[g] # NoDarc /\ darc'[g] # darc[g] =>
          \E t \in sent : \E e \in t.changes : /\ e.group = g
                                             /\ e.old = darc[g]
                                             /\ e.new = darc'[g]]_vars
=============================================================================
