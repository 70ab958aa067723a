---------------------------- MODULE GroupsProofs ----------------------------
(* Shared darcs stay in good hands, for any number of accounts and groups:  *)
(* proofs about Groups.                                                     *)
EXTENDS Groups, TLAPS

USE KnownAssumption, GroupsAssumption

-----------------------------------------------------------------------------
(* Darcs.                                                                  *)

\* A darc is not the mark for no darc.
LEMMA DarcIsSome == \A d \in Darc : d # NoDarc
BY DEF Darc

\* The next version has the same rules, one version later.
LEMMA NextVersion ==
  ASSUME NEW d \in Darc
  PROVE  /\ Next1(d) \in Darc
         /\ Next1(d).version = d.version + 1
         /\ Next1(d).sign = d.sign /\ Next1(d).evolve = d.evolve
BY DEF Next1, Darc

\* A new contact is added to both rules.
LEMMA JoinedDarc ==
  ASSUME NEW d \in Darc, NEW c \in User
  PROVE  /\ Joined(d, c) \in Darc
         /\ Joined(d, c).version = d.version + 1
         /\ Joined(d, c).sign = d.sign \cup {c}
         /\ Joined(d, c).evolve = d.evolve \cup {c}
BY NextVersion DEF Joined, Next1, Darc

\* A rule that is set leaves the version and the other rule.
LEMMA RuleIsSet ==
  ASSUME NEW d \in Darc, NEW r \in Rule, NEW ids \in SUBSET User
  PROVE  /\ SetRule(d, r, ids) \in Darc
         /\ SetRule(d, r, ids).version = d.version
         /\ SetRule(d, r, ids).sign \in {d.sign, ids}
         /\ SetRule(d, r, ids).evolve \in {d.evolve, ids}
BY DEF SetRule, Darc

\* The choice of a window goes to its darc only if somebody is chosen.
LEMMA UpdatedWindow ==
  ASSUME NEW w \in Window, NEW accounts,
         Sane(w.new, accounts), w.chosen \subseteq accounts
  PROVE  /\ Updated(w) \in Window
         /\ Updated(w).group = w.group /\ Updated(w).old = w.old
         /\ Updated(w).new.version = w.new.version
         /\ Sane(Updated(w).new, accounts)
         /\ Updated(w).items = w.items
         /\ Updated(w).unknown = w.unknown
         /\ Updated(w).chosen = w.chosen
<1>1. CASE w.chosen = {}
  BY <1>1 DEF Updated
<1>2. CASE w.chosen # {}
  <2>1. w.new \in Darc /\ w.rule \in Rule /\ w.chosen \in SUBSET User
    BY DEF Window
  <2> DEFINE n == SetRule(w.new, w.rule, w.chosen)
  <2>2. /\ n \in Darc /\ n.version = w.new.version
        /\ n.sign \in {w.new.sign, w.chosen}
        /\ n.evolve \in {w.new.evolve, w.chosen}
    BY <2>1, RuleIsSet
  <2>3. Updated(w) = [w EXCEPT !.new = n]
    BY <1>2 DEF Updated
  <2>4. Sane(n, accounts)
    BY <1>2, <2>2 DEF Sane
  <2> HIDE DEF n
  <2>5. QED
    BY <2>2, <2>3, <2>4 DEF Window
<1>3. QED
  BY <1>1, <1>2

-----------------------------------------------------------------------------
(* The invariant.                                                          *)

\* At the start there is no group, no window and no transaction.
LEMMA InitInv == Init => GroupsInv
BY DEF Init, GroupsInv, TypeOK, ChainIsSane, CopiesArePast,
       WindowsFollowPast, SentFollowPast

\* What an included transaction does to a group: nothing, or it makes it, or
\* it puts a darc in place that was made from the one that is there.
LEMMA IncludeEffect ==
  ASSUME GroupsInv, NEW t \in sent, Include(t), NEW g \in Group
  PROVE  \/ darc'[g] = darc[g]
         \/ darc[g] = NoDarc /\ darc'[g] = First(g)
         \/ /\ darc[g] # NoDarc
            /\ \E e \in t.changes : e.group = g /\ e.old = darc[g] /\ e.new = darc'[g]
            /\ darc'[g] \in Darc
            /\ darc'[g].version = darc[g].version + 1
            /\ Sane(darc'[g], exists')
<1>1. darc'[g] = After(t, g) /\ exists' = exists \cup t.create /\ Acceptable(t)
  BY DEF Include
<1>2. CASE \E e \in t.changes : e.group = g
  <2> DEFINE e == CHOOSE x \in t.changes : x.group = g
  <2>1. e \in t.changes /\ e.group = g
    BY <1>2
  <2>2. darc'[g] = e.new
    BY <1>1, <1>2 DEF After
  <2> HIDE DEF e
  <2>3. e \in Change
    BY <2>1 DEF GroupsInv, TypeOK, Tx
  <2>4. /\ Past(g, e.old)
        /\ e.new.version = e.old.version + 1
        /\ Sane(e.new, exists')
    BY <1>1, <2>1 DEF GroupsInv, SentFollowPast
  <2>5. darc[g] # NoDarc /\ e.new.version = darc[g].version + 1
    BY <1>1, <2>1 DEF Acceptable
  <2>6. darc[g] \in Darc
    BY <2>5 DEF GroupsInv, TypeOK
  <2>7. e.old.version \in Nat /\ darc[g].version \in Nat /\ e.new \in Darc
    BY <2>3, <2>6 DEF Change, Darc
  <2>8. e.old = darc[g]
    BY <2>4, <2>5, <2>7 DEF Past
  <2>9. QED
    BY <2>1, <2>2, <2>4, <2>5, <2>7, <2>8
<1>3. CASE /\ ~\E e \in t.changes : e.group = g
           /\ g \in t.spawn
  BY <1>1, <1>3 DEF After, Acceptable
<1>4. CASE /\ ~\E e \in t.changes : e.group = g
           /\ g \notin t.spawn
  BY <1>1, <1>4 DEF After
<1>5. QED
  BY <1>2, <1>3, <1>4

\* The past of a group stays its past when the chain goes on.
LEMMA PastStays ==
  ASSUME GroupsInv, NEW t \in sent, Include(t), NEW g \in Group, NEW d \in Darc,
         Past(g, d)
  PROVE  Past(g, d)'
<1>1. darc[g] # NoDarc /\ d.version <= darc[g].version
  BY DEF Past
<1>2. darc[g].version \in Nat /\ d.version \in Nat
  BY <1>1 DEF GroupsInv, TypeOK, Darc
<1>3. CASE darc'[g] = darc[g]
  BY <1>3 DEF Past
<1>4. CASE /\ darc'[g] \in Darc
           /\ darc'[g].version = darc[g].version + 1
  BY <1>1, <1>2, <1>4, DarcIsSome DEF Past
<1>5. QED
  BY <1>1, <1>3, <1>4, IncludeEffect

\* A darc that is sane stays so: accounts do not go away.
LEMMA SaneStays ==
  ASSUME NEW d, NEW S, NEW T, S \subseteq T, Sane(d, S)
  PROVE  Sane(d, T)
BY DEF Sane

\* A transaction whose changes follow the past may be sent.
LEMMA SendKeeps ==
  ASSUME GroupsInv, UNCHANGED chain, NEW u \in User,
         NEW spawn \in SUBSET Group, NEW create \in SUBSET Contact,
         NEW changes \in SUBSET Change,
         \A e \in changes : /\ Past(e.group, e.old)
                            /\ e.new.version = e.old.version + 1
                            /\ Sane(e.new, exists \cup create),
         Send(u, spawn, create, changes)
  PROVE  sent' \subseteq Tx /\ SentFollowPast'
<1> DEFINE t == [from |-> u, spawn |-> spawn, create |-> create,
                 changes |-> changes, wait |-> TRUE]
<1>1. sent' = sent \cup {t}
  BY DEF Send
<1>2. t \in Tx
  BY DEF Tx
<1>3. t.changes = changes /\ t.create = create
  OBVIOUS
<1> HIDE DEF t
<1>4. sent' \subseteq Tx
  BY <1>1, <1>2 DEF GroupsInv, TypeOK
<1>5. \A s \in sent' : \A e \in s.changes : /\ Past(e.group, e.old)
                                           /\ e.new.version = e.old.version + 1
                                           /\ Sane(e.new, exists \cup s.create)
  BY <1>1, <1>3 DEF GroupsInv, SentFollowPast
<1>6. SentFollowPast'
  BY <1>5 DEF SentFollowPast, chain, Past
<1>7. QED
  BY <1>4, <1>6

\* What a user sees of a group is a darc of its past.
LEMMA SeenIsPast ==
  ASSUME GroupsInv, NEW u \in User, NEW g \in Group, Sees(u, g)
  PROVE  copy[u][g] \in Darc /\ Past(g, copy[u][g]) /\ Sane(copy[u][g], exists)
BY DEF GroupsInv, TypeOK, CopiesArePast, Sees

\* An open window is one of the type, and its darc may be sent.
LEMMA WindowIsSane ==
  ASSUME GroupsInv, NEW u \in User, window[u] # NoWindow
  PROVE  /\ window[u] \in Window
         /\ Past(window[u].group, window[u].old)
         /\ window[u].new.version = window[u].old.version + 1
         /\ Sane(window[u].new, exists)
         /\ window[u].items \cup window[u].unknown \cup window[u].chosen \subseteq exists
BY DEF GroupsInv, TypeOK, WindowsFollowPast

\* Only a window changes: the invariant needs to be shown for it alone.
LEMMA WindowKeeps ==
  ASSUME GroupsInv, UNCHANGED <<chain, sent, copy>>, NEW u \in User, NEW w \in Window,
         window' = [window EXCEPT ![u] = w],
         Past(w.group, w.old),
         w.new.version = w.old.version + 1,
         Sane(w.new, exists),
         w.items \cup w.unknown \cup w.chosen \subseteq exists
  PROVE  GroupsInv'
<1>1. TypeOK'
  BY DEF GroupsInv, TypeOK, chain
<1>2. ChainIsSane' /\ CopiesArePast' /\ SentFollowPast'
  BY DEF GroupsInv, ChainIsSane, CopiesArePast, SentFollowPast, Past, chain
<1>3. WindowsFollowPast'
  <2> SUFFICES ASSUME NEW v \in User, window'[v] # NoWindow
               PROVE  /\ Past(window'[v].group, window'[v].old)
                      /\ window'[v].new.version = window'[v].old.version + 1
                      /\ Sane(window'[v].new, exists)
                      /\ window'[v].items \cup window'[v].unknown
                            \cup window'[v].chosen \subseteq exists
    BY DEF WindowsFollowPast, Past, chain
  <2>1. window \in [User -> Window \cup {NoWindow}]
    BY DEF GroupsInv, TypeOK
  <2>2. CASE v = u
    BY <2>1, <2>2
  <2>3. CASE v # u
    <3>1. window'[v] = window[v]
      BY <2>1, <2>3
    <3>2. QED
      BY <3>1, WindowIsSane
  <2>4. QED
    BY <2>2, <2>3
<1>4. QED
  BY <1>1, <1>2, <1>3 DEF GroupsInv

\* Only a transaction is sent: nothing else can break.
LEMMA SentKeeps ==
  ASSUME GroupsInv, UNCHANGED <<chain, copy>>,
         sent' \subseteq Tx, SentFollowPast',
         window' \in [User -> Window \cup {NoWindow}],
         \A u \in User : window'[u] \in {window[u], NoWindow}
  PROVE  GroupsInv'
<1>1. TypeOK'
  BY DEF GroupsInv, TypeOK, chain
<1>2. ChainIsSane' /\ CopiesArePast'
  BY DEF GroupsInv, ChainIsSane, CopiesArePast, Past, chain
<1>3. WindowsFollowPast'
  BY WindowIsSane DEF WindowsFollowPast, Past, chain
<1>4. QED
  BY <1>1, <1>2, <1>3 DEF GroupsInv

-----------------------------------------------------------------------------
(* The steps of a user.                                                    *)

\* A new group is sent without any change of another one.
LEMMA CreateKeeps ==
  ASSUME GroupsInv, NEW g \in Group, Create(g)
  PROVE  GroupsInv'
<1>1. Maker[g] \in User
  OBVIOUS
<1>2. /\ Send(Maker[g], {g}, {}, {})
      /\ UNCHANGED chain /\ UNCHANGED copy /\ UNCHANGED window
  BY DEF Create
<1>3. /\ {g} \in SUBSET Group /\ {} \in SUBSET Contact /\ {} \in SUBSET Change
      /\ \A e \in {} : /\ Past(e.group, e.old)
                      /\ e.new.version = e.old.version + 1
                      /\ Sane(e.new, exists \cup {})
  OBVIOUS
<1>4. sent' \subseteq Tx /\ SentFollowPast'
  BY <1>1, <1>2, <1>3, SendKeeps
<1>5. window' \in [User -> Window \cup {NoWindow}]
  BY <1>2 DEF GroupsInv, TypeOK
<1>6. QED
  BY <1>2, <1>4, <1>5, SentKeeps

\* A rename changes the description only, from what the user sees.
LEMMA RenameKeeps ==
  ASSUME GroupsInv, NEW u \in User, NEW g \in Group, NEW n \in Name,
         Rename(u, g, n)
  PROVE  GroupsInv'
<1> DEFINE d == copy[u][g]
           e == [group |-> g, old |-> d, new |-> [Next1(d) EXCEPT !.name = n]]
<1>1. /\ Send(u, {}, {}, {e})
      /\ UNCHANGED chain /\ UNCHANGED copy /\ UNCHANGED window
  BY DEF Rename
<1>2. d \in Darc /\ Past(g, d) /\ Sane(d, exists)
  BY SeenIsPast DEF Rename
<1> HIDE DEF d
<1>3. /\ Next1(d) \in Darc /\ Next1(d).version = d.version + 1
      /\ Next1(d).sign = d.sign /\ Next1(d).evolve = d.evolve
  BY <1>2, NextVersion
<1>4. /\ e \in Change /\ e.group = g /\ e.old = d
      /\ e.new.version = d.version + 1
      /\ e.new.sign = d.sign /\ e.new.evolve = d.evolve
  BY <1>2, <1>3 DEF Change, Darc
<1> HIDE DEF e
<1>5. Sane(e.new, exists \cup {})
  BY <1>2, <1>4 DEF Sane
<1>6. sent' \subseteq Tx /\ SentFollowPast'
  <2>1. \A x \in {e} : /\ Past(x.group, x.old)
                       /\ x.new.version = x.old.version + 1
                       /\ Sane(x.new, exists \cup {})
    BY <1>2, <1>4, <1>5
  <2>2. {e} \in SUBSET Change
    BY <1>4
  <2>3. QED
    BY <1>1, <2>1, <2>2, SendKeeps
<1>7. window' \in [User -> Window \cup {NoWindow}]
  BY <1>1 DEF GroupsInv, TypeOK
<1>8. QED
  BY <1>1, <1>6, <1>7, SentKeeps

\* A new contact is in darcs of the transaction that creates him.
LEMMA ContactNewKeeps ==
  ASSUME GroupsInv, NEW u \in User, NEW c \in Contact, NEW G \in SUBSET Group,
         ContactNew(u, c, G)
  PROVE  GroupsInv'
<1> DEFINE changes == Joining(u, c, G)
<1>1. /\ Send(u, {}, {c}, changes)
      /\ UNCHANGED chain /\ UNCHANGED copy /\ UNCHANGED window
  BY DEF ContactNew
<1>2. \A e \in changes : /\ e \in Change
                         /\ Past(e.group, e.old)
                         /\ e.new.version = e.old.version + 1
                         /\ Sane(e.new, exists \cup {c})
  <2> SUFFICES ASSUME NEW g \in G
               PROVE  LET d == copy[u][g]
                          e == [group |-> g, old |-> d, new |-> Joined(d, c)]
                      IN  /\ e \in Change
                          /\ Past(e.group, e.old)
                          /\ e.new.version = e.old.version + 1
                          /\ Sane(e.new, exists \cup {c})
    BY DEF Joining
  <2> DEFINE d == copy[u][g]
  <2>1. d \in Darc /\ Past(g, d) /\ Sane(d, exists)
    BY SeenIsPast DEF ContactNew
  <2> HIDE DEF d
  <2>2. /\ Joined(d, c) \in Darc /\ Joined(d, c).version = d.version + 1
        /\ Joined(d, c).sign = d.sign \cup {c}
        /\ Joined(d, c).evolve = d.evolve \cup {c}
    BY <2>1, JoinedDarc
  <2>3. Sane(Joined(d, c), exists \cup {c})
    BY <2>1, <2>2 DEF Sane
  <2>4. QED
    BY <2>1, <2>2, <2>3 DEF Change, d
<1> HIDE DEF changes
<1>3. changes \in SUBSET Change /\ {c} \in SUBSET Contact
  BY <1>2
<1>4. sent' \subseteq Tx /\ SentFollowPast'
  BY <1>1, <1>2, <1>3, SendKeeps
<1>5. window' \in [User -> Window \cup {NoWindow}]
  BY <1>1 DEF GroupsInv, TypeOK
<1>6. QED
  BY <1>1, <1>4, <1>5, SentKeeps

-----------------------------------------------------------------------------
(* The steps of the window.                                                *)

\* A window opens on what the user sees.
LEMMA OpenEditKeeps ==
  ASSUME GroupsInv, NEW u \in User, NEW g \in Group, OpenEdit(u, g)
  PROVE  GroupsInv'
<1> DEFINE d == copy[u][g]
           w == [group |-> g, old |-> d, new |-> Next1(d), rule |-> "sign",
                 items |-> {}, unknown |-> {}, chosen |-> {}]
<1>1. /\ window' = [window EXCEPT ![u] = w]
      /\ UNCHANGED <<chain, sent, copy>>
  BY DEF OpenEdit
<1>2. d \in Darc /\ Past(g, d) /\ Sane(d, exists)
  BY SeenIsPast DEF OpenEdit
<1> HIDE DEF d
<1>3. /\ Next1(d) \in Darc /\ Next1(d).version = d.version + 1
      /\ Sane(Next1(d), exists)
  BY <1>2, NextVersion DEF Sane
<1>4. /\ w \in Window /\ Past(w.group, w.old)
      /\ w.new.version = w.old.version + 1 /\ Sane(w.new, exists)
      /\ w.items \cup w.unknown \cup w.chosen \subseteq exists
  BY <1>2, <1>3 DEF Window, Rule
<1> HIDE DEF w
<1>5. QED
  BY <1>1, <1>4, WindowKeeps

\* Another rule in the window lists members of that rule, and they exist.
LEMMA RuledKeeps ==
  ASSUME GroupsInv, UNCHANGED <<chain, sent, copy>>,
         NEW u \in User, window[u] # NoWindow,
         NEW r \in Rule, NEW items \in SUBSET User, items \subseteq exists,
         window' = [window EXCEPT ![u] = Ruled(window[u], r, items)]
  PROVE  GroupsInv'
<1> DEFINE w == window[u]
           v == Ruled(w, r, items)
<1>1. /\ w \in Window /\ Past(w.group, w.old)
      /\ w.new.version = w.old.version + 1 /\ Sane(w.new, exists)
  BY WindowIsSane
<1> HIDE DEF w
<1>2. RuleOf(w.new, r) \in SUBSET User /\ RuleOf(w.new, r) \subseteq exists
  BY <1>1 DEF RuleOf, Window, Darc, Sane
<1>3. /\ v \in Window /\ v.group = w.group /\ v.old = w.old /\ v.new = w.new
      /\ v.items = items /\ v.unknown = {} /\ v.chosen = RuleOf(w.new, r)
  BY <1>1, <1>2 DEF Ruled, Window
<1>4. window' = [window EXCEPT ![u] = v]
  BY DEF w
<1> HIDE DEF v
<1>5. v.items \cup v.unknown \cup v.chosen \subseteq exists
  BY <1>2, <1>3
<1>6. /\ Past(v.group, v.old) /\ Sane(v.new, exists)
      /\ v.new.version = v.old.version + 1
  BY <1>1, <1>3
<1>7. QED
  BY <1>3, <1>4, <1>5, <1>6, WindowKeeps

\* A changed choice is written to the darc of the window.
LEMMA ChosenKeeps ==
  ASSUME GroupsInv, UNCHANGED <<chain, sent, copy>>,
         NEW u \in User, window[u] # NoWindow, NEW v \in Window,
         v.group = window[u].group, v.old = window[u].old, v.new = window[u].new,
         v.items \cup v.unknown \cup v.chosen \subseteq exists,
         window' = [window EXCEPT ![u] = Updated(v)]
  PROVE  GroupsInv'
<1>1. /\ Past(v.group, v.old) /\ Sane(v.new, exists)
      /\ v.new.version = v.old.version + 1
  BY WindowIsSane
<1>2. /\ Updated(v) \in Window
      /\ Updated(v).group = v.group /\ Updated(v).old = v.old
      /\ Updated(v).new.version = v.new.version
      /\ Sane(Updated(v).new, exists)
      /\ Updated(v).items = v.items
      /\ Updated(v).unknown = v.unknown
      /\ Updated(v).chosen = v.chosen
  BY <1>1, UpdatedWindow
<1>3. QED
  BY <1>1, <1>2, WindowKeeps

\* Every step of a window keeps the invariant.
LEMMA EditKeeps ==
  ASSUME GroupsInv, NEW u \in User, Edit(u)
  PROVE  GroupsInv'
<1>1. ASSUME NEW g \in Group, OpenEdit(u, g) PROVE GroupsInv'
  BY <1>1, OpenEditKeeps
<1>2. CASE ItemsFound(u)
  <2>1. window[u] \in Window
    BY <1>2, WindowIsSane DEF ItemsFound
  <2>2. window[u].rule \in Rule
    BY <2>1 DEF Window
  <2>3. Known[u] \cap exists \in SUBSET User /\ Known[u] \cap exists \subseteq exists
    OBVIOUS
  <2>4. /\ window[u] # NoWindow /\ UNCHANGED <<chain, sent, copy>>
        /\ window' = [window EXCEPT ![u] =
                        Ruled(window[u], window[u].rule, Known[u] \cap exists)]
    BY <1>2 DEF ItemsFound
  <2>5. QED
    BY <2>2, <2>3, <2>4, RuledKeeps
<1>3. ASSUME NEW r \in Rule, RuleChange(u, r) PROVE GroupsInv'
  <2>1. window[u].items \in SUBSET User /\ window[u].items \subseteq exists
    BY <1>3, WindowIsSane DEF RuleChange, Window
  <2>2. /\ window[u] # NoWindow /\ UNCHANGED <<chain, sent, copy>>
        /\ window' = [window EXCEPT ![u] = Ruled(window[u], r, window[u].items)]
    BY <1>3 DEF RuleChange
  <2>3. QED
    BY <2>1, <2>2, RuledKeeps
<1>4. ASSUME NEW i \in User, AddItem(u, i) PROVE GroupsInv'
  <2> DEFINE v == Chosen(window[u], i)
  <2>1. /\ window[u] \in Window
        /\ window[u].items \cup window[u].unknown \cup window[u].chosen \subseteq exists
    BY <1>4, WindowIsSane DEF AddItem
  <2>2. i \in window[u].items \cup window[u].unknown
    BY <1>4 DEF AddItem
  <2>3. /\ v \in Window /\ v.group = window[u].group
        /\ v.old = window[u].old /\ v.new = window[u].new
        /\ v.items \cup v.unknown \cup v.chosen \subseteq exists
    BY <2>1, <2>2 DEF Window, Chosen
  <2>4. /\ window[u] # NoWindow /\ UNCHANGED <<chain, sent, copy>>
        /\ window' = [window EXCEPT ![u] = Updated(v)]
    BY <1>4 DEF AddItem
  <2> HIDE DEF v
  <2>5. QED
    BY <2>3, <2>4, ChosenKeeps
<1>5. ASSUME NEW i \in User, RemoveItem(u, i) PROVE GroupsInv'
  <2> DEFINE v == Unchosen(window[u], i)
  <2>1. /\ window[u] \in Window
        /\ window[u].items \cup window[u].unknown \cup window[u].chosen \subseteq exists
    BY <1>5, WindowIsSane DEF RemoveItem
  <2>2. i \in window[u].chosen
    BY <1>5 DEF RemoveItem
  <2>3. /\ v \in Window /\ v.group = window[u].group
        /\ v.old = window[u].old /\ v.new = window[u].new
        /\ v.items \cup v.unknown \cup v.chosen \subseteq exists
    BY <2>1, <2>2 DEF Window, Unchosen
  <2>4. /\ window[u] # NoWindow /\ UNCHANGED <<chain, sent, copy>>
        /\ window' = [window EXCEPT ![u] = Updated(v)]
    BY <1>5 DEF RemoveItem
  <2> HIDE DEF v
  <2>5. QED
    BY <2>3, <2>4, ChosenKeeps
<1>6. CASE Apply(u)
  <2> DEFINE w == Updated(window[u])
             e == [group |-> w.group, old |-> w.old, new |-> w.new]
  <2>1. /\ Send(u, {}, {}, {e})
        /\ UNCHANGED chain /\ UNCHANGED copy
        /\ window' = [window EXCEPT ![u] = NoWindow]
    BY <1>6 DEF Apply
  <2>2. window[u] # NoWindow
    BY <1>6 DEF Apply
  <2>3. /\ w \in Window /\ Past(w.group, w.old)
        /\ w.new.version = w.old.version + 1 /\ Sane(w.new, exists)
    BY <2>2, WindowIsSane, UpdatedWindow
  <2> HIDE DEF w
  <2>4. /\ {e} \in SUBSET Change
        /\ \A x \in {e} : /\ Past(x.group, x.old)
                          /\ x.new.version = x.old.version + 1
                          /\ Sane(x.new, exists \cup {})
    BY <2>3 DEF Window, Change, Sane
  <2> HIDE DEF e
  <2>5. sent' \subseteq Tx /\ SentFollowPast'
    BY <2>1, <2>4, SendKeeps
  <2>6. /\ window' \in [User -> Window \cup {NoWindow}]
        /\ \A v \in User : window'[v] \in {window[v], NoWindow}
    BY <2>1 DEF GroupsInv, TypeOK
  <2>7. QED
    BY <2>1, <2>5, <2>6, SentKeeps
<1>7. CASE CancelEdit(u)
  <2>1. /\ UNCHANGED chain /\ UNCHANGED sent /\ UNCHANGED copy
        /\ window' = [window EXCEPT ![u] = NoWindow]
    BY <1>7 DEF CancelEdit
  <2>2. /\ window' \in [User -> Window \cup {NoWindow}]
        /\ \A v \in User : window'[v] \in {window[v], NoWindow}
    BY <2>1 DEF GroupsInv, TypeOK
  <2>3. sent' \subseteq Tx /\ SentFollowPast'
    BY <2>1 DEF GroupsInv, TypeOK, SentFollowPast, Past, chain
  <2>4. QED
    BY <2>1, <2>2, <2>3, SentKeeps
<1>8. QED
  BY <1>1, <1>2, <1>3, <1>4, <1>5, <1>6, <1>7 DEF Edit

-----------------------------------------------------------------------------
(* The steps of the chain.                                                 *)

\* A transaction that is refused, lost or abandoned changes nothing else.
LEMMA DropKeeps ==
  ASSUME GroupsInv, NEW t \in sent, Refuse(t) \/ Lose(t) \/ Abandon(t)
  PROVE  GroupsInv'
<1>1. UNCHANGED chain /\ UNCHANGED copy /\ UNCHANGED window
  BY DEF Refuse, Lose, Abandon
<1> DEFINE s == [t EXCEPT !.wait = FALSE]
<1>2. t \in Tx /\ sent \subseteq Tx
  BY DEF GroupsInv, TypeOK
<1>3. s \in Tx /\ s.changes = t.changes /\ s.create = t.create
  BY <1>2 DEF Tx
<1>4. sent' \subseteq sent \cup {s}
  BY DEF Refuse, Lose, Abandon
<1> HIDE DEF s
<1>5. sent' \subseteq Tx
  BY <1>2, <1>3, <1>4
<1>6. SentFollowPast'
  BY <1>1, <1>3, <1>4 DEF GroupsInv, SentFollowPast, Past, chain
<1>7. window' \in [User -> Window \cup {NoWindow}]
  BY <1>1 DEF GroupsInv, TypeOK
<1>8. QED
  BY <1>1, <1>5, <1>6, <1>7, SentKeeps

\* A block moves the chain on; copies, windows and transactions grow old.
LEMMA IncludeKeeps ==
  ASSUME GroupsInv, NEW t \in sent, Include(t)
  PROVE  GroupsInv'
<1>1. /\ sent' \subseteq sent
      /\ darc' = [g \in Group |-> After(t, g)]
      /\ exists' = exists \cup t.create
      /\ UNCHANGED copy /\ UNCHANGED window
  BY DEF Include
<1>2. t \in Tx /\ t.create \subseteq User
  BY DEF GroupsInv, TypeOK, Tx
<1>3. \A g \in Group : First(g) \in Darc /\ Sane(First(g), exists)
  BY DEF First, Darc, Sane, GroupsInv, ChainIsSane
<1>4. \A g \in Group : darc'[g] \in Darc \cup {NoDarc}
  BY <1>3, IncludeEffect DEF GroupsInv, TypeOK
<1>5. TypeOK'
  <2>1. darc' \in [Group -> Darc \cup {NoDarc}]
    BY <1>1, <1>4
  <2>2. QED
    BY <1>1, <1>2, <2>1 DEF GroupsInv, TypeOK
<1>6. ChainIsSane'
  <2>1. User \ Contact \subseteq exists'
    BY <1>1 DEF GroupsInv, ChainIsSane
  <2>2. ASSUME NEW g \in Group, darc'[g] # NoDarc PROVE Sane(darc'[g], exists')
    <3>1. CASE darc'[g] = darc[g]
      BY <1>1, <2>2, <3>1, SaneStays DEF GroupsInv, ChainIsSane
    <3>2. CASE darc'[g] = First(g)
      BY <1>1, <1>3, <3>2, SaneStays
    <3>3. QED
      BY <3>1, <3>2, IncludeEffect
  <2>3. QED
    BY <2>1, <2>2 DEF ChainIsSane
<1>7. CopiesArePast'
  <2> SUFFICES ASSUME NEW u \in User, NEW g \in Group, copy[u][g] # NoDarc
               PROVE  Past(g, copy[u][g])' /\ Sane(copy[u][g], exists')
    BY <1>1 DEF CopiesArePast
  <2>1. copy[u][g] \in Darc /\ Past(g, copy[u][g]) /\ Sane(copy[u][g], exists)
    BY DEF GroupsInv, TypeOK, CopiesArePast
  <2>2. Past(g, copy[u][g])'
    BY <1>1, <2>1, PastStays DEF Past
  <2>3. QED
    BY <1>1, <2>1, <2>2, SaneStays
<1>8. WindowsFollowPast'
  <2> SUFFICES ASSUME NEW u \in User, window[u] # NoWindow
               PROVE  /\ Past(window[u].group, window[u].old)'
                      /\ window[u].new.version = window[u].old.version + 1
                      /\ Sane(window[u].new, exists')
                      /\ window[u].items \cup window[u].unknown
                            \cup window[u].chosen \subseteq exists'
    BY <1>1 DEF WindowsFollowPast
  <2> DEFINE w == window[u]
  <2>1. /\ w \in Window /\ Past(w.group, w.old)
        /\ w.new.version = w.old.version + 1 /\ Sane(w.new, exists)
        /\ w.items \cup w.unknown \cup w.chosen \subseteq exists
    BY WindowIsSane
  <2>2. w.group \in Group /\ w.old \in Darc
    BY <2>1 DEF Window
  <2>3. Past(w.group, w.old)'
    BY <1>1, <2>1, <2>2, PastStays DEF Past
  <2>4. QED
    BY <1>1, <2>1, <2>3, SaneStays
<1>9. SentFollowPast'
  <2> SUFFICES ASSUME NEW s \in sent, NEW e \in s.changes
               PROVE  /\ Past(e.group, e.old)'
                      /\ e.new.version = e.old.version + 1
                      /\ Sane(e.new, exists' \cup s.create)
    BY <1>1 DEF SentFollowPast
  <2>1. /\ Past(e.group, e.old)
        /\ e.new.version = e.old.version + 1
        /\ Sane(e.new, exists \cup s.create)
    BY DEF GroupsInv, SentFollowPast
  <2>2. e.group \in Group /\ e.old \in Darc
    BY DEF GroupsInv, TypeOK, Tx, Change
  <2>3. Past(e.group, e.old)'
    BY <2>1, <2>2, PastStays DEF Past
  <2>4. QED
    BY <1>1, <2>1, <2>3, SaneStays
<1>10. QED
  BY <1>5, <1>6, <1>7, <1>8, <1>9 DEF GroupsInv

\* A copy that follows its instance is the darc of the chain.
LEMMA FollowKeeps ==
  ASSUME GroupsInv, NEW u \in User, NEW g \in Group, Follow(u, g)
  PROVE  GroupsInv'
<1>1. /\ copy' = [copy EXCEPT ![u][g] = darc[g]]
      /\ UNCHANGED darc /\ UNCHANGED exists /\ UNCHANGED sent /\ UNCHANGED window
  BY DEF Follow, chain
<1>2. copy \in [User -> [Group -> Darc \cup {NoDarc}]] /\ darc[g] \in Darc \cup {NoDarc}
  BY DEF GroupsInv, TypeOK
<1>3. copy' \in [User -> [Group -> Darc \cup {NoDarc}]]
  BY <1>1, <1>2
<1>4. \A v \in User, h \in Group : copy'[v][h] \in {copy[v][h], darc[h]}
  BY <1>1, <1>2
<1>5. \A h \in Group : darc[h] # NoDarc => Past(h, darc[h]) /\ Sane(darc[h], exists)
  BY DEF GroupsInv, TypeOK, ChainIsSane, Past, Darc
<1>6. CopiesArePast'
  <2> SUFFICES ASSUME NEW v \in User, NEW h \in Group, copy'[v][h] # NoDarc
               PROVE  Past(h, copy'[v][h]) /\ Sane(copy'[v][h], exists)
    BY <1>1 DEF CopiesArePast, Past
  <2>1. QED
    BY <1>4, <1>5 DEF GroupsInv, CopiesArePast
<1>7. TypeOK'
  BY <1>1, <1>3 DEF GroupsInv, TypeOK
<1>8. ChainIsSane' /\ WindowsFollowPast' /\ SentFollowPast'
  BY <1>1 DEF GroupsInv, ChainIsSane, WindowsFollowPast, SentFollowPast, Past
<1>9. QED
  BY <1>6, <1>7, <1>8 DEF GroupsInv

-----------------------------------------------------------------------------
(* The theorems.                                                           *)

\* Every step keeps the invariant.
LEMMA StepInv == GroupsInv /\ [Next]_vars => GroupsInv'
<1> SUFFICES ASSUME GroupsInv, [Next]_vars PROVE GroupsInv'
  OBVIOUS
<1>1. CASE UNCHANGED vars
  BY <1>1 DEF vars, GroupsInv, TypeOK, ChainIsSane, CopiesArePast,
              WindowsFollowPast, SentFollowPast, Past
<1>2. CASE \E u \in User : UserStep(u)
  BY <1>2, RenameKeeps, ContactNewKeeps, EditKeeps DEF UserStep
<1>3. CASE \E g \in Group : Create(g)
  BY <1>3, CreateKeeps
<1>4. CASE \E t \in sent : Settle(t)
  BY <1>4, IncludeKeeps, DropKeeps DEF Settle
<1>5. CASE \E u \in User, g \in Group : Follow(u, g)
  BY <1>5, FollowKeeps
<1>6. QED
  BY <1>1, <1>2, <1>3, <1>4, <1>5 DEF Next

\* The inductive invariant: the chain, the copies, the windows and what is on
\* its way all descend from darcs that the chain had.
THEOREM GroupsAreInvariant == Spec => []GroupsInv
BY InitInv, StepInv, PTL DEF Spec

\* The state of the groups keeps its type.
THEOREM GroupsTyped == Spec => []TypeOK
<1>1. GroupsInv => TypeOK
  BY DEF GroupsInv
<1>2. QED
  BY <1>1, GroupsAreInvariant, PTL

\* Every rule of every group keeps a member, whatever is chosen in windows.
THEOREM GroupsKeepMembers == Spec => []NeverOrphaned
<1>1. GroupsInv => NeverOrphaned
  BY DEF GroupsInv, ChainIsSane, Sane, NeverOrphaned
<1>2. QED
  BY <1>1, GroupsAreInvariant, PTL

\* Members are accounts that are on the chain, although contactNew may fail.
THEOREM MembersAreAccounts == Spec => []MembersExist
<1>1. GroupsInv => MembersExist
  BY DEF GroupsInv, ChainIsSane, Sane, MembersExist
<1>2. QED
  BY <1>1, GroupsAreInvariant, PTL

\* Only an included transaction changes a group, and by a darc made from the
\* one that it replaces.
LEMMA StepFromSeen ==
  ASSUME GroupsInv, [Next]_vars, NEW g \in Group, darc[g] # NoDarc, darc'[g] # darc[g]
  PROVE  \E t \in sent : \E e \in t.changes : /\ e.group = g
                                             /\ e.old = darc[g]
                                             /\ e.new = darc'[g]
<1>1. ASSUME NEW t \in sent, Include(t)
      PROVE  \E e \in t.changes : e.group = g /\ e.old = darc[g] /\ e.new = darc'[g]
  BY <1>1, IncludeEffect
<1>2. (\E t \in sent : Include(t)) \/ UNCHANGED darc
  BY DEF Next, UserStep, Edit, Create, Rename, ContactNew, OpenEdit, ItemsFound,
         RuleChange, AddItem, RemoveItem, Apply, CancelEdit, Settle, Refuse,
         Lose, Abandon, Follow, vars, chain
<1>3. QED
  BY <1>1, <1>2

\* Nobody undoes a change of a group that he has not seen.
THEOREM NothingOverwritten == Spec => NoLostUpdate
<1>1. GroupsInv /\ [Next]_vars =>
        [\A g \in Group : darc[g] # NoDarc /\ darc'[g] # darc[g] =>
           \E t \in sent : \E e \in t.changes : /\ e.group = g
                                              /\ e.old = darc[g]
                                              /\ e.new = darc'[g]]_vars
  BY StepFromSeen
<1>2. QED
  BY <1>1, GroupsAreInvariant, PTL DEF Spec, NoLostUpdate
=============================================================================
