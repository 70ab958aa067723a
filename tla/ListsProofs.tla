----------------------------- MODULE ListsProofs -----------------------------
(* A page shows what is on the chain, and its lists name no ID twice, for any  *)
(* number of browsers, IDs and transactions, and however slow the lookups are: *)
(* proofs about Lists.                                                         *)
EXTENDS Lists, FiniteSetTheorems, SequenceTheorems, TLAPS

-----------------------------------------------------------------------------
(* The page.                                                               *)

\* The lookups of a browser are answered to its own page only.
ShownInv == shown \in [Wallet -> SUBSET exists]

\* The steps of the user, the credential and the nodes leave the page alone and
\* take no darc off the chain.
LEMMA OthersKeepShown ==
  ASSUME ShownInv,
         \/ \E w \in Wallet : UserStep(w) \/ Follow(w)
         \/ \E t \in sent : Settle(t)
         \/ UNCHANGED vars
  PROVE  ShownInv'
<1>1. UNCHANGED shown /\ exists \subseteq exists'
  <2>1. ASSUME NEW w \in Wallet, UserStep(w) PROVE UNCHANGED <<shown, exists>>
    BY <2>1 DEF UserStep, Create, Link, LinkContact, Unlink, OtherUpdate,
         SetInstanceSet, chain, page
  <2>2. ASSUME NEW w \in Wallet, Follow(w) PROVE UNCHANGED <<shown, exists>>
    BY <2>2 DEF Follow, chain, page
  <2>3. ASSUME NEW t \in sent, Settle(t) PROVE UNCHANGED shown /\ exists \subseteq exists'
    BY <2>3 DEF Settle, Include, Refuse, Lose, Abandon, chain, page
  <2>4. CASE UNCHANGED vars
    BY <2>4 DEF vars
  <2>5. QED
    BY <2>1, <2>2, <2>3, <2>4
<1>2. QED
  BY <1>1 DEF ShownInv

\* The answer of a lookup shows those of its darcs that exist when it comes.
LEMMA AnswerKeepsShown ==
  ASSUME ShownInv, NEW w \in Wallet, NEW l \in lookups[w], Answer(w, l)
  PROVE  ShownInv'
<1>1. PICK F \in Results(l) : shown' = [shown EXCEPT ![w] = F]
  BY DEF Answer
<1>2. F \subseteq exists /\ exists' = exists
  BY DEF Results, Answer, chain
<1>3. QED
  BY <1>1, <1>2 DEF ShownInv

\* A page that is loaded shows those of the stored list that exist.
LEMMA LoadKeepsShown ==
  ASSUME ShownInv, NEW w \in Wallet, Load(w) PROVE ShownInv'
<1>1. shown' = [shown EXCEPT ![w] = Ids(stored) \cap exists] /\ exists' = exists
  BY DEF Load, chain
<1>2. QED
  BY <1>1 DEF ShownInv

\* A page never shows a group, an action or a contact that is not on the chain.
THEOREM NothingInvented == Spec => []ShownExists
<1>1. Init => ShownInv
  BY DEF Init, ShownInv
<1>2. ShownInv /\ [Next]_vars => ShownInv'
  BY OthersKeepShown, AnswerKeepsShown, LoadKeepsShown DEF Next, LookedUp
<1>3. ShownInv => ShownExists
  BY DEF ShownInv, ShownExists
<1>4. QED
  BY <1>1, <1>2, <1>3, PTL DEF Spec

-----------------------------------------------------------------------------
(* Lists.                                                                  *)

\* A sequence of IDs in which none comes twice is an InstanceSet.
LEMMA ListIsInstanceSet ==
  ASSUME NEW s \in Seq(Item), IsInjective(s)
  PROVE  s \in InstanceSet
<1>1. /\ Len(s) \in Nat /\ s \in [1..Len(s) -> Item] /\ DOMAIN s = 1..Len(s)
  BY LenProperties
<1>2. s \in Injection(1..Len(s), Item)
  BY <1>1 DEF Injection, IsInjective
<1>3. Cardinality(1..Len(s)) <= Cardinality(Item) /\ Cardinality(Item) \in Nat
  BY <1>2, ItemsAssumption, FS_Injection, FS_CardinalityType
<1>4. Cardinality(1..Len(s)) = Len(s)
  BY <1>1, FS_Interval
<1>5. Len(s) \in 0..Cardinality(Item)
  BY <1>1, <1>3, <1>4
<1> QED BY <1>1, <1>5 DEF InstanceSet

LEMMA InstanceSetIsList ==
  ASSUME NEW s \in InstanceSet
  PROVE  /\ s \in Seq(Item) /\ IsInjective(s)
         /\ Len(s) \in Nat /\ DOMAIN s = 1..Len(s)
<1>1. Cardinality(Item) \in Nat
  BY ItemsAssumption, FS_CardinalityType
<1>2. PICK n \in 0..Cardinality(Item) : s \in [1..n -> Item]
  BY DEF InstanceSet
<1>3. s \in Seq(Item)
  BY <1>1, <1>2
<1> QED BY <1>3, LenProperties DEF InstanceSet

LEMMA NoneIsInstanceSet == <<>> \in InstanceSet
<1>1. <<>> \in Seq(Item) /\ IsInjective(<<>>)
  BY DEF IsInjective
<1> QED BY <1>1, ListIsInstanceSet

LEMMA IdsAreItems ==
  ASSUME NEW s \in InstanceSet
  PROVE  Range(s) \in SUBSET Item
BY InstanceSetIsList, RangeOfSeq

\* InstanceSet.add puts an ID at the end, unless it is there already.
LEMMA AddIsInstanceSet ==
  ASSUME NEW s \in InstanceSet, NEW i \in Item
  PROVE  Add(s, i) \in InstanceSet /\ Range(Add(s, i)) = Range(s) \cup {i}
<1>0. /\ s \in Seq(Item) /\ IsInjective(s) /\ Len(s) \in Nat /\ DOMAIN s = 1..Len(s)
  BY InstanceSetIsList
<1>1. CASE i \in Range(s)
  BY <1>1 DEF Add
<1>2. CASE i \notin Range(s)
  <2> DEFINE r == Append(s, i)
  <2>1. /\ r \in Seq(Item) /\ Len(r) = Len(s) + 1 /\ r[Len(s) + 1] = i
        /\ \A j \in 1..Len(s) : r[j] = s[j]
    BY <1>0, AppendProperties
  <2>2. DOMAIN r = 1..Len(s) + 1
    BY <2>1, LenProperties
  <2> HIDE DEF r
  <2>3. \A j \in 1..Len(s) : s[j] # i
    BY <1>0, <1>2 DEF Range
  <2>4. \A j \in 1..Len(s) + 1 : j \in 1..Len(s) \/ j = Len(s) + 1
    BY <1>0
  <2>5. IsInjective(r)
    BY <1>0, <2>1, <2>2, <2>3, <2>4 DEF IsInjective
  <2>6. Range(r) = Range(s) \cup {i}
    <3>1. Len(s) + 1 \in DOMAIN r /\ \A j \in DOMAIN s : j \in DOMAIN r /\ r[j] = s[j]
      BY <1>0, <2>1, <2>2
    <3>2. \A j \in DOMAIN r : j \in DOMAIN s \/ j = Len(s) + 1
      BY <1>0, <2>2, <2>4
    <3> QED BY <2>1, <3>1, <3>2 DEF Range
  <2>7. Add(s, i) = r
    BY <1>2 DEF Add, r
  <2> QED BY <2>1, <2>5, <2>6, <2>7, ListIsInstanceSet
<1> QED BY <1>1, <1>2

\* InstanceSet.rm takes one out and leaves the order of the others.
LEMMA RmIsInstanceSet ==
  ASSUME NEW s \in InstanceSet, NEW i \in Item
  PROVE  Rm(s, i) \in InstanceSet /\ Range(Rm(s, i)) = Range(s) \ {i}
<1>0. /\ s \in Seq(Item) /\ IsInjective(s) /\ Len(s) \in Nat /\ DOMAIN s = 1..Len(s)
  BY InstanceSetIsList
<1>1. CASE i \notin Range(s)
  <2>1. ~ \E j \in 1..Len(s) : s[j] = i
    BY <1>0, <1>1 DEF Range
  <2> QED BY <1>1, <2>1 DEF Rm, RemoveFirst
<1>2. CASE i \in Range(s)
  <2>1. PICK k \in 1..Len(s) : s[k] = i
    BY <1>0, <1>2 DEF Range
  <2>2. {j \in 1..Len(s) : s[j] = i} = {k}
    BY <1>0, <2>1 DEF IsInjective
  <2>3. Min({k}) = k
    BY <2>1 DEF Min
  <2>4. SelectInSeq(s, LAMBDA v : v = i) = k
    BY <2>2, <2>3 DEF SelectInSeq
  <2> DEFINE a == SubSeq(s, 1, k - 1)
             b == SubSeq(s, k + 1, Len(s))
             r == a \o b
  <2>5. Rm(s, i) = r
    BY <2>1, <2>4 DEF Rm, RemoveFirst, RemoveAt
  <2>6. /\ k \in Int /\ k - 1 \in Int /\ k + 1 \in Int /\ 1 <= k /\ k <= Len(s)
    BY <1>0, <2>1
  <2>7. \A j \in 1..k - 1 : s[j] \in Item
    BY <1>0, <2>6, ElementOfSeq
  <2>8. \A j \in k + 1..Len(s) : s[j] \in Item
    BY <1>0, <2>6, ElementOfSeq
  <2>9. a \in Seq(Item) /\ Len(a) = k - 1 /\ \A j \in 1..k - 1 : a[j] = s[j]
    BY <1>0, <2>6, <2>7, SubSeqProperties
  <2>10. b \in Seq(Item) /\ Len(b) = Len(s) - k /\ \A j \in 1..Len(s) - k : b[j] = s[k + j]
    <3>1. /\ b \in Seq(Item)
          /\ Len(b) = IF k + 1 <= Len(s) THEN Len(s) - (k + 1) + 1 ELSE 0
          /\ \A j \in 1..Len(s) - (k + 1) + 1 : b[j] = s[(k + 1) + j - 1]
      BY <1>0, <2>6, <2>8, SubSeqProperties
    <3>2. Len(b) = Len(s) - k
      <4>1. \A m \in Nat : k <= m => (IF k + 1 <= m THEN m - (k + 1) + 1 ELSE 0) = m - k
        BY <2>6
      <4> QED BY <1>0, <2>6, <3>1, <4>1
    <3>3. ASSUME NEW j \in 1..Len(s) - k PROVE b[j] = s[k + j]
      <4>1. j \in 1..Len(s) - (k + 1) + 1 /\ (k + 1) + j - 1 = k + j
        BY <1>0, <2>6
      <4>2. b[j] = s[(k + 1) + j - 1]
        BY <3>1, <4>1
      <4> QED BY <4>1, <4>2, Zenon
    <3> QED BY <3>1, <3>2, <3>3
  <2> HIDE DEF a, b
  <2>11. /\ r \in Seq(Item) /\ Len(r) = Len(s) - 1
         /\ \A j \in 1..Len(s) - 1 : r[j] = IF j < k THEN s[j] ELSE s[j + 1]
    <3>1. /\ r \in Seq(Item) /\ Len(r) = Len(a) + Len(b)
          /\ \A j \in 1..Len(a) + Len(b) :
                r[j] = IF j <= Len(a) THEN a[j] ELSE b[j - Len(a)]
      BY <2>9, <2>10, ConcatProperties
    <3>2. Len(r) = Len(s) - 1
      BY <1>0, <2>6, <2>9, <2>10, <3>1
    <3>3. ASSUME NEW j \in 1..Len(s) - 1
          PROVE  r[j] = IF j < k THEN s[j] ELSE s[j + 1]
      <4>1. j \in 1..Len(a) + Len(b) /\ j \in Int
        BY <1>0, <2>6, <2>9, <2>10
      <4> HIDE DEF r
      <4>2. CASE j < k
        <5>1. j \in 1..k - 1 /\ j <= Len(a)
          BY <2>6, <2>9, <4>1, <4>2
        <5> QED BY <2>9, <3>1, <4>1, <4>2, <5>1
      <4>3. CASE ~(j < k)
        <5>1. j - (k - 1) \in 1..Len(s) - k /\ k + (j - (k - 1)) = j + 1 /\ ~(j <= Len(a))
          BY <1>0, <2>6, <2>9, <4>1, <4>3
        <5>2. r[j] = b[j - (k - 1)]
          BY <2>9, <3>1, <4>1, <5>1
        <5>3. b[j - (k - 1)] = s[k + (j - (k - 1))]
          BY <2>10, <5>1
        <5>4. r[j] = s[j + 1]
          BY <5>1, <5>2, <5>3, Zenon
        <5> QED BY <4>3, <5>4
      <4> QED BY <4>2, <4>3
    <3> QED BY <3>1, <3>2, <3>3
  <2>12. DOMAIN r = 1..Len(s) - 1
    BY <2>11, LenProperties
  <2> HIDE DEF r
  <2> DEFINE at(j) == IF j < k THEN j ELSE j + 1
  <2>13. \A j \in 1..Len(s) - 1 : at(j) \in 1..Len(s) /\ at(j) # k /\ r[j] = s[at(j)]
    BY <1>0, <2>6, <2>11
  <2>14. \A j \in 1..Len(s) : j # k => \E h \in 1..Len(s) - 1 : at(h) = j
    <3> SUFFICES ASSUME NEW j \in 1..Len(s), j # k
                 PROVE  \E h \in 1..Len(s) - 1 : at(h) = j
      OBVIOUS
    <3>1. CASE j < k
      <4>1. j \in 1..Len(s) - 1 /\ at(j) = j
        BY <1>0, <2>6, <3>1
      <4> QED BY <4>1
    <3>2. CASE ~(j < k)
      <4>1. j - 1 \in 1..Len(s) - 1 /\ at(j - 1) = j
        BY <1>0, <2>6, <3>2
      <4> QED BY <4>1
    <3> QED BY <3>1, <3>2
  <2>15. \A g, h \in 1..Len(s) - 1 : at(g) = at(h) => g = h
    BY <1>0, <2>6
  <2> HIDE DEF at
  <2>16. IsInjective(r)
    BY <1>0, <2>12, <2>13, <2>15 DEF IsInjective
  <2>17. Range(r) = Range(s) \ {i}
    <3>1. \A j \in 1..Len(s) : s[j] = i => j = k
      BY <1>0, <2>1 DEF IsInjective
    <3>2. \A x \in Range(r) : x \in Range(s) /\ x # i
      BY <1>0, <2>12, <2>13, <3>1 DEF Range
    <3>3. \A x \in Range(s) : x # i => x \in Range(r)
      <4> SUFFICES ASSUME NEW j \in 1..Len(s), s[j] # i PROVE s[j] \in Range(r)
        BY <1>0 DEF Range
      <4>1. j # k
        BY <2>1
      <4>2. PICK h \in 1..Len(s) - 1 : at(h) = j
        BY <2>14, <4>1
      <4>3. r[h] = s[j] /\ h \in DOMAIN r
        BY <2>12, <2>13, <4>2
      <4> QED BY <4>3 DEF Range
    <3>4. i \notin Range(r)
      BY <3>2
    <3> QED BY <3>2, <3>3, <3>4
  <2> QED BY <2>5, <2>11, <2>16, <2>17, ListIsInstanceSet
<1> QED BY <1>1, <1>2

LEMMA SetOfList ==
  ASSUME NEW s \in List
  PROVE  SetOf(s) \in InstanceSet /\ Ids(s) \in SUBSET Item
<1>1. SetOf(s) \in InstanceSet
  BY NoneIsInstanceSet DEF SetOf, List
<1> QED BY <1>1, IdsAreItems DEF Ids

LEMMA InitTyped == Init => TypeOK
<1> SUFFICES ASSUME Init PROVE TypeOK
  OBVIOUS
<1>1. /\ checked \in BOOLEAN /\ exists \in SUBSET Item /\ stored \in List
      /\ updates = 0 /\ sent = {}
  BY ItemsAssumption, ListsAssumption DEF Init
<1>2. SetOf(stored) \in InstanceSet /\ Ids(stored) \cap exists \in SUBSET Item
  BY <1>1, SetOfList
<1> QED BY <1>1, <1>2 DEF Init, TypeOK

\* What the user does changes one list and sends it.
LEMMA SetInstanceSetTyped ==
  ASSUME TypeOK, NEW w \in Wallet, NEW spawn \in SUBSET Item,
         NEW s \in InstanceSet, SetInstanceSet(w, spawn, s)
  PROVE  TypeOK'
<1>1. [from |-> w, spawn |-> spawn, attr |-> s, wait |-> TRUE] \in Tx
  BY DEF Tx, List
<1>2. sent' \subseteq Tx
  BY <1>1 DEF SetInstanceSet, Send, TypeOK
<1>3. attr' \in [Wallet -> List] /\ set' \in [Wallet -> InstanceSet]
  BY DEF SetInstanceSet, TypeOK, List
<1> QED BY <1>2, <1>3 DEF SetInstanceSet, TypeOK, chain, page

LEMMA UserTyped ==
  ASSUME TypeOK, NEW w \in Wallet, UserStep(w)
  PROVE  TypeOK'
<1>1. \A i \in Item : Add(set[w], i) \in InstanceSet /\ Rm(set[w], i) \in InstanceSet
  BY AddIsInstanceSet, RmIsInstanceSet DEF TypeOK
<1>2. ASSUME NEW i \in Own, Create(w, i) PROVE TypeOK'
  <2>1. i \in Item
    BY ItemsAssumption
  <2> QED BY <1>1, <1>2, <2>1, SetInstanceSetTyped DEF Create
<1>3. ASSUME NEW i \in Item, Link(w, i) \/ LinkContact(w, i) \/ Unlink(w, i)
      PROVE  TypeOK'
  BY <1>1, <1>3, SetInstanceSetTyped DEF Link, LinkContact, Unlink
<1>4. CASE OtherUpdate(w)
  <2>1. [from |-> w, spawn |-> {}, attr |-> attr[w], wait |-> FALSE] \in Tx
    BY DEF Tx, TypeOK
  <2>2. sent' \subseteq Tx
    BY <1>4, <2>1 DEF OtherUpdate, Send, TypeOK
  <2> QED BY <1>4, <2>2 DEF OtherUpdate, TypeOK, chain, lists, page
<1> QED BY <1>2, <1>3, <1>4 DEF UserStep

LEMMA SettleTyped ==
  ASSUME TypeOK, NEW t \in sent, Settle(t)
  PROVE  TypeOK'
<1>1. t \in Tx
  BY DEF TypeOK
<1>2. CASE Include(t)
  <2>1. sent' \subseteq sent /\ exists' = exists \cup t.spawn /\ stored' = t.attr
        /\ updates' = updates + 1
    BY <1>2 DEF Include
  <2>2. exists' \subseteq Item /\ stored' \in List /\ updates' \in Nat
    BY <1>1, <2>1 DEF TypeOK, Tx
  <2> QED BY <1>2, <2>1, <2>2 DEF Include, TypeOK, lists, page
<1>3. CASE Refuse(t) \/ Lose(t)
  BY <1>3 DEF Refuse, Lose, TypeOK, chain, lists, page
<1>4. CASE Abandon(t)
  <2>1. [t EXCEPT !.wait = FALSE] \in Tx
    BY <1>1 DEF Tx
  <2>2. sent' \subseteq Tx
    BY <1>4, <2>1 DEF Abandon, TypeOK
  <2> QED BY <1>4, <2>2 DEF Abandon, TypeOK, chain, lists, page
<1> QED BY <1>2, <1>3, <1>4 DEF Settle

\* The lookups that are left ask for what they asked for.
LEMMA RestTyped ==
  ASSUME NEW L \in SUBSET Lookup, NEW at \in Nat
  PROVE  Rest(L, at) \subseteq Lookup
<1> SUFFICES ASSUME NEW m \in L
             PROVE  [m EXCEPT !.old = @ \/ m.at < at] \in Lookup
  BY DEF Rest
<1>1. m \in Lookup /\ m.old \in BOOLEAN
  BY DEF Lookup
<1>2. (m.old \/ m.at < at) \in BOOLEAN
  OBVIOUS
<1> QED BY <1>1, <1>2 DEF Lookup

LEMMA WalletTyped ==
  ASSUME TypeOK, NEW w \in Wallet, Follow(w) \/ LookedUp(w) \/ Load(w)
  PROVE  TypeOK'
<1>1. stored \in List /\ SetOf(stored) \in InstanceSet /\ Ids(stored) \in SUBSET Item
  BY SetOfList DEF TypeOK
<1>2. CASE Follow(w)
  <2>1. seen' \in [Wallet -> Nat] /\ attr' \in [Wallet -> List]
    BY <1>2 DEF Follow, TypeOK
  <2>2. CASE Emits(last[w], stored)
    <3>1. stored \in InstanceSet
      BY <1>1, <2>2 DEF Emits, List
    <3>2. LookUp(Range(stored)) \in Lookup
      BY <3>1, IdsAreItems DEF LookUp, Lookup, TypeOK
    <3>3. /\ last' = [last EXCEPT ![w] = stored] /\ set' = [set EXCEPT ![w] = stored]
          /\ lookups' = [lookups EXCEPT ![w] = @ \cup {LookUp(Range(stored))}]
      BY <1>2, <2>2 DEF Follow
    <3>4. last' \in [Wallet -> List] /\ set' \in [Wallet -> InstanceSet]
      BY <1>1, <3>1, <3>3 DEF TypeOK
    <3>5. lookups' \in [Wallet -> SUBSET Lookup]
      BY <3>2, <3>3 DEF TypeOK
    <3> QED BY <1>2, <2>1, <3>4, <3>5 DEF Follow, TypeOK, chain, page
  <2>3. CASE ~Emits(last[w], stored)
    BY <1>2, <2>1, <2>3 DEF Follow, TypeOK, chain, page
  <2> QED BY <2>2, <2>3
<1>3. CASE LookedUp(w)
  <2>1. PICK l \in lookups[w] : Answer(w, l)
    BY <1>3 DEF LookedUp
  <2>2. PICK F \in Results(l) : shown' = [shown EXCEPT ![w] = F]
    BY <2>1 DEF Answer
  <2>3. F \subseteq Item
    BY <2>2 DEF Results, TypeOK
  <2>4. lookups[w] \ {l} \subseteq Lookup /\ l \in Lookup
    BY DEF TypeOK
  <2>5. Rest(lookups[w] \ {l}, l.at) \subseteq Lookup
    BY <2>4, RestTyped DEF Lookup
  <2>6. l.old \in BOOLEAN
    BY <2>4 DEF Lookup
  <2>7. /\ shown' \in [Wallet -> SUBSET Item] /\ lookups' \in [Wallet -> SUBSET Lookup]
        /\ late' \in [Wallet -> BOOLEAN]
    BY <2>1, <2>2, <2>3, <2>5, <2>6 DEF Answer, TypeOK
  <2> QED BY <2>1, <2>7 DEF Answer, TypeOK, chain, lists
<1>4. CASE Load(w)
  <2>1. Ids(stored) \cap exists \in SUBSET Item
    BY <1>1
  <2>2. /\ seen' \in [Wallet -> Nat] /\ attr' \in [Wallet -> List]
        /\ last' \in [Wallet -> List] /\ set' \in [Wallet -> InstanceSet]
        /\ lookups' \in [Wallet -> SUBSET Lookup] /\ shown' \in [Wallet -> SUBSET Item]
        /\ late' \in [Wallet -> BOOLEAN]
    BY <1>1, <1>4, <2>1 DEF Load, TypeOK
  <2> QED BY <1>4, <2>2 DEF Load, TypeOK, chain
<1> QED BY <1>2, <1>3, <1>4

\* Wherever a list is kept (on the chain, in the copy of a wallet, in the set
\* that link and unlink change) it names no ID twice, however the updates of
\* several browsers are mixed.
THEOREM ListsTyped == Spec => []TypeOK
<1>1. TypeOK /\ [Next]_vars => TypeOK'
  <2> SUFFICES ASSUME TypeOK, [Next]_vars PROVE TypeOK'
    OBVIOUS
  <2>1. CASE UNCHANGED vars
    BY <2>1 DEF vars, TypeOK
  <2>2. ASSUME NEW w \in Wallet, UserStep(w) \/ Follow(w) \/ LookedUp(w) \/ Load(w)
        PROVE  TypeOK'
    BY <2>2, UserTyped, WalletTyped
  <2>3. ASSUME NEW t \in sent, Settle(t) PROVE TypeOK'
    BY <2>3, SettleTyped
  <2> QED BY <2>1, <2>2, <2>3 DEF Next
<1> QED BY <1>1, InitTyped, PTL DEF Spec

-----------------------------------------------------------------------------
(* What a page shows when it has heard of everything.                      *)

\* A wallet that knows the newest version and waits for no lookup.
UpToDate(w) == seen[w] = updates /\ lookups[w] = {}

\* Its page shows nothing that is not in the stored list, unless the answer of
\* an older lookup came after the one of the newest.
QuietIsRight == \A w \in Wallet : UpToDate(w) /\ stored # Absent
                                     => late[w] \/ shown[w] \subseteq Ids(stored)

\* The list passed on last is that of some version: the lookup for this version
\* is on its way; or it has been answered, the others that are on their way are
\* older, and the page shows its answer or the one of an older lookup.
\* And a wallet that knows the newest version has passed its list on.
PageOf(w) ==
    /\ seen[w] <= updates
    /\ seen[w] = updates /\ stored # Absent => last[w] = stored
    /\ \A l \in lookups[w] : l.at <= seen[w]
    /\ \/ \E l \in lookups[w] : /\ l.ids = Ids(last[w])
                                /\ \A m \in lookups[w] : m # l => m.at < l.at
       \/ /\ \A l \in lookups[w] : l.old
          /\ late[w] \/ shown[w] \subseteq Ids(last[w])

PageInv == \A w \in Wallet : PageOf(w)

LEMMA InitPage == Init => PageInv
BY DEF Init, PageInv, PageOf

\* Nothing happens to the page of a browser, and the chain only gets newer.
LEMMA UnseenKeepsPage ==
  ASSUME TypeOK, NEW w \in Wallet, PageOf(w),
         /\ seen'[w] = seen[w] /\ last'[w] = last[w] /\ lookups'[w] = lookups[w]
         /\ shown'[w] = shown[w] /\ late'[w] = late[w],
         \/ UNCHANGED <<stored, updates>>
         \/ updates' = updates + 1
  PROVE  PageOf(w)'
<1>1. updates \in Nat /\ seen[w] \in Nat
  BY DEF TypeOK
<1> QED BY <1>1 DEF PageOf

\* A list that is passed on is newer than all that are looked up.
LEMMA FollowKeepsPage ==
  ASSUME TypeOK, NEW w \in Wallet, PageOf(w), Follow(w)
  PROVE  PageOf(w)'
<1>1. /\ seen'[w] = updates /\ shown'[w] = shown[w] /\ late'[w] = late[w]
      /\ UNCHANGED <<stored, updates>>
  BY DEF Follow, TypeOK, chain, page
<1>2. /\ updates \in Nat /\ seen[w] \in Nat /\ seen[w] < updates
      /\ \A l \in lookups[w] : l.at \in Nat
  BY DEF Follow, TypeOK, PageOf, Lookup
<1>3. \A l \in lookups[w] : l.at < updates
  BY <1>2 DEF PageOf
<1>4. CASE Emits(last[w], stored)
  <2> DEFINE n == LookUp(Range(stored))
  <2>1. n.at = updates /\ n.ids = Ids(stored)
    BY <1>4 DEF LookUp, Emits, Ids, SetOf
  <2>2. last'[w] = stored /\ lookups'[w] = lookups[w] \cup {n}
    BY <1>4 DEF Follow, TypeOK
  <2> HIDE DEF n
  <2>3. \A l \in lookups'[w] : l.at <= updates /\ (l # n => l.at < n.at)
    BY <1>2, <1>3, <2>1, <2>2
  <2>4. n \in lookups'[w] /\ n.ids = Ids(last'[w])
    BY <2>1, <2>2
  <2>5. \E l \in lookups'[w] : /\ l.ids = Ids(last'[w])
                               /\ \A m \in lookups'[w] : m # l => m.at < l.at
    BY <2>3, <2>4
  <2> QED BY <1>1, <1>2, <2>2, <2>3, <2>5 DEF PageOf
<1>5. CASE ~Emits(last[w], stored)
  <2>1. /\ last'[w] = last[w] /\ lookups'[w] = lookups[w]
        /\ stored = Absent \/ last[w] = stored
    BY <1>5 DEF Follow, Emits
  <2>2. \A l \in lookups'[w] : l.at <= updates
    BY <1>2, <1>3, <2>1
  <2> QED BY <1>1, <1>2, <2>1, <2>2 DEF PageOf
<1> QED BY <1>4, <1>5

\* The lookups that are left, by version and by what they ask for.
LEMMA RestIs ==
  ASSUME NEW L \in SUBSET Lookup, NEW at \in Nat, NEW r \in Rest(L, at)
  PROVE  \E m \in L : r.at = m.at /\ r.ids = m.ids /\ r.old = (m.old \/ m.at < at)
<1>1. PICK m \in L : r = [m EXCEPT !.old = @ \/ m.at < at]
  BY DEF Rest
<1>2. m \in Lookup
  OBVIOUS
<1>3. r.at = m.at /\ r.ids = m.ids /\ r.old = (m.old \/ m.at < at)
  BY <1>1, <1>2 DEF Lookup
<1> QED BY <1>3

\* Once the newest lookup has been answered, the others are old, and an old one
\* that is answered makes the page late.
LEMMA AnswerKeepsPage ==
  ASSUME TypeOK, NEW w \in Wallet, PageOf(w), NEW l \in lookups[w], Answer(w, l)
  PROVE  PageOf(w)'
<1> DEFINE L == lookups[w] \ {l}
           R == Rest(L, l.at)
<1>1. PICK F \in Results(l) : shown' = [shown EXCEPT ![w] = F]
  BY DEF Answer
<1>2. /\ seen'[w] = seen[w] /\ last'[w] = last[w] /\ shown'[w] = F /\ F \subseteq l.ids
      /\ lookups'[w] = R /\ late'[w] = l.old /\ UNCHANGED <<stored, updates>>
  BY <1>1 DEF Answer, Results, TypeOK, chain, lists
<1>3. lookups[w] \subseteq Lookup /\ l \in Lookup /\ l.at \in Nat /\ L \in SUBSET Lookup
  BY DEF TypeOK, Lookup
<1> HIDE DEF R
<1>4. \A r \in R : \E m \in L :
         r.at = m.at /\ r.ids = m.ids /\ r.old = (m.old \/ m.at < l.at)
  BY <1>3, RestIs DEF R
<1>5. \A r \in R : r.at <= seen[w]
  BY <1>4 DEF PageOf
<1>6. CASE \A m \in lookups[w] : m.old
  BY <1>2, <1>4, <1>5, <1>6 DEF PageOf
<1>7. ASSUME NEW n \in lookups[w], n.ids = Ids(last[w]),
             \A m \in lookups[w] : m # n => m.at < n.at
      PROVE  PageOf(w)'
  <2>1. CASE l = n
    <3>1. \A r \in R : r.old
      BY <1>4, <1>7, <2>1
    <3>2. shown'[w] \subseteq Ids(last'[w])
      BY <1>2, <1>7, <2>1
    <3> QED BY <1>2, <1>5, <3>1, <3>2 DEF PageOf
  <2>2. CASE l # n
    <3> DEFINE r == [n EXCEPT !.old = @ \/ n.at < l.at]
    <3>1. n \in L /\ n \in Lookup
      BY <1>3, <2>2
    <3>2. r \in R /\ r.at = n.at /\ r.ids = n.ids
      BY <3>1 DEF R, Rest, Lookup
    <3> HIDE DEF r
    <3>3. ASSUME NEW q \in R, q # r PROVE q.at < r.at
      <4>1. PICK m \in L : q = [m EXCEPT !.old = @ \/ m.at < l.at]
        BY DEF R, Rest
      <4>2. m # n
        BY <3>3, <4>1 DEF r
      <4>3. q.at = m.at
        BY <1>3, <4>1 DEF Lookup
      <4> QED BY <1>7, <3>2, <4>2, <4>3
    <3>4. \E k \in R : k.ids = Ids(last[w]) /\ \A q \in R : q # k => q.at < k.at
      BY <1>7, <3>2, <3>3
    <3> QED BY <1>2, <1>5, <3>4 DEF PageOf
  <2> QED BY <2>1, <2>2
<1> QED BY <1>6, <1>7 DEF PageOf

LEMMA LoadKeepsPage ==
  ASSUME TypeOK, NEW w \in Wallet, Load(w)
  PROVE  PageOf(w)'
<1>1. /\ seen'[w] = updates /\ last'[w] = stored /\ lookups'[w] = {}
      /\ shown'[w] = Ids(stored) \cap exists
      /\ UNCHANGED <<stored, updates>> /\ updates \in Nat
  BY DEF Load, TypeOK, chain
<1> QED BY <1>1 DEF PageOf

\* What one browser does leaves the pages of the others alone.
LEMMA WalletKeepsPages ==
  ASSUME TypeOK, PageInv, NEW w \in Wallet, Follow(w) \/ LookedUp(w) \/ Load(w)
  PROVE  PageInv'
<1>1. PageOf(w)'
  BY FollowKeepsPage, AnswerKeepsPage, LoadKeepsPage DEF PageInv, LookedUp
<1>2. ASSUME NEW v \in Wallet, v # w PROVE PageOf(v)'
  <2>1. /\ seen'[v] = seen[v] /\ last'[v] = last[v] /\ lookups'[v] = lookups[v]
        /\ shown'[v] = shown[v] /\ late'[v] = late[v] /\ UNCHANGED <<stored, updates>>
    <3>1. CASE Follow(w)
      BY <1>2, <3>1 DEF Follow, TypeOK, chain, page
    <3>2. CASE LookedUp(w)
      BY <1>2, <3>2 DEF LookedUp, Answer, TypeOK, chain, lists
    <3>3. CASE Load(w)
      BY <1>2, <3>3 DEF Load, TypeOK, chain
    <3> QED BY <3>1, <3>2, <3>3
  <2> QED BY <2>1, UnseenKeepsPage DEF PageInv
<1> QED BY <1>1, <1>2 DEF PageInv

\* A page that has heard of everything shows nothing that has been unlinked,
\* whichever browser did it and however slow the lookups are, unless it shows
\* the answer of a lookup that was overtaken (fetcher.ts:209).  What
\* UnlinkedGoes needs besides is fairness.
THEOREM UnlinkedIsGone == Spec => []QuietIsRight
<1>1. TypeOK /\ PageInv /\ [Next]_vars => PageInv'
  <2> SUFFICES ASSUME TypeOK, PageInv, [Next]_vars PROVE PageInv'
    OBVIOUS
  <2>1. ASSUME UNCHANGED <<seen, last, lookups, shown, late>>,
               \/ UNCHANGED <<stored, updates>>
               \/ updates' = updates + 1
        PROVE  PageInv'
    BY <2>1, UnseenKeepsPage DEF PageInv
  <2>2. ASSUME NEW w \in Wallet, UserStep(w) PROVE PageInv'
    <3>1. UNCHANGED <<stored, updates, seen, last, lookups, shown, late>>
      BY <2>2 DEF UserStep, Create, Link, LinkContact, Unlink, SetInstanceSet,
           OtherUpdate, chain, lists, page
    <3> QED BY <2>1, <3>1
  <2>3. ASSUME NEW t \in sent, Settle(t) PROVE PageInv'
    <3>1. /\ UNCHANGED <<seen, last, lookups, shown, late>>
          /\ UNCHANGED <<stored, updates>> \/ updates' = updates + 1
      BY <2>3 DEF Settle, Include, Refuse, Lose, Abandon, chain, lists, page
    <3> QED BY <2>1, <3>1
  <2>4. ASSUME NEW w \in Wallet, Follow(w) \/ LookedUp(w) \/ Load(w) PROVE PageInv'
    BY <2>4, WalletKeepsPages
  <2>5. CASE UNCHANGED vars
    BY <2>1, <2>5 DEF vars
  <2> QED BY <2>2, <2>3, <2>4, <2>5 DEF Next
<1>2. PageInv => QuietIsRight
  BY DEF PageInv, PageOf, QuietIsRight, UpToDate
<1> QED BY <1>1, <1>2, InitPage, ListsTyped, PTL DEF Spec
=============================================================================
