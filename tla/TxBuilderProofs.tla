--------------------------- MODULE TxBuilderProofs ---------------------------
(* What builders send is executed at most once and paid for as agreed, for   *)
(* any number of builders, keys and instructions: proofs about TxBuilder.    *)
EXTENDS TxBuilder, FiniteSetTheorems, TLAPS

-----------------------------------------------------------------------------
(* Sums.  MapThenSumSet takes an element of the set, then those of the rest; *)
(* a least set for which a fact fails does not exist.                        *)

\* An element of a set that is not empty, the one that Sum takes first.
First(s) == CHOOSE x \in s : TRUE

\* g holds the sums of f over the subsets of S.
Sums(g, f, S) ==
    g = [s \in SUBSET S |-> IF s = {} THEN 0 ELSE f[First(s)] + g[s \ {First(s)}]]

LEMMA SumIsChosen ==
  ASSUME NEW f, NEW S
  PROVE  Sum(f, S) = (CHOOSE g : Sums(g, f, S))[S]
BY DEF Sum, MapThenSumSet, MapThenFoldSet, Sums, First

LEMMA FirstIn == ASSUME NEW s, s # {} PROVE First(s) \in s
BY DEF First

\* Of some finite sets one is the least.
LEMMA LeastSet ==
  ASSUME NEW S, IsFiniteSet(S), NEW C \in SUBSET SUBSET S, C # {}
  PROVE  \E s \in C : \A x \in s : s \ {x} \notin C
<1>1. IsWellFoundedOn(StrictSubsetOrdering(S), SUBSET S)
  BY FS_StrictSubsetOrderingWellFounded, FS_FiniteSubsetsOfFinite
<1>2. PICK s \in C : \A t \in C : <<t, s>> \notin StrictSubsetOrdering(S)
  BY <1>1, WFMin, Zenon
<1>3. ASSUME NEW x \in s PROVE s \ {x} \notin C
  <2>1. <<s \ {x}, s>> \in StrictSubsetOrdering(S)
    BY DEF StrictSubsetOrdering
  <2> QED BY <1>2, <2>1
<1> QED BY <1>3

LEMMA LeastNumber ==
  ASSUME NEW N \in SUBSET Nat, N # {}
  PROVE  \E m \in N : m = 0 \/ m - 1 \notin N
<1>1. PICK m \in N : \A k \in N : <<k, m>> \notin OpToRel(<, Nat)
  BY NatLessThanWellFounded, WFMin, Zenon
<1>2. ASSUME m # 0 PROVE m - 1 \notin N
  <2>1. m - 1 \in Nat /\ m - 1 < m
    BY <1>2
  <2>2. <<m - 1, m>> \in OpToRel(<, Nat)
    BY <2>1, Zenon DEF OpToRel
  <2> QED BY <1>1, <2>2, Zenon
<1> QED BY <1>2

\* As far as sets of n elements g is right.
SumsUpTo(g, f, S, n) ==
    \A s \in SUBSET S : Cardinality(s) <= n =>
       g[s] = IF s = {} THEN 0 ELSE f[First(s)] + g[s \ {First(s)}]

LEMMA SumsExist ==
  ASSUME NEW f, NEW S, IsFiniteSet(S)
  PROVE  Sums(CHOOSE g : Sums(g, f, S), f, S)
<1> SUFFICES \E g : Sums(g, f, S)
  OBVIOUS
<1> DEFINE Gap == {n \in Nat : ~ \E g : SumsUpTo(g, f, S, n)}
<1>0. \A s \in SUBSET S : IsFiniteSet(s) /\ Cardinality(s) \in Nat
  BY FS_Subset, FS_CardinalityType
<1>1. Gap = {}
  <2> SUFFICES ASSUME NEW n \in Gap, n = 0 \/ n - 1 \notin Gap PROVE FALSE
    BY LeastNumber, Zenon
  <2>1. n # 0
    <3> SUFFICES ASSUME n = 0 PROVE \E g : SumsUpTo(g, f, S, 0)
      OBVIOUS
    <3> DEFINE g0 == [s \in SUBSET S |-> 0]
    <3>1. \A s \in SUBSET S : Cardinality(s) <= 0 => s = {}
      BY <1>0, FS_EmptySet
    <3>2. SumsUpTo(g0, f, S, 0)
      BY <3>1 DEF SumsUpTo
    <3> QED BY <3>2
  <2>2. n - 1 \in Nat /\ n - 1 \notin Gap
    BY <2>1
  <2>3. PICK g : SumsUpTo(g, f, S, n - 1)
    BY <2>2
  <2> DEFINE h == [s \in SUBSET S |->
                     IF Cardinality(s) <= n - 1 THEN g[s]
                     ELSE f[First(s)] + g[s \ {First(s)}]]
  <2>4. SumsUpTo(h, f, S, n)
    <3> SUFFICES ASSUME NEW s \in SUBSET S, Cardinality(s) <= n
                 PROVE  h[s] = IF s = {} THEN 0 ELSE f[First(s)] + h[s \ {First(s)}]
      BY DEF SumsUpTo
    <3>1. CASE s = {}
      <4>1. Cardinality(s) <= n - 1
        BY <2>2, <3>1, FS_EmptySet
      <4>2. g[s] = 0
        BY <2>3, <3>1, <4>1 DEF SumsUpTo
      <4> QED BY <3>1, <4>1, <4>2
    <3>2. CASE s # {}
      <4> DEFINE r == s \ {First(s)}
      <4>1. r \in SUBSET S /\ Cardinality(r) = Cardinality(s) - 1
        BY <1>0, <3>2, FirstIn, FS_RemoveElement
      <4>2. Cardinality(s) \in Nat
        BY <1>0
      <4>3. Cardinality(r) <= n - 1
        BY <2>2, <4>1, <4>2
      <4>4. h[r] = g[r]
        BY <4>1, <4>3
      <4>5. h[s] = f[First(s)] + g[r]
        <5>1. CASE Cardinality(s) <= n - 1
          BY <2>3, <3>2, <5>1 DEF SumsUpTo
        <5>2. CASE ~(Cardinality(s) <= n - 1)
          BY <5>2
        <5> QED BY <5>1, <5>2
      <4> QED BY <3>2, <4>4, <4>5
    <3> QED BY <3>1, <3>2
  <2> HIDE DEF h
  <2> QED BY <2>4
<1>2. PICK g : SumsUpTo(g, f, S, Cardinality(S))
  BY <1>0, <1>1
<1>3. \A s \in SUBSET S : Cardinality(s) <= Cardinality(S)
  BY FS_Subset
<1> DEFINE h == [s \in SUBSET S |-> g[s]]
<1>4. Sums(h, f, S)
  <2>1. \A s \in SUBSET S : h[s] = IF s = {} THEN 0 ELSE f[First(s)] + h[s \ {First(s)}]
    BY <1>2, <1>3, FirstIn DEF SumsUpTo
  <2> QED BY <2>1 DEF Sums
<1> HIDE DEF h
<1> QED BY <1>4

\* What comes first does not matter, nor what else there is to sum up.
LEMMA SumsAgree ==
  ASSUME NEW f, NEW S, IsFiniteSet(S), NEW T \in SUBSET S,
         NEW g, Sums(g, f, S), NEW h, Sums(h, f, T)
  PROVE  g[T] = h[T]
<1> DEFINE Bad == {s \in SUBSET T : g[s] # h[s]}
<1>1. IsFiniteSet(T)
  BY FS_Subset
<1> SUFFICES Bad = {}
  OBVIOUS
<1> SUFFICES ASSUME NEW s \in Bad, \A x \in s : s \ {x} \notin Bad PROVE FALSE
  BY <1>1, LeastSet
<1>2. \A r \in SUBSET T : /\ g[r] = IF r = {} THEN 0 ELSE f[First(r)] + g[r \ {First(r)}]
                          /\ h[r] = IF r = {} THEN 0 ELSE f[First(r)] + h[r \ {First(r)}]
  BY DEF Sums
<1>3. CASE s = {}
  BY <1>2, <1>3
<1>4. CASE s # {}
  <2>1. First(s) \in s
    BY <1>4, FirstIn
  <2>2. g[s \ {First(s)}] = h[s \ {First(s)}]
    BY <2>1
  <2> QED BY <1>2, <1>4, <2>2
<1> QED BY <1>3, <1>4

LEMMA SumsOf ==
  ASSUME NEW f, NEW S, IsFiniteSet(S), NEW g, Sums(g, f, S), NEW T \in SUBSET S
  PROVE  Sum(f, T) = g[T]
<1>1. IsFiniteSet(T)
  BY FS_Subset
<1>2. Sums(CHOOSE h : Sums(h, f, T), f, T)
  BY <1>1, SumsExist
<1>3. Sum(f, T) = (CHOOSE h : Sums(h, f, T))[T]
  BY SumIsChosen
<1> QED BY <1>2, <1>3, SumsAgree

-----------------------------------------------------------------------------
(* What the builders need to know of sums over finite sets of instructions. *)

LEMMA SumNone == ASSUME NEW f PROVE Sum(f, {}) = 0
<1>1. IsFiniteSet({})
  BY FS_EmptySet
<1>2. PICK g : Sums(g, f, {})
  BY <1>1, SumsExist
<1>3. Sum(f, {}) = g[{}]
  BY <1>1, <1>2, SumsOf
<1> QED BY <1>2, <1>3 DEF Sums

LEMMA SumType ==
  ASSUME NEW f \in [Item -> Nat], NEW S \in SUBSET Item, IsFiniteSet(S)
  PROVE  Sum(f, S) \in Nat
<1>1. PICK g : Sums(g, f, S)
  BY SumsExist
<1> DEFINE Bad == {s \in SUBSET S : g[s] \notin Nat}
<1>2. Bad = {}
  <2> SUFFICES ASSUME NEW s \in Bad, \A x \in s : s \ {x} \notin Bad PROVE FALSE
    BY LeastSet
  <2>1. g[s] = IF s = {} THEN 0 ELSE f[First(s)] + g[s \ {First(s)}]
    BY <1>1 DEF Sums
  <2>2. CASE s # {}
    <3>1. First(s) \in s /\ f[First(s)] \in Nat
      BY <2>2, FirstIn
    <3>2. g[s \ {First(s)}] \in Nat
      BY <3>1
    <3> QED BY <2>1, <2>2, <3>1, <3>2
  <2> QED BY <2>1, <2>2
<1>3. Sum(f, S) = g[S]
  BY <1>1, SumsOf
<1> QED BY <1>2, <1>3

\* Any element may be taken out first.
LEMMA SumTake ==
  ASSUME NEW f \in [Item -> Nat], NEW S \in SUBSET Item, IsFiniteSet(S), NEW x \in S
  PROVE  Sum(f, S) = f[x] + Sum(f, S \ {x})
<1>1. PICK g : Sums(g, f, S)
  BY SumsExist
<1>2. \A s \in SUBSET S : g[s] = IF s = {} THEN 0 ELSE f[First(s)] + g[s \ {First(s)}]
  BY <1>1 DEF Sums
<1>3. \A s \in SUBSET S : g[s] \in Nat
  <2> SUFFICES ASSUME NEW s \in SUBSET S PROVE g[s] \in Nat
    OBVIOUS
  <2>1. IsFiniteSet(s) /\ Sum(f, s) = g[s]
    BY <1>1, FS_Subset, SumsOf
  <2> QED BY <2>1, SumType
<1> DEFINE Bad == {s \in SUBSET S : \E y \in s : g[s] # f[y] + g[s \ {y}]}
<1>4. Bad = {}
  <2> SUFFICES ASSUME NEW s \in Bad, \A y \in s : s \ {y} \notin Bad PROVE FALSE
    BY LeastSet
  <2>1. PICK y \in s : g[s] # f[y] + g[s \ {y}]
    OBVIOUS
  <2> DEFINE p == First(s)
  <2>2. p \in s /\ g[s] = f[p] + g[s \ {p}]
    BY <1>2, FirstIn
  <2>3. p # y
    BY <2>1, <2>2
  <2> HIDE DEF p
  <2> DEFINE r == (s \ {p}) \ {y}
  <2>4. g[s \ {p}] = f[y] + g[r]
    BY <2>2, <2>3
  <2>5. g[s \ {y}] = f[p] + g[r]
    <3>1. (s \ {y}) \ {p} = r
      OBVIOUS
    <3>2. p \in s \ {y} /\ s \ {y} \notin Bad /\ s \ {y} \in SUBSET S
      BY <2>2, <2>3
    <3> QED BY <3>1, <3>2
  <2>6. g[r] \in Nat /\ f[p] \in Nat /\ f[y] \in Nat
    BY <1>3, <2>2
  <2> HIDE DEF r
  <2> QED BY <2>1, <2>2, <2>4, <2>5, <2>6
<1>5. Sum(f, S) = g[S] /\ Sum(f, S \ {x}) = g[S \ {x}]
  BY <1>1, SumsOf
<1> QED BY <1>4, <1>5

LEMMA SumAdd ==
  ASSUME NEW f \in [Item -> Nat], NEW S \in SUBSET Item, IsFiniteSet(S),
         NEW x \in Item \ S
  PROVE  Sum(f, S \cup {x}) = Sum(f, S) + f[x]
<1>1. IsFiniteSet(S \cup {x}) /\ (S \cup {x}) \ {x} = S
  BY FS_AddElement
<1>2. Sum(f, S \cup {x}) = f[x] + Sum(f, S)
  BY <1>1, SumTake
<1>3. Sum(f, S) \in Nat
  BY SumType
<1> QED BY <1>2, <1>3

LEMMA SumUnion ==
  ASSUME NEW f \in [Item -> Nat],
         NEW S \in SUBSET Item, IsFiniteSet(S),
         NEW T \in SUBSET Item, IsFiniteSet(T), S \cap T = {}
  PROVE  Sum(f, S \cup T) = Sum(f, S) + Sum(f, T)
<1> DEFINE Bad == {t \in SUBSET T : Sum(f, S \cup t) # Sum(f, S) + Sum(f, t)}
<1>0. IsFiniteSet(T) /\ Bad \in SUBSET SUBSET T
  OBVIOUS
<1> SUFFICES ASSUME Bad # {} PROVE FALSE
  OBVIOUS
<1> HIDE DEF Bad
<1> PICK t \in Bad : \A x \in t : t \ {x} \notin Bad
  BY <1>0, LeastSet
<1> USE DEF Bad
<1>1. Sum(f, S) \in Nat
  BY SumType
<1>2. CASE t = {}
  <2>1. Sum(f, S \cup {}) = Sum(f, S) + Sum(f, {})
    BY <1>1, SumNone
  <2> QED BY <1>2, <2>1
<1>3. CASE t # {}
  <2>1. PICK x \in t : TRUE
    BY <1>3
  <2> DEFINE r == t \ {x}
  <2>2. r \in SUBSET Item /\ IsFiniteSet(r) /\ IsFiniteSet(S \cup r) /\ x \in Item
    BY FS_Subset, FS_Union
  <2>3. r \cup {x} = t /\ (S \cup r) \cup {x} = S \cup t /\ x \notin S \cup r
    OBVIOUS
  <2>4. Sum(f, S \cup r) = Sum(f, S) + Sum(f, r)
    OBVIOUS
  <2>5. Sum(f, r \cup {x}) = Sum(f, r) + f[x]
    BY <2>2, SumAdd
  <2>6. Sum(f, (S \cup r) \cup {x}) = Sum(f, S \cup r) + f[x]
    BY <2>2, <2>3, SumAdd
  <2>7. Sum(f, r) \in Nat /\ f[x] \in Nat
    BY <2>2, SumType
  <2>8. Sum(f, t) = Sum(f, r) + f[x] /\ Sum(f, S \cup t) = Sum(f, S \cup r) + f[x]
    BY <2>3, <2>5, <2>6, Zenon
  <2>9. Sum(f, S \cup t) = Sum(f, S) + Sum(f, t)
    BY <1>1, <2>4, <2>7, <2>8
  <2> QED BY <2>9
<1> QED BY <1>2, <1>3

-----------------------------------------------------------------------------
(* The batches.                                                            *)

\* Whoever waits too short does not send again.
OneChance == Retry \cap GiveUp = {}

\* The part of the types that the argument needs.
WorkType == /\ stage \in [Builder -> Stage]
            /\ work \in [Builder -> SUBSET Item]
            /\ fetched \in [Builder -> Nat]
            /\ cost \in [Builder -> Nat]
            /\ ctx \in [Builder -> [work : SUBSET Item, fetch : Nat]]
            /\ tries \in [Builder -> Nat]
            /\ pool \subseteq Tx
            /\ counter \in [Key -> Nat]
            /\ times \in [Item -> Nat]

\* What a builder has sent and not been told of is still in it.
CtxIsWork == \A b \in Builder : stage[b] \in {"signing", "sent", "included"}
                => ctx[b].work # {} /\ ctx[b].work \subseteq work[b]

\* The builder of a transaction in the pool waits for it, has been dropped, or
\* has been emptied of it.
PoolIsWork ==
    \A t \in pool : /\ t.work # {}
                    /\ t.try <= tries[t.from]
                    /\ stage[t.from] = "signing" => t.try # tries[t.from]
                    /\ Waits(t) => t.work = ctx[t.from].work
                    /\ \/ Waits(t)
                       \/ t.from \notin Retry /\ stage[t.from] = "dropped"
                       \/ t.work \cap work[t.from] = {}

\* No instruction is in two builders, nor in two transactions.
Apart == /\ \A b, c \in Builder : b # c => work[b] \cap work[c] = {}
         /\ \A t \in pool : \A c \in Builder \ {t.from} : t.work \cap work[c] = {}
         /\ \A t, u \in pool : t # u => t.work \cap u.work = {}

\* All that is to be executed or has been was appended once.
AllAsked == /\ \A b \in Builder : work[b] \subseteq asked
            /\ \A t \in pool : t.work \subseteq asked
            /\ Done \subseteq asked

\* What is still to be executed has not been executed; what the chain has
\* confirmed has been.
NotYet == /\ \A b \in Builder : stage[b] \in {"none", "open", "signing", "sent"}
                                   => work[b] \cap Done = {}
          /\ \A t \in pool : t.work \cap Done = {}
          /\ \A b \in Builder : stage[b] = "included" => ctx[b].work \subseteq Done

BatchInv == /\ WorkType
            /\ CtxIsWork
            /\ PoolIsWork
            /\ Apart
            /\ AllAsked
            /\ NotYet
            /\ OnceOnly

\* Nothing has been asked for at the start.
LEMMA InitBatch == Init => BatchInv
BY DEF Init, BatchInv, WorkType, CtxIsWork, PoolIsWork, Apart, AllAsked, NotYet,
       OnceOnly, Done, Stage

\* What no step of a builder changes: the transactions and what is done.
LEMMA SameDone == ASSUME UNCHANGED times PROVE Done' = Done
BY DEF Done

\* Executing a transaction of the pool executes its instructions, all new.
LEMMA IncludeDone ==
  ASSUME BatchInv, NEW t \in pool, Include(t)
  PROVE  /\ Done' = Done \cup t.work
         /\ OnceOnly'
         /\ times' \in [Item -> Nat]
<1>1. t.work \in SUBSET Item /\ times \in [Item -> Nat]
  BY DEF BatchInv, WorkType, Tx
<1>2. times' = [i \in Item |-> IF i \in t.work THEN times[i] + 1 ELSE times[i]]
  BY DEF Include
<1>3. times' \in [Item -> Nat]
  BY <1>1, <1>2
<1>4. Done' = Done \cup t.work
  BY <1>1, <1>2, <1>3 DEF Done
<1>5. \A i \in t.work : times[i] = 0
  BY <1>1 DEF BatchInv, NotYet, Done
<1>6. OnceOnly'
  BY <1>1, <1>2, <1>5 DEF OnceOnly, BatchInv
<1> QED BY <1>3, <1>4, <1>6

\* Every step of a caller keeps the invariant.
LEMMA CallerKeepsBatch ==
  ASSUME BatchInv, NEW b \in Builder, Caller(b)
  PROVE  BatchInv'
<1>1. CASE Start(b)
  <2>1. /\ stage[b] = "none" /\ stage' = [stage EXCEPT ![b] = "open"]
        /\ UNCHANGED <<work, fetched, cost, ctx, tries, pool, counter, times, asked>>
    BY <1>1 DEF Start, ledger
  <2>2. WorkType' /\ CtxIsWork' /\ Apart' /\ OnceOnly' /\ Done' = Done
    BY <2>1 DEF BatchInv, WorkType, CtxIsWork, Apart, OnceOnly, Done, Stage
  <2>3. PoolIsWork'
    BY <2>1 DEF BatchInv, PoolIsWork, WorkType, Waits, Tx
  <2>4. AllAsked' /\ NotYet'
    BY <2>1, <2>2 DEF BatchInv, WorkType, AllAsked, NotYet
  <2> QED BY <2>2, <2>3, <2>4 DEF BatchInv
<1>2. CASE \E i \in Item : Add(b, i)
  <2>1. PICK i \in Item : Add(b, i)
    BY <1>2
  <2>2. /\ work' = [work EXCEPT ![b] = @ \cup {i}]
        /\ UNCHANGED <<stage, fetched, ctx, tries, pool, counter, times>>
        /\ cost' = [cost EXCEPT ![b] = @ + Price[i]]
        /\ asked' = asked \cup {i}
    BY <2>1 DEF Add, ledger
  <2>3. /\ i \notin Done
        /\ \A c \in Builder : i \notin work[c]
        /\ \A t \in pool : i \notin t.work
    BY <2>1 DEF Add, BatchInv, AllAsked
  <2>4. WorkType' /\ OnceOnly' /\ Done' = Done
    BY <2>2, PricesAssumption DEF BatchInv, WorkType, OnceOnly, Done
  <2>5. \A c \in Builder : work[c] \subseteq work'[c] /\ work'[c] \subseteq work[c] \cup {i}
    BY <2>2 DEF BatchInv, WorkType
  <2>6. CtxIsWork'
    BY <2>2, <2>5 DEF BatchInv, CtxIsWork
  <2>7. PoolIsWork'
    BY <2>2, <2>3, <2>5 DEF BatchInv, PoolIsWork, WorkType, Waits, Tx
  <2>8. Apart'
    <3>1. \A c, d \in Builder : c # d => work'[c] \cap work'[d] = {}
      BY <2>2, <2>3 DEF BatchInv, WorkType, Apart
    <3>2. \A t \in pool : \A c \in Builder \ {t.from} : t.work \cap work'[c] = {}
      BY <2>3, <2>5 DEF BatchInv, Apart
    <3> QED BY <2>2, <3>1, <3>2 DEF BatchInv, Apart
  <2>9. AllAsked'
    BY <2>2, <2>4, <2>5 DEF BatchInv, AllAsked
  <2>10. NotYet'
    BY <2>2, <2>3, <2>4, <2>5 DEF BatchInv, NotYet
  <2> QED BY <2>4, <2>6, <2>7, <2>8, <2>9, <2>10 DEF BatchInv
<1>3. CASE SendCoins(b)
  <2>1. /\ UNCHANGED <<work, cost, pool, counter, times, asked>>
        /\ fetched' = [fetched EXCEPT ![b] = @ + cost[b]]
        /\ ctx' = [ctx EXCEPT ![b] = [work |-> work[b], fetch |-> fetched[b] + cost[b]]]
        /\ stage' = [stage EXCEPT ![b] = "signing"]
        /\ tries' = [tries EXCEPT ![b] = @ + 1]
        /\ stage[b] = "open" /\ work[b] # {}
    BY <1>3 DEF SendCoins, ledger
  <2>2. \A c \in Builder : c # b => /\ tries'[c] = tries[c] /\ stage'[c] = stage[c]
                                    /\ ctx'[c] = ctx[c]
    BY <2>1 DEF BatchInv, WorkType
  <2>3. /\ stage'[b] = "signing" /\ tries'[b] = tries[b] + 1 /\ tries[b] \in Nat
        /\ ctx'[b].work = work[b]
    BY <2>1 DEF BatchInv, WorkType
  <2>4. WorkType' /\ Apart' /\ OnceOnly' /\ Done' = Done
    BY <2>1 DEF BatchInv, WorkType, Apart, OnceOnly, Done, Stage
  <2>5. CtxIsWork'
    BY <2>1, <2>2, <2>3 DEF BatchInv, CtxIsWork
  <2>6. PoolIsWork'
    <3> SUFFICES ASSUME NEW t \in pool
                 PROVE  /\ t.work # {}
                        /\ t.try <= tries'[t.from]
                        /\ stage'[t.from] = "signing" => t.try # tries'[t.from]
                        /\ Waits(t)' => t.work = ctx'[t.from].work
                        /\ \/ Waits(t)'
                           \/ t.from \notin Retry /\ stage'[t.from] = "dropped"
                           \/ t.work \cap work'[t.from] = {}
      BY <2>1 DEF PoolIsWork
    <3>1. t.from \in Builder /\ t.try \in Nat
      BY DEF BatchInv, WorkType, Tx
    <3>2. CASE t.from = b
      BY <2>1, <2>3, <3>1, <3>2 DEF BatchInv, PoolIsWork, Waits
    <3>3. CASE t.from # b
      BY <2>1, <2>2, <3>1, <3>3 DEF BatchInv, PoolIsWork, Waits
    <3> QED BY <3>2, <3>3
  <2>7. AllAsked' /\ NotYet'
    BY <2>1, <2>2, <2>3, <2>4 DEF BatchInv, AllAsked, NotYet
  <2> QED BY <2>4, <2>5, <2>6, <2>7 DEF BatchInv
<1> QED BY <1>1, <1>2, <1>3 DEF Caller

\* A transaction is put into the pool with what is in its builder.
LEMMA SignKeepsBatch ==
  ASSUME BatchInv, NEW b \in Builder, Sign(b)
  PROVE  BatchInv'
<1> DEFINE tx == [from |-> b, try |-> tries[b], work |-> ctx[b].work,
                  fetch |-> ctx[b].fetch, counter |-> counter[KeyOf[b]] + 1]
<1>1. /\ stage[b] = "signing"
      /\ stage' = [stage EXCEPT ![b] = "sent"]
      /\ pool' = pool \cup {tx}
      /\ UNCHANGED <<work, fetched, cost, ctx, tries, counter, times, asked>>
  BY DEF Sign, ledger
<1>2. /\ tx \in Tx /\ tx.from = b /\ tx.try = tries[b] /\ tx.work = ctx[b].work
      /\ tries[b] \in Nat
  BY KeysAssumption DEF BatchInv, WorkType, Tx
<1> HIDE DEF tx
<1>3. tx.work # {} /\ tx.work \subseteq work[b]
  BY <1>1, <1>2 DEF BatchInv, CtxIsWork
<1>4. \A t \in pool : t.from = b => t.work \cap work[b] = {} /\ t.try # tries[b]
  BY <1>1 DEF BatchInv, PoolIsWork, Waits
<1>5. /\ stage'[b] = "sent"
      /\ \A c \in Builder \ {b} : stage'[c] = stage[c]
  BY <1>1 DEF BatchInv, WorkType
<1>6. WorkType' /\ CtxIsWork' /\ OnceOnly' /\ Done' = Done
  BY <1>1, <1>2 DEF BatchInv, WorkType, CtxIsWork, OnceOnly, Done, Stage
<1>7. PoolIsWork'
  <2> SUFFICES ASSUME NEW t \in pool'
               PROVE  /\ t.work # {}
                      /\ t.try <= tries[t.from]
                      /\ stage'[t.from] = "signing" => t.try # tries[t.from]
                      /\ Waits(t)' => t.work = ctx[t.from].work
                      /\ \/ Waits(t)'
                         \/ t.from \notin Retry /\ stage'[t.from] = "dropped"
                         \/ t.work \cap work[t.from] = {}
    BY <1>1 DEF PoolIsWork
  <2>1. CASE t = tx
    BY <1>1, <1>2, <1>3, <1>5, <2>1 DEF Waits
  <2>2. CASE t \in pool /\ t.from = b
    BY <1>1, <1>4, <1>5, <2>2 DEF BatchInv, PoolIsWork, Waits
  <2>3. CASE t \in pool /\ t.from # b
    <3>1. t.from \in Builder
      BY <2>3 DEF BatchInv, WorkType, Tx
    <3> QED BY <1>1, <1>5, <2>3, <3>1 DEF BatchInv, PoolIsWork, Waits
  <2> QED BY <1>1, <2>1, <2>2, <2>3
<1>8. Apart'
  <2>1. \A t \in pool : t.work \cap tx.work = {}
    <3> SUFFICES ASSUME NEW t \in pool PROVE t.work \cap work[b] = {}
      BY <1>3
    <3> QED BY <1>4 DEF BatchInv, Apart
  <2>2. \A c \in Builder \ {b} : tx.work \cap work[c] = {}
    BY <1>3 DEF BatchInv, Apart
  <2> QED BY <1>1, <1>2, <2>1, <2>2 DEF BatchInv, Apart
<1>9. AllAsked'
  BY <1>1, <1>3, <1>6 DEF BatchInv, AllAsked
<1>10. NotYet'
  <2>1. tx.work \cap Done = {}
    BY <1>1, <1>3 DEF BatchInv, NotYet
  <2> QED BY <1>1, <1>5, <1>6, <2>1 DEF BatchInv, NotYet
<1> QED BY <1>6, <1>7, <1>8, <1>9, <1>10 DEF BatchInv

\* What is in the pool of an emptied builder is left to the nodes.
LEMMA ReplyKeepsBatch ==
  ASSUME BatchInv, NEW b \in Builder, Reply(b)
  PROVE  BatchInv'
<1>1. /\ stage' = [stage EXCEPT ![b] = "open"]
      /\ work' = [work EXCEPT ![b] = {}]
      /\ fetched' = [fetched EXCEPT ![b] = 0]
      /\ cost' = [cost EXCEPT ![b] = 0]
      /\ stage[b] \in {"sent", "included"}
      /\ UNCHANGED <<ctx, tries, pool, counter, times, asked>>
  BY DEF Reply, Answered, ledger
<1>2. /\ stage'[b] = "open" /\ work'[b] = {}
      /\ \A c \in Builder \ {b} : stage'[c] = stage[c] /\ work'[c] = work[c]
  BY <1>1 DEF BatchInv, WorkType
<1>3. WorkType' /\ Apart' /\ OnceOnly' /\ Done' = Done
  BY <1>1 DEF BatchInv, WorkType, Apart, OnceOnly, Done, Stage
<1>4. CtxIsWork'
  BY <1>1, <1>2 DEF BatchInv, CtxIsWork
<1>5. PoolIsWork'
  <2> SUFFICES ASSUME NEW t \in pool
               PROVE  /\ t.work # {}
                      /\ t.try <= tries[t.from]
                      /\ stage'[t.from] = "signing" => t.try # tries[t.from]
                      /\ Waits(t)' => t.work = ctx[t.from].work
                      /\ \/ Waits(t)'
                         \/ t.from \notin Retry /\ stage'[t.from] = "dropped"
                         \/ t.work \cap work'[t.from] = {}
    BY <1>1 DEF PoolIsWork
  <2>1. t.from \in Builder
    BY DEF BatchInv, WorkType, Tx
  <2>2. CASE t.from = b
    BY <1>1, <1>2, <2>2 DEF BatchInv, PoolIsWork, Waits
  <2>3. CASE t.from # b
    BY <1>1, <1>2, <2>1, <2>3 DEF BatchInv, PoolIsWork, Waits
  <2> QED BY <2>2, <2>3
<1>6. AllAsked' /\ NotYet'
  BY <1>1, <1>2, <1>3 DEF BatchInv, AllAsked, NotYet
<1> QED BY <1>3, <1>4, <1>5, <1>6 DEF BatchInv

\* An exception before anything is sent.
LEMMA UnreachableKeepsBatch ==
  ASSUME BatchInv, NEW b \in Builder, Unreachable(b)
  PROVE  BatchInv'
<1>1. /\ stage[b] = "signing"
      /\ stage' = [stage EXCEPT ![b] = AfterFailure(b)]
      /\ AfterFailure(b) \in {"open", "dropped"}
      /\ UNCHANGED <<work, fetched, cost, ctx, tries, pool, counter, times, asked>>
  BY DEF Unreachable, ledger, AfterFailure
<1>2. WorkType' /\ Apart' /\ OnceOnly' /\ Done' = Done
  BY <1>1 DEF BatchInv, WorkType, Apart, OnceOnly, Done, Stage
<1>3. CtxIsWork'
  BY <1>1 DEF BatchInv, WorkType, CtxIsWork
<1>4. PoolIsWork'
  BY <1>1 DEF BatchInv, PoolIsWork, WorkType, Waits, Tx
<1>5. AllAsked' /\ NotYet'
  BY <1>1, <1>2 DEF BatchInv, WorkType, AllAsked, NotYet
<1> QED BY <1>2, <1>3, <1>4, <1>5 DEF BatchInv

\* Whoever gives up does not send again: what is in the pool stays as it is.
LEMMA TimeOutKeepsBatch ==
  ASSUME BatchInv, OneChance, NEW b \in Builder, TimeOut(b)
  PROVE  BatchInv'
<1>1. /\ stage[b] \in {"sent", "included"}
      /\ b \notin Retry
      /\ stage' = [stage EXCEPT ![b] = "dropped"]
      /\ UNCHANGED <<work, fetched, cost, ctx, tries, pool, counter, times, asked>>
  BY DEF TimeOut, ledger, AfterFailure, OneChance
<1>2. WorkType' /\ Apart' /\ OnceOnly' /\ Done' = Done
  BY <1>1 DEF BatchInv, WorkType, Apart, OnceOnly, Done, Stage
<1>3. CtxIsWork'
  BY <1>1 DEF BatchInv, WorkType, CtxIsWork
<1>4. PoolIsWork'
  BY <1>1 DEF BatchInv, PoolIsWork, WorkType, Waits, Tx
<1>5. AllAsked' /\ NotYet'
  BY <1>1, <1>2 DEF BatchInv, WorkType, AllAsked, NotYet
<1> QED BY <1>2, <1>3, <1>4, <1>5 DEF BatchInv

\* A builder waits for one transaction only; others of it are of earlier sends.
LEMMA OneIsAwaited ==
  ASSUME BatchInv, NEW t \in pool, Waits(t)
  PROVE  /\ stage[t.from] = "sent" /\ t.from \in Builder
         /\ t.work = ctx[t.from].work /\ t.work \subseteq work[t.from]
         /\ \A u \in pool \ {t} : u.from = t.from =>
               ~Waits(u) /\ u.work \cap work[u.from] = {}
<1>1. stage[t.from] = "sent" /\ t.from \in Builder
  BY DEF Waits, BatchInv, WorkType, Tx
<1>2. /\ ctx[t.from].work # {} /\ ctx[t.from].work \subseteq work[t.from]
  BY <1>1 DEF BatchInv, CtxIsWork
<1>3. t.work = ctx[t.from].work
  BY DEF BatchInv, PoolIsWork
<1>4. ASSUME NEW u \in pool \ {t}, u.from = t.from
      PROVE  ~Waits(u) /\ u.work \cap work[u.from] = {}
  <2>1. u.work # ctx[t.from].work
    BY <1>2, <1>3 DEF BatchInv, Apart
  <2>2. ~Waits(u)
    BY <1>4, <2>1 DEF BatchInv, PoolIsWork
  <2> QED BY <1>1, <1>4, <2>2 DEF BatchInv, PoolIsWork
<1> QED BY <1>1, <1>2, <1>3, <1>4

\* A refused transaction leaves its builder as it was.
LEMMA RefuseKeepsBatch ==
  ASSUME BatchInv, NEW t \in pool, Refuse(t)
  PROVE  BatchInv'
<1>1. /\ pool' = pool \ {t}
      /\ stage' = IF Waits(t) THEN [stage EXCEPT ![t.from] = AfterFailure(t.from)] ELSE stage
      /\ UNCHANGED <<work, fetched, cost, ctx, tries, counter, times, asked>>
      /\ AfterFailure(t.from) \in {"open", "dropped"}
      /\ t.from \in Builder
  BY DEF Refuse, ledger, AfterFailure, BatchInv, WorkType, Tx
<1>2. /\ \A c \in Builder \ {t.from} : stage'[c] = stage[c]
      /\ Waits(t) => stage'[t.from] \in {"open", "dropped"}
      /\ ~Waits(t) => stage' = stage
  BY <1>1 DEF BatchInv, WorkType
<1>3. WorkType' /\ Apart' /\ OnceOnly' /\ Done' = Done
  BY <1>1 DEF BatchInv, WorkType, Apart, OnceOnly, Done, Stage
<1>4. CtxIsWork'
  BY <1>1, <1>2 DEF BatchInv, CtxIsWork
<1>5. PoolIsWork'
  <2> SUFFICES ASSUME NEW u \in pool \ {t}
               PROVE  /\ u.work # {}
                      /\ u.try <= tries[u.from]
                      /\ stage'[u.from] = "signing" => u.try # tries[u.from]
                      /\ Waits(u)' => u.work = ctx[u.from].work
                      /\ \/ Waits(u)'
                         \/ u.from \notin Retry /\ stage'[u.from] = "dropped"
                         \/ u.work \cap work[u.from] = {}
    BY <1>1 DEF PoolIsWork
  <2>1. u.from \in Builder
    BY DEF BatchInv, WorkType, Tx
  <2>2. CASE Waits(t) /\ u.from = t.from
    <3>1. u.work \cap work[u.from] = {}
      BY <2>2, OneIsAwaited
    <3> QED BY <1>1, <1>2, <2>2, <3>1 DEF BatchInv, PoolIsWork, Waits
  <2>3. CASE ~(Waits(t) /\ u.from = t.from)
    <3>1. stage'[u.from] = stage[u.from]
      BY <1>2, <2>1, <2>3
    <3> QED BY <1>1, <3>1 DEF BatchInv, PoolIsWork, Waits
  <2> QED BY <2>2, <2>3
<1>6. AllAsked'
  BY <1>1, <1>3 DEF BatchInv, AllAsked
<1>7. NotYet'
  <2>1. Waits(t) => stage[t.from] = "sent"
    BY DEF Waits
  <2> QED BY <1>1, <1>2, <1>3, <2>1 DEF BatchInv, NotYet
<1> QED BY <1>3, <1>4, <1>5, <1>6, <1>7 DEF BatchInv

\* An executed transaction has been all that its builder waits for.
LEMMA IncludeKeepsBatch ==
  ASSUME BatchInv, NEW t \in pool, Include(t)
  PROVE  BatchInv'
<1>1. /\ pool' = pool \ {t}
      /\ stage' = IF Waits(t) THEN [stage EXCEPT ![t.from] = "included"] ELSE stage
      /\ UNCHANGED <<work, fetched, cost, ctx, tries, asked>>
      /\ counter' = [counter EXCEPT ![KeyOf[t.from]] = @ + 1]
      /\ t.from \in Builder
  BY DEF Include, BatchInv, WorkType, Tx
<1>2. /\ \A c \in Builder \ {t.from} : stage'[c] = stage[c]
      /\ Waits(t) => stage'[t.from] = "included"
      /\ ~Waits(t) => stage' = stage
      /\ Waits(t) => stage[t.from] = "sent"
  BY <1>1 DEF BatchInv, WorkType, Waits
<1>3. WorkType' /\ Apart' /\ OnceOnly' /\ Done' = Done \cup t.work
  BY <1>1, IncludeDone, KeysAssumption DEF BatchInv, WorkType, Apart, Stage
<1>4. CtxIsWork'
  BY <1>1, <1>2 DEF BatchInv, CtxIsWork
<1>5. PoolIsWork'
  <2> SUFFICES ASSUME NEW u \in pool \ {t}
               PROVE  /\ u.work # {}
                      /\ u.try <= tries[u.from]
                      /\ stage'[u.from] = "signing" => u.try # tries[u.from]
                      /\ Waits(u)' => u.work = ctx[u.from].work
                      /\ \/ Waits(u)'
                         \/ u.from \notin Retry /\ stage'[u.from] = "dropped"
                         \/ u.work \cap work[u.from] = {}
    BY <1>1 DEF PoolIsWork
  <2>1. u.from \in Builder
    BY DEF BatchInv, WorkType, Tx
  <2>2. CASE Waits(t) /\ u.from = t.from
    <3>1. u.work \cap work[u.from] = {}
      BY <2>2, OneIsAwaited
    <3> QED BY <1>1, <1>2, <2>2, <3>1 DEF BatchInv, PoolIsWork, Waits
  <2>3. CASE ~(Waits(t) /\ u.from = t.from)
    <3>1. stage'[u.from] = stage[u.from]
      BY <1>2, <2>1, <2>3
    <3> QED BY <1>1, <3>1 DEF BatchInv, PoolIsWork, Waits
  <2> QED BY <2>2, <2>3
<1>6. AllAsked'
  BY <1>1, <1>3 DEF BatchInv, AllAsked
<1>7. NotYet'
  <2>1. ASSUME NEW c \in Builder, stage'[c] \in {"none", "open", "signing", "sent"}
        PROVE  work'[c] \cap Done' = {}
    <3>1. stage[c] = stage'[c] /\ work[c] \cap Done = {}
      BY <1>2, <2>1 DEF BatchInv, NotYet
    <3>2. t.work \cap work[c] = {}
      <4>1. CASE c # t.from
        BY <4>1 DEF BatchInv, Apart
      <4>2. CASE c = t.from
        <5>1. ~Waits(t)
          BY <1>2, <2>1, <4>2
        <5> QED BY <2>1, <3>1, <4>2, <5>1 DEF BatchInv, PoolIsWork
      <4> QED BY <4>1, <4>2
    <3> QED BY <1>1, <1>3, <3>1, <3>2
  <2>2. \A u \in pool' : u.work \cap Done' = {}
    BY <1>1, <1>3 DEF BatchInv, NotYet, Apart
  <2>3. ASSUME NEW c \in Builder, stage'[c] = "included"
        PROVE  ctx'[c].work \subseteq Done'
    <3>1. CASE Waits(t) /\ c = t.from
      BY <1>1, <1>3, <3>1, OneIsAwaited
    <3>2. CASE ~(Waits(t) /\ c = t.from)
      BY <1>1, <1>2, <1>3, <2>3, <3>2 DEF BatchInv, NotYet
    <3> QED BY <3>1, <3>2
  <2> QED BY <2>1, <2>2, <2>3 DEF NotYet
<1> QED BY <1>3, <1>4, <1>5, <1>6, <1>7 DEF BatchInv

\* One case for each action.
LEMMA NextKeepsBatch ==
  ASSUME BatchInv, OneChance, [Next]_vars
  PROVE  BatchInv'
<1>1. ASSUME NEW b \in Builder, Caller(b) PROVE BatchInv'
  BY <1>1, CallerKeepsBatch
<1>2. ASSUME NEW b \in Builder, Library(b) \/ TimeOut(b) PROVE BatchInv'
  BY <1>2, SignKeepsBatch, UnreachableKeepsBatch, ReplyKeepsBatch,
     TimeOutKeepsBatch DEF Library
<1>3. ASSUME NEW t \in pool, Settle(t) PROVE BatchInv'
  BY <1>3, RefuseKeepsBatch, IncludeKeepsBatch DEF Settle
<1>4. ASSUME UNCHANGED <<builders, pool, ledger, asked>> PROVE BatchInv'
  BY <1>4 DEF builders, ledger, BatchInv, WorkType, CtxIsWork, PoolIsWork, Waits,
              Apart, AllAsked, NotYet, Done, OnceOnly
<1>5. CASE FollowCoin
  BY <1>4, <1>5 DEF FollowCoin
<1>6. CASE UNCHANGED vars
  BY <1>4, <1>6 DEF vars
<1> QED BY <1>1, <1>2, <1>3, <1>5, <1>6 DEF Next

-----------------------------------------------------------------------------

\* No instruction is executed twice: neither when a builder is sent again
\* after a refusal, nor when nobody waits for the block any more.
THEOREM NothingTwice == ASSUME OneChance PROVE Spec => []OnceOnly
<1>1. BatchInv /\ [Next]_vars => BatchInv'
  BY NextKeepsBatch
<1>2. BatchInv => OnceOnly
  BY DEF BatchInv
<1> QED BY <1>1, <1>2, InitBatch, PTL DEF Spec

\* The contents of two builders that are being sent, and of what is in the
\* pool, differ.
LEMMA BatchesDiffer ==
  ASSUME BatchInv
  PROVE  /\ \A b, c \in Builder : b # c /\ stage[b] = "signing" /\ stage[c] = "signing"
                                    => ctx[b].work # ctx[c].work
         /\ \A b \in Builder, t \in pool : stage[b] = "signing" => ctx[b].work # t.work
         /\ \A t, u \in pool : t # u => t.work # u.work
<1>1. ASSUME NEW b \in Builder, NEW c \in Builder, b # c, stage[b] = "signing",
             stage[c] = "signing"
      PROVE  ctx[b].work # ctx[c].work
  BY <1>1 DEF BatchInv, CtxIsWork, Apart
<1>2. ASSUME NEW b \in Builder, NEW t \in pool, stage[b] = "signing"
      PROVE  ctx[b].work # t.work
  <2>1. t.work \cap work[b] = {}
    BY <1>2 DEF BatchInv, Apart, PoolIsWork, Waits
  <2> QED BY <1>2, <2>1 DEF BatchInv, CtxIsWork
<1>3. ASSUME NEW t \in pool, NEW u \in pool, t # u PROVE t.work # u.work
  BY <1>3 DEF BatchInv, Apart, PoolIsWork
<1> QED BY <1>1, <1>2, <1>3

\* Every step is a step of the batches, or leaves them alone.
LEMMA StepIsBatchStep ==
  ASSUME BatchInv, OneChance, [Next]_vars
  PROVE  [Promise!BatchNext]_(Promise!batch)
<1> DEFINE Signing == {c \in Builder : stage[c] = "signing"}
<1>0. /\ stage \in [Builder -> Stage]
      /\ work \in [Builder -> SUBSET Item]
      /\ ctx \in [Builder -> [work : SUBSET Item, fetch : Nat]]
      /\ \A t \in pool : t.from \in Builder
  BY DEF BatchInv, WorkType, Tx
<1>1. ASSUME UNCHANGED <<work, pool, ctx, times>>, Signing' = Signing
      PROVE  UNCHANGED Promise!batch
  BY <1>1, SameDone DEF Promise!batch, Batches
<1>2. ASSUME NEW b \in Builder, NEW i \in Item, Add(b, i)
      PROVE  Promise!Ask(b, i)
  <2>1. /\ work' = [work EXCEPT ![b] = @ \cup {i}]
        /\ UNCHANGED <<stage, ctx, pool, times>>
        /\ i \notin asked
    BY <1>2 DEF Add, ledger
  <2>2. Done' = Done /\ Batches' = Batches
    BY <2>1, SameDone DEF Batches
  <2>3. i \notin Done /\ \A c \in Builder : i \notin work[c]
    BY <2>1 DEF BatchInv, AllAsked
  <2>4. \A S \in Batches : i \notin S
    BY <2>1 DEF BatchInv, AllAsked, CtxIsWork, Batches
  <2> QED BY <2>1, <2>2, <2>3, <2>4 DEF Promise!Ask
<1>3. ASSUME NEW b \in Builder, SendCoins(b)
      PROVE  Promise!Send(b)
  <2>1. /\ stage[b] = "open"
        /\ stage' = [stage EXCEPT ![b] = "signing"]
        /\ ctx' = [ctx EXCEPT ![b] = [work |-> work[b], fetch |-> fetched[b] + cost[b]]]
        /\ UNCHANGED <<work, pool, times>>
    BY <1>3 DEF SendCoins, ledger
  <2>2. work[b] \cap Done = {}
    BY <2>1 DEF BatchInv, NotYet
  <2>3. ASSUME NEW S \in Batches PROVE S \cap work[b] = {}
    <3>1. ASSUME NEW t \in pool PROVE t.work \cap work[b] = {}
      BY <2>1 DEF BatchInv, PoolIsWork, Apart, Waits
    <3>2. ASSUME NEW c \in Builder, stage[c] = "signing"
          PROVE  ctx[c].work \cap work[b] = {}
      BY <2>1, <3>2 DEF BatchInv, CtxIsWork, Apart
    <3> QED BY <3>1, <3>2 DEF Batches
  <2>4. Signing' = Signing \cup {b} /\ b \notin Signing
    BY <1>0, <2>1
  <2>5. ctx'[b].work = work[b] /\ \A c \in Signing : ctx'[c] = ctx[c]
    BY <1>0, <2>1
  <2>6. Batches' = Batches \cup {work[b]}
    BY <2>1, <2>4, <2>5 DEF Batches
  <2> QED BY <2>1, <2>2, <2>3, <2>6, SameDone DEF Promise!Send
<1>4. ASSUME NEW b \in Builder, Sign(b)
      PROVE  UNCHANGED Promise!batch
  <2> DEFINE tx == [from |-> b, try |-> tries[b], work |-> ctx[b].work,
                    fetch |-> ctx[b].fetch, counter |-> counter[KeyOf[b]] + 1]
  <2>1. /\ stage[b] = "signing"
        /\ stage' = [stage EXCEPT ![b] = "sent"]
        /\ pool' = pool \cup {tx} /\ tx.work = ctx[b].work
        /\ UNCHANGED <<work, ctx, times>>
    BY <1>4 DEF Sign, ledger
  <2> HIDE DEF tx
  <2>2. Signing' = Signing \ {b} /\ b \in Signing
    BY <1>0, <2>1
  <2>3. Batches' = Batches
    BY <2>1, <2>2 DEF Batches
  <2> QED BY <2>1, <2>3, SameDone DEF Promise!batch
<1>5. ASSUME NEW b \in Builder, Unreachable(b)
      PROVE  ctx[b].work \in Batches /\ Promise!Fail(ctx[b].work)
  <2>1. /\ stage[b] = "signing"
        /\ stage' = [stage EXCEPT ![b] = AfterFailure(b)]
        /\ AfterFailure(b) # "signing"
        /\ UNCHANGED <<work, ctx, pool, times>>
    BY <1>5 DEF Unreachable, ledger, AfterFailure
  <2>2. Signing' = Signing \ {b} /\ b \in Signing
    BY <1>0, <2>1
  <2>3. Batches' = Batches \ {ctx[b].work}
    BY <2>1, <2>2, BatchesDiffer DEF Batches
  <2> QED BY <2>1, <2>2, <2>3, SameDone DEF Batches, Promise!Fail
<1>6. ASSUME NEW b \in Builder, Reply(b)
      PROVE  Promise!Empty(b)
  <2>1. /\ work' = [work EXCEPT ![b] = {}]
        /\ stage' = [stage EXCEPT ![b] = "open"]
        /\ UNCHANGED <<ctx, pool, times>>
        /\ stage[b] \in {"included", "sent"}
        /\ stage[b] = "included" \/ b \in NoWait
    BY <1>6 DEF Reply, Answered, ledger
  <2>2. Signing' = Signing
    BY <1>0, <2>1
  <2>3. Batches' = Batches
    BY <2>1, <2>2 DEF Batches
  <2>4. b \in NoWait \/ work[b] \cap Done # {}
    BY <2>1 DEF BatchInv, CtxIsWork, NotYet
  <2> QED BY <2>1, <2>3, <2>4, SameDone DEF Promise!Empty
<1>7. ASSUME NEW t \in pool, Include(t) \/ Refuse(t)
      PROVE  t.work \in Batches /\ Batches' = Batches \ {t.work} /\ work' = work
  <2>1. /\ pool' = pool \ {t}
        /\ \/ stage' = stage
           \/ /\ stage[t.from] = "sent"
              /\ \/ stage' = [stage EXCEPT ![t.from] = AfterFailure(t.from)]
                 \/ stage' = [stage EXCEPT ![t.from] = "included"]
        /\ AfterFailure(t.from) # "signing"
        /\ UNCHANGED <<work, ctx>>
    BY <1>7 DEF Include, Refuse, Waits, AfterFailure
  <2>2. Signing' = Signing
    BY <1>0, <2>1
  <2>3. Batches' = Batches \ {t.work}
    BY <2>1, <2>2, BatchesDiffer DEF Batches
  <2> QED BY <2>1, <2>3 DEF Batches
<1>8. ASSUME NEW t \in pool, Include(t) PROVE Promise!Commit(t.work)
  BY <1>7, <1>8, IncludeDone DEF Promise!Commit
<1>9. ASSUME NEW t \in pool, Refuse(t) PROVE Promise!Fail(t.work)
  BY <1>7, <1>9, SameDone DEF Promise!Fail, Refuse, ledger
<1>10. ASSUME NEW b \in Builder, Start(b) \/ TimeOut(b)
       PROVE  UNCHANGED Promise!batch
  <2>1. /\ UNCHANGED <<work, ctx, pool, times>>
        /\ stage[b] # "signing"
        /\ \E s \in Stage \ {"signing"} : stage' = [stage EXCEPT ![b] = s]
    BY <1>10 DEF Start, TimeOut, ledger, AfterFailure, Stage
  <2>2. Signing' = Signing
    BY <1>0, <2>1
  <2> QED BY <1>1, <2>1, <2>2
<1>11. ASSUME FollowCoin \/ UNCHANGED vars PROVE UNCHANGED Promise!batch
  <2>1. UNCHANGED <<work, ctx, pool, times, stage>>
    BY <1>11 DEF FollowCoin, vars, builders, ledger
  <2> QED BY <1>1, <2>1
<1>12. CASE \E b \in Builder : Caller(b)
  BY <1>2, <1>3, <1>10, <1>12 DEF Caller, Promise!BatchNext
<1>13. CASE \E b \in Builder : Library(b) \/ TimeOut(b)
  BY <1>4, <1>5, <1>6, <1>10, <1>13 DEF Library, Promise!BatchNext
<1>14. CASE \E t \in pool : Settle(t)
  BY <1>7, <1>8, <1>9, <1>14 DEF Settle, Promise!BatchNext
<1> QED BY <1>11, <1>12, <1>13, <1>14 DEF Next

\* The builders are batches: what is sent together is executed together, once
\* or not at all, a failure keeps all of it, and a builder that waits for its
\* block is emptied after that block only.  One that is sent with a wait of 0 is
\* emptied when a node has the transaction (transactionBuilder.ts:33-36).
THEOREM BuildersImplementBatch == ASSUME OneChance PROVE Spec => BatchSpec
<1>1. Init => Promise!BatchInit
  BY DEF Init, Promise!BatchInit, Batches, Done
<1>2. BatchInv /\ [Next]_vars => BatchInv'
  BY NextKeepsBatch
<1>3. BatchInv /\ [Next]_vars => [Promise!BatchNext]_(Promise!batch)
  BY StepIsBatchStep
<1> QED BY <1>1, <1>2, <1>3, InitBatch, PTL DEF Spec, BatchSpec, Promise!BatchSpec

-----------------------------------------------------------------------------
(* The account.                                                            *)

\* What is in a builder and in the pool has been asked for one by one.
FiniteWork == /\ \A b \in Builder : IsFiniteSet(work[b]) /\ IsFiniteSet(ctx[b].work)
              /\ \A t \in pool : IsFiniteSet(t.work)

\* A builder that is not sent again has one fetch in front, for its cost.
FetchIsPrice ==
    /\ \A b \in Builder \ Retry :
          /\ stage[b] \in {"none", "open"} => fetched[b] = 0
          /\ stage[b] = "signing" => ctx[b].fetch = Sum(Price, ctx[b].work)
    /\ \A t \in pool : t.from \notin Retry => t.fetch = Sum(Price, t.work)

\* What was never appended is in no builder.
WorkAsked == \A b \in Builder : work[b] \subseteq asked

ChargeInv == TypeOK /\ FiniteWork /\ WorkAsked /\ CostIsPrice /\ FetchIsPrice

LEMMA InitCharge == Init => ChargeInv
<1> SUFFICES ASSUME Init PROVE ChargeInv
  OBVIOUS
<1>1. TypeOK
  BY PricesAssumption DEF Init, TypeOK, Stage
<1>2. FiniteWork
  BY FS_EmptySet DEF Init, FiniteWork
<1>3. CostIsPrice
  BY SumNone DEF Init, CostIsPrice
<1>4. FetchIsPrice /\ WorkAsked
  BY DEF Init, FetchIsPrice, WorkAsked
<1> QED BY <1>1, <1>2, <1>3, <1>4 DEF ChargeInv

\* An instruction that is added is paid for.
LEMMA AddCharges ==
  ASSUME ChargeInv, NEW b \in Builder, NEW i \in Item, Add(b, i)
  PROVE  ChargeInv'
<1>1. /\ work' = [work EXCEPT ![b] = work[b] \cup {i}]
      /\ cost' = [cost EXCEPT ![b] = cost[b] + Price[i]]
      /\ i \notin work[b] /\ asked' = asked \cup {i}
      /\ UNCHANGED <<stage, fetched, ctx, coin, tries, seen, pool, balance, counter, times>>
  BY DEF Add, ledger, ChargeInv, WorkAsked
<1>2. Price \in [Item -> Nat]
  BY PricesAssumption
<1>3. /\ work \in [Builder -> SUBSET Item] /\ cost \in [Builder -> Nat]
      /\ \A c \in Builder : IsFiniteSet(work[c])
  BY DEF ChargeInv, TypeOK, FiniteWork
<1>4. TypeOK'
  BY <1>1, <1>2 DEF ChargeInv, TypeOK
<1>5. IsFiniteSet(work[b] \cup {i})
  BY <1>3, FS_AddElement
<1>6. FiniteWork'
  BY <1>1, <1>3, <1>5 DEF ChargeInv, FiniteWork
<1>7. Sum(Price, work[b] \cup {i}) = Sum(Price, work[b]) + Price[i]
  BY <1>1, <1>2, <1>3, SumAdd
<1>8. CostIsPrice'
  <2>1. ASSUME NEW c \in Builder PROVE cost'[c] = Sum(Price, work'[c])
    <3>1. CASE c = b
      <4>1. cost'[b] = cost[b] + Price[i] /\ work'[b] = work[b] \cup {i}
        BY <1>1, <1>3
      <4>2. cost[b] = Sum(Price, work[b])
        BY DEF ChargeInv, CostIsPrice
      <4> QED BY <1>7, <3>1, <4>1, <4>2, Zenon
    <3>2. CASE c # b
      <4>1. cost'[c] = cost[c] /\ work'[c] = work[c]
        BY <1>1, <1>3, <3>2
      <4> QED BY <4>1 DEF ChargeInv, CostIsPrice
    <3> QED BY <3>1, <3>2
  <2> QED BY <2>1 DEF CostIsPrice
<1>9. FetchIsPrice' /\ WorkAsked'
  BY <1>1, <1>3 DEF ChargeInv, FetchIsPrice, WorkAsked
<1> QED BY <1>4, <1>6, <1>8, <1>9 DEF ChargeInv

\* A step that leaves the instructions of the builders, their cost and the
\* pool alone.
LEMMA QuietCharges ==
  ASSUME ChargeInv, TypeOK', UNCHANGED <<work, cost, ctx, asked>>, pool' \subseteq pool,
         \A b \in Builder \ Retry :
            /\ stage'[b] \in {"none", "open"} => fetched'[b] = 0
            /\ stage'[b] = "signing" => stage[b] = "signing"
  PROVE  ChargeInv'
<1>1. FiniteWork' /\ CostIsPrice' /\ WorkAsked'
  BY DEF ChargeInv, FiniteWork, CostIsPrice, WorkAsked
<1>2. FetchIsPrice'
  BY DEF ChargeInv, FetchIsPrice
<1> QED BY <1>1, <1>2 DEF ChargeInv

LEMMA CallerCharges ==
  ASSUME ChargeInv, NEW b \in Builder, Caller(b)
  PROVE  ChargeInv'
<1>1. CASE Start(b)
  <2>1. TypeOK'
    BY <1>1 DEF Start, ChargeInv, TypeOK, Stage, ledger
  <2> QED BY <1>1, <2>1, QuietCharges
          DEF Start, ChargeInv, TypeOK, FetchIsPrice, ledger
<1>2. CASE SendCoins(b)
  <2>1. /\ stage[b] = "open"
        /\ stage' = [stage EXCEPT ![b] = "signing"]
        /\ tries' = [tries EXCEPT ![b] = @ + 1]
        /\ fetched' = [fetched EXCEPT ![b] = @ + cost[b]]
        /\ ctx' = [ctx EXCEPT ![b] = [work |-> work[b], fetch |-> fetched[b] + cost[b]]]
        /\ UNCHANGED <<work, cost, coin, seen, pool, balance, counter, times, asked>>
    BY <1>2 DEF SendCoins, ledger
  <2>2. /\ stage \in [Builder -> Stage] /\ fetched \in [Builder -> Nat]
        /\ ctx \in [Builder -> [work : SUBSET Item, fetch : Nat]]
        /\ cost \in [Builder -> Nat] /\ work \in [Builder -> SUBSET Item]
    BY DEF ChargeInv, TypeOK
  <2>3. [work |-> work[b], fetch |-> fetched[b] + cost[b]] \in [work : SUBSET Item, fetch : Nat]
    BY <2>2
  <2>4. ctx' \in [Builder -> [work : SUBSET Item, fetch : Nat]]
    BY <2>1, <2>2, <2>3
  <2>5. TypeOK'
    BY <2>1, <2>4 DEF ChargeInv, TypeOK, Stage
  <2>6. \A c \in Builder : c # b => /\ stage'[c] = stage[c] /\ fetched'[c] = fetched[c]
                                    /\ ctx'[c] = ctx[c]
    BY <2>1, <2>2
  <2>7. /\ stage'[b] = "signing"
        /\ ctx'[b].work = work[b] /\ ctx'[b].fetch = fetched[b] + cost[b]
    BY <2>1, <2>2
  <2>8. FiniteWork'
    BY <2>1, <2>6, <2>7 DEF ChargeInv, FiniteWork
  <2>9. CostIsPrice' /\ WorkAsked'
    BY <2>1 DEF ChargeInv, CostIsPrice, WorkAsked
  <2>10. b \notin Retry => ctx'[b].fetch = Sum(Price, ctx'[b].work)
    <3>1. b \notin Retry => fetched[b] = 0
      BY <2>1 DEF ChargeInv, FetchIsPrice
    <3>2. cost[b] = Sum(Price, work[b]) /\ cost[b] \in Nat
      BY <2>2 DEF ChargeInv, CostIsPrice
    <3> QED BY <2>7, <3>1, <3>2
  <2>11. FetchIsPrice'
    BY <2>1, <2>6, <2>7, <2>10 DEF ChargeInv, FetchIsPrice
  <2> QED BY <2>5, <2>8, <2>9, <2>11 DEF ChargeInv
<1> QED BY <1>1, <1>2, AddCharges DEF Caller

LEMMA SignCharges ==
  ASSUME ChargeInv, NEW b \in Builder, Sign(b)
  PROVE  ChargeInv'
<1> DEFINE tx == [from |-> b, try |-> tries[b], work |-> ctx[b].work,
                  fetch |-> ctx[b].fetch, counter |-> counter[KeyOf[b]] + 1]
<1>1. /\ stage[b] = "signing"
      /\ stage' = [stage EXCEPT ![b] = "sent"]
      /\ pool' = pool \cup {tx}
      /\ UNCHANGED <<work, fetched, cost, ctx, coin, tries, seen, balance, counter, times, asked>>
  BY DEF Sign, ledger
<1>2. tx \in Tx /\ tx.from = b /\ tx.work = ctx[b].work /\ tx.fetch = ctx[b].fetch
  BY KeysAssumption DEF ChargeInv, TypeOK, Tx
<1> HIDE DEF tx
<1>3. TypeOK'
  BY <1>1, <1>2 DEF ChargeInv, TypeOK, Stage
<1>4. FiniteWork' /\ CostIsPrice' /\ WorkAsked'
  BY <1>1, <1>2 DEF ChargeInv, FiniteWork, CostIsPrice, WorkAsked
<1>5. b \notin Retry => tx.fetch = Sum(Price, tx.work)
  BY <1>1, <1>2 DEF ChargeInv, FetchIsPrice
<1>6. FetchIsPrice'
  BY <1>1, <1>2, <1>5 DEF ChargeInv, TypeOK, FetchIsPrice
<1> QED BY <1>3, <1>4, <1>6 DEF ChargeInv

\* What is executed is no longer in the builder, nor in its cost.
LEMMA ReplyCharges ==
  ASSUME ChargeInv, NEW b \in Builder, Reply(b)
  PROVE  ChargeInv'
<1>1. /\ stage' = [stage EXCEPT ![b] = "open"]
      /\ work' = [work EXCEPT ![b] = {}]
      /\ fetched' = [fetched EXCEPT ![b] = 0]
      /\ cost' = [cost EXCEPT ![b] = 0]
      /\ UNCHANGED <<ctx, coin, tries, seen, pool, balance, counter, times, asked>>
  BY DEF Reply, ledger
<1>2. TypeOK'
  BY <1>1 DEF ChargeInv, TypeOK, Stage
<1>3. FiniteWork'
  BY <1>1, FS_EmptySet DEF ChargeInv, TypeOK, FiniteWork
<1>4. CostIsPrice'
  BY <1>1, SumNone DEF ChargeInv, TypeOK, CostIsPrice
<1>5. FetchIsPrice' /\ WorkAsked'
  BY <1>1 DEF ChargeInv, TypeOK, FetchIsPrice, WorkAsked
<1> QED BY <1>2, <1>3, <1>4, <1>5 DEF ChargeInv

\* An exception: a builder that is not sent again is dropped.
LEMMA FailureCharges ==
  ASSUME ChargeInv, NEW b \in Builder, Unreachable(b) \/ TimeOut(b)
  PROVE  ChargeInv'
<1>1. /\ stage' = [stage EXCEPT ![b] = AfterFailure(b)]
      /\ UNCHANGED <<work, fetched, cost, ctx, coin, tries, seen, pool, balance, counter, times, asked>>
      /\ AfterFailure(b) \in {"open", "dropped"}
      /\ b \notin Retry => AfterFailure(b) = "dropped"
  BY DEF Unreachable, TimeOut, ledger, AfterFailure
<1>2. TypeOK'
  BY <1>1 DEF ChargeInv, TypeOK, Stage
<1> QED BY <1>1, <1>2, QuietCharges DEF ChargeInv, TypeOK, FetchIsPrice

LEMMA RefuseCharges ==
  ASSUME ChargeInv, NEW t \in pool, Refuse(t)
  PROVE  ChargeInv'
<1>1. /\ pool' = pool \ {t}
      /\ stage' = IF Waits(t) THEN [stage EXCEPT ![t.from] = AfterFailure(t.from)] ELSE stage
      /\ UNCHANGED <<work, fetched, cost, ctx, coin, tries, seen, balance, counter, times, asked>>
      /\ AfterFailure(t.from) \in {"open", "dropped"}
      /\ t.from \notin Retry => AfterFailure(t.from) = "dropped"
      /\ t.from \in Builder
  BY DEF Refuse, ledger, AfterFailure, ChargeInv, TypeOK, Tx
<1>2. TypeOK'
  BY <1>1 DEF ChargeInv, TypeOK, Stage
<1> QED BY <1>1, <1>2, QuietCharges DEF ChargeInv, TypeOK, FetchIsPrice

\* The coin is never overdrawn.
LEMMA IncludeCharges ==
  ASSUME ChargeInv, NEW t \in pool, Include(t)
  PROVE  /\ ChargeInv'
         /\ Takes(t) \in Nat /\ balance' = balance - Takes(t)
         /\ Sum(Price, t.work) \in Nat /\ Sum(Amount, t.work) \in Nat
         /\ Sum(Price, t.work) <= t.fetch
<1>1. /\ pool' = pool \ {t}
      /\ balance' = balance - Takes(t) /\ Takes(t) <= balance
      /\ stage' = IF Waits(t) THEN [stage EXCEPT ![t.from] = "included"] ELSE stage
      /\ counter' = [counter EXCEPT ![KeyOf[t.from]] = @ + 1]
      /\ times' = [i \in Item |-> IF i \in t.work THEN times[i] + 1 ELSE times[i]]
      /\ UNCHANGED <<work, fetched, cost, ctx, coin, tries, seen, asked>>
      /\ Sum(Price, t.work) <= t.fetch
  BY DEF Include, Acceptable
<1>2. /\ t.from \in Builder /\ t.fetch \in Nat /\ t.work \in SUBSET Item
      /\ IsFiniteSet(t.work) /\ balance \in Nat /\ times \in [Item -> Nat]
      /\ counter \in [Key -> Nat] /\ KeyOf[t.from] \in Key
      /\ stage \in [Builder -> Stage]
  BY KeysAssumption DEF ChargeInv, TypeOK, FiniteWork, Tx
<1>3. Sum(Price, t.work) \in Nat /\ Sum(Amount, t.work) \in Nat
  BY <1>2, PricesAssumption, SumType
<1>4. Takes(t) \in Nat
  BY <1>2, <1>3 DEF Takes
<1>5. TypeOK'
  <2>1. balance' \in Nat
    BY <1>1, <1>2, <1>4
  <2>2. times' \in [Item -> Nat] /\ counter' \in [Key -> Nat]
    BY <1>1, <1>2
  <2>3. stage' \in [Builder -> Stage]
    BY <1>1, <1>2 DEF Stage
  <2> QED BY <1>1, <2>1, <2>2, <2>3 DEF ChargeInv, TypeOK
<1>6. ChargeInv'
  BY <1>1, <1>2, <1>5, QuietCharges DEF ChargeInv, TypeOK, FetchIsPrice
<1> QED BY <1>1, <1>3, <1>4, <1>6

LEMMA NextCharges == ChargeInv /\ [Next]_vars => ChargeInv'
<1> SUFFICES ASSUME ChargeInv, [Next]_vars PROVE ChargeInv'
  OBVIOUS
<1>1. CASE FollowCoin
  <2>1. TypeOK'
    BY <1>1 DEF FollowCoin, ChargeInv, TypeOK, builders, ledger
  <2> QED BY <1>1, <2>1, QuietCharges DEF FollowCoin, ChargeInv, FetchIsPrice, builders
<1>2. CASE UNCHANGED vars
  BY <1>2 DEF vars, builders, ledger, ChargeInv, TypeOK, FiniteWork, WorkAsked,
              CostIsPrice, FetchIsPrice
<1>3. ASSUME NEW b \in Builder, Caller(b) \/ Library(b) \/ TimeOut(b)
      PROVE  ChargeInv'
  BY <1>3, CallerCharges, SignCharges, ReplyCharges, FailureCharges DEF Library
<1>4. ASSUME NEW t \in pool, Settle(t) PROVE ChargeInv'
  BY <1>4, IncludeCharges, RefuseCharges DEF Settle
<1> QED BY <1>1, <1>2, <1>3, <1>4 DEF Next

\* The state of the builders and of the chain keeps its type: above all, no
\* transaction overdraws the coin (transactionBuilder.ts, spawner).
THEOREM BuildersTyped == Spec => []TypeOK
<1>1. ChargeInv => TypeOK
  BY DEF ChargeInv
<1> QED BY <1>1, InitCharge, NextCharges, PTL DEF Spec

\* The cost of a builder is the price of what is in it, after every failure
\* and every success.
THEOREM CostStaysPrice == Spec => []CostIsPrice
<1>1. ChargeInv => CostIsPrice
  BY DEF ChargeInv
<1> QED BY <1>1, InitCharge, NextCharges, PTL DEF Spec

\* Only a step of the nodes executes instructions.
LEMMA OnlyIncludeExecutes ==
  ASSUME [Next]_vars, times' # times
  PROVE  \E t \in pool : Include(t)
BY DEF Next, Caller, Library, Settle, Start, Add, SendCoins, Sign, Unreachable,
       Reply, TimeOut, Refuse, FollowCoin, vars, ledger

\* A builder that is dropped after a failure, as all are, has the account pay
\* the price of what is executed and no more.
THEOREM ChargedFairly == Spec => FairCharge
<1>1. ASSUME ChargeInv, [Next]_vars, NEW t \in pool, times' # times,
             t \notin pool', t.from \notin Retry
      PROVE  balance - balance' = Sum(Price, t.work) + Sum(Amount, t.work)
  <2>1. PICK u \in pool : Include(u)
    BY <1>1, OnlyIncludeExecutes
  <2>2. u = t
    BY <1>1, <2>1 DEF Include
  <2>3. t.fetch = Sum(Price, t.work)
    BY <1>1 DEF ChargeInv, FetchIsPrice
  <2>4. /\ balance' = balance - Takes(t) /\ Takes(t) \in Nat
        /\ Sum(Price, t.work) \in Nat /\ Sum(Amount, t.work) \in Nat
    BY <1>1, <2>1, <2>2, IncludeCharges
  <2>5. balance \in Nat
    BY <1>1 DEF ChargeInv, TypeOK
  <2>6. Takes(t) = Sum(Price, t.work) + Sum(Amount, t.work)
    BY <2>3 DEF Takes
  <2> QED BY <2>4, <2>5, <2>6
<1>2. ChargeInv /\ [Next]_vars =>
         [\A t \in pool : times' # times /\ t \notin pool' /\ t.from \notin Retry
             => balance - balance' = Sum(Price, t.work) + Sum(Amount, t.work)]_vars
  BY <1>1
<1> QED BY <1>2, InitCharge, NextCharges, PTL DEF Spec, FairCharge

-----------------------------------------------------------------------------
(* The account over time.                                                  *)

\* What the instructions that have been executed cost.
Spent == Sum(Price, Done) + Sum(Amount, Done)

\* The account has paid for everything that is executed, and if nobody sends a
\* builder again after a failure it has paid for nothing else.
AccountPays == /\ balance + Spent <= Funds
               /\ Retry = {} => balance + Spent = Funds

AccountInv == BatchInv /\ ChargeInv /\ IsFiniteSet(Done) /\ AccountPays

LEMMA InitAccount == Init => AccountInv
<1> SUFFICES ASSUME Init PROVE AccountInv
  OBVIOUS
<1>1. Done = {}
  BY DEF Init, Done
<1>2. Spent = 0
  BY <1>1, SumNone DEF Spent
<1>3. AccountPays
  BY <1>2, PricesAssumption DEF Init, AccountPays
<1> QED BY <1>1, <1>3, InitBatch, InitCharge, FS_EmptySet DEF AccountInv

\* What is executed has not been paid for before.
LEMMA IncludeKeepsAccount ==
  ASSUME AccountInv, OneChance, NEW t \in pool, Include(t)
  PROVE  IsFiniteSet(Done') /\ AccountPays'
<1>1. /\ Done' = Done \cup t.work /\ Done \cap t.work = {}
      /\ IsFiniteSet(Done) /\ IsFiniteSet(t.work)
      /\ Done \in SUBSET Item /\ t.work \in SUBSET Item
  BY IncludeDone DEF AccountInv, BatchInv, WorkType, NotYet, ChargeInv, FiniteWork, Tx, Done
<1>2. IsFiniteSet(Done')
  BY <1>1, FS_Union
<1>3. Price \in [Item -> Nat] /\ Amount \in [Item -> Nat] /\ Funds \in Nat
  BY PricesAssumption
<1> DEFINE p == Sum(Price, t.work)
           a == Sum(Amount, t.work)
<1>4. Sum(Price, Done \cup t.work) = Sum(Price, Done) + p
  BY <1>1, <1>3, SumUnion
<1>5. Sum(Amount, Done \cup t.work) = Sum(Amount, Done) + a
  BY <1>1, <1>3, SumUnion
<1>6. Sum(Price, Done) \in Nat /\ Sum(Amount, Done) \in Nat
  BY <1>1, <1>3, SumType
<1>7. p \in Nat /\ a \in Nat /\ p <= t.fetch /\ balance' = balance - (t.fetch + a)
  BY IncludeCharges DEF AccountInv, Takes
<1>8. balance \in Nat /\ t.fetch \in Nat
  BY DEF AccountInv, ChargeInv, TypeOK, Tx
<1>9. Retry = {} => t.fetch = p
  BY DEF AccountInv, ChargeInv, FetchIsPrice
<1> HIDE DEF p, a
<1>10. Spent' = Sum(Price, Done') + Sum(Amount, Done')
  BY DEF Spent
<1>11. Spent' = Spent + (p + a) /\ Spent \in Nat
  <2>1. Spent' = (Sum(Price, Done) + p) + (Sum(Amount, Done) + a)
    BY <1>1, <1>4, <1>5, <1>10, Zenon
  <2> QED BY <1>6, <1>7, <2>1 DEF Spent
<1>12. balance + Spent <= Funds /\ (Retry = {} => balance + Spent = Funds)
  BY DEF AccountInv, AccountPays
<1>13. balance' + Spent' = (balance + Spent) - (t.fetch - p)
  BY <1>7, <1>8, <1>11
<1>14. AccountPays'
  BY <1>3, <1>7, <1>8, <1>9, <1>11, <1>12, <1>13 DEF AccountPays
<1> QED BY <1>2, <1>14

\* The chain takes coins in no other step.
LEMMA OnlyIncludeCharges ==
  ASSUME [Next]_vars, <<balance, times>>' # <<balance, times>>
  PROVE  \E t \in pool : Include(t)
BY DEF Next, Caller, Library, Settle, Start, Add, SendCoins, Sign, Unreachable,
       Reply, TimeOut, Refuse, FollowCoin, vars, ledger

LEMMA NextKeepsAccount ==
  ASSUME AccountInv, OneChance, [Next]_vars
  PROVE  AccountInv'
<1>1. BatchInv' /\ ChargeInv'
  BY NextKeepsBatch, NextCharges DEF AccountInv
<1>2. CASE \E t \in pool : Include(t)
  BY <1>1, <1>2, IncludeKeepsAccount DEF AccountInv
<1>3. CASE ~ \E t \in pool : Include(t)
  <2>1. UNCHANGED <<balance, times>>
    BY <1>3, OnlyIncludeCharges
  <2>2. Done' = Done
    BY <2>1 DEF Done
  <2>3. Spent' = Spent
    BY <2>2 DEF Spent
  <2> QED BY <1>1, <2>1, <2>2, <2>3 DEF AccountInv, AccountPays
<1> QED BY <1>2, <1>3

\* However many builders of however many devices race for the coin, are refused
\* or given up: the account pays for all that is executed, once, and, as all
\* callers drop a builder that has failed, for nothing else.
THEOREM AccountIsBalanced == ASSUME OneChance PROVE Spec => []AccountPays
<1>1. AccountInv /\ [Next]_vars => AccountInv'
  BY NextKeepsAccount
<1>2. AccountInv => AccountPays
  BY DEF AccountInv
<1> QED BY <1>1, <1>2, InitAccount, PTL DEF Spec

-----------------------------------------------------------------------------
(* The answers.                                                            *)

\* A builder that waits for its block has its transaction in the pool.
InPool == \A b \in Builder :
             stage[b] = "sent" => \E t \in pool : t.from = b /\ t.try = tries[b]

LEMMA InPoolStep == WorkType /\ InPool /\ [Next]_vars => InPool'
<1> SUFFICES ASSUME WorkType, InPool, [Next]_vars PROVE InPool'
  OBVIOUS
<1>1. stage \in [Builder -> Stage] /\ tries \in [Builder -> Nat]
  BY DEF WorkType
<1>2. ASSUME \A b \in Builder : stage'[b] = "sent" => stage[b] = "sent" /\ tries'[b] = tries[b],
             UNCHANGED pool
      PROVE  InPool'
  BY <1>2 DEF InPool
<1>3. ASSUME NEW b \in Builder, Caller(b) PROVE InPool'
  BY <1>1, <1>2, <1>3 DEF Caller, Start, Add, SendCoins
<1>4. ASSUME NEW b \in Builder, Unreachable(b) \/ Reply(b) \/ TimeOut(b) PROVE InPool'
  BY <1>1, <1>2, <1>4 DEF Unreachable, Reply, TimeOut, AfterFailure
<1>5. ASSUME NEW b \in Builder, Sign(b) PROVE InPool'
  <2>1. /\ stage' = [stage EXCEPT ![b] = "sent"] /\ tries' = tries /\ pool \subseteq pool'
        /\ \E t \in pool' : t.from = b /\ t.try = tries[b]
    <3> DEFINE t == [from |-> b, try |-> tries[b], work |-> ctx[b].work,
                     fetch |-> ctx[b].fetch, counter |-> counter[KeyOf[b]] + 1]
    <3>1. t \in pool' /\ t.from = b /\ t.try = tries[b]
      BY <1>5 DEF Sign
    <3> QED BY <1>5, <3>1 DEF Sign
  <2>2. \A c \in Builder \ {b} : stage'[c] = stage[c]
    BY <2>1, <1>1
  <2> QED BY <2>1, <2>2 DEF InPool
<1>6. ASSUME NEW t \in pool, Settle(t) PROVE InPool'
  <2>1. /\ pool' = pool \ {t} /\ tries' = tries
        /\ \A b \in Builder : stage'[b] = "sent" =>
              stage[b] = "sent" /\ ~(t.from = b /\ t.try = tries[b])
    BY <1>1, <1>6 DEF Settle, Include, Refuse, Waits, AfterFailure
  <2> QED BY <2>1 DEF InPool
<1>7. CASE FollowCoin \/ UNCHANGED vars
  BY <1>2, <1>7 DEF FollowCoin, vars, builders
<1> QED BY <1>3, <1>4, <1>5, <1>6, <1>7 DEF Next, Library

\* A sendCoins that waits for a block waits for a transaction that the nodes
\* still have: each is included or refused, and whoever waits for it is told,
\* whatever other builders of its key do (transactionBuilder.ts:34).  What
\* SendEnds needs besides is fairness.
THEOREM SendsAreInPool == Spec => []InPool
<1>1. Init => InPool
  BY DEF Init, InPool
<1>2. TypeOK => WorkType
  BY DEF TypeOK, WorkType
<1> QED BY <1>1, <1>2, BuildersTyped, InPoolStep, PTL DEF Spec
=============================================================================
