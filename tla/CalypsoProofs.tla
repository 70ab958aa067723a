---------------------------- MODULE CalypsoProofs ----------------------------
(* Files are read by right and keep their names, for any number of browsers,   *)
(* readers, files and transactions: proofs about Calypso.                      *)
EXTENDS Calypso, SequenceTheorems, WellFoundedInduction, TLAPS

USE AgentsDiffer, NamesAssumption, BoundsAssumption

-----------------------------------------------------------------------------
(* Maps of names.                                                          *)

\* A map has one entry for an ID.
Fine(map) == /\ map \in Seq(Entry)
             /\ \A i, j \in DOMAIN map : map[i].id = map[j].id => i = j

\* A set of numbers has a least one.
LEMMA LeastNumber ==
  ASSUME NEW T \in SUBSET Nat, T # {} PROVE \E x \in T : \A y \in T : x <= y
<1> DEFINE R == {ss \in Nat \X Nat : ss[1] < ss[2]}
<1>1. IsWellFoundedOn(R, Nat)
  BY NatLessThanWellFounded DEF OpToRel
<1>2. PICK x \in T : \A y \in T : ~(<<y, x>> \in R)
  <2> HIDE DEF R
  <2>1. QED
    BY <1>1, WFMin
<1>3. \A y \in T : ~(y < x)
  BY <1>2
<1>4. QED
  BY <1>3

\* The first entry with a name is one of the map.
LEMMA FindIs ==
  ASSUME NEW map \in Seq(Entry), NEW n, Find(map, n) # 0
  PROVE  Find(map, n) \in DOMAIN map
<1> DEFINE I == {i \in 1..Len(map) : map[i].name = n}
<1>1. Find(map, n) = IF I # {} THEN Min(I) ELSE 0
  BY DEF Find, SelectInSeq
<1>2. I # {} /\ I \subseteq Nat /\ I \subseteq DOMAIN map
  BY <1>1, LenProperties
<1> HIDE DEF I
<1>3. Min(I) \in I
  BY <1>2, LeastNumber DEF Min
<1>4. QED
  BY <1>1, <1>2, <1>3

\* A new ID gets an entry.
LEMMA SetEntryIs ==
  ASSUME NEW map, Fine(map), NEW n \in Name, NEW f \in File, f \notin Ids(map)
  PROVE  Fine(SetEntry(map, n, f)) /\ Ids(SetEntry(map, n, f)) = Ids(map) \cup {f}
<1> DEFINE e == [id |-> f, name |-> n]
<1> DEFINE new == SetEntry(map, n, f)
<1>1. e \in Entry /\ e.id = f
  BY DEF Entry
<1>2. new = Append(map, e)
  BY DEF SetEntry
<1> HIDE DEF e, new
<1>3. /\ new \in Seq(Entry) /\ Len(map) \in Nat
      /\ DOMAIN map = 1..Len(map) /\ DOMAIN new = 1..(Len(map) + 1)
      /\ \A i \in 1..Len(map) : new[i] = map[i]
      /\ new[Len(map) + 1] = e
  BY <1>1, <1>2, AppendProperties, LenProperties DEF Fine
<1>4. \A i \in DOMAIN new : i \in DOMAIN map \/ i = Len(map) + 1
  BY <1>3
<1>5. \A i \in DOMAIN map : i \in DOMAIN new /\ new[i].id = map[i].id
  BY <1>3
<1>6. Ids(new) = Ids(map) \cup {f}
  <2>1. Len(map) + 1 \in DOMAIN new
    BY <1>3
  <2>2. QED
    BY <1>1, <1>3, <1>4, <1>5, <2>1 DEF Ids
<1>7. \A i \in DOMAIN map : new[i].id # f
  BY <1>5 DEF Ids
<1>8. \A i, j \in DOMAIN new : new[i].id = new[j].id => i = j
  BY <1>1, <1>3, <1>4, <1>5, <1>7 DEF Fine
<1>9. QED
  BY <1>3, <1>6, <1>8 DEF Fine, new

\* The entry of an ID is taken out, and no other.
LEMMA RmEntryIs ==
  ASSUME NEW map, Fine(map), NEW f \in Ids(map)
  PROVE  Fine(RmEntry(map, f)) /\ Ids(RmEntry(map, f)) = Ids(map) \ {f}
<1> DEFINE n == Len(map)
<1> DEFINE k == SelectInSeq(map, LAMBDA e : e.id = f)
<1> DEFINE new == RmEntry(map, f)
<1>1. map \in Seq(Entry) /\ n \in Nat /\ DOMAIN map = 1..n
  BY LenProperties DEF Fine
<1>2. k \in 1..n /\ map[k].id = f
  <2> DEFINE I == {i \in 1..Len(map) : map[i].id = f}
  <2>1. k = IF I # {} THEN Min(I) ELSE 0
    BY DEF SelectInSeq
  <2>2. I # {} /\ I \subseteq Nat
    BY <1>1 DEF Ids
  <2> HIDE DEF I
  <2>3. Min(I) \in I
    BY <2>2, LeastNumber DEF Min
  <2>4. QED
    BY <2>1, <2>2, <2>3 DEF I
<1> DEFINE s == SubSeq(map, 1, k - 1)
<1> DEFINE t == SubSeq(map, k + 1, n)
<1>3. new = s \o t
  BY DEF RmEntry, RemoveAt
<1> HIDE DEF n, k, new
<1>4. /\ s \in Seq(Entry) /\ Len(s) = k - 1
      /\ \A i \in 1..(k - 1) : s[i] = map[i]
  <2>1. \A i \in 1..(k - 1) : map[i] \in Entry
    BY <1>1, <1>2, ElementOfSeq DEF n
  <2>2. QED
    BY <1>1, <1>2, <2>1, SubSeqProperties
<1>5. /\ t \in Seq(Entry) /\ Len(t) = n - k
      /\ \A i \in 1..(n - k) : t[i] = map[k + i]
  <2>1. \A i \in (k + 1)..n : map[i] \in Entry
    BY <1>1, <1>2, ElementOfSeq DEF n
  <2>2. /\ t \in Seq(Entry)
        /\ Len(t) = IF k + 1 <= n THEN n - (k + 1) + 1 ELSE 0
        /\ \A i \in 1..(n - (k + 1) + 1) : t[i] = map[k + 1 + i - 1]
    BY <1>1, <1>2, <2>1, SubSeqProperties
  <2>3. QED
    BY <1>1, <1>2, <2>2
<1> HIDE DEF s, t
<1>6. /\ new \in Seq(Entry) /\ DOMAIN new = 1..(n - 1)
      /\ \A i \in 1..(n - 1) : new[i] = IF i < k THEN map[i] ELSE map[i + 1]
  <2>1. /\ new \in Seq(Entry) /\ Len(new) = Len(s) + Len(t)
        /\ \A i \in 1..(Len(s) + Len(t)) :
              new[i] = IF i <= Len(s) THEN s[i] ELSE t[i - Len(s)]
    BY <1>3, <1>4, <1>5, ConcatProperties
  <2>2. Len(s) + Len(t) = n - 1
    BY <1>1, <1>2, <1>4, <1>5
  <2>3. DOMAIN new = 1..(n - 1)
    BY <2>1, <2>2, LenProperties
  <2>4. ASSUME NEW i \in 1..(n - 1)
        PROVE  new[i] = IF i < k THEN map[i] ELSE map[i + 1]
    <3>1. CASE i < k
      BY <1>1, <1>2, <1>4, <2>1, <2>2, <3>1
    <3>2. CASE ~(i < k)
      <4>1. i - (k - 1) \in 1..(n - k) /\ k + (i - (k - 1)) = i + 1
        BY <1>1, <1>2, <3>2
      <4>2. i \in 1..(Len(s) + Len(t)) /\ ~(i <= Len(s))
        BY <1>1, <1>2, <1>4, <2>2, <3>2
      <4>3. new[i] = t[i - Len(s)]
        BY <2>1, <4>2
      <4>4. QED
        BY <1>4, <1>5, <3>2, <4>1, <4>3
    <3>3. QED
      BY <3>1, <3>2
  <2>5. QED
    BY <2>1, <2>3, <2>4
<1> DEFINE at(i) == IF i < k THEN i ELSE i + 1
<1>7. \A i \in DOMAIN new : at(i) \in DOMAIN map /\ at(i) # k /\ new[i] = map[at(i)]
  BY <1>1, <1>2, <1>6
<1>8. \A i, j \in DOMAIN new : at(i) = at(j) => i = j
  BY <1>1, <1>2, <1>6
<1>9. \A j \in DOMAIN map : j # k => \E i \in DOMAIN new : at(i) = j
  <2> SUFFICES ASSUME NEW j \in DOMAIN map, j # k
               PROVE  \E i \in DOMAIN new : at(i) = j
    OBVIOUS
  <2>1. CASE j < k
    <3>1. j \in DOMAIN new /\ at(j) = j
      BY <1>1, <1>2, <1>6, <2>1
    <3>2. QED
      BY <3>1
  <2>2. CASE ~(j < k)
    <3>1. j - 1 \in DOMAIN new /\ at(j - 1) = j
      BY <1>1, <1>2, <1>6, <2>2
    <3>2. QED
      BY <3>1
  <2>3. QED
    BY <2>1, <2>2
<1> HIDE DEF at
<1>10. \A i \in DOMAIN map : map[i].id = f => i = k
  BY <1>1, <1>2 DEF Fine
<1>11. Fine(new)
  BY <1>6, <1>7, <1>8 DEF Fine
<1>12. Ids(new) \subseteq Ids(map) \ {f}
  BY <1>7, <1>10 DEF Ids
<1>13. Ids(map) \ {f} \subseteq Ids(new)
  <2> SUFFICES ASSUME NEW j \in DOMAIN map, map[j].id # f
               PROVE  map[j].id \in Ids(new)
    BY DEF Ids
  <2>1. PICK i \in DOMAIN new : at(i) = j
    BY <1>2, <1>9
  <2>2. QED
    BY <1>7, <2>1 DEF Ids
<1>14. QED
  BY <1>11, <1>12, <1>13 DEF new

-----------------------------------------------------------------------------
(* The calls on a builder.                                                 *)

Builder == [map : Seq(Entry), instrs : Seq(Instruction), keeps : SUBSET File,
            used : SUBSET File]

\* The ID of every file that the instructions write or delete.
Of(instrs, op) == {instr.id : instr \in {x \in ToSet(instrs) : x.op = op}}

\* The last instruction is an update with this map.
Ends(instrs, map, kept) ==
    /\ Len(instrs) > 0
    /\ instrs[Len(instrs)] = [op |-> "update", map |-> map, keeps |-> kept]

\* What the instructions write is in the map, unless they delete it, and what
\* they delete is not.
Agree(instrs, map) ==
    /\ Of(instrs, "spawn") \subseteq Ids(map) \cup Of(instrs, "delete")
    /\ Of(instrs, "delete") \cap Ids(map) = {}

\* A builder on its way.
StFine(st) ==
    /\ st \in Builder
    /\ Fine(st.map)
    /\ used \subseteq st.used /\ Ids(st.map) \subseteq st.used
    /\ st.keeps \subseteq Ids(st.map)
    /\ Of(st.instrs, "spawn") \subseteq st.used \ used
    /\ Of(st.instrs, "delete") \subseteq st.used
    /\ Of(st.instrs, "read") = {}
    /\ Agree(st.instrs, st.map)

\* Two instructions are put behind the others.
LEMMA TwoMore ==
  ASSUME NEW S, NEW s \in Seq(S), NEW x \in S, NEW y \in S
  PROVE  LET u == s \o <<x, y>>
         IN  /\ u \in Seq(S) /\ Len(u) > 0 /\ u[Len(u)] = y
             /\ ToSet(u) = ToSet(s) \cup {x, y}
<1> DEFINE n == Len(s)
<1> DEFINE t == <<x, y>>
<1> DEFINE u == s \o t
<1>1. n \in Nat /\ DOMAIN s = 1..n
  BY LenProperties
<1>2. t \in Seq(S) /\ Len(t) = 2 /\ t[1] = x /\ t[2] = y
  OBVIOUS
<1> HIDE DEF t, n
<1>3. /\ u \in Seq(S) /\ Len(u) = n + 2
      /\ \A i \in 1..(n + 2) : u[i] = IF i <= n THEN s[i] ELSE t[i - n]
  <2> DEFINE m == Len(t)
  <2>1. m \in Nat /\ m = 2
    BY <1>2
  <2>2. /\ u \in Seq(S) /\ Len(u) = Len(s) + m
        /\ \A i \in 1..(Len(s) + m) : u[i] = IF i <= Len(s) THEN s[i] ELSE t[i - Len(s)]
    BY <1>2, ConcatProperties
  <2> HIDE DEF m
  <2>3. QED
    BY <2>1, <2>2 DEF n
<1> HIDE DEF u
<1>4. /\ DOMAIN u = 1..(n + 2)
      /\ \A i \in 1..n : i \in 1..(n + 2) /\ u[i] = s[i]
      /\ u[n + 1] = x /\ u[n + 2] = y /\ n + 1 \in 1..(n + 2) /\ n + 2 \in 1..(n + 2)
  <2>1. DOMAIN u = 1..(n + 2)
    BY <1>3, LenProperties
  <2>2. \A i \in 1..n : i \in 1..(n + 2) /\ u[i] = s[i]
    BY <1>1, <1>3
  <2>3. n + 1 \in 1..(n + 2) /\ ~(n + 1 <= n) /\ (n + 1) - n = 1
    BY <1>1
  <2>4. n + 2 \in 1..(n + 2) /\ ~(n + 2 <= n) /\ (n + 2) - n = 2
    BY <1>1
  <2>5. u[n + 1] = x /\ u[n + 2] = y
    BY <1>2, <1>3, <2>3, <2>4
  <2>6. QED
    BY <2>1, <2>2, <2>3, <2>4, <2>5
<1>5. \A i \in 1..(n + 2) : i \in 1..n \/ i = n + 1 \/ i = n + 2
  BY <1>1
<1>6. ToSet(u) = ToSet(s) \cup {x, y}
  BY <1>1, <1>4, <1>5 DEF ToSet
<1>7. Len(u) > 0 /\ u[Len(u)] = y
  BY <1>1, <1>3, <1>4
<1>8. QED
  BY <1>3, <1>6, <1>7 DEF t, u

\* setInstanceMap.
LEMMA SetMapIs ==
  ASSUME NEW st \in Builder, NEW first \in Instruction, NEW map \in Seq(Entry),
         NEW kept \in SUBSET File
  PROVE  LET new == SetMap(st, first, map, kept)
             upd == [op |-> "update", map |-> map, keeps |-> kept]
         IN  /\ new \in Builder
             /\ new.map = map /\ new.keeps = kept /\ new.used = st.used
             /\ Ends(new.instrs, map, kept)
             /\ ToSet(new.instrs) = ToSet(st.instrs) \cup {first, upd}
<1> DEFINE upd == [op |-> "update", map |-> map, keeps |-> kept]
<1> DEFINE u == st.instrs \o <<first, upd>>
<1>1. upd \in Instruction
  BY DEF Instruction
<1>2. st.instrs \in Seq(Instruction)
  BY DEF Builder
<1>3. /\ u \in Seq(Instruction) /\ Len(u) > 0 /\ u[Len(u)] = upd
      /\ ToSet(u) = ToSet(st.instrs) \cup {first, upd}
  <2> HIDE DEF upd
  <2>1. QED
    BY <1>1, <1>2, TwoMore
<1>4. SetMap(st, first, map, kept) = [st EXCEPT !.map = map, !.keeps = kept,
                                               !.instrs = u]
  BY DEF SetMap, Builder
<1> HIDE DEF u
<1>5. QED
  BY <1>3, <1>4 DEF Builder, Ends
\* What a further call adds to the instructions.
LEMMA OfMore ==
  ASSUME NEW s, NEW u, NEW first, NEW upd, NEW o \in {"spawn", "delete"}, NEW f,
         first = [op |-> o, id |-> f], upd.op = "update",
         ToSet(u) = ToSet(s) \cup {first, upd}
  PROVE  /\ Of(u, o) = Of(s, o) \cup {f}
         /\ \A op \in {"spawn", "delete", "read"} \ {o} : Of(u, op) = Of(s, op)
<1>1. first.op = o /\ first.id = f
  OBVIOUS
<1>2. Of(u, o) = Of(s, o) \cup {f}
  BY <1>1 DEF Of
<1>3. ASSUME NEW op \in {"spawn", "delete", "read"} \ {o} PROVE Of(u, op) = Of(s, op)
  BY <1>1, <1>3 DEF Of
<1>4. QED
  BY <1>2, <1>3

\* addFile on a builder.
LEMMA AddFileKeeps ==
  ASSUME NEW st, StFine(st), NEW st2 \in AddFile(st)
  PROVE  StFine(st2) /\ Ends(st2.instrs, st2.map, st2.keeps)
<1>1. PICK f \in File \ st.used, n \in Name :
         st2 = [SetMap(st, [op |-> "spawn", id |-> f], SetEntry(st.map, n, f),
                       st.keeps \cup {f}) EXCEPT !.used = @ \cup {f}]
  BY DEF AddFile
<1> DEFINE map == SetEntry(st.map, n, f)
<1> DEFINE kept == st.keeps \cup {f}
<1> DEFINE first == [op |-> "spawn", id |-> f]
<1> DEFINE upd == [op |-> "update", map |-> map, keeps |-> kept]
<1> DEFINE new == SetMap(st, first, map, kept)
<1>2. st \in Builder /\ st.used \in SUBSET File /\ st.keeps \in SUBSET File
  BY DEF StFine, Builder
<1>3. Fine(map) /\ Ids(map) = Ids(st.map) \cup {f}
  BY SetEntryIs DEF StFine
<1>4. first \in Instruction
  BY DEF Instruction
<1>5. map \in Seq(Entry) /\ kept \in SUBSET File
  BY <1>2, <1>3 DEF Fine
<1>6. upd.op = "update"
  OBVIOUS
<1>7. /\ new \in Builder
      /\ new.map = map /\ new.keeps = kept /\ new.used = st.used
      /\ Ends(new.instrs, map, kept)
      /\ ToSet(new.instrs) = ToSet(st.instrs) \cup {first, upd}
  <2> HIDE DEF map, kept, first
  <2>1. QED
    BY <1>2, <1>4, <1>5, SetMapIs
<1>8. st2 = [new EXCEPT !.used = @ \cup {f}]
  BY <1>1
<1> HIDE DEF new, map, upd
<1>9. /\ Of(new.instrs, "spawn") = Of(st.instrs, "spawn") \cup {f}
      /\ Of(new.instrs, "delete") = Of(st.instrs, "delete")
      /\ Of(new.instrs, "read") = Of(st.instrs, "read")
  <2>1. first = [op |-> "spawn", id |-> f]
    OBVIOUS
  <2> HIDE DEF first
  <2>2. /\ Of(new.instrs, "spawn") = Of(st.instrs, "spawn") \cup {f}
        /\ \A op \in {"spawn", "delete", "read"} \ {"spawn"} :
              Of(new.instrs, op) = Of(st.instrs, op)
    BY <1>6, <1>7, <2>1, OfMore
  <2>3. QED
    BY <2>2
<1>10. /\ st2 \in Builder /\ st2.map = map /\ st2.keeps = kept
       /\ st2.instrs = new.instrs /\ st2.used = st.used \cup {f}
  BY <1>2, <1>7, <1>8 DEF Builder
<1>11. f \notin used
  BY DEF StFine
<1>12. Agree(st2.instrs, st2.map)
  <2>1. f \notin Of(st.instrs, "delete")
    BY DEF StFine
  <2>2. QED
    BY <1>3, <1>9, <1>10, <2>1 DEF StFine, Agree
<1>13. /\ Of(st2.instrs, "spawn") \subseteq st2.used \ used
       /\ Of(st2.instrs, "delete") \subseteq st2.used
       /\ Of(st2.instrs, "read") = {}
  BY <1>9, <1>10, <1>11 DEF StFine
<1>14. /\ Fine(st2.map) /\ used \subseteq st2.used /\ Ids(st2.map) \subseteq st2.used
       /\ st2.keeps \subseteq Ids(st2.map)
  BY <1>3, <1>10 DEF StFine
<1>15. Ends(st2.instrs, st2.map, st2.keeps)
  BY <1>7, <1>10
<1>16. QED
  BY <1>10, <1>12, <1>13, <1>14, <1>15 DEF StFine

\* rmFile on a builder.
LEMMA RmFileKeeps ==
  ASSUME NEW st, StFine(st), NEW st2 \in RmFile(st)
  PROVE  StFine(st2) /\ Ends(st2.instrs, st2.map, st2.keeps)
<1>1. PICK n \in Name :
         /\ Find(st.map, n) # 0
         /\ st2 = SetMap(st, [op |-> "delete", id |-> st.map[Find(st.map, n)].id],
                         RmEntry(st.map, st.map[Find(st.map, n)].id),
                         st.keeps \ {st.map[Find(st.map, n)].id})
  BY DEF RmFile
<1> DEFINE f == st.map[Find(st.map, n)].id
<1> DEFINE map == RmEntry(st.map, f)
<1> DEFINE kept == st.keeps \ {f}
<1> DEFINE first == [op |-> "delete", id |-> f]
<1> DEFINE upd == [op |-> "update", map |-> map, keeps |-> kept]
<1>2. st \in Builder /\ st.used \in SUBSET File /\ st.keeps \in SUBSET File
  BY DEF StFine, Builder
<1>3. f \in Ids(st.map)
  <2>1. Find(st.map, n) \in DOMAIN st.map
    BY <1>1, <1>2, FindIs DEF Builder
  <2>2. QED
    BY <2>1 DEF Ids
<1>4. st2 = SetMap(st, first, map, kept)
  BY <1>1
<1> HIDE DEF f
<1>5. f \in File
  BY <1>2, <1>3 DEF StFine
<1>6. Fine(map) /\ Ids(map) = Ids(st.map) \ {f}
  BY <1>3, RmEntryIs DEF StFine
<1>7. first \in Instruction
  BY <1>5 DEF Instruction
<1>8. map \in Seq(Entry) /\ kept \in SUBSET File
  BY <1>2, <1>6 DEF Fine
<1>9. upd.op = "update"
  OBVIOUS
<1>10. /\ st2 \in Builder
       /\ st2.map = map /\ st2.keeps = kept /\ st2.used = st.used
       /\ Ends(st2.instrs, map, kept)
       /\ ToSet(st2.instrs) = ToSet(st.instrs) \cup {first, upd}
  <2> HIDE DEF map, kept, first
  <2>1. QED
    BY <1>2, <1>4, <1>7, <1>8, SetMapIs
<1> HIDE DEF map, upd
<1>11. /\ Of(st2.instrs, "delete") = Of(st.instrs, "delete") \cup {f}
       /\ Of(st2.instrs, "spawn") = Of(st.instrs, "spawn")
       /\ Of(st2.instrs, "read") = Of(st.instrs, "read")
  <2>1. first = [op |-> "delete", id |-> f]
    OBVIOUS
  <2> HIDE DEF first
  <2>2. /\ Of(st2.instrs, "delete") = Of(st.instrs, "delete") \cup {f}
        /\ \A op \in {"spawn", "delete", "read"} \ {"delete"} :
              Of(st2.instrs, op) = Of(st.instrs, op)
    BY <1>9, <1>10, <2>1, OfMore
  <2>3. QED
    BY <2>2
<1>12. Agree(st2.instrs, st2.map)
  BY <1>6, <1>10, <1>11 DEF StFine, Agree
<1>13. /\ Of(st2.instrs, "spawn") \subseteq st2.used \ used
       /\ Of(st2.instrs, "delete") \subseteq st2.used
       /\ Of(st2.instrs, "read") = {}
  BY <1>3, <1>10, <1>11 DEF StFine
<1>14. /\ Fine(st2.map) /\ used \subseteq st2.used /\ Ids(st2.map) \subseteq st2.used
       /\ st2.keeps \subseteq Ids(st2.map)
  BY <1>6, <1>10 DEF StFine
<1>15. QED
  BY <1>10, <1>12, <1>13, <1>14 DEF StFine

LEMMA CallKeeps ==
  ASSUME NEW st, StFine(st), NEW st2 \in Call(st)
  PROVE  StFine(st2) /\ Ends(st2.instrs, st2.map, st2.keeps)
BY AddFileKeeps, RmFileKeeps DEF Call
-----------------------------------------------------------------------------
(* The invariant.                                                          *)

\* A transaction that writes or deletes ends with an update of the map that
\* agrees with it and has all files that the browser keeps.
TxFine(t, us) ==
    /\ Of(t.instrs, "spawn") \subseteq us
    /\ \/ \A instr \in ToSet(t.instrs) : instr.op = "read"
       \/ \E map, kept : /\ Ends(t.instrs, map, kept)
                         /\ Fine(map) /\ Ids(map) \subseteq us
                         /\ kept \subseteq Ids(map)
                         /\ Agree(t.instrs, map)

SentFine == \A t \in sent : TxFine(t, used)

\* A file is written by one transaction, and once.
SpawnsApart ==
    \A t, u \in sent :
       Of(t.instrs, "spawn") \cap Of(u.instrs, "spawn") # {} => t = u
SpawnsFresh ==
    \A t \in sent : \A f \in Of(t.instrs, "spawn") : chain.write[f] = "none"
WrittenUsed == \A f \in File : chain.write[f] # "none" => f \in used

MapsFine == /\ Fine(chain.map) /\ Ids(chain.map) \subseteq used
            /\ \A b \in Browser : /\ Fine(view[b].map)
                                  /\ Ids(view[b].map) \subseteq used
                                  /\ keeps[b] \subseteq Ids(view[b].map)

\* Nobody waits for two transactions, and a read that is waited for belongs to
\* the call that is sending.
WaitOne == \A t, u \in sent : t.wait /\ u.wait /\ t.from = u.from => t = u
ReadsWait ==
    \A t \in sent : t.wait /\ Instrs(t, "read") # {} => get[t.from].stage = "sending"

ReadsByReaders == \A r \in chain.reads : r.by \in chain.readers

\* What a call of getFile has found out remains true.
GetsFine ==
    \A a \in Agent : get[a].stage # "none" =>
       /\ get[a].late => chain.write[get[a].id] = "deleted"
       /\ get[a].rd => ReadThere(a)
       /\ get[a].wr => ~get[a].late
       /\ get[a].stage = "content" => get[a].wr /\ get[a].rd

\* The inductive invariant, in three parts: transactions, maps, reads.
TxInv == /\ sent \subseteq Tx
         /\ SentFine /\ SpawnsApart /\ SpawnsFresh /\ WaitOne
MapInv == WrittenUsed /\ MapsFine /\ KeepsFiles
ReadInv == ReadsWait /\ ReadsByReaders /\ GetsFine
CalInv == TypeOK /\ TxInv /\ MapInv /\ ReadInv

LEMMA InitInv == Init => CalInv
<1> SUFFICES ASSUME Init PROVE CalInv
  OBVIOUS
<1>1. PICK S \in SUBSET Reader :
         chain = [write |-> [f \in File |-> "none"], readers |-> Browser \cup S,
                  reads |-> {}, map |-> <<>>, updates |-> 0, kept |-> {}]
  BY DEF Init
<1>2. <<>> \in Seq(Entry) /\ Fine(<<>>) /\ Ids(<<>>) = {}
  BY DEF Fine, Ids
<1>3. TypeOK
  BY <1>1, <1>2 DEF Init, TypeOK, Chain, Agent, Idle
<1>4. TxInv
  BY DEF Init, TxInv, SentFine, SpawnsApart, SpawnsFresh, WaitOne
<1>5. MapInv
  BY <1>1, <1>2 DEF Init, MapInv, WrittenUsed, MapsFine, KeepsFiles
<1>6. ReadInv
  BY <1>1 DEF Init, ReadInv, ReadsWait, ReadsByReaders, GetsFine
<1>7. QED
  BY <1>3, <1>4, <1>5, <1>6 DEF CalInv

-----------------------------------------------------------------------------
(* Transactions are sent and settled.                                      *)

\* More IDs that are used do no harm.
LEMMA TxStaysFine ==
  ASSUME NEW t, NEW us, NEW vs, us \subseteq vs, TxFine(t, us) PROVE TxFine(t, vs)
BY DEF TxFine

\* A transaction that writes new files only.
LEMMA SendKeeps ==
  ASSUME CalInv, NEW t \in Tx, sent' = sent \cup {t}, UNCHANGED chain,
         used \subseteq used', TxFine(t, used'),
         Of(t.instrs, "spawn") \cap used = {},
         Of(t.instrs, "spawn") \subseteq File,
         t.wait => ~Waiting(t.from)
  PROVE  TxInv'
<1>1. SentFine'
  BY TxStaysFine DEF CalInv, TxInv, SentFine
<1>2. SpawnsApart'
  <2>1. \A u \in sent : Of(u.instrs, "spawn") \subseteq used
    BY DEF CalInv, TxInv, SentFine, TxFine
  <2>2. QED
    BY <2>1 DEF CalInv, TxInv, SpawnsApart
<1>3. SpawnsFresh'
  BY DEF CalInv, TxInv, MapInv, SpawnsFresh, WrittenUsed
<1>4. WaitOne'
  BY DEF CalInv, TxInv, WaitOne, Waiting
<1>5. QED
  BY <1>1, <1>2, <1>3, <1>4 DEF CalInv, TxInv

\* A transaction goes, and files that the others write are still not written.
LEMMA DropKeeps ==
  ASSUME CalInv, NEW t \in sent, sent' = sent \ {t}, UNCHANGED used,
         \A u \in sent \ {t} : \A f \in Of(u.instrs, "spawn") : chain'.write[f] = "none"
  PROVE  TxInv'
BY DEF CalInv, TxInv, SentFine, SpawnsApart, SpawnsFresh, WaitOne

\* A transaction is not waited for any longer.
LEMMA AbandonKeepsTx ==
  ASSUME CalInv, NEW t \in sent, Abandon(t) PROVE TxInv'
<1> DEFINE v == [t EXCEPT !.wait = FALSE]
<1>1. t \in Tx
  BY DEF CalInv, TypeOK
<1>2. v \in Tx /\ v.instrs = t.instrs /\ v.from = t.from /\ v.wait = FALSE
  BY <1>1 DEF Tx
<1>3. sent' = (sent \ {t}) \cup {v} /\ UNCHANGED <<chain, used>>
  BY DEF Abandon
<1> HIDE DEF v
<1>4. TxFine(v, used)
  BY <1>2 DEF CalInv, TxInv, SentFine, TxFine
<1>5. SentFine'
  BY <1>3, <1>4 DEF CalInv, TxInv, SentFine
<1>6. SpawnsApart'
  BY <1>2, <1>3 DEF CalInv, TxInv, SpawnsApart
<1>7. SpawnsFresh'
  BY <1>2, <1>3 DEF CalInv, TxInv, SpawnsFresh
<1>8. WaitOne'
  BY <1>2, <1>3 DEF CalInv, TxInv, WaitOne
<1>9. sent' \subseteq Tx
  BY <1>2, <1>3 DEF CalInv, TxInv
<1>10. QED
  BY <1>5, <1>6, <1>7, <1>8, <1>9 DEF TxInv

\* The call that a read belongs to goes on, and knows no more than before.
LEMMA SettledKeeps ==
  ASSUME CalInv, NEW t \in sent, NEW stage \in {"sent", "error"}, Settled(t, stage),
         \/ sent' = sent \ {t}
         \/ sent' = (sent \ {t}) \cup {[t EXCEPT !.wait = FALSE]},
         chain.reads \subseteq chain'.reads,
         \A f \in File : chain.write[f] = "deleted" => chain'.write[f] = "deleted"
  PROVE  /\ get' \in [Agent -> Idle \cup Got]
         /\ ReadsWait' /\ GetsFine'
<1> DEFINE reading == t.wait /\ Instrs(t, "read") # {}
<1>1. t \in Tx /\ t.from \in Agent
  BY DEF CalInv, TypeOK, Tx
<1>2. reading => get[t.from].stage = "sending"
  BY DEF CalInv, ReadInv, ReadsWait
<1>3. \A a \in Agent : get[a].stage # "none" => get[a] \in Got
  BY DEF CalInv, TypeOK, Idle
<1>4. get' = IF reading THEN [get EXCEPT ![t.from].stage = stage] ELSE get
  BY DEF Settled
<1> HIDE DEF reading
<1>5. get' \in [Agent -> Idle \cup Got]
  <2>1. CASE reading
    <3>1. [get[t.from] EXCEPT !.stage = stage] \in Got
      BY <1>1, <1>2, <1>3, <2>1 DEF Got, Stage
    <3>2. get' = [get EXCEPT ![t.from] = [get[t.from] EXCEPT !.stage = stage]]
      BY <1>4, <2>1
    <3>3. QED
      BY <1>1, <3>1, <3>2 DEF CalInv, TypeOK
  <2>2. QED
    BY <1>4, <2>1 DEF CalInv, TypeOK
<1>6. \A a \in Agent : /\ get'[a].stage # "none" => get[a].stage # "none"
                       /\ get'[a].stage # "none" =>
                             /\ get'[a].id = get[a].id /\ get'[a].nth = get[a].nth
                             /\ get'[a].late = get[a].late
                             /\ get'[a].wr = get[a].wr /\ get'[a].rd = get[a].rd
                             /\ get'[a].stage \in {get[a].stage, stage}
  <2> SUFFICES ASSUME NEW a \in Agent, get'[a].stage # "none"
               PROVE  /\ get[a].stage # "none"
                      /\ get'[a].id = get[a].id /\ get'[a].nth = get[a].nth
                      /\ get'[a].late = get[a].late
                      /\ get'[a].wr = get[a].wr /\ get'[a].rd = get[a].rd
                      /\ get'[a].stage \in {get[a].stage, stage}
    OBVIOUS
  <2>1. CASE reading /\ a = t.from
    <3>1. get'[a] = [get[a] EXCEPT !.stage = stage] /\ get[a] \in Got
      BY <1>1, <1>2, <1>3, <1>4, <2>1 DEF CalInv, TypeOK
    <3>2. QED
      BY <1>2, <2>1, <3>1 DEF Got
  <2>2. CASE ~(reading /\ a = t.from)
    <3>1. get'[a] = get[a]
      BY <1>1, <1>4, <2>2 DEF CalInv, TypeOK
    <3>2. QED
      BY <3>1
  <2>3. QED
    BY <2>1, <2>2
<1>7. GetsFine'
  <2> SUFFICES ASSUME NEW a \in Agent, get'[a].stage # "none"
               PROVE  /\ get'[a].late => chain'.write[get'[a].id] = "deleted"
                      /\ get'[a].rd => ReadThere(a)'
                      /\ get'[a].wr => ~get'[a].late
                      /\ get'[a].stage = "content" => get'[a].wr /\ get'[a].rd
    BY DEF GetsFine
  <2>1. /\ get[a].late => chain.write[get[a].id] = "deleted"
        /\ get[a].rd => ReadThere(a)
        /\ get[a].wr => ~get[a].late
        /\ get[a].stage = "content" => get[a].wr /\ get[a].rd
    BY <1>6 DEF CalInv, ReadInv, GetsFine
  <2>2. get[a].id \in File
    BY <1>3, <1>6 DEF Got
  <2>3. ReadThere(a) => ReadThere(a)'
    BY <1>6 DEF ReadThere
  <2>4. QED
    BY <1>6, <2>1, <2>2, <2>3
<1>8. ReadsWait'
  <2> SUFFICES ASSUME NEW u \in sent', u.wait, Instrs(u, "read") # {}
               PROVE  get'[u.from].stage = "sending"
    BY DEF ReadsWait, Instrs
  <2>1. u \in sent /\ u # t
    BY <1>1 DEF Tx
  <2>2. reading => u.from # t.from
    BY <2>1 DEF CalInv, TxInv, WaitOne, reading
  <2>3. get[u.from].stage = "sending" /\ u.from \in Agent
    BY <2>1 DEF CalInv, ReadInv, ReadsWait, TypeOK, Tx
  <2>4. get'[u.from] = get[u.from]
    BY <1>1, <1>4, <2>2, <2>3 DEF CalInv, TypeOK
  <2>5. QED
    BY <2>3, <2>4
<1>9. QED
  BY <1>5, <1>7, <1>8

\* What does not touch the chain, the calls or the maps.
LEMMA MapsStay ==
  ASSUME CalInv, UNCHANGED <<chain, used, view, keeps>>
  PROVE  MapInv'
BY DEF CalInv, MapInv, WrittenUsed, MapsFine, KeepsFiles

LEMMA RefuseKeeps == ASSUME CalInv, NEW t \in sent, Refuse(t) PROVE CalInv'
<1>1. UNCHANGED <<chain, used, view, keeps>> /\ sent' = sent \ {t} /\ Settled(t, "error")
  BY DEF Refuse
<1>2. TxInv'
  BY <1>1, DropKeeps DEF CalInv, TxInv, SpawnsFresh
<1>3. get' \in [Agent -> Idle \cup Got] /\ ReadsWait' /\ GetsFine'
  BY <1>1, SettledKeeps
<1>4. ReadsByReaders'
  BY <1>1 DEF CalInv, ReadInv, ReadsByReaders
<1>5. TypeOK'
  BY <1>1, <1>2, <1>3 DEF CalInv, TypeOK, TxInv
<1>6. QED
  BY <1>1, <1>2, <1>3, <1>4, <1>5, MapsStay DEF CalInv, ReadInv

LEMMA AbandonKeeps == ASSUME CalInv, NEW t \in sent, Abandon(t) PROVE CalInv'
<1>1. /\ UNCHANGED <<chain, used, view, keeps>>
      /\ sent' = (sent \ {t}) \cup {[t EXCEPT !.wait = FALSE]}
      /\ Settled(t, "error")
  BY DEF Abandon
<1>2. TxInv'
  BY AbandonKeepsTx
<1>3. get' \in [Agent -> Idle \cup Got] /\ ReadsWait' /\ GetsFine'
  BY <1>1, SettledKeeps
<1>4. ReadsByReaders'
  BY <1>1 DEF CalInv, ReadInv, ReadsByReaders
<1>5. TypeOK'
  BY <1>1, <1>2, <1>3 DEF CalInv, TypeOK, TxInv
<1>6. QED
  BY <1>1, <1>2, <1>3, <1>4, <1>5, MapsStay DEF CalInv, ReadInv
-----------------------------------------------------------------------------
(* Transactions are included.                                              *)

\* An update that ends a transaction is its last.
LEMMA LastUpdateIs ==
  ASSUME NEW t \in Tx, NEW map, NEW kept, Ends(t.instrs, map, kept)
  PROVE  LastUpdate(t).map = map /\ LastUpdate(t).keeps = kept
<1> DEFINE n == Len(t.instrs)
<1> DEFINE I == {i \in 1..n : t.instrs[i].op = "update"}
<1>1. n \in Nat
  BY LenProperties DEF Tx
<1>2. n \in I
  BY <1>1 DEF Ends
<1>3. Max(I) = n
  <2>1. \A i \in I : i \in Nat /\ n >= i
    BY <1>1
  <2>2. PICK m \in I : m = Max(I) /\ \A y \in I : m >= y
    BY <1>2, <2>1 DEF Max
  <2>3. m >= n /\ n >= m /\ m \in Nat
    BY <1>2, <2>1, <2>2
  <2>4. QED
    BY <1>1, <2>2, <2>3
<1>4. SelectLastInSeq(t.instrs, LAMBDA instr : instr.op = "update") = Max(I)
  BY <1>2 DEF SelectLastInSeq
<1>5. LastUpdate(t) = t.instrs[n]
  BY <1>3, <1>4 DEF LastUpdate
<1>6. QED
  BY <1>5 DEF Ends

\* The chain after a transaction.
LEMMA IncludeIs ==
  ASSUME CalInv, NEW t \in sent, Include(t)
  PROVE  /\ chain' \in Chain
         /\ chain'.readers = chain.readers
         /\ chain.reads \subseteq chain'.reads
         /\ \A r \in chain'.reads \ chain.reads :
               r.by = t.from /\ Instrs(t, "read") # {}
         /\ \A f \in File : chain'.write[f] =
               IF f \in Of(t.instrs, "delete") THEN "deleted"
               ELSE IF f \in Of(t.instrs, "spawn") THEN "there" ELSE chain.write[f]
         /\ \/ /\ \A instr \in ToSet(t.instrs) : instr.op = "read"
               /\ chain'.map = chain.map /\ chain'.kept = chain.kept
            \/ /\ Fine(chain'.map) /\ Ids(chain'.map) \subseteq used
               /\ chain'.kept \subseteq Ids(chain'.map)
               /\ Agree(t.instrs, chain'.map)
<1>1. t \in Tx /\ chain \in Chain /\ TxFine(t, used) /\ used \subseteq File
  BY DEF CalInv, TypeOK, TxInv, SentFine
<1>2. \A instr \in ToSet(t.instrs) : instr \in Instruction
  <2>1. t.instrs \in Seq(Instruction)
    BY <1>1 DEF Tx
  <2>2. QED
    BY <2>1, ElementOfSeq, LenProperties DEF ToSet
<1> DEFINE write == [f \in File |-> CASE f \in Of(t.instrs, "delete") -> "deleted"
                                     [] f \in Of(t.instrs, "spawn") \ Of(t.instrs, "delete")
                                        -> "there"
                                     [] OTHER -> chain.write[f]]
<1> DEFINE new == {[by |-> t.from, id |-> instr.id, nth |-> instr.nth] :
                   instr \in Instrs(t, "read")}
<1> DEFINE written == [chain EXCEPT !.write = write, !.reads = @ \cup new]
<1>3. chain' = IF Instrs(t, "update") = {} THEN written
               ELSE [written EXCEPT !.map = LastUpdate(t).map,
                                    !.kept = LastUpdate(t).keeps,
                                    !.updates = @ + 1]
  BY DEF Include, Of, Instrs
<1>4. write \in [File -> {"none", "there", "deleted"}]
  BY <1>1 DEF Chain
<1>5. new \in SUBSET [by : Agent, id : File, nth : Nat]
  BY <1>1, <1>2 DEF Instrs, Instruction, Tx
<1>6. \A r \in new : r.by = t.from /\ Instrs(t, "read") # {}
  OBVIOUS
<1>7. \A f \in File : write[f] =
         IF f \in Of(t.instrs, "delete") THEN "deleted"
         ELSE IF f \in Of(t.instrs, "spawn") THEN "there" ELSE chain.write[f]
  OBVIOUS
<1> HIDE DEF write, new
<1>8. /\ written \in Chain
      /\ written.readers = chain.readers
      /\ written.reads = chain.reads \cup new
      /\ written.write = write
      /\ written.map = chain.map /\ written.kept = chain.kept
  BY <1>1, <1>4, <1>5 DEF Chain
<1> HIDE DEF written
<1>9. CASE \A instr \in ToSet(t.instrs) : instr.op = "read"
  <2>1. Instrs(t, "update") = {}
    BY <1>9 DEF Instrs
  <2>2. chain' = written
    BY <1>3, <2>1
  <2>3. QED
    BY <1>6, <1>7, <1>8, <1>9, <2>2
<1>10. CASE \E map, kept : /\ Ends(t.instrs, map, kept)
                           /\ Fine(map) /\ Ids(map) \subseteq used
                           /\ kept \subseteq Ids(map)
                           /\ Agree(t.instrs, map)
  <2>1. PICK map, kept : /\ Ends(t.instrs, map, kept)
                         /\ Fine(map) /\ Ids(map) \subseteq used
                         /\ kept \subseteq Ids(map)
                         /\ Agree(t.instrs, map)
    BY <1>10
  <2>2. Instrs(t, "update") # {}
    <3>1. Len(t.instrs) \in DOMAIN t.instrs
      BY <1>1, <2>1, LenProperties DEF Tx, Ends
    <3>2. t.instrs[Len(t.instrs)] \in Instrs(t, "update")
      BY <2>1, <3>1 DEF Instrs, Ends, ToSet
    <3>3. QED
      BY <3>2
  <2>3. LastUpdate(t).map = map /\ LastUpdate(t).keeps = kept
    BY <1>1, <2>1, LastUpdateIs
  <2>4. chain' = [written EXCEPT !.map = map, !.kept = kept, !.updates = @ + 1]
    BY <1>3, <2>2, <2>3
  <2>5. map \in Seq(Entry) /\ kept \in SUBSET File
    BY <1>1, <2>1 DEF Fine
  <2>6. /\ chain' \in Chain
        /\ chain'.readers = written.readers /\ chain'.reads = written.reads
        /\ chain'.write = written.write /\ chain'.map = map /\ chain'.kept = kept
    <3> DEFINE n == written.updates + 1
    <3>1. n \in Nat
      BY <1>8 DEF Chain
    <3>2. chain' = [written EXCEPT !.map = map, !.kept = kept, !.updates = n]
      BY <2>4
    <3> HIDE DEF n
    <3>3. [written EXCEPT !.map = map, !.kept = kept, !.updates = n] \in Chain
      BY <1>8, <2>5, <3>1 DEF Chain
    <3>4. QED
      BY <1>8, <3>2, <3>3 DEF Chain
  <2>7. QED
    BY <1>6, <1>7, <1>8, <2>1, <2>6
<1>11. QED
  BY <1>1, <1>9, <1>10 DEF TxFine

LEMMA IncludeKeeps == ASSUME CalInv, NEW t \in sent, Include(t) PROVE CalInv'
<1> DEFINE spawns == Of(t.instrs, "spawn")
<1> DEFINE deletes == Of(t.instrs, "delete")
<1>1. UNCHANGED <<used, view, keeps>> /\ sent' = sent \ {t} /\ Settled(t, "sent")
  BY DEF Include
<1>2. /\ chain' \in Chain
      /\ chain'.readers = chain.readers
      /\ chain.reads \subseteq chain'.reads
      /\ \A r \in chain'.reads \ chain.reads : r.by = t.from /\ Instrs(t, "read") # {}
      /\ \A f \in File : chain'.write[f] =
            IF f \in deletes THEN "deleted" ELSE IF f \in spawns THEN "there"
            ELSE chain.write[f]
      /\ \/ /\ \A instr \in ToSet(t.instrs) : instr.op = "read"
            /\ chain'.map = chain.map /\ chain'.kept = chain.kept
         \/ /\ Fine(chain'.map) /\ Ids(chain'.map) \subseteq used
            /\ chain'.kept \subseteq Ids(chain'.map)
            /\ Agree(t.instrs, chain'.map)
  BY IncludeIs
<1>3. spawns \subseteq used /\ used \subseteq File /\ TxFine(t, used)
  BY DEF CalInv, TypeOK, TxInv, SentFine, TxFine
<1>4. \A f \in spawns : chain.write[f] = "none"
  BY DEF CalInv, TxInv, SpawnsFresh
<1>5. \A f \in deletes : f \in spawns \/ chain.write[f] = "there"
  <2> SUFFICES ASSUME NEW f \in deletes, chain.write[f] # "there" PROVE f \in spawns
    OBVIOUS
  <2>1. PICK i \in DOMAIN t.instrs : t.instrs[i].op = "delete" /\ t.instrs[i].id = f
    BY DEF Of, ToSet
  <2>2. Possible(t, i)
    BY DEF Include, Acceptable
  <2>3. PICK j \in 1..i - 1 : t.instrs[j].op = "spawn" /\ t.instrs[j].id = f
    BY <2>1, <2>2 DEF Possible
  <2>4. j \in DOMAIN t.instrs
    BY <2>3, LenProperties DEF CalInv, TypeOK, Tx
  <2>5. QED
    BY <2>3, <2>4 DEF Of, ToSet
<1>6. deletes \subseteq File
  <2>1. t.instrs \in Seq(Instruction)
    BY DEF CalInv, TypeOK, Tx
  <2>2. \A instr \in ToSet(t.instrs) : instr \in Instruction
    BY <2>1, ElementOfSeq, LenProperties DEF ToSet
  <2>3. QED
    BY <2>2 DEF Of, Instruction
<1> HIDE DEF spawns, deletes
<1>7. \A f \in File : chain.write[f] = "deleted" => chain'.write[f] = "deleted"
  BY <1>2, <1>4
<1>8. TxInv'
  <2> SUFFICES ASSUME NEW u \in sent \ {t}, NEW f \in Of(u.instrs, "spawn")
               PROVE  chain'.write[f] = "none"
    BY <1>1, DropKeeps
  <2>1. f \notin spawns /\ chain.write[f] = "none"
    BY DEF CalInv, TxInv, SpawnsApart, SpawnsFresh, spawns
  <2>2. f \notin deletes
    BY <1>5, <2>1
  <2>3. f \in File
    BY DEF CalInv, TypeOK, TxInv, SentFine, TxFine
  <2>4. QED
    BY <1>2, <2>1, <2>2, <2>3
<1>9. MapInv'
  <2>1. WrittenUsed'
    BY <1>1, <1>2, <1>3, <1>5, <1>6 DEF CalInv, MapInv, WrittenUsed
  <2>2. MapsFine' /\ KeepsFiles'
    BY <1>1, <1>2 DEF CalInv, MapInv, MapsFine, KeepsFiles
  <2>3. QED
    BY <2>1, <2>2 DEF MapInv
<1>10. get' \in [Agent -> Idle \cup Got] /\ ReadsWait' /\ GetsFine'
  BY <1>1, <1>2, <1>7, SettledKeeps
<1>11. ReadsByReaders'
  <2> SUFFICES ASSUME NEW r \in chain'.reads PROVE r.by \in chain.readers
    BY <1>2 DEF ReadsByReaders
  <2>1. CASE r \in chain.reads
    BY <2>1 DEF CalInv, ReadInv, ReadsByReaders
  <2>2. CASE r \notin chain.reads
    <3>1. r.by = t.from /\ Instrs(t, "read") # {}
      BY <1>2, <2>2
    <3>2. PICK i \in DOMAIN t.instrs : t.instrs[i].op = "read"
      BY <3>1 DEF Instrs, ToSet
    <3>3. HasAccess(t.from)
      BY <3>2 DEF Include, Acceptable, Authorised
    <3>4. QED
      BY <3>1, <3>3 DEF HasAccess
  <2>3. QED
    BY <2>1, <2>2
<1>12. TypeOK'
  BY <1>1, <1>2, <1>8, <1>10 DEF CalInv, TypeOK, TxInv
<1>13. QED
  BY <1>8, <1>9, <1>10, <1>11, <1>12 DEF CalInv, ReadInv
-----------------------------------------------------------------------------
(* The browsers of the account.                                            *)

\* A transaction that reads nothing leaves the calls of getFile alone.
LEMMA ReadsStay ==
  ASSUME CalInv, UNCHANGED <<chain, get>>,
         \A t \in sent' \ sent : Of(t.instrs, "read") = {}
  PROVE  ReadInv'
<1>1. ReadsWait'
  <2>1. \A t : Of(t.instrs, "read") = {} => Instrs(t, "read") = {}
    BY DEF Of, Instrs
  <2>2. QED
    BY <2>1 DEF CalInv, ReadInv, ReadsWait, Instrs
<1>2. ReadsByReaders' /\ GetsFine'
  BY DEF CalInv, ReadInv, ReadsByReaders, GetsFine, ReadThere
<1>3. QED
  BY <1>1, <1>2 DEF ReadInv

\* A builder without calls.
LEMMA StartFine ==
  ASSUME CalInv, NEW b \in Browser PROVE StFine(Start(b))
<1> DEFINE st == Start(b)
<1>1. /\ st.map = view[b].map /\ st.instrs = <<>>
      /\ st.keeps = keeps[b] /\ st.used = used
  BY DEF Start
<1>2. st \in Builder
  <2>1. view[b].map \in Seq(Entry) /\ keeps[b] \in SUBSET File /\ used \in SUBSET File
    BY DEF CalInv, TypeOK
  <2>2. <<>> \in Seq(Instruction)
    OBVIOUS
  <2>3. QED
    BY <2>1, <2>2 DEF Start, Builder
<1> HIDE DEF st
<1>3. \A op : Of(st.instrs, op) = {}
  <2>1. ToSet(st.instrs) = {}
    BY <1>1 DEF ToSet
  <2>2. QED
    BY <2>1 DEF Of
<1>4. StFine(st)
  BY <1>1, <1>2, <1>3 DEF CalInv, MapInv, MapsFine, StFine, Agree
<1>5. QED
  BY <1>4 DEF st

LEMMA EditKeeps == ASSUME CalInv, NEW b \in Browser, Edit(b) PROVE CalInv'
<1>1. PICK st \in Calls(b) :
         /\ view' = [view EXCEPT ![b].map = st.map]
         /\ keeps' = [keeps EXCEPT ![b] = st.keeps]
         /\ used' = st.used
         /\ SendTx(b, st.instrs, TRUE)
  BY DEF Edit
<1>2. UNCHANGED <<chain, get>> /\ ~Waiting(b)
  BY DEF Edit
<1>3. StFine(st) /\ Ends(st.instrs, st.map, st.keeps)
  BY StartFine, CallKeeps DEF Calls
<1> DEFINE t == [from |-> b, instrs |-> st.instrs, wait |-> TRUE]
<1>4. st \in Builder /\ st.map \in Seq(Entry) /\ st.keeps \in SUBSET File
      /\ st.used \in SUBSET File /\ st.instrs \in Seq(Instruction)
  BY <1>3 DEF StFine, Builder
<1>5. t \in Tx /\ t.instrs = st.instrs /\ t.from = b
  BY <1>4 DEF Tx, Agent
<1>6. sent' = sent \cup {t}
  BY <1>1 DEF SendTx
<1> HIDE DEF t
<1>7. TxFine(t, st.used) /\ used \subseteq st.used
  BY <1>3, <1>5 DEF TxFine, StFine
<1>8. TxInv'
  <2>1. Of(t.instrs, "spawn") \cap used = {} /\ Of(t.instrs, "spawn") \subseteq File
    BY <1>3, <1>4, <1>5 DEF StFine
  <2>2. QED
    BY <1>1, <1>2, <1>5, <1>6, <1>7, <2>1, SendKeeps
<1>9. ReadInv'
  <2>1. Of(t.instrs, "read") = {}
    BY <1>3, <1>5 DEF StFine
  <2>2. QED
    BY <1>2, <1>6, <2>1, ReadsStay
<1>10. view' \in [Browser -> [map : Seq(Entry), seen : Nat]]
  BY <1>1, <1>4 DEF CalInv, TypeOK
<1>11. MapInv'
  <2>1. \A c \in Browser : view'[c].map = IF c = b THEN st.map ELSE view[c].map
    BY <1>1 DEF CalInv, TypeOK
  <2>2. \A c \in Browser : keeps'[c] = IF c = b THEN st.keeps ELSE keeps[c]
    BY <1>1 DEF CalInv, TypeOK
  <2>3. MapsFine'
    BY <1>1, <1>2, <1>3, <1>7, <2>1, <2>2 DEF CalInv, MapInv, MapsFine, StFine
  <2>4. WrittenUsed' /\ KeepsFiles'
    BY <1>1, <1>2, <1>7 DEF CalInv, MapInv, WrittenUsed, KeepsFiles
  <2>5. QED
    BY <2>3, <2>4 DEF MapInv
<1>12. TypeOK'
  BY <1>1, <1>2, <1>4, <1>8, <1>10 DEF CalInv, TypeOK, TxInv
<1>13. QED
  BY <1>8, <1>9, <1>11, <1>12 DEF CalInv

LEMMA UpdateCredentialKeeps ==
  ASSUME CalInv, NEW b \in Browser, UpdateCredential(b) PROVE CalInv'
<1> DEFINE upd == [op |-> "update", map |-> view[b].map, keeps |-> keeps[b]]
<1> DEFINE t == [from |-> b, instrs |-> <<upd>>, wait |-> FALSE]
<1>1. UNCHANGED <<chain, used, view, get, keeps>> /\ sent' = sent \cup {t}
  BY DEF UpdateCredential, SendTx
<1>2. /\ view[b].map \in Seq(Entry) /\ keeps[b] \in SUBSET File
      /\ Fine(view[b].map) /\ Ids(view[b].map) \subseteq used
      /\ keeps[b] \subseteq Ids(view[b].map)
  BY DEF CalInv, TypeOK, MapInv, MapsFine
<1>3. upd \in Instruction /\ upd.op = "update"
  BY <1>2 DEF Instruction
<1>4. Ends(<<upd>>, view[b].map, keeps[b])
  BY DEF Ends
<1> HIDE DEF upd
<1>5. t \in Tx /\ t.instrs = <<upd>> /\ t.wait = FALSE
  BY <1>3 DEF Tx, Agent
<1>6. \A op \in {"spawn", "delete", "read"} : Of(<<upd>>, op) = {}
  <2>1. ToSet(<<upd>>) = {upd}
    BY DEF ToSet
  <2>2. QED
    BY <1>3, <2>1 DEF Of
<1> HIDE DEF t
<1>7. TxFine(t, used)
  BY <1>2, <1>4, <1>5, <1>6 DEF TxFine, Agree
<1>8. TxInv'
  BY <1>1, <1>5, <1>6, <1>7, SendKeeps
<1>9. ReadInv'
  BY <1>1, <1>5, <1>6, ReadsStay
<1>10. TypeOK'
  BY <1>1, <1>8 DEF CalInv, TypeOK, TxInv
<1>11. QED
  BY <1>1, <1>8, <1>9, <1>10, MapsStay DEF CalInv

LEMMA FollowCredKeeps ==
  ASSUME CalInv, NEW b \in Browser, FollowCred(b) PROVE CalInv'
<1>1. UNCHANGED <<chain, used, sent, get>>
  BY DEF FollowCred
<1>2. /\ chain.map \in Seq(Entry) /\ chain.updates \in Nat
      /\ Fine(chain.map) /\ Ids(chain.map) \subseteq used /\ used \subseteq File
  BY DEF CalInv, TypeOK, Chain, MapInv, MapsFine
<1>3. /\ view' \in [Browser -> [map : Seq(Entry), seen : Nat]]
      /\ keeps' \in [Browser -> SUBSET File]
      /\ \A c \in Browser : \/ view'[c].map = chain.map /\ keeps'[c] = Ids(chain.map)
                            \/ view'[c].map = view[c].map /\ keeps'[c] = keeps[c]
  BY <1>2 DEF FollowCred, CalInv, TypeOK
<1>4. TypeOK'
  BY <1>1, <1>3 DEF CalInv, TypeOK
<1>5. TxInv'
  BY <1>1 DEF CalInv, TxInv, SentFine, SpawnsApart, SpawnsFresh, WaitOne
<1>6. MapInv'
  BY <1>1, <1>2, <1>3 DEF CalInv, MapInv, WrittenUsed, MapsFine, KeepsFiles
<1>7. ReadInv'
  BY <1>1, ReadsStay
<1>8. QED
  BY <1>4, <1>5, <1>6, <1>7 DEF CalInv

-----------------------------------------------------------------------------
(* getFile.                                                                *)

LEMMA GetFileKeeps ==
  ASSUME CalInv, NEW a \in Agent, NEW f \in File, GetFile(a, f) PROVE CalInv'
<1> DEFINE n == get[a].nth + 1
<1> DEFINE read == [op |-> "read", id |-> f, nth |-> n]
<1> DEFINE t == [from |-> a, instrs |-> <<read>>, wait |-> TRUE]
<1> DEFINE g == [stage |-> "sending", id |-> f, nth |-> n,
                 late |-> chain.write[f] = "deleted", wr |-> FALSE, rd |-> FALSE]
<1>1. /\ UNCHANGED <<chain, used, view, keeps>> /\ sent' = sent \cup {t}
      /\ ~Waiting(a) /\ get' = [get EXCEPT ![a] = g]
  BY DEF GetFile, SendTx
<1>2. n \in Nat
  BY DEF CalInv, TypeOK, Idle, Got
<1> HIDE DEF n
<1>3. g \in Got /\ read \in Instruction /\ read.op = "read"
  BY <1>2 DEF Got, Stage, Instruction
<1>4. /\ g.stage = "sending" /\ ~g.wr /\ ~g.rd /\ g.id = f
      /\ g.late = (chain.write[f] = "deleted")
  OBVIOUS
<1> HIDE DEF read, g
<1>5. t \in Tx /\ t.instrs = <<read>> /\ t.from = a
  BY <1>3 DEF Tx
<1>6. ToSet(<<read>>) = {read}
  BY DEF ToSet
<1> HIDE DEF t
<1>7. Of(t.instrs, "spawn") = {} /\ \A instr \in ToSet(t.instrs) : instr.op = "read"
  BY <1>3, <1>5, <1>6 DEF Of
<1>8. TxInv'
  <2>1. TxFine(t, used)
    BY <1>7 DEF TxFine
  <2>2. QED
    BY <1>1, <1>5, <1>7, <2>1, SendKeeps
<1>9. /\ get' \in [Agent -> Idle \cup Got]
      /\ get'[a] = g /\ \A c \in Agent \ {a} : get'[c] = get[c]
  BY <1>1, <1>3 DEF CalInv, TypeOK
<1>10. ReadInv'
  <2>1. ReadsWait'
    <3> SUFFICES ASSUME NEW u \in sent', u.wait, Instrs(u, "read") # {}
                 PROVE  get'[u.from].stage = "sending"
      BY DEF ReadsWait, Instrs
    <3>1. CASE u.from = a
      BY <1>4, <1>9, <3>1
    <3>2. CASE u.from # a
      <4>1. u \in sent
        BY <1>1, <1>5, <3>2
      <4>2. get[u.from].stage = "sending" /\ u.from \in Agent
        BY <4>1 DEF CalInv, ReadInv, ReadsWait, TypeOK, Tx
      <4>3. QED
        BY <1>9, <3>2, <4>2
    <3>3. QED
      BY <3>1, <3>2
  <2>2. GetsFine'
    BY <1>1, <1>4, <1>9 DEF CalInv, ReadInv, GetsFine, ReadThere
  <2>3. ReadsByReaders'
    BY <1>1 DEF CalInv, ReadInv, ReadsByReaders
  <2>4. QED
    BY <2>1, <2>2, <2>3 DEF ReadInv
<1>11. TypeOK'
  BY <1>1, <1>8, <1>9 DEF CalInv, TypeOK, TxInv
<1>12. QED
  BY <1>1, <1>8, <1>10, <1>11, MapsStay DEF CalInv

\* What a step of a call finds out is true.
LEMMA StepKeeps ==
  ASSUME CalInv, NEW a \in Agent, NEW from \in {"sent", "write", "read"}, NEW g \in Got,
         Step(a, from, g), g.stage # "sending",
         g.id = get[a].id, g.nth = get[a].nth, g.late = get[a].late,
         g.rd => get[a].rd \/ ReadThere(a),
         g.wr => get[a].wr \/ WriteThere(a),
         g.stage = "content" => g.wr /\ g.rd
  PROVE  CalInv'
<1>1. /\ UNCHANGED <<chain, used, view, sent, keeps>>
      /\ get' = [get EXCEPT ![a] = g] /\ get[a].stage = from
  BY DEF Step
<1>2. /\ get' \in [Agent -> Idle \cup Got]
      /\ get'[a] = g /\ \A c \in Agent \ {a} : get'[c] = get[c]
  BY <1>1 DEF CalInv, TypeOK
<1>3. TypeOK'
  BY <1>1, <1>2 DEF CalInv, TypeOK
<1>4. TxInv'
  BY <1>1 DEF CalInv, TxInv, SentFine, SpawnsApart, SpawnsFresh, WaitOne
<1>5. ReadsWait'
  <2> SUFFICES ASSUME NEW u \in sent, u.wait, Instrs(u, "read") # {}
               PROVE  get'[u.from].stage = "sending"
    BY <1>1 DEF ReadsWait, Instrs
  <2>1. get[u.from].stage = "sending" /\ u.from \in Agent
    BY DEF CalInv, ReadInv, ReadsWait, TypeOK, Tx
  <2>2. u.from # a
    BY <1>1, <2>1
  <2>3. QED
    BY <1>2, <2>1, <2>2
<1>6. GetsFine'
  <2> SUFFICES ASSUME NEW c \in Agent, get'[c].stage # "none"
               PROVE  /\ get'[c].late => chain.write[get'[c].id] = "deleted"
                      /\ get'[c].rd => ReadThere(c)'
                      /\ get'[c].wr => ~get'[c].late
                      /\ get'[c].stage = "content" => get'[c].wr /\ get'[c].rd
    BY <1>1 DEF GetsFine
  <2>1. CASE c = a
    <3>1. /\ get[a].late => chain.write[get[a].id] = "deleted"
          /\ get[a].rd => ReadThere(a)
          /\ get[a].wr => ~get[a].late
      BY <1>1 DEF CalInv, ReadInv, GetsFine
    <3>2. ReadThere(a) => ReadThere(a)'
      BY <1>1, <1>2 DEF ReadThere
    <3>3. g.wr => ~g.late
      BY <3>1 DEF WriteThere
    <3>4. QED
      BY <1>2, <2>1, <3>1, <3>2, <3>3
  <2>2. CASE c # a
    BY <1>1, <1>2, <2>2 DEF CalInv, ReadInv, GetsFine, ReadThere
  <2>3. QED
    BY <2>1, <2>2
<1>7. ReadsByReaders'
  BY <1>1 DEF CalInv, ReadInv, ReadsByReaders
<1>8. QED
  BY <1>1, <1>3, <1>4, <1>5, <1>6, <1>7, MapsStay DEF CalInv, ReadInv

LEMMA GetStepKeeps == ASSUME CalInv, NEW a \in Agent, GetStep(a) PROVE CalInv'
<1> DEFINE g == get[a]
<1>1. ASSUME g.stage # "none"
      PROVE  g \in Got
  BY <1>1 DEF CalInv, TypeOK, Idle
<1>2. CASE WriteProof(a)
  <2> DEFINE h == [g EXCEPT !.stage = "write", !.wr = WriteThere(a)]
  <2>1. Step(a, "sent", h) /\ g.stage = "sent"
    BY <1>2 DEF WriteProof, Step
  <2>2. WriteThere(a) \in BOOLEAN
    BY DEF WriteThere
  <2>3. /\ h \in Got /\ h.stage = "write" /\ h.wr = WriteThere(a)
        /\ h.id = g.id /\ h.nth = g.nth /\ h.late = g.late /\ h.rd = g.rd
    BY <1>1, <2>1, <2>2 DEF Got, Stage
  <2> HIDE DEF h
  <2>4. QED
    BY <2>1, <2>3, StepKeeps
<1>3. CASE ReadProof(a)
  <2> DEFINE h == [g EXCEPT !.stage = "read", !.rd = ReadThere(a)]
  <2>1. Step(a, "write", h) /\ g.stage = "write"
    BY <1>3 DEF ReadProof, Step
  <2>2. ReadThere(a) \in BOOLEAN
    BY DEF ReadThere
  <2>3. /\ h \in Got /\ h.stage = "read" /\ h.rd = ReadThere(a)
        /\ h.id = g.id /\ h.nth = g.nth /\ h.late = g.late /\ h.wr = g.wr
    BY <1>1, <2>1, <2>2 DEF Got, Stage
  <2> HIDE DEF h
  <2>4. QED
    BY <2>1, <2>3, StepKeeps
<1>4. ASSUME NEW from \in {"sent", "write", "read"}, NEW s \in {"content", "error"},
             Step(a, from, [g EXCEPT !.stage = s]), s = "content" => g.wr /\ g.rd
      PROVE  CalInv'
  <2> DEFINE h == [g EXCEPT !.stage = s]
  <2>1. Step(a, from, h) /\ g.stage = from
    BY <1>4 DEF Step
  <2>2. /\ h \in Got /\ h.stage = s /\ h.id = g.id /\ h.nth = g.nth
        /\ h.late = g.late /\ h.wr = g.wr /\ h.rd = g.rd
    BY <1>1, <2>1 DEF Got, Stage
  <2> HIDE DEF h
  <2>3. QED
    BY <1>4, <2>1, <2>2, StepKeeps
<1>5. CASE ReencryptKey(a)
  <2>1. CASE g.wr /\ g.rd
    <3>1. Step(a, "read", [g EXCEPT !.stage = "content"])
      BY <1>5, <2>1 DEF ReencryptKey
    <3>2. QED
      BY <1>4, <2>1, <3>1
  <2>2. CASE ~(g.wr /\ g.rd)
    <3>1. Step(a, "read", [g EXCEPT !.stage = "error"])
      BY <1>5, <2>2 DEF ReencryptKey
    <3>2. QED
      BY <1>4, <3>1
  <2>3. QED
    BY <2>1, <2>2
<1>6. CASE Fail(a)
  BY <1>4, <1>6 DEF Fail
<1>7. QED
  BY <1>2, <1>3, <1>5, <1>6 DEF GetStep

-----------------------------------------------------------------------------
(* The theorems.                                                           *)

LEMMA NextKeeps == CalInv /\ [Next]_vars => CalInv'
<1> SUFFICES ASSUME CalInv, [Next]_vars PROVE CalInv'
  OBVIOUS
<1>1. CASE \E b \in Browser : Edit(b) \/ UpdateCredential(b) \/ FollowCred(b)
  BY <1>1, EditKeeps, UpdateCredentialKeeps, FollowCredKeeps
<1>2. CASE \E a \in Agent : GetStep(a) \/ \E f \in File : GetFile(a, f)
  BY <1>2, GetStepKeeps, GetFileKeeps
<1>3. CASE \E t \in sent : Include(t) \/ Refuse(t) \/ Abandon(t)
  BY <1>3, IncludeKeeps, RefuseKeeps, AbandonKeeps
<1>4. CASE UNCHANGED vars
  <2>1. UNCHANGED <<chain, used, view, sent, get, keeps>>
    BY <1>4 DEF vars
  <2>2. TypeOK' /\ TxInv'
    BY <2>1 DEF CalInv, TypeOK, TxInv, SentFine, SpawnsApart, SpawnsFresh, WaitOne
  <2>3. QED
    BY <2>1, <2>2, MapsStay, ReadsStay DEF CalInv
<1>5. QED
  BY <1>1, <1>2, <1>3, <1>4 DEF Next

LEMMA CalInvHolds == Spec => []CalInv
BY InitInv, NextKeeps, PTL DEF Spec

\* The state has its type.
THEOREM CalypsoTyped == Spec => []TypeOK
<1>1. CalInv => TypeOK
  BY DEF CalInv
<1>2. QED
  BY <1>1, CalInvHolds, PTL

\* A content is shown to readers only, who have left a read instance, and not
\* after the deletion of the file.
THEOREM ReadsAreEarned == Spec => []ReadEarned
<1>1. CalInv => ReadEarned
  <2> SUFFICES ASSUME CalInv, NEW a \in Agent, get[a].stage = "content"
               PROVE  HasAccess(a) /\ ReadThere(a) /\ ~get[a].late
    BY DEF ReadEarned
  <2>1. ReadThere(a) /\ ~get[a].late
    BY DEF CalInv, ReadInv, GetsFine
  <2>2. HasAccess(a)
    BY <2>1 DEF CalInv, ReadInv, ReadsByReaders, ReadThere, HasAccess
  <2>3. QED
    BY <2>1, <2>2
<1>2. QED
  BY <1>1, CalInvHolds, PTL

\* The list on the chain has all files that its browser keeps.
THEOREM FilesAreKept == Spec => []KeepsFiles
<1>1. CalInv => KeepsFiles
  BY DEF CalInv, MapInv
<1>2. QED
  BY <1>1, CalInvHolds, PTL

\* A file and its name come and go together.
THEOREM NamesComeAndGo == Spec => Together
<1> DEFINE Step1 ==
       \A f \in File :
          /\ chain.write[f] = "none" /\ chain'.write[f] = "there" => HasEntry(chain'.map, f)
          /\ chain.write[f] # "deleted" /\ chain'.write[f] = "deleted"
                => ~HasEntry(chain'.map, f)
<1>1. CalInv /\ [Next]_vars => [Step1]_vars
  <2> SUFFICES ASSUME CalInv, [Next]_vars, NEW f \in File
               PROVE  /\ chain.write[f] = "none" /\ chain'.write[f] = "there"
                            => HasEntry(chain'.map, f)
                      /\ chain.write[f] # "deleted" /\ chain'.write[f] = "deleted"
                            => ~HasEntry(chain'.map, f)
    OBVIOUS
  <2>1. CASE UNCHANGED chain
    BY <2>1
  <2>2. CASE \E t \in sent : Include(t)
    <3>1. PICK t \in sent : Include(t)
      BY <2>2
    <3>2. /\ chain'.write[f] = IF f \in Of(t.instrs, "delete") THEN "deleted"
                               ELSE IF f \in Of(t.instrs, "spawn") THEN "there"
                               ELSE chain.write[f]
          /\ \/ \A instr \in ToSet(t.instrs) : instr.op = "read"
             \/ Agree(t.instrs, chain'.map)
      BY <3>1, IncludeIs
    <3>3. CASE \A instr \in ToSet(t.instrs) : instr.op = "read"
      BY <3>2, <3>3 DEF Of
    <3>4. CASE Agree(t.instrs, chain'.map)
      BY <3>2, <3>4 DEF Agree, HasEntry
    <3>5. QED
      BY <3>2, <3>3, <3>4
  <2>3. QED
    BY <2>1, <2>2 DEF Next, Edit, UpdateCredential, FollowCred, GetFile, GetStep,
         WriteProof, ReadProof, ReencryptKey, Fail, Step, Refuse, Abandon, vars
<1>2. QED
  BY <1>1, CalInvHolds, PTL DEF Spec, Together
=============================================================================
