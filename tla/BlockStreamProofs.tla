------------------------- MODULE BlockStreamProofs --------------------------
(* The viewer has no gaps and a window does its work once, for chains of any *)
(* length and any number of windows: proofs about BlockStream.               *)
EXTENDS BlockStream, FiniteSetTheorems, SequenceTheorems, TLAPS

-----------------------------------------------------------------------------
(* The viewer.                                                             *)

Closed(list) ==
    \A i \in 1..Len(list) - 1 : list[i] <= list[i + 1] /\ list[i + 1] <= list[i] + 1

\* What waiting calls ask for while the list is not full.  A call may be late
\* by one block, but only if the list needs just one more.
Late(list, calls, n) ==
    \A c \in calls : list[1] <= c.asks + 1 /\ c.asks + 1 <= list[1] + n

Near(list, calls) ==
    /\ Len(list) < 1 => calls = {}
    /\ Len(list) < 2 => \A c, d \in calls : c = d
    /\ Len(list) < 3 => Late(list, calls, 0)
    /\ Len(list) < 4 => Late(list, calls, 1)

\* The inductive invariant of the viewer.
ViewerInv ==
    /\ newest \in Nat
    /\ shown \in BOOLEAN
    /\ ViewerOK
    /\ Near(blocks, loops)
    /\ NoGap
    /\ ShowsLatest
    /\ ~shown => blocks = <<>>

\* In the list of the viewer a block follows its predecessor, or repeats it.
LEMMA ClosedList ==
  ASSUME NEW list \in Seq(Nat)
  PROVE  Closed(list) <=> \A i \in 1..Len(list) - 1 : list[i + 1] - list[i] \in {0, 1}
<1>1. \A i \in 1..Len(list) - 1 : list[i] \in Nat /\ list[i + 1] \in Nat
  <2> SUFFICES ASSUME NEW i \in 1..Len(list) - 1
               PROVE  list[i] \in Nat /\ list[i + 1] \in Nat
    OBVIOUS
  <2>1. Len(list) \in Nat
    BY LenProperties
  <2>2. i \in 1..Len(list) /\ i + 1 \in 1..Len(list)
    BY <2>1
  <2> QED BY <2>2, ElementOfSeq
<1>2. \A a, b \in Nat : b - a \in {0, 1} <=> a <= b /\ b <= a + 1
  OBVIOUS
<1> QED BY <1>1, <1>2 DEF Closed

\* What a step of the viewer has to leave behind.
LEMMA ViewerInvNext ==
  ASSUME ViewerInv, newest' \in Nat, shown' = TRUE, missed' = missed,
         NEW list \in Seq(Nat), blocks' = list, 1 <= Len(list), Len(list) <= 4,
         list[Len(list)] = newest', Closed(list),
         loops' \in SUBSET Loop, Near(blocks', loops')
  PROVE  ViewerInv'
<1>1. list # <<>>
  BY EmptySeq
<1>2. ViewerOK'
  BY DEF ViewerOK, ViewerInv, Length
<1>3. ShowsLatest'
  BY <1>1 DEF ShowsLatest
<1>4. NoGap'
  <2>1. \A i \in 1..Len(list) - 1 : list[i + 1] - list[i] \in {0, 1}
    BY ClosedList
  <2> QED BY <2>1 DEF NoGap
<1> QED BY <1>2, <1>3, <1>4 DEF ViewerInv

\* What Trim leaves: at most four blocks, those at the end.
LEMMA TrimEnds ==
  ASSUME NEW list \in Seq(Nat), 1 <= Len(list), Len(list) <= 5
  PROVE  /\ Trim(list) \in Seq(Nat)
         /\ 1 <= Len(Trim(list)) /\ Len(Trim(list)) <= 4
         /\ Trim(list)[Len(Trim(list))] = list[Len(list)]
         /\ Closed(list) => Closed(Trim(list))
         /\ Len(list) <= 4 => Trim(list) = list
         /\ Len(list) > 4 => /\ Len(Trim(list)) = 4
                             /\ \A i \in 1..4 : Trim(list)[i] = list[i + 1]
<1>1. Len(list) \in Nat
  BY LenProperties
<1>2. CASE Len(list) <= 4
  <2>1. Trim(list) = list
    BY <1>2 DEF Trim, Length
  <2>2. ~(Len(list) > 4)
    BY <1>1, <1>2
  <2> QED BY <1>2, <2>1, <2>2, Zenon
<1>3. CASE Len(list) > 4
  <2>1. Len(list) = 5
    <3>1. \A n \in Nat : n > 4 /\ n <= 5 => n = 5
      OBVIOUS
    <3> QED BY <1>1, <1>3, <3>1
  <2>2. Trim(list) = SubSeq(list, 2, 5)
    BY <1>3, <2>1 DEF Trim, Length
  <2>3. \A i \in 2..5 : list[i] \in Nat
    <3> SUFFICES ASSUME NEW i \in 2..5 PROVE list[i] \in Nat
      OBVIOUS
    <3>1. i \in 1..Len(list)
      BY <2>1
    <3> QED BY <3>1, ElementOfSeq
  <2>4. Trim(list) \in Seq(Nat) /\ Len(Trim(list)) = 4
    BY <2>2, <2>3, SubSeqProperties
  <2>5. \A i \in 1..4 : Trim(list)[i] = list[i + 1]
    BY <2>2, <2>3, SubSeqProperties
  <2>6. Closed(list) => Closed(Trim(list))
    <3> SUFFICES ASSUME Closed(list), NEW i \in 1..3
                 PROVE  /\ Trim(list)[i] <= Trim(list)[i + 1]
                        /\ Trim(list)[i + 1] <= Trim(list)[i] + 1
      BY <2>4 DEF Closed
    <3>1. i \in 1..4 /\ i + 1 \in 1..4 /\ i + 1 \in 1..Len(list) - 1
      BY <2>1
    <3>2. Trim(list)[i + 1] = list[(i + 1) + 1] /\ Trim(list)[i] = list[i + 1]
      BY <2>5, <3>1
    <3> QED BY <3>1, <3>2 DEF Closed
  <2>7. Trim(list)[4] = list[5]
    BY <2>5
  <2> QED BY <1>1, <1>3, <2>1, <2>4, <2>5, <2>6, <2>7
<1> QED BY <1>1, <1>2, <1>3

\* Whether a call goes on or ends, the list is what Trim leaves of it.
LEMMA GoTrims ==
  ASSUME NEW n \in Nat, NEW list \in Seq(Nat), 1 <= Len(list), Len(list) <= 5,
         NEW others \in SUBSET Loop, Go(n, list, others),
         Len(list) < 2 => others = {},
         Len(list) < 3 => Late(list, others, 0),
         Len(list) < 4 => Late(list, others, 1)
  PROVE  /\ blocks' = Trim(list)
         /\ loops' \in SUBSET Loop
         /\ Near(blocks', loops')
<1>1. list[1] \in Nat /\ Len(list) \in Nat
  BY LenProperties, ElementOfSeq
<1>2. CASE More(list)
  <2>1. Len(list) < 4 /\ list[1] > 0
    BY <1>2 DEF More, Length
  <2> DEFINE call == [block |-> n, asks |-> list[1] - 1]
  <2>2. blocks' = list /\ loops' = others \cup {call}
    BY <1>2 DEF Go, Asks
  <2>3. call \in Loop /\ call.asks + 1 = list[1]
    BY <1>1, <2>1 DEF Loop
  <2> HIDE DEF call
  <2>4. Trim(list) = list
    BY <1>1, <2>1 DEF Trim, Length
  <2>5. Near(list, loops')
    BY <1>1, <2>2, <2>3 DEF Near, Late
  <2> QED BY <2>2, <2>3, <2>4, <2>5
<1>3. CASE ~More(list)
  <2>1. blocks' = Trim(list) /\ loops' = others
    BY <1>3 DEF Go
  <2>2. CASE Len(list) < 4
    <3>1. Trim(list) = list
      BY <1>1, <2>2 DEF Trim, Length
    <3>2. Near(list, others)
      BY <1>1 DEF Near
    <3> QED BY <2>1, <3>1, <3>2
  <2>3. CASE ~(Len(list) < 4)
    <3>1. CASE Len(list) <= 4
      <4>1. Trim(list) = list
        BY <3>1, TrimEnds
      <4> QED BY <1>1, <2>1, <2>3, <4>1 DEF Near
    <3>2. CASE Len(list) > 4
      <4>1. Len(Trim(list)) = 4
        BY <3>2, TrimEnds
      <4> QED BY <2>1, <4>1 DEF Near
    <3> QED BY <1>1, <3>1, <3>2
  <2> QED BY <2>2, <2>3
<1> QED BY <1>2, <1>3

\* A block that follows the last one, or the first block, is appended.
LEMMA UpdateBlockKeeps ==
  ASSUME ViewerInv, NEW n \in Nat, UpdateBlock(n), newest' = n, shown' = TRUE,
         blocks # <<>> => n = blocks[Len(blocks)] + 1
  PROVE  ViewerInv'
<1> DEFINE list == Append(blocks, n)
<1>1. blocks \in Seq(Nat) /\ Len(blocks) <= 4 /\ loops \in SUBSET Loop
  BY DEF ViewerInv, ViewerOK, Length
<1>2. Len(blocks) \in Nat /\ Closed(blocks)
  BY <1>1, LenProperties, ClosedList DEF ViewerInv, NoGap
<1>3. /\ list \in Seq(Nat) /\ Len(list) = Len(blocks) + 1 /\ list[Len(blocks) + 1] = n
      /\ \A i \in 1..Len(blocks) : list[i] = blocks[i]
  BY <1>1, AppendProperties
<1>4. Go(n, list, loops) /\ missed' = missed
  BY DEF UpdateBlock
<1> HIDE DEF list
<1>5. Closed(list)
  <2> SUFFICES ASSUME NEW i \in 1..Len(list) - 1
               PROVE  list[i] <= list[i + 1] /\ list[i + 1] <= list[i] + 1
    BY DEF Closed
  <2>1. CASE i < Len(blocks)
    <3>1. i \in 1..Len(blocks) /\ i + 1 \in 1..Len(blocks) /\ i \in 1..Len(blocks) - 1
      BY <1>2, <2>1
    <3>2. list[i] = blocks[i] /\ list[i + 1] = blocks[i + 1]
      BY <1>3, <3>1
    <3> QED BY <1>2, <3>1, <3>2 DEF Closed
  <2>2. CASE ~(i < Len(blocks))
    <3>1. i = Len(blocks) /\ i \in 1..Len(blocks)
      BY <1>2, <1>3, <2>2
    <3>2. blocks # <<>> /\ blocks[i] \in Nat
      BY <1>1, <3>1, EmptySeq, ElementOfSeq
    <3>3. list[i + 1] = blocks[i] + 1 /\ list[i] = blocks[i]
      BY <1>3, <3>1, <3>2
    <3> QED BY <3>2, <3>3
  <2> QED BY <2>1, <2>2
<1>6. /\ Len(list) < 2 => loops = {}
      /\ Len(list) < 3 => Late(list, loops, 0)
      /\ Len(list) < 4 => Late(list, loops, 1)
  <2>1. Len(blocks) > 0 => list[1] = blocks[1]
    BY <1>2, <1>3
  <2>2. Near(blocks, loops)
    BY DEF ViewerInv
  <2>3. Len(list) < 2 => loops = {}
    BY <1>2, <1>3, <2>2 DEF Near
  <2>4. CASE Len(blocks) > 0
    BY <1>2, <1>3, <2>1, <2>2, <2>3, <2>4 DEF Near, Late
  <2>5. CASE ~(Len(blocks) > 0)
    <3>1. loops = {}
      BY <1>2, <2>2, <2>5 DEF Near
    <3> QED BY <3>1 DEF Late
  <2> QED BY <2>4, <2>5
<1>7. 1 <= Len(list) /\ Len(list) <= 5
  BY <1>1, <1>2, <1>3
<1>8. blocks' = Trim(list) /\ loops' \in SUBSET Loop /\ Near(blocks', loops')
  BY <1>1, <1>3, <1>4, <1>6, <1>7, GoTrims
<1>9. /\ Trim(list) \in Seq(Nat) /\ 1 <= Len(Trim(list)) /\ Len(Trim(list)) <= 4
      /\ Trim(list)[Len(Trim(list))] = n /\ Closed(Trim(list))
  BY <1>3, <1>5, <1>7, TrimEnds
<1> QED BY <1>4, <1>8, <1>9, ViewerInvNext

\* An older block is put in front, or is one too many.
LEMMA OlderBlockKeeps ==
  ASSUME ViewerInv, NEW c \in loops, OlderBlock(c), UNCHANGED <<newest, shown>>
  PROVE  ViewerInv'
<1> DEFINE list == <<c.asks>> \o blocks
           others == loops \ {c}
<1>1. /\ blocks \in Seq(Nat) /\ Len(blocks) <= 4 /\ Near(blocks, loops)
      /\ loops \in SUBSET Loop /\ c.block \in Nat /\ c.asks \in Nat
  BY DEF ViewerInv, ViewerOK, Length, Loop
<1>2. /\ Len(blocks) \in Nat /\ Closed(blocks) /\ 1 <= Len(blocks)
      /\ blocks[1] \in Nat
  <2>1. Len(blocks) \in Nat /\ Closed(blocks)
    BY <1>1, LenProperties, ClosedList DEF ViewerInv, NoGap
  <2>2. 1 <= Len(blocks)
    BY <1>1, <2>1 DEF Near
  <2> QED BY <1>1, <2>1, <2>2, ElementOfSeq
<1>3. /\ list \in Seq(Nat) /\ Len(list) = Len(blocks) + 1 /\ list[1] = c.asks
      /\ \A i \in 1..Len(blocks) : list[i + 1] = blocks[i]
  BY <1>1, <1>2
<1>4. Go(c.block, list, others) /\ missed' = missed
  BY DEF OlderBlock
<1>5. others \in SUBSET Loop /\ others \subseteq loops /\ c \notin others
  BY <1>1
<1>6. Len(blocks) < 2 => others = {}
  BY <1>1 DEF Near
<1> HIDE DEF list, others
<1>7. /\ Len(list) < 3 => others = {}
      /\ Len(list) < 4 => Late(list, others, 1)
  <2>1. Len(list) < 3 => others = {}
    BY <1>2, <1>3, <1>6
  <2>2. ASSUME Len(list) < 4, NEW d \in others
        PROVE  list[1] <= d.asks + 1 /\ d.asks + 1 <= list[1] + 1
    <3>1. Late(blocks, loops, 0)
      BY <1>1, <1>2, <1>3, <2>2 DEF Near
    <3>2. d.asks \in Nat /\ d \in loops
      BY <1>5 DEF Loop
    <3> QED BY <1>1, <1>2, <1>3, <3>1, <3>2 DEF Late
  <2> QED BY <2>1, <2>2 DEF Late
<1>8. Len(blocks) < 4 => Closed(list)
  <2> SUFFICES ASSUME Len(blocks) < 4, NEW i \in 1..Len(list) - 1
               PROVE  list[i] <= list[i + 1] /\ list[i + 1] <= list[i] + 1
    BY DEF Closed
  <2>1. CASE i = 1
    <3>1. Late(blocks, loops, 1)
      BY <1>1 DEF Near
    <3>2. list[1] = c.asks /\ list[1 + 1] = blocks[1]
      BY <1>2, <1>3
    <3> QED BY <1>1, <1>2, <2>1, <3>1, <3>2 DEF Late
  <2>2. CASE i # 1
    <3> DEFINE j == i - 1
    <3>1. j \in 1..Len(blocks) - 1 /\ j \in 1..Len(blocks) /\ j + 1 \in 1..Len(blocks) /\ j + 1 = i
      BY <1>2, <1>3, <2>2
    <3>2. list[j + 1] = blocks[j] /\ list[(j + 1) + 1] = blocks[j + 1]
      BY <1>3, <3>1
    <3> QED BY <1>2, <3>1, <3>2 DEF Closed
  <2> QED BY <2>1, <2>2
<1>9. 1 <= Len(list) /\ Len(list) <= 5
  BY <1>1, <1>2, <1>3
<1>10. blocks' = Trim(list) /\ loops' \in SUBSET Loop /\ Near(blocks', loops')
  <2>1. /\ Len(list) < 2 => others = {}
        /\ Len(list) < 3 => Late(list, others, 0)
    BY <1>2, <1>3, <1>7 DEF Late
  <2> QED BY <1>1, <1>3, <1>4, <1>5, <1>7, <1>9, <2>1, GoTrims
<1>11. shown /\ blocks[Len(blocks)] = newest /\ shown' /\ newest' = newest
  <2>1. blocks # <<>>
    BY <1>2, EmptySeq
  <2> QED BY <2>1 DEF ViewerInv, ShowsLatest
<1>12. /\ Trim(list) \in Seq(Nat) /\ 1 <= Len(Trim(list)) /\ Len(Trim(list)) <= 4
       /\ Trim(list)[Len(Trim(list))] = newest /\ Closed(Trim(list))
  <2>1. Len(blocks) \in 1..Len(blocks)
    BY <1>2
  <2>2. list[Len(list)] = newest
    BY <1>3, <1>11, <2>1
  <2>3. CASE Len(blocks) < 4
    BY <1>3, <1>8, <1>9, <2>2, <2>3, TrimEnds
  <2>4. CASE ~(Len(blocks) < 4)
    <3>1. Len(list) > 4 /\ Len(blocks) = 4
      <4>1. \A n \in Nat : n <= 4 /\ ~(n < 4) => n = 4 /\ n + 1 > 4
        OBVIOUS
      <4>2. Len(blocks) = 4 /\ Len(blocks) + 1 > 4
        BY <1>1, <1>2, <2>4, <4>1
      <4> QED BY <1>3, <4>2
    <3>2. /\ Trim(list) \in Seq(Nat) /\ Len(Trim(list)) = 4
          /\ \A i \in 1..4 : Trim(list)[i] = list[i + 1]
      BY <1>3, <1>9, <3>1, TrimEnds
    <3>3. \A i \in 1..4 : Trim(list)[i] = blocks[i]
      BY <1>3, <3>1, <3>2
    <3>4. Trim(list) = blocks
      BY <1>1, <3>1, <3>2, <3>3, SeqEqual
    <3> QED BY <1>1, <1>2, <1>11, <3>4
  <2> QED BY <2>3, <2>4
<1> QED BY <1>1, <1>4, <1>10, <1>11, <1>12, ViewerInvNext DEF ViewerInv

LEMMA ViewerStep == ViewerInv /\ [Next]_vars => ViewerInv'
<1> SUFFICES ASSUME ViewerInv, [Next]_vars PROVE ViewerInv'
  OBVIOUS
<1>1. CASE ShowViewer
  BY <1>1, UpdateBlockKeeps DEF ShowViewer, ViewerInv
<1>2. CASE NewBlock
  <2>1. newest' = newest + 1 /\ newest' \in Nat /\ shown' = shown
    BY <1>2 DEF NewBlock, ViewerInv
  <2>2. CASE shown
    <3>1. UpdateBlock(newest')
      BY <1>2, <2>2 DEF NewBlock
    <3>2. newest' = blocks[Len(blocks)] + 1
      BY <2>1, <2>2 DEF ViewerInv, ShowsLatest
    <3> QED BY <2>1, <2>2, <3>1, <3>2, UpdateBlockKeeps
  <2>3. CASE ~shown
    BY <1>2, <2>1, <2>3 DEF NewBlock, ViewerInv, ViewerOK, viewer, NoGap, ShowsLatest, Near
  <2> QED BY <2>2, <2>3
<1>3. CASE ViewerNext /\ UNCHANGED <<newest, shown, windows>>
  <2>1. ASSUME NEW c \in loops, OlderBlock(c) PROVE ViewerInv'
    BY <1>3, <2>1, OlderBlockKeeps
  <2>2. ASSUME NEW c \in loops, NoBlock(c) PROVE ViewerInv'
    <3>1. /\ blocks' = blocks /\ newest' = newest /\ shown' = shown
          /\ loops' \subseteq loops /\ missed' \in BOOLEAN
      BY <1>3, <2>2 DEF NoBlock
    <3>2. Near(blocks, loops')
      BY <3>1 DEF ViewerInv, Near, Late
    <3> QED BY <3>1, <3>2 DEF ViewerInv, ViewerOK, NoGap, ShowsLatest
  <2> QED BY <1>3, <2>1, <2>2 DEF ViewerNext
<1>4. CASE UNCHANGED <<newest, shown, viewer>>
  BY <1>4 DEF ViewerInv, ViewerOK, viewer, NoGap, ShowsLatest, Near
<1> QED BY <1>1, <1>2, <1>3, <1>4 DEF Next, vars

LEMMA ViewerStart == Init => ViewerInv
<1> SUFFICES ASSUME Init PROVE ViewerInv
  OBVIOUS
<1>1. blocks = <<>> /\ loops = {} /\ missed = FALSE /\ ~shown
  BY DEF Init, ViewerInit
<1>2. newest \in Nat /\ shown \in BOOLEAN
  BY IndexAssumption DEF Init
<1>3. blocks \in Seq(Nat) /\ Len(blocks) = 0
  BY <1>1, EmptySeq
<1>4. ViewerOK
  <2>1. Len(<<>>) <= 4
    OBVIOUS
  <2> QED BY <1>1, <1>3, <2>1 DEF ViewerOK, Length
<1>5. Near(blocks, loops)
  BY <1>1 DEF Near, Late
<1>6. NoGap
  BY <1>3 DEF NoGap
<1> QED BY <1>1, <1>2, <1>4, <1>5, <1>6 DEF ViewerInv, ShowsLatest

\* The list of the viewer is in the order of the chain and leaves no block out,
\* however its calls overtake each other (bcviewer.component.ts:32).
THEOREM ViewerIsInOrder == Spec => []NoGap
<1>1. ViewerInv => NoGap
  BY DEF ViewerInv
<1> QED BY <1>1, ViewerStart, ViewerStep, PTL DEF Spec

\* The list ends with the latest block that has come, also while older blocks
\* are still asked for and put in front (bcviewer.component.ts:38).
THEOREM LatestIsShown == Spec => []ShowsLatest
<1>1. ViewerInv => ShowsLatest
  BY DEF ViewerInv
<1> QED BY <1>1, ViewerStart, ViewerStep, PTL DEF Spec

\* As long as blocks are missing, one of the calls still waits for an older one,
\* unless a request has failed.
StillAsking == blocks # <<>> /\ More(blocks) /\ ~missed => loops # {}

\* A call either goes on asking, or leaves the list full or at the first block.
LEMMA GoKeepsAsking ==
  ASSUME NEW n, NEW list \in Seq(Nat), NEW others, 1 <= Len(list), Len(list) <= 5,
         Go(n, list, others)
  PROVE  StillAsking'
<1>1. CASE More(list)
  BY <1>1 DEF Go, StillAsking
<1>2. CASE ~More(list)
  <2>1. blocks' = Trim(list)
    BY <1>2 DEF Go
  <2>2. CASE Len(list) <= 4
    BY <1>2, <2>1, <2>2, TrimEnds DEF StillAsking
  <2>3. CASE ~(Len(list) <= 4)
    <3>1. Len(list) > 4
      BY <2>3, LenProperties
    <3>2. ~(Len(Trim(list)) < 4)
      BY <3>1, TrimEnds
    <3> QED BY <2>1, <3>2 DEF StillAsking, More, Length
  <2> QED BY <2>2, <2>3
<1> QED BY <1>1, <1>2

LEMMA AskingStep == ViewerInv /\ StillAsking /\ [Next]_vars => StillAsking'
<1> SUFFICES ASSUME ViewerInv, StillAsking, [Next]_vars PROVE StillAsking'
  OBVIOUS
<1>0. blocks \in Seq(Nat) /\ Len(blocks) <= 4 /\ Len(blocks) \in Nat
  BY LenProperties DEF ViewerInv, ViewerOK, Length
<1>1. ASSUME NEW n \in Nat, UpdateBlock(n) PROVE StillAsking'
  <2>1. /\ Append(blocks, n) \in Seq(Nat)
        /\ Len(Append(blocks, n)) = Len(blocks) + 1
    BY <1>0, AppendProperties
  <2>2. 1 <= Len(Append(blocks, n)) /\ Len(Append(blocks, n)) <= 5
    BY <1>0, <2>1
  <2> QED BY <1>1, <2>1, <2>2, GoKeepsAsking DEF UpdateBlock
<1>2. ASSUME NEW c \in loops, OlderBlock(c) PROVE StillAsking'
  <2> DEFINE list == <<c.asks>> \o blocks
  <2>1. c.asks \in Nat
    BY DEF ViewerInv, ViewerOK, Loop
  <2>2. <<c.asks>> \in Seq(Nat) /\ Len(<<c.asks>>) = 1
    BY <2>1
  <2>3. list \in Seq(Nat) /\ Len(list) = 1 + Len(blocks)
    BY <1>0, <2>2, ConcatProperties
  <2>4. 1 <= Len(list) /\ Len(list) <= 5
    BY <1>0, <2>3
  <2> HIDE DEF list
  <2>5. Go(c.block, list, loops \ {c})
    BY <1>2 DEF OlderBlock, list
  <2> QED BY <2>3, <2>4, <2>5, GoKeepsAsking
<1>3. ASSUME NEW c \in loops, NoBlock(c) PROVE StillAsking'
  BY <1>3 DEF NoBlock, StillAsking
<1>4. newest \in Nat /\ newest + 1 \in Nat
  BY DEF ViewerInv
<1>5. ASSUME UNCHANGED viewer PROVE StillAsking'
  BY <1>5 DEF viewer, StillAsking, More
<1>6. CASE ShowViewer
  BY <1>1, <1>4, <1>6 DEF ShowViewer
<1>7. CASE NewBlock
  BY <1>1, <1>4, <1>5, <1>7 DEF NewBlock
<1> QED BY <1>2, <1>3, <1>5, <1>6, <1>7 DEF Next, ViewerNext, vars

\* The viewer never gives up on its own: while blocks are missing and all
\* requests were answered, some call still waits for one, however many calls
\* have ended (bcviewer.component.ts:34).  What FillsUp needs besides is fairness.
THEOREM ViewerKeepsAsking == Spec => []StillAsking
<1>1. Init => StillAsking
  BY DEF Init, ViewerInit, StillAsking
<1> QED BY <1>1, ViewerStart, ViewerStep, AskingStep, PTL DEF Spec

-----------------------------------------------------------------------------
(* The windows.                                                            *)

\* A window has drawn nothing, or all four blocks; the fourth one has started
\* the worker, whose end the window shows.
WindowInv ==
    /\ WindowsOK
    /\ \A c \in Call :
          /\ bars[c] \in {0, 4}
          /\ bars[c] = 0 => /\ starts[c] = 0 /\ worker[c] = "idle"
                            /\ ub[c] \in {"none", "refused"}
          /\ ub[c] = "none" => bars[c] = 0
          /\ bars[c] = 4 => starts[c] = 1 /\ worker[c] # "idle"
          /\ stage[c] = "closing" => worker[c] = "done"
          /\ stage[c] = "error" => worker[c] = "failed"
    /\ ToldAsItEnded

\* The stream passes a block on: no window is at its fourth one.
LEMMA UpdateBlocksKeeps ==
  ASSUME WindowInv, NEW S \in SUBSET Call, \A c \in S : ub[c] = "on",
         UpdateBlocks(S), UNCHANGED <<ub, stage, promise, left>>
  PROVE  UNCHANGED windows
<1>1. \A c \in S : bars[c] = 4
  BY DEF WindowInv
<1>2. {c \in S : Starts(bars[c])} = {}
  BY <1>1 DEF Starts
<1>3. \A c \in S : Drawn(bars[c]) = bars[c]
  BY <1>1 DEF Drawn
<1>4. /\ bars' = [c \in Call |-> bars[c]]
      /\ worker' = [c \in Call |-> worker[c]]
      /\ starts' = [c \in Call |-> starts[c]]
  BY <1>2, <1>3 DEF UpdateBlocks
<1> QED BY <1>4 DEF WindowInv, WindowsOK, windows

\* Of the first four blocks, the fourth starts the worker.
LEMMA StartsOnce == /\ \E n \in 0..3 : Starts(n)
                    /\ Cardinality({n \in 0..3 : Starts(n)}) = 1
                    /\ Drawn(Drawn(Drawn(Drawn(0)))) = 4
<1>1. {n \in 0..3 : Starts(n)} = {3}
  BY DEF Starts
<1>2. Cardinality({3}) = 1
  BY FS_Singleton
<1>3. Drawn(Drawn(Drawn(Drawn(0)))) = 4
  BY DEF Drawn
<1> QED BY <1>1, <1>2, <1>3 DEF Starts

\* What subscribing does: the four blocks that come at once start the worker.
LEMMA SubscribeDoes ==
  ASSUME WindowInv, NEW c \in Call, Subscribe(c)
  PROVE  /\ bars' = [bars EXCEPT ![c] = 4]
         /\ ub' = [ub EXCEPT ![c] = "on"]
         /\ worker' = [worker EXCEPT ![c] = "running"]
         /\ starts' = [starts EXCEPT ![c] = 1]
         /\ stage' = [stage EXCEPT ![c] = IF @ = "opening" THEN "open" ELSE @]
         /\ promise' = promise /\ left' = left /\ bars[c] = 0
<1>1. bars[c] = 0 /\ starts[c] = 0
  BY DEF Subscribe, WindowInv
<1>2. bars' = [bars EXCEPT ![c] = Drawn(Drawn(Drawn(Drawn(bars[c]))))]
  BY DEF Subscribe
<1>3. worker' = [worker EXCEPT ![c] = "running"]
  BY StartsOnce, Zenon DEF Subscribe
<1>4. starts' = [starts EXCEPT ![c] = starts[c] + Cardinality({n \in 0..3 : Starts(n)})]
  BY DEF Subscribe
<1>5. starts' = [starts EXCEPT ![c] = 1]
  <2>1. starts[c] + Cardinality({n \in 0..3 : Starts(n)}) = 0 + 1
    BY <1>1, StartsOnce, Zenon
  <2>2. 0 + 1 = 1
    OBVIOUS
  <2> QED BY <1>4, <2>1, <2>2, Zenon
<1> QED BY <1>1, <1>2, <1>3, <1>5, StartsOnce DEF Subscribe

LEMMA SubscribeKeeps ==
  ASSUME WindowInv, NEW c \in Call, Subscribe(c)
  PROVE  WindowInv'
<1>1. /\ bars' = [bars EXCEPT ![c] = 4]
      /\ ub' = [ub EXCEPT ![c] = "on"]
      /\ worker' = [worker EXCEPT ![c] = "running"]
      /\ starts' = [starts EXCEPT ![c] = 1]
      /\ stage' = [stage EXCEPT ![c] = IF @ = "opening" THEN "open" ELSE @]
      /\ promise' = promise /\ left' = left /\ bars[c] = 0
  BY SubscribeDoes
<1>2. /\ stage[c] \notin {"closing", "error"}
      /\ promise[c] # "rejected" /\ (promise[c] = "resolved" => left[c])
  BY <1>1 DEF WindowInv, ToldAsItEnded
<1>3. WindowsOK'
  BY <1>1 DEF WindowInv, WindowsOK, Stage
<1> QED BY <1>1, <1>2, <1>3 DEF WindowInv, WindowsOK, ToldAsItEnded

LEMMA NoStreamKeeps ==
  ASSUME WindowInv, NEW c \in Call, NoStream(c)
  PROVE  WindowInv'
<1>1. bars[c] = 0
  BY DEF NoStream, WindowInv
<1> QED BY <1>1 DEF NoStream, WindowInv, WindowsOK, ToldAsItEnded

LEMMA WindowStepKeeps == WindowInv /\ [Next]_vars => WindowInv'
<1> SUFFICES ASSUME WindowInv, [Next]_vars PROVE WindowInv'
  OBVIOUS
<1>1. ASSUME NEW c \in Call, ShowTransactions(c) PROVE WindowInv'
  BY <1>1 DEF ShowTransactions, WindowInv, WindowsOK, ToldAsItEnded, Stage
<1>2. ASSUME NEW c \in Call, Succeed(c) PROVE WindowInv'
  BY <1>2 DEF Succeed, WindowInv, WindowsOK, ToldAsItEnded, Stage
<1>3. ASSUME NEW c \in Call, Fail(c) PROVE WindowInv'
  BY <1>3 DEF Fail, WindowInv, WindowsOK, ToldAsItEnded, Stage
<1>4. ASSUME NEW c \in Call, Timer(c) \/ PressClose(c) \/ Leave(c) PROVE WindowInv'
  <2> USE DEF Close, WindowInv, WindowsOK, ToldAsItEnded, Stage
  <2>1. CASE Timer(c)
    BY <2>1 DEF Timer
  <2>2. CASE PressClose(c)
    BY <2>2 DEF PressClose
  <2>3. CASE Leave(c)
    BY <2>3 DEF Leave
  <2> QED BY <1>4, <2>1, <2>2, <2>3
<1>5. ASSUME UNCHANGED windows PROVE WindowInv'
  BY <1>5 DEF windows, WindowInv, WindowsOK, ToldAsItEnded
<1>6. CASE NewBlock
  <2>1. UNCHANGED windows
    BY <1>6, UpdateBlocksKeeps DEF NewBlock
  <2> QED BY <1>5, <2>1
<1>7. CASE WindowsNext
  BY <1>1, <1>2, <1>3, <1>4, <1>7, SubscribeKeeps, NoStreamKeeps
     DEF WindowsNext, WindowStep
<1> QED BY <1>5, <1>6, <1>7 DEF Next, vars, ShowViewer

LEMMA WindowStart == Init => WindowInv
BY DEF Init, WindowsInit, WindowInv, WindowsOK, ToldAsItEnded, Stage

\* What a window was opened for is done once, however many blocks pass and even
\* when its user has left (dialog-transaction.ts:48).
THEOREM WorkedOnce == Spec => []WorkerOnce
<1>1. WindowInv => WorkerOnce
  BY DEF WindowInv, WorkerOnce
<1> QED BY <1>1, WindowStart, WindowStepKeeps, PTL DEF Spec

\* Unless the user leaves its window, the caller of showTransactions is told of
\* a success only after one, and of an error always after one (Ui.ts:142): the
\* button, the timer and the worker may overlap as they like.
THEOREM NoFalseAnswer == Spec => []ToldAsItEnded
<1>1. WindowInv => ToldAsItEnded
  BY DEF WindowInv
<1> QED BY <1>1, WindowStart, WindowStepKeeps, PTL DEF Spec

\* A call that waits for its window has a window, and something that will end
\* the wait: the stream is on its way, the worker runs, or the timer or the
\* button is left to close the window.  Only a refused stream leaves nothing.
Cared(c) == \/ stage[c] = "opening" /\ ub[c] = "none"
            \/ stage[c] = "open" /\ worker[c] = "running"
            \/ stage[c] \in {"closing", "error"}

NobodyForgotten == \A c \in Call : /\ promise[c] = "pending" => Cared(c) \/ ub[c] = "refused"
                                   /\ promise[c] = "pending" <=> Visible(c)

\* A window that was never opened has drawn nothing.
CallInv == /\ NobodyForgotten
           /\ \A c \in Call : stage[c] = "none" => promise[c] = "none" /\ ub[c] = "none"
           /\ \A c \in Call : ub[c] \in {"none", "refused"} <=> bars[c] = 0

LEMMA CallStep == WindowInv /\ CallInv /\ [Next]_vars => CallInv'
<1> SUFFICES ASSUME WindowInv, CallInv, [Next]_vars PROVE CallInv'
  OBVIOUS
<1> USE DEF CallInv, NobodyForgotten, Cared, Visible, WindowInv, WindowsOK
<1>1. ASSUME NEW c \in Call, ShowTransactions(c) PROVE CallInv'
  BY <1>1 DEF ShowTransactions
<1>2. ASSUME NEW c \in Call, Subscribe(c) PROVE CallInv'
  <2>1. /\ bars' = [bars EXCEPT ![c] = 4]
        /\ worker' = [worker EXCEPT ![c] = "running"]
        /\ ub' = [ub EXCEPT ![c] = "on"]
        /\ promise' = promise /\ bars[c] = 0 /\ promise[c] # "none" /\ ub[c] = "none"
        /\ stage' = [stage EXCEPT ![c] = IF stage[c] = "opening" THEN "open" ELSE stage[c]]
    BY <1>2, SubscribeDoes DEF Subscribe
  <2>2. stage[c] # "none" /\ (promise[c] = "pending" => stage[c] = "opening")
    BY <2>1
  <2>3. ASSUME NEW d \in Call, d # c PROVE UNCHANGED <<stage[d], bars[d], ub[d], worker[d], promise[d]>>
    BY <2>1, <2>3
  <2>4. /\ bars'[c] = 4 /\ ub'[c] = "on" /\ worker'[c] = "running" /\ promise'[c] = promise[c]
        /\ stage'[c] = IF stage[c] = "opening" THEN "open" ELSE stage[c]
    BY <2>1
  <2> QED BY <2>2, <2>3, <2>4
<1>3. ASSUME NEW c \in Call, Succeed(c) \/ Fail(c) PROVE CallInv'
  BY <1>3 DEF Succeed, Fail
<1>4. ASSUME NEW c \in Call, Timer(c) \/ PressClose(c) \/ Leave(c) PROVE CallInv'
  BY <1>4 DEF Timer, PressClose, Leave, Close
<1>7. ASSUME NEW c \in Call, NoStream(c) PROVE CallInv'
  BY <1>7 DEF NoStream
<1>5. ASSUME UNCHANGED windows PROVE CallInv'
  BY <1>5 DEF windows
<1>6. CASE NewBlock
  BY <1>5, <1>6, UpdateBlocksKeeps DEF NewBlock
<1> QED BY <1>1, <1>2, <1>3, <1>4, <1>5, <1>6, <1>7
       DEF Next, WindowsNext, WindowStep, vars, ShowViewer

\* No caller of showTransactions is forgotten: while it waits its window is
\* there, and the stream, the worker, the timer or the button can end the wait
\* (Ui.ts:143, dialog-transaction.ts:56), unless the stream of blocks was
\* refused (dialog-transaction.ts:39).  What CallEnds needs besides is fairness.
THEOREM CallersAreCaredFor == Spec => []NobodyForgotten
<1>1. Init => CallInv
  BY DEF Init, WindowsInit, CallInv, NobodyForgotten, Cared, Visible
<1>2. CallInv => NobodyForgotten
  BY DEF CallInv
<1> QED BY <1>1, <1>2, WindowStart, WindowStepKeeps, CallStep, PTL DEF Spec

\* The state of the viewer and the windows keeps its type.
THEOREM StreamTyped == Spec => []TypeOK
<1>1. ViewerInv /\ WindowInv => TypeOK
  BY DEF ViewerInv, WindowInv, TypeOK
<1> QED BY <1>1, ViewerStart, ViewerStep, WindowStart, WindowStepKeeps, PTL DEF Spec
=============================================================================
