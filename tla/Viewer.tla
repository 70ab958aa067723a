------------------------------- MODULE Viewer -------------------------------
(***************************************************************************)
(* The viewer that shows the latest blocks of the chain (BcviewerComponent)*)
(*                                                                         *)
(* Every new block is appended at once.  As long as there are fewer than   *)
(* four, the call that appended it goes on to ask for the block before the *)
(* first one of the list.  Calls do not know of each other: while one      *)
(* waits for its answer the next block may start another one, and all work *)
(* on the same list.                                                       *)
(***************************************************************************)
EXTENDS Naturals, Sequences

VARIABLES blocks,  \* the indices of the blocks in the list, oldest first
          loops,   \* the calls of updateBlock that wait for an older block
          missed   \* history: a request for an older block has failed

viewer == <<blocks, loops, missed>>

Length == 4

\* A call is known by the block that started it.
Loop == [block : Nat, asks : Nat]

ViewerOK == /\ blocks \in Seq(Nat) /\ Len(blocks) <= Length
            /\ loops \subseteq Loop
            /\ missed \in BOOLEAN

-----------------------------------------------------------------------------

\* Mutant: one older block, not as many as are missing.
MoreOnce(list) == Len(list) < 2 /\ list[1] > 0

\* The condition of the loop.
More(list) == Len(list) < Length /\ list[1] > 0

\* Mutant: a fifth block is kept.
TrimFive(list) == IF Len(list) > Length + 1
                    THEN SubSeq(list, Len(list) - Length, Len(list))
                    ELSE list

\* Mutant: the blocks too many are taken from the end.
TrimEnd(list) == SubSeq(list, 1, IF Len(list) > Length THEN Length ELSE Len(list))

Trim(list) == IF Len(list) > Length
                THEN SubSeq(list, Len(list) - Length + 1, Len(list))
                ELSE list

\* Mutant: the index is counted from the block that started the call.
AsksByLength(list, n) == IF n >= Len(list) THEN n - Len(list) ELSE 0

\* What the call of block n asks for.
Asks(list, n) == list[1] - 1

\* From one await of the call of block n to its next one, or to its end.
Go(n, list, others) ==
    IF More(list)
      THEN /\ blocks' = list
           /\ loops' = others \cup {[block |-> n, asks |-> Asks(list, n)]}
      ELSE /\ blocks' = Trim(list)
           /\ loops' = others

\* updateBlock up to its first await.
UpdateBlock(n) == /\ Go(n, Append(blocks, n), loops)
                  /\ UNCHANGED missed

\* getSkipBlockByIndex has answered; answers come in any order.
OlderBlock(c) == /\ Go(c.block, <<c.asks>> \o blocks, loops \ {c})
                 /\ UNCHANGED missed

\* The request fails: the call ends as it is.
NoBlock(c) == /\ loops' = loops \ {c}
              /\ missed' = TRUE
              /\ UNCHANGED blocks

ViewerInit == blocks = <<>> /\ loops = {} /\ missed = FALSE

ViewerNext == \E c \in loops : OlderBlock(c) \/ NoBlock(c)

-----------------------------------------------------------------------------
(* Properties.                                                             *)

\* However the calls overtake each other, the list is in the order of the
\* chain and leaves no block out.  (It may show one twice.)
NoGap == \A i \in 1..Len(blocks) - 1 : blocks[i + 1] - blocks[i] \in {0, 1}

\* The list gets full, or it begins with the first block of the chain.
FillsUp == blocks # <<>> ~> \/ Len(blocks) = Length
                            \/ blocks # <<>> /\ blocks[1] = 0
                            \/ missed
=============================================================================
