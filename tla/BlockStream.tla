---------------------------- MODULE BlockStream -----------------------------
(***************************************************************************)
(* Everything in the webapp that follows the stream of new blocks          *)
(* (ByzCoinRPC.getNewBlocks): the viewer of the latest blocks and the      *)
(* windows of transactions.  One block goes to all of them in one step,    *)
(* while their own steps (answers, workers, timers, the user) come in      *)
(* between.                                                                *)
(***************************************************************************)
EXTENDS Viewer, Window

CONSTANTS First,   \* the indices the chain may have when the webapp starts
          MaxIndex \* bound: no block after this one

ASSUME IndexAssumption == First \subseteq Nat /\ MaxIndex \in Nat

VARIABLES newest,  \* the index of the latest block
          shown    \* the viewer has subscribed

vars == <<newest, shown, viewer, windows>>

TypeOK == /\ newest \in Nat
          /\ shown \in BOOLEAN
          /\ ViewerOK
          /\ WindowsOK

Init == newest \in First /\ shown = FALSE /\ ViewerInit /\ WindowsInit

\* ngOnInit of the viewer: its stream begins with the latest block.
ShowViewer == /\ ~shown
              /\ shown' = TRUE
              /\ UpdateBlock(newest)
              /\ UNCHANGED <<newest, windows>>

\* The stream has a new block; that it leaves none out is the library's.
NewBlock == /\ newest < MaxIndex
            /\ newest' = newest + 1
            /\ IF shown THEN UpdateBlock(newest') ELSE UNCHANGED viewer
            /\ UpdateBlocks({c \in Call : ub[c] = "on"})
            /\ UNCHANGED <<shown, ub, stage, promise, left>>

Next == \/ ShowViewer
        \/ NewBlock
        \/ ViewerNext /\ UNCHANGED <<newest, shown, windows>>
        \/ WindowsNext /\ UNCHANGED <<newest, shown, viewer>>

\* Requests are answered or fail, workers end, timers go off.  Nobody has to
\* open or to close a window, and no new block has to come.
Fairness ==
    /\ \A n \in 0..MaxIndex : WF_vars(/\ \E c \in loops : c.block = n /\ (OlderBlock(c) \/ NoBlock(c))
                              /\ UNCHANGED <<newest, shown, windows>>)
    /\ \A c \in Call : WF_vars(WindowStep(c) /\ UNCHANGED <<newest, shown, viewer>>)

Spec == Init /\ [][Next]_vars

FairSpec == Spec /\ Fairness

-----------------------------------------------------------------------------

\* The last block of the list is the latest one of the chain, whatever older
\* blocks come in late.
ShowsLatest == shown => /\ blocks # <<>>
                        /\ blocks[Len(blocks)] = newest
=============================================================================
