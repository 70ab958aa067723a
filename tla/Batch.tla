------------------------------- MODULE Batch -------------------------------
(***************************************************************************)
(* What a transaction builder promises to whoever fills it.  All that is   *)
(* in the builder is sent as one batch, which is executed whole, once, or  *)
(* never; until then the builder keeps it, and a batch that failed may be  *)
(* sent again with more in it.  A builder is emptied after a batch of it   *)
(* was executed.  Two things are not promised: a hasty builder is emptied  *)
(* when its batch has been handed over, whatever becomes of it, and what   *)
(* is asked for between sending and emptying is gone.                      *)
(***************************************************************************)
CONSTANTS Builder, Item,
          Hasty    \* builders that do not wait for the execution

VARIABLES wanted,  \* the instructions in each builder
          sent,    \* the batches that may still be executed
          done     \* the instructions that have been executed

batch == <<wanted, sent, done>>

BatchInit == /\ wanted = [b \in Builder |-> {}]
             /\ sent = {}
             /\ done = {}

Ask(b, i) == /\ i \notin done
             /\ \A S \in sent : i \notin S
             /\ \A c \in Builder : i \notin wanted[c]
             /\ wanted' = [wanted EXCEPT ![b] = @ \cup {i}]
             /\ UNCHANGED <<sent, done>>

\* Nothing is sent that has been executed, or that may be from another batch.
Send(b) == /\ \A S \in sent \cup {done} : S \cap wanted[b] = {}
           /\ sent' = sent \cup {wanted[b]}
           /\ UNCHANGED <<wanted, done>>

Commit(S) == /\ done' = done \cup S
             /\ sent' = sent \ {S}
             /\ UNCHANGED wanted

Fail(S) == /\ sent' = sent \ {S}
           /\ UNCHANGED <<wanted, done>>

Empty(b) == /\ b \in Hasty \/ wanted[b] \cap done # {}
            /\ wanted' = [wanted EXCEPT ![b] = {}]
            /\ UNCHANGED <<sent, done>>

BatchNext == \/ \E b \in Builder : \/ \E i \in Item : Ask(b, i)
                                   \/ Send(b)
                                   \/ Empty(b)
             \/ \E S \in sent : Commit(S) \/ Fail(S)

BatchSpec == BatchInit /\ [][BatchNext]_batch
=============================================================================
