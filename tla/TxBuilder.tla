----------------------------- MODULE TxBuilder -----------------------------
(***************************************************************************)
(* Transaction builders that pay from one coin account.                    *)
(*                                                                         *)
(* A builder collects instructions and adds up what the spawner will ask   *)
(* for them.  Sending puts one instruction in front that fetches the cost  *)
(* from the coin, makes a transaction of all that is there, reads the      *)
(* counter of the signer, signs, and waits for the transaction to be in a  *)
(* block; with a wait of 0 only for a node to take it.  Then the builder   *)
(* is emptied.  If anything fails, everything stays in it.  Builders of    *)
(* one browser share the key and its counter, those of all devices of an   *)
(* account share the coin, and each looks at the copy of the coin from     *)
(* when it was made.                                                       *)
(***************************************************************************)
EXTENDS Naturals, FiniteSets, FiniteSetsExt

CONSTANTS Builder,
          Key, KeyOf,  \* the key that a builder signs with
          Item,        \* instructions that users want executed
          Price,       \* what the spawner asks for an instruction
          Amount,      \* what an instruction itself takes from the coin
          Funds,       \* the coins at the start
          Retry,       \* builders that are sent again after a failure
          NoWait,      \* builders that are sent with a wait of 0
          GiveUp,      \* builders whose request may end without an answer
          MaxTry       \* bound: how often one builder is sent

ASSUME KeysAssumption == KeyOf \in [Builder -> Key]
ASSUME PricesAssumption == /\ Price \in [Item -> Nat]
                           /\ Amount \in [Item -> Nat]
                           /\ Funds \in Nat
ASSUME TriesAssumption == /\ MaxTry \in Nat
                          /\ Retry \subseteq Builder
                          /\ NoWait \subseteq Builder
                          /\ GiveUp \subseteq Builder

VARIABLES stage,    \* what the builder is doing
          work,     \* its instructions, without the fetches
          fetched,  \* the coins that the fetches in front of them ask for
          cost,     \* what the spawner will ask for the instructions
          ctx,      \* what is in the transaction that it made last
          coin,     \* the value of the coin when the builder was made
          tries,    \* how often it has been sent
          seen,     \* the wallets' copy of the coin
          pool,     \* signed transactions that are in no block yet
          balance,  \* the coin on the chain
          counter,  \* the counter of each key on the chain
          times,    \* how often each instruction has been executed
          asked     \* history: the instructions that were ever appended

builders == <<stage, work, fetched, cost, ctx, coin, tries>>
ledger == <<balance, counter, times>>
vars == <<builders, seen, pool, ledger, asked>>

Stage == {"none", "open", "signing", "sent", "included", "dropped"}
Tx == [from : Builder, try : Nat, work : SUBSET Item, fetch : Nat, counter : Nat]

TypeOK == /\ stage \in [Builder -> Stage]
          /\ work \in [Builder -> SUBSET Item]
          /\ fetched \in [Builder -> Nat]
          /\ cost \in [Builder -> Nat]
          /\ ctx \in [Builder -> [work : SUBSET Item, fetch : Nat]]
          /\ coin \in [Builder -> Nat]
          /\ tries \in [Builder -> Nat]
          /\ seen \in Nat
          /\ pool \subseteq Tx
          /\ balance \in Nat
          /\ counter \in [Key -> Nat]
          /\ times \in [Item -> Nat]
          /\ asked \subseteq Item

Sum(f, S) == MapThenSumSet(LAMBDA i : f[i], S)

-----------------------------------------------------------------------------

\* User.startTransaction: the coin as the wallet knows it.
Start(b) ==
    /\ stage[b] = "none"
    /\ stage' = [stage EXCEPT ![b] = "open"]
    /\ coin' = [coin EXCEPT ![b] = seen]
    /\ UNCHANGED <<work, fetched, cost, ctx, tries, seen, pool, ledger, asked>>

\* append, spawn, invoke and delete, and the spawner's own spawns: at any time,
\* also while the builder is being sent.  Each item is one call of them.
Add(b, i) ==
    /\ stage[b] \notin {"none", "dropped"}
    /\ i \notin asked
    /\ asked' = asked \cup {i}
    /\ work' = [work EXCEPT ![b] = @ \cup {i}]
    /\ cost' = [cost EXCEPT ![b] = @ + Price[i]]
    /\ UNCHANGED <<stage, fetched, ctx, coin, tries, seen, pool, ledger>>

\* sendCoins up to the first await: another fetch in front of the others, and
\* a transaction of all that is in the builder now.
SendCoins(b) ==
    /\ stage[b] = "open"
    /\ work[b] # {}
    /\ tries[b] < MaxTry
    /\ cost[b] <= coin[b]
    /\ stage' = [stage EXCEPT ![b] = "signing"]
    /\ tries' = [tries EXCEPT ![b] = @ + 1]
    /\ fetched' = [fetched EXCEPT ![b] = @ + cost[b]]
    /\ ctx' = [ctx EXCEPT ![b] = [work |-> work[b], fetch |-> fetched[b] + cost[b]]]
    /\ UNCHANGED <<work, cost, coin, seen, pool, ledger, asked>>

\* updateCountersAndSign: the next counter of the key, read from the chain.
Sign(b) ==
    /\ stage[b] = "signing"
    /\ stage' = [stage EXCEPT ![b] = "sent"]
    /\ pool' = pool \cup {[from |-> b, try |-> tries[b], work |-> ctx[b].work,
                           fetch |-> ctx[b].fetch,
                           counter |-> counter[KeyOf[b]] + 1]}
    /\ UNCHANGED <<work, fetched, cost, ctx, coin, tries, seen, ledger, asked>>

\* The request has its answer: the transaction is in a block, or, with a wait
\* of 0, a node has taken it.
Answered(b) == \/ stage[b] = "included"
               \/ b \in NoWait /\ stage[b] = "sent"

\* Mutants: the instructions stay, the cost stays.
ReplyKeepsWork(b) ==
    /\ Answered(b)
    /\ stage' = [stage EXCEPT ![b] = "open"]
    /\ fetched' = [fetched EXCEPT ![b] = 0]
    /\ cost' = [cost EXCEPT ![b] = 0]
    /\ UNCHANGED <<work, ctx, coin, tries, seen, pool, ledger, asked>>
ReplyKeepsCost(b) ==
    /\ Answered(b)
    /\ stage' = [stage EXCEPT ![b] = "open"]
    /\ work' = [work EXCEPT ![b] = {}]
    /\ fetched' = [fetched EXCEPT ![b] = 0]
    /\ UNCHANGED <<cost, ctx, coin, tries, seen, pool, ledger, asked>>

\* The builder is emptied, also of what was appended while it was sent.
Reply(b) ==
    /\ Answered(b)
    /\ stage' = [stage EXCEPT ![b] = "open"]
    /\ work' = [work EXCEPT ![b] = {}]
    /\ fetched' = [fetched EXCEPT ![b] = 0]
    /\ cost' = [cost EXCEPT ![b] = 0]
    /\ UNCHANGED <<ctx, coin, tries, seen, pool, ledger, asked>>

\* An exception: nothing in the builder changes.
AfterFailure(b) == IF b \in Retry THEN "open" ELSE "dropped"

\* No node answers to the request for the counters.
Unreachable(b) ==
    /\ stage[b] = "signing"
    /\ stage' = [stage EXCEPT ![b] = AfterFailure(b)]
    /\ UNCHANGED <<work, fetched, cost, ctx, coin, tries, seen, pool, ledger, asked>>

\* sendTransactionAndWait throws: the block did not come in time, or the answer
\* was lost.  The transaction may still be there.
TimeOut(b) ==
    /\ b \in GiveUp
    /\ stage[b] \in {"sent", "included"}
    /\ stage' = [stage EXCEPT ![b] = AfterFailure(b)]
    /\ UNCHANGED <<work, fetched, cost, ctx, coin, tries, seen, pool, ledger, asked>>

-----------------------------------------------------------------------------
(* The chain.                                                              *)

Waits(t) == stage[t.from] = "sent" /\ tries[t.from] = t.try

Takes(t) == t.fetch + Sum(Amount, t.work)

\* Mutant: the coin may be overdrawn.
AcceptableOnCredit(t) == /\ t.counter = counter[KeyOf[t.from]] + 1
                         /\ Sum(Price, t.work) <= t.fetch

Acceptable(t) == /\ t.counter = counter[KeyOf[t.from]] + 1
                 /\ Sum(Price, t.work) <= t.fetch
                 /\ Takes(t) <= balance

\* All instructions are executed; what the spawner leaves of the fetched
\* coins is lost.
Include(t) ==
    /\ Acceptable(t)
    /\ pool' = pool \ {t}
    /\ balance' = balance - Takes(t)
    /\ counter' = [counter EXCEPT ![KeyOf[t.from]] = @ + 1]
    /\ times' = [i \in Item |-> IF i \in t.work THEN times[i] + 1 ELSE times[i]]
    /\ stage' = IF Waits(t) THEN [stage EXCEPT ![t.from] = "included"] ELSE stage
    /\ UNCHANGED <<work, fetched, cost, ctx, coin, tries, seen, asked>>

\* Mutants: the builder is emptied whatever the answer, a refusal is not told.
RefuseEmpties(t) ==
    /\ ~Acceptable(t)
    /\ pool' = pool \ {t}
    /\ stage' = IF Waits(t) THEN [stage EXCEPT ![t.from] = AfterFailure(t.from)] ELSE stage
    /\ work' = [work EXCEPT ![t.from] = {}]
    /\ cost' = [cost EXCEPT ![t.from] = 0]
    /\ UNCHANGED <<fetched, ctx, coin, tries, seen, ledger, asked>>
RefuseSilently(t) ==
    /\ ~Acceptable(t)
    /\ pool' = pool \ {t}
    /\ UNCHANGED <<builders, seen, ledger, asked>>

Refuse(t) ==
    /\ ~Acceptable(t)
    /\ pool' = pool \ {t}
    /\ stage' = IF Waits(t) THEN [stage EXCEPT ![t.from] = AfterFailure(t.from)] ELSE stage
    /\ UNCHANGED <<work, fetched, cost, ctx, coin, tries, seen, ledger, asked>>

\* CoinBS: the copy follows the chain.
FollowCoin ==
    /\ seen # balance
    /\ seen' = balance
    /\ UNCHANGED <<builders, pool, ledger, asked>>

-----------------------------------------------------------------------------

Init == /\ stage = [b \in Builder |-> "none"]
        /\ work = [b \in Builder |-> {}]
        /\ fetched = [b \in Builder |-> 0]
        /\ cost = [b \in Builder |-> 0]
        /\ ctx = [b \in Builder |-> [work |-> {}, fetch |-> 0]]
        /\ coin = [b \in Builder |-> 0]
        /\ tries = [b \in Builder |-> 0]
        /\ seen = Funds
        /\ pool = {}
        /\ balance = Funds
        /\ counter = [k \in Key |-> 0]
        /\ times = [i \in Item |-> 0]
        /\ asked = {}

Caller(b) == \/ Start(b)
             \/ \E i \in Item : Add(b, i)
             \/ SendCoins(b)

Library(b) == Sign(b) \/ Unreachable(b) \/ Reply(b)

Settle(t) == Include(t) \/ Refuse(t)

Next == \/ \E b \in Builder : Caller(b) \/ Library(b) \/ TimeOut(b)
        \/ \E t \in pool : Settle(t)
        \/ FollowCoin

Spec == Init /\ [][Next]_vars

\* Callers need not go on.  Every request gets an answer or an error, and the
\* nodes take every transaction of the pool up or refuse it.  Nobody counts on
\* a time-out: blocks may come as slowly as they like.
Fairness == /\ \A b \in Builder : WF_vars(Library(b))
            /\ WF_vars(\E t \in pool : Settle(t))

FairSpec == Spec /\ Fairness

-----------------------------------------------------------------------------
(* Properties.                                                             *)

Done == {i \in Item : times[i] > 0}

\* The cost is what the spawner will ask for the instructions in the builder,
\* also after a failure and for the next instructions after a success.
CostIsPrice == \A b \in Builder : cost[b] = Sum(Price, work[b])

\* No instruction is executed twice, however builders with one key race for
\* its counter and whatever is sent again.
OnceOnly == \A i \in Item : times[i] <= 1

\* The account pays the price of what is executed, and no more, for every
\* builder that its caller drops after a failure, as all callers do: whatever
\* was refused, given up or sent from another device in between.
FairCharge ==
    [][\A t \in pool : times' # times /\ t \notin pool' /\ t.from \notin Retry
          => balance - balance' = Sum(Price, t.work) + Sum(Amount, t.work)]_vars

\* The builders are batches (Batch.tla): what is sent together is executed
\* together, once or not at all; a failure keeps all instructions; a builder
\* that waits for its block is emptied only after that block.
Batches == {t.work : t \in pool} \cup
           {ctx[b].work : b \in {c \in Builder : stage[c] = "signing"}}
Promise == INSTANCE Batch WITH Hasty <- NoWait, wanted <- work, sent <- Batches,
                               done <- Done
BatchSpec == Promise!BatchSpec

\* Every sendCoins returns or throws.
SendEnds ==
    \A b \in Builder : stage[b] = "signing" ~> stage[b] \in {"open", "dropped"}
=============================================================================
