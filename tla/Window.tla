------------------------------- MODULE Window -------------------------------
(***************************************************************************)
(* The windows that show a transaction on its way (showTransactions with   *)
(* its DialogTransactionComponent).                                        *)
(*                                                                         *)
(* A window draws the three blocks before the latest one, then every block *)
(* of the stream; the fourth one drawn starts the worker that was given to *)
(* it.  The end of the worker closes the window, after a second or with a  *)
(* button under the error, and closing it settles the promise its caller   *)
(* waits for: an error rejects it, anything else resolves it.  The window  *)
(* is modal, but it goes when the user goes back in the history of the     *)
(* browser: that resolves the promise, and the worker runs on without it.  *)
(***************************************************************************)
EXTENDS Naturals, FiniteSets

CONSTANT Call \* calls of showTransactions

VARIABLES stage,   \* the window of each call
          bars,    \* the blocks that it has drawn
          ub,      \* its subscription to the stream of blocks
          worker,  \* its worker
          starts,  \* history: how often that was started
          promise, \* what the caller waits for
          left     \* history: the user left while the window was there

windows == <<stage, bars, ub, worker, starts, promise, left>>

Stage == {"none", "opening", "open", "closing", "error", "gone"}

WindowsOK == /\ stage \in [Call -> Stage]
             /\ bars \in [Call -> 0..4]
             /\ ub \in [Call -> {"none", "on", "off", "refused"}]
             /\ worker \in [Call -> {"idle", "running", "done", "failed"}]
             /\ starts \in [Call -> Nat]
             /\ promise \in [Call -> {"none", "pending", "resolved", "rejected"}]
             /\ left \in [Call -> BOOLEAN]

Visible(c) == stage[c] \notin {"none", "gone"}

-----------------------------------------------------------------------------

\* showTransactions: the window opens, ngOnInit asks for the stream.
ShowTransactions(c) ==
    /\ stage[c] = "none"
    /\ stage' = [stage EXCEPT ![c] = "opening"]
    /\ promise' = [promise EXCEPT ![c] = "pending"]
    /\ UNCHANGED <<bars, ub, worker, starts, left>>

\* Mutant: every block from the fourth on starts the worker.
StartsFrom(n) == n >= 3

\* updateBlocks, on how many blocks are drawn already: does the next one start
\* the worker?
Starts(n) == n = 3

\* addBlock: the new one comes in, the fifth one goes out.
Drawn(n) == IF n = 4 THEN 4 ELSE n + 1

\* The stream passes a block on to the windows of S.
UpdateBlocks(S) ==
    LET started == {c \in S : Starts(bars[c])}
    IN  /\ bars' = [c \in Call |-> IF c \in S THEN Drawn(bars[c]) ELSE bars[c]]
        /\ worker' = [c \in Call |-> IF c \in started THEN "running" ELSE worker[c]]
        /\ starts' = [c \in Call |-> IF c \in started THEN starts[c] + 1 ELSE starts[c]]

\* ngOnInit has the stream.  Three older blocks come first, and the stream is a
\* BehaviorSubject that passes its latest block on at once: four blocks in one
\* step.  A window that is gone by now does all that as well.
Subscribe(c) ==
    /\ promise[c] # "none"
    /\ ub[c] = "none"
    /\ bars' = [bars EXCEPT ![c] = Drawn(Drawn(Drawn(Drawn(@))))]
    /\ ub' = [ub EXCEPT ![c] = "on"]
    /\ worker' = [worker EXCEPT ![c] = IF \E n \in 0..3 : Starts(n) THEN "running" ELSE @]
    /\ starts' = [starts EXCEPT ![c] = @ + Cardinality({n \in 0..3 : Starts(n)})]
    /\ stage' = [stage EXCEPT ![c] = IF @ = "opening" THEN "open" ELSE @]
    /\ UNCHANGED <<promise, left>>

\* The request for the stream is rejected and nobody catches it: the window
\* stays as it is, without a worker, a timer or a button.
NoStream(c) ==
    /\ promise[c] # "none"
    /\ ub[c] = "none"
    /\ ub' = [ub EXCEPT ![c] = "refused"]
    /\ UNCHANGED <<stage, bars, worker, starts, promise, left>>

\* The worker has succeeded: in a second the window will close.
Succeed(c) ==
    /\ worker[c] = "running"
    /\ worker' = [worker EXCEPT ![c] = "done"]
    /\ ub' = [ub EXCEPT ![c] = "off"]
    /\ stage' = [stage EXCEPT ![c] = IF Visible(c) THEN "closing" ELSE @]
    /\ UNCHANGED <<bars, starts, promise, left>>

\* Mutant: a failure closes the window as a success does.
FailCloses(c) ==
    /\ worker[c] = "running"
    /\ worker' = [worker EXCEPT ![c] = "failed"]
    /\ ub' = [ub EXCEPT ![c] = "off"]
    /\ stage' = [stage EXCEPT ![c] = IF Visible(c) THEN "closing" ELSE @]
    /\ UNCHANGED <<bars, starts, promise, left>>

\* Mutant: the error is logged, and not shown.
FailSilent(c) ==
    /\ worker[c] = "running"
    /\ worker' = [worker EXCEPT ![c] = "failed"]
    /\ ub' = [ub EXCEPT ![c] = "off"]
    /\ UNCHANGED <<stage, bars, starts, promise, left>>

\* The worker has thrown: the window shows the error, with a button.
Fail(c) ==
    /\ worker[c] = "running"
    /\ worker' = [worker EXCEPT ![c] = "failed"]
    /\ ub' = [ub EXCEPT ![c] = "off"]
    /\ stage' = [stage EXCEPT ![c] = IF Visible(c) THEN "error" ELSE @]
    /\ UNCHANGED <<bars, starts, promise, left>>

\* The window goes, and what it was closed with settles the promise.
Close(c, settled) ==
    /\ stage' = [stage EXCEPT ![c] = "gone"]
    /\ promise' = [promise EXCEPT ![c] = settled]
    /\ UNCHANGED <<bars, ub, worker, starts>>

\* The second after a success is over: the window is closed with the result.
Timer(c) == stage[c] = "closing" /\ Close(c, "resolved") /\ UNCHANGED left

\* The button under the error closes the window with it.
PressClose(c) == stage[c] = "error" /\ Close(c, "rejected") /\ UNCHANGED left

\* The user goes back in the history of the browser, which closes the window
\* with no value: for the caller it is as if a worker without a result had
\* succeeded.
Leave(c) ==
    /\ Visible(c)
    /\ Close(c, "resolved")
    /\ left' = [left EXCEPT ![c] = TRUE]

WindowsInit == /\ stage = [c \in Call |-> "none"]
               /\ bars = [c \in Call |-> 0]
               /\ ub = [c \in Call |-> "none"]
               /\ worker = [c \in Call |-> "idle"]
               /\ starts = [c \in Call |-> 0]
               /\ promise = [c \in Call |-> "none"]
               /\ left = [c \in Call |-> FALSE]

\* What goes on in the window of a call without its user.
WindowStep(c) == \/ Subscribe(c) \/ NoStream(c)
                 \/ Succeed(c) \/ Fail(c) \/ Timer(c)

WindowsNext == \E c \in Call : \/ ShowTransactions(c)
                               \/ WindowStep(c)
                               \/ PressClose(c)
                               \/ Leave(c)

-----------------------------------------------------------------------------
(* Properties.                                                             *)

\* However many blocks pass, and even when the user has left, what a window was
\* opened for is done once: its transactions are never sent a second time.
WorkerOnce == \A c \in Call : starts[c] <= 1

\* What a caller is told is what became of its worker: a rejection always, and
\* a resolved promise unless the user left the window.  Then nobody knows: the
\* worker may still run, fail later, or have failed with the error on the
\* screen.
ToldAsItEnded ==
    \A c \in Call : /\ promise[c] = "rejected" => worker[c] = "failed"
                    /\ promise[c] = "resolved" => worker[c] = "done" \/ left[c]

\* A caller gets its answer, or the error waits on the screen for the user.
\* (Not so if the stream of blocks was refused.)
CallEnds ==
    \A c \in Call :
       promise[c] = "pending"
          ~> (promise[c] # "pending" \/ stage[c] = "error" \/ ub[c] = "refused")
=============================================================================
