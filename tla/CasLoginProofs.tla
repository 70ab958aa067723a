--------------------------- MODULE CasLoginProofs ---------------------------
(* A ticket is earned, expires and is honoured, for any number of users,     *)
(* services, challenges and blocks: proofs about CasLogin.                   *)
EXTENDS CasLogin, SequenceTheorems, TLAPS

USE ActionsAssumption, ChallengesAssumption, TimesAssumption

\* A page that asks, or waits for its transaction, is for a known action.
PagesKnow ==
    \A u \in User : page[u] \in {"asking", "sending"} => ActionOf[url[u]] \in Action

\* A member could sign just now; nobody could in the future.
LastIsPast ==
    \A m \in User \X Action : last[m] <= clock /\ (m \in member => last[m] = clock)

\* Blocks are not of the future, and come in the order of their times.
TimesGrow ==
    /\ \A i \in DOMAIN blocks : blocks[i].time <= clock
    /\ \A i, j \in DOMAIN blocks : i <= j => blocks[i].time <= blocks[j].time

\* Who signed the transactions of a block could do so when it was made.
SignersCould ==
    \A i \in DOMAIN blocks : \A tx \in blocks[i].passed :
       blocks[i].time <= last[<<tx.user, tx.action>>]

\* The block number i settles the check of s.
Settles(s, i) ==
    /\ ~TooOld(blocks[i])
    /\ Proves(blocks[i], walk[s].user, ActionOf[s], walk[s].challenge)

\* A walk is on the chain, and none of the blocks behind it settles the check.
WalksMissNone ==
    \A s \in Service : walk[s].at > 0 =>
       /\ walk[s].at <= walk[s].from
       /\ walk[s].from <= Len(blocks)
       /\ \A i \in DOMAIN blocks :
             walk[s].at < i /\ i <= walk[s].from => ~Settles(s, i)

\* The inductive invariant.
CasInv == /\ TypeOK
          /\ PagesKnow
          /\ LastIsPast
          /\ TimesGrow
          /\ SignersCould
          /\ WalksMissNone
          /\ AccessIsEarned
          /\ AccessExpires
          /\ NoFalseRefusal

-----------------------------------------------------------------------------
(* The chain.                                                              *)

LEMMA InitInv == Init => CasInv
<1> SUFFICES ASSUME Init PROVE CasInv
  OBVIOUS
<1> DEFINE b == [time |-> 0, passed |-> {}, failed |-> {}]
<1>1. b \in Block /\ b.time = 0 /\ b.passed = {}
  BY DEF Block
<1>2. blocks = <<b>>
  BY DEF Init
<1> HIDE DEF b
<1>3. blocks \in Seq(Block) /\ DOMAIN blocks = {1} /\ blocks[1] = b
  BY <1>1, <1>2
<1>4. TypeOK
  BY <1>3 DEF Init, TypeOK, State
<1>5. PagesKnow /\ LastIsPast
  BY DEF Init, PagesKnow, LastIsPast
<1>6. TimesGrow
  BY <1>1, <1>3 DEF Init, TimesGrow
<1>7. SignersCould
  BY <1>1, <1>3 DEF SignersCould
<1>8. WalksMissNone
  BY DEF Init, WalksMissNone, Idle
<1>9. AccessIsEarned /\ AccessExpires /\ NoFalseRefusal
  BY DEF Init, AccessIsEarned, AccessExpires, NoFalseRefusal
<1>10. QED
  BY <1>4, <1>5, <1>6, <1>7, <1>8, <1>9 DEF CasInv

\* Every block is one.
LEMMA BlockTyped ==
  ASSUME TypeOK, NEW i \in DOMAIN blocks
  PROVE  blocks[i].time \in Nat /\ blocks[i].passed \in SUBSET Tx
<1>1. blocks[i] \in Block
  BY ElementOfSeq, LenProperties DEF TypeOK
<1>2. QED
  BY <1>1 DEF Block

\* What passed stays passed when the chain only grows.
LEMMA PassedStays ==
  ASSUME NEW i \in DOMAIN blocks, i \in DOMAIN blocks', blocks'[i] = blocks[i],
         NEW tx \in blocks[i].passed
  PROVE  tx \in Passed'
BY DEF Passed

\* An accepted ticket is for an action that is known.
LEMMA AcceptedIsKnown ==
  ASSUME TypeOK, AccessIsEarned, NEW v \in accepted
  PROVE  <<v.user, ActionOf[v.url]>> \in User \X Action
<1>1. PICK tx \in Passed : tx.user = v.user /\ tx.action = ActionOf[v.url]
  BY DEF AccessIsEarned
<1>2. tx \in Tx
  BY BlockTyped DEF Passed
<1>3. QED
  BY <1>1, <1>2 DEF Tx

\* The right to sign is never dated back.
LEMMA LastGrows ==
  ASSUME CasInv, \/ Tick
                 \/ \E u \in User, a \in Action : Admit(u, a)
  PROVE  /\ last' \in [User \X Action -> Nat]
         /\ \A m \in User \X Action : last[m] <= last'[m]
<1>1. CASE Tick
  BY <1>1 DEF CasInv, TypeOK, Tick, LastIsPast
<1>2. CASE \E u \in User, a \in Action : Admit(u, a)
  BY <1>2 DEF CasInv, TypeOK, Admit, LastIsPast
<1>3. QED
  BY <1>1, <1>2

\* A later end to the rights and the same chain keep what was accepted in order.
LEMMA TimesStay ==
  ASSUME CasInv, UNCHANGED <<blocks, accepted>>,
         \A m \in User \X Action : last[m] <= last'[m],
         last' \in [User \X Action -> Nat]
  PROVE  SignersCould' /\ AccessIsEarned' /\ AccessExpires'
<1>1. SignersCould'
  <2> SUFFICES ASSUME NEW i \in DOMAIN blocks, NEW tx \in blocks[i].passed
               PROVE  blocks[i].time <= last'[<<tx.user, tx.action>>]
    BY DEF SignersCould
  <2>1. tx \in Tx /\ blocks[i].time \in Nat
    BY BlockTyped DEF CasInv
  <2> DEFINE m == <<tx.user, tx.action>>
  <2>2. m \in User \X Action
    BY <2>1 DEF Tx
  <2>3. blocks[i].time <= last[m] /\ last[m] \in Nat /\ last'[m] \in Nat
    BY <2>2 DEF CasInv, SignersCould, TypeOK
  <2>4. last[m] <= last'[m]
    BY <2>2
  <2> HIDE DEF m
  <2>5. blocks[i].time <= last'[m]
    BY <2>1, <2>3, <2>4
  <2>6. QED
    BY <2>5 DEF m
<1>2. AccessIsEarned'
  BY DEF CasInv, AccessIsEarned, Passed
<1>3. AccessExpires'
  <2> SUFFICES ASSUME NEW v \in accepted
               PROVE  v.time < last'[<<v.user, ActionOf[v.url]>>] + Validity
    BY DEF AccessExpires
  <2> DEFINE m == <<v.user, ActionOf[v.url]>>
  <2>1. m \in User \X Action
    BY AcceptedIsKnown DEF CasInv
  <2>2. v.time < last[m] + Validity /\ last[m] \in Nat /\ last'[m] \in Nat
    BY <2>1 DEF CasInv, AccessExpires, TypeOK
  <2>3. v.time \in Nat
    BY DEF CasInv, TypeOK, Verdict
  <2>4. last[m] <= last'[m]
    BY <2>1
  <2> HIDE DEF m
  <2>5. v.time < last'[m] + Validity
    BY <2>2, <2>3, <2>4
  <2>6. QED
    BY <2>5 DEF m
<1>4. QED
  BY <1>1, <1>2, <1>3

\* A block that was too old stays it.
LEMMA TickKeeps == ASSUME CasInv, Tick PROVE CasInv'
<1>1. clock \in Nat /\ clock' = clock + 1
  BY DEF Tick, CasInv, TypeOK
<1>2. UNCHANGED <<member, pool, blocks, page, url, secret, issued, walk,
                  accepted, refused>>
  BY DEF Tick, pages, checks
<1>3. /\ last' \in [User \X Action -> Nat]
      /\ \A m \in User \X Action : last[m] <= last'[m]
  BY LastGrows
<1>4. TypeOK'
  BY <1>1, <1>2, <1>3 DEF CasInv, TypeOK
<1>5. PagesKnow' /\ NoFalseRefusal'
  BY <1>2 DEF CasInv, PagesKnow, NoFalseRefusal
<1>6. LastIsPast'
  <2> SUFFICES ASSUME NEW m \in User \X Action
               PROVE  last'[m] <= clock' /\ (m \in member' => last'[m] = clock')
    BY DEF LastIsPast
  <2>1. last[m] \in Nat /\ last[m] <= clock
    BY DEF CasInv, TypeOK, LastIsPast
  <2>2. last'[m] = IF m \in member THEN clock + 1 ELSE last[m]
    BY DEF Tick
  <2>3. QED
    BY <1>1, <1>2, <2>1, <2>2
<1>7. TimesGrow'
  <2>1. \A i \in DOMAIN blocks : blocks[i].time \in Nat
    BY BlockTyped DEF CasInv
  <2>2. QED
    BY <1>1, <1>2, <2>1 DEF CasInv, TimesGrow
<1>8. WalksMissNone'
  <2> SUFFICES ASSUME NEW s \in Service, walk[s].at > 0
               PROVE  /\ walk[s].at <= walk[s].from
                      /\ walk[s].from <= Len(blocks)
                      /\ \A i \in DOMAIN blocks :
                            walk[s].at < i /\ i <= walk[s].from => ~Settles(s, i)'
    BY <1>2 DEF WalksMissNone
  <2>1. /\ walk[s].at <= walk[s].from
        /\ walk[s].from <= Len(blocks)
    BY DEF CasInv, WalksMissNone
  <2>2. SUFFICES ASSUME NEW i \in DOMAIN blocks, walk[s].at < i, i <= walk[s].from,
                        Settles(s, i)'
                 PROVE  FALSE
    BY <2>1
  <2>3. ~Settles(s, i)
    BY <2>2 DEF CasInv, WalksMissNone
  <2>4. blocks[i].time \in Nat
    BY BlockTyped DEF CasInv
  <2>5. QED
    BY <1>1, <1>2, <2>2, <2>3, <2>4 DEF Settles, TooOld, Proves
<1>9. SignersCould' /\ AccessIsEarned' /\ AccessExpires'
  BY <1>2, <1>3, TimesStay
<1>10. QED
  BY <1>4, <1>5, <1>6, <1>7, <1>8, <1>9 DEF CasInv

\* A new block is the latest, and what passes in it is signed by members.
LEMMA MakeBlockKeeps ==
  ASSUME CasInv, NEW S \in SUBSET pool, MakeBlock(S) PROVE CasInv'
<1> DEFINE new == [time |-> clock,
                   passed |-> {tx \in S : <<tx.user, tx.action>> \in member},
                   failed |-> {tx \in S : <<tx.user, tx.action>> \notin member}]
<1>1. new \in Block
  BY DEF CasInv, TypeOK, Block
<1>2. /\ new.time = clock
      /\ \A tx \in new.passed : <<tx.user, tx.action>> \in member /\ tx \in Tx
  BY DEF CasInv, TypeOK
<1>3. /\ blocks' = Append(blocks, new)
      /\ UNCHANGED <<clock, member, last, page, url, secret, issued, walk,
                     accepted, refused>>
  BY DEF MakeBlock, pages, checks
<1>4. pool' \subseteq Tx
  BY DEF MakeBlock, CasInv, TypeOK
<1> HIDE DEF new
<1> DEFINE n == Len(blocks)
<1>5. /\ blocks' \in Seq(Block) /\ n \in Nat
      /\ DOMAIN blocks = 1..n /\ DOMAIN blocks' = 1..(n + 1) /\ Len(blocks') = n + 1
      /\ \A i \in 1..n : blocks'[i] = blocks[i]
      /\ blocks'[n + 1] = new
  BY <1>1, <1>3, AppendProperties, LenProperties DEF CasInv, TypeOK
<1> HIDE DEF n
<1>6. TypeOK'
  BY <1>3, <1>4, <1>5 DEF CasInv, TypeOK
<1>7. PagesKnow' /\ LastIsPast' /\ NoFalseRefusal'
  BY <1>3 DEF CasInv, PagesKnow, LastIsPast, NoFalseRefusal
<1>8. \A i \in DOMAIN blocks' : i \in DOMAIN blocks \/ i = n + 1
  BY <1>5
<1>9. \A i \in DOMAIN blocks : i < n + 1 /\ i \in Nat
  BY <1>5
<1>10. clock \in Nat
  BY DEF CasInv, TypeOK
<1>11. TimesGrow'
  <2>1. \A i \in DOMAIN blocks' : blocks'[i].time <= clock
    BY <1>2, <1>5, <1>8, <1>10 DEF CasInv, TimesGrow
  <2>2. ASSUME NEW i \in DOMAIN blocks', NEW j \in DOMAIN blocks', i <= j
        PROVE  blocks'[i].time <= blocks'[j].time
    <3>1. CASE j = n + 1
      BY <1>2, <1>5, <2>1, <3>1
    <3>2. CASE j \in DOMAIN blocks
      <4>1. i \in DOMAIN blocks
        BY <1>5, <2>2, <3>2
      <4>2. QED
        BY <1>5, <2>2, <3>2, <4>1 DEF CasInv, TimesGrow
    <3>3. QED
      BY <1>8, <3>1, <3>2
  <2>3. QED
    BY <1>3, <2>1, <2>2 DEF TimesGrow
<1>12. SignersCould'
  <2> SUFFICES ASSUME NEW i \in DOMAIN blocks', NEW tx \in blocks'[i].passed
               PROVE  blocks'[i].time <= last[<<tx.user, tx.action>>]
    BY <1>3 DEF SignersCould
  <2>1. CASE i \in DOMAIN blocks
    BY <1>5, <2>1 DEF CasInv, SignersCould
  <2>2. CASE i = n + 1
    <3>1. <<tx.user, tx.action>> \in member
      BY <1>2, <1>5, <2>2
    <3>2. last[<<tx.user, tx.action>>] = clock
      BY <3>1 DEF CasInv, LastIsPast, TypeOK
    <3>3. QED
      BY <1>2, <1>5, <1>10, <2>2, <3>2
  <2>3. QED
    BY <1>8, <2>1, <2>2
<1>13. WalksMissNone'
  <2> SUFFICES ASSUME NEW s \in Service, walk[s].at > 0
               PROVE  /\ walk[s].at <= walk[s].from
                      /\ walk[s].from <= n + 1
                      /\ \A i \in DOMAIN blocks' :
                            walk[s].at < i /\ i <= walk[s].from => ~Settles(s, i)'
    BY <1>3, <1>5 DEF WalksMissNone
  <2>1. /\ walk[s].at <= walk[s].from
        /\ walk[s].from <= n
        /\ walk[s].from \in Nat
    BY DEF CasInv, WalksMissNone, TypeOK, Walk, Asked, Idle, n
  <2>2. SUFFICES ASSUME NEW i \in DOMAIN blocks', walk[s].at < i, i <= walk[s].from,
                        Settles(s, i)'
                 PROVE  FALSE
    BY <1>5, <2>1
  <2>3. i \in DOMAIN blocks
    BY <1>5, <2>1, <2>2
  <2>4. blocks'[i] = blocks[i] /\ ~Settles(s, i)
    BY <1>5, <2>2, <2>3 DEF CasInv, WalksMissNone
  <2>5. QED
    BY <1>3, <2>2, <2>4 DEF Settles, TooOld, Proves
<1>14. Passed \subseteq Passed'
  BY <1>5 DEF Passed
<1>15. AccessIsEarned' /\ AccessExpires'
  BY <1>3, <1>14 DEF CasInv, AccessIsEarned, AccessExpires
<1>16. QED
  BY <1>6, <1>7, <1>11, <1>12, <1>13, <1>15 DEF CasInv

-----------------------------------------------------------------------------
(* The members of the action.                                              *)

LEMMA MembersKeep ==
  ASSUME CasInv, NEW u \in User, NEW a \in Action, Admit(u, a) \/ Expel(u, a)
  PROVE  CasInv'
<1>1. UNCHANGED <<clock, pool, blocks, page, url, secret, issued, walk,
                  accepted, refused>>
  BY DEF Admit, Expel, pages, checks
<1>2. /\ last' \in [User \X Action -> Nat]
      /\ \A m \in User \X Action : last[m] <= last'[m]
  <2>1. CASE Admit(u, a)
    BY <2>1, LastGrows
  <2>2. CASE Expel(u, a)
    BY <2>2 DEF Expel, CasInv, TypeOK
  <2>3. QED
    BY <2>1, <2>2
<1>3. TypeOK'
  BY <1>1, <1>2 DEF CasInv, TypeOK, Admit, Expel
<1>4. LastIsPast'
  <2>1. CASE Admit(u, a)
    <3>1. last' = [last EXCEPT ![<<u, a>>] = clock] /\ member' = member \cup {<<u, a>>}
      BY <2>1 DEF Admit
    <3>2. clock \in Nat /\ <<u, a>> \in User \X Action
      BY DEF CasInv, TypeOK
    <3>3. QED
      BY <1>1, <3>1, <3>2 DEF CasInv, LastIsPast, TypeOK
  <2>2. CASE Expel(u, a)
    BY <1>1, <2>2 DEF Expel, CasInv, LastIsPast
  <2>3. QED
    BY <2>1, <2>2
<1>5. PagesKnow' /\ NoFalseRefusal' /\ TimesGrow'
  BY <1>1 DEF CasInv, PagesKnow, NoFalseRefusal, TimesGrow
<1>6. WalksMissNone'
  BY <1>1 DEF CasInv, WalksMissNone, Settles, TooOld, Proves
<1>7. SignersCould' /\ AccessIsEarned' /\ AccessExpires'
  BY <1>1, <1>2, TimesStay
<1>8. QED
  BY <1>3, <1>4, <1>5, <1>6, <1>7 DEF CasInv

-----------------------------------------------------------------------------
(* The login page.                                                         *)

\* A step of a page touches neither the chain nor the checks: its types and the
\* action behind it are all that there is to see.
LEMMA PageStepKeeps ==
  ASSUME CasInv, UNCHANGED <<clock, member, last, blocks, walk, accepted, refused>>,
         TypeOK', PagesKnow'
  PROVE  CasInv'
<1>1. LastIsPast' /\ TimesGrow' /\ SignersCould' /\ NoFalseRefusal'
  BY DEF CasInv, LastIsPast, TimesGrow, SignersCould, NoFalseRefusal
<1>2. WalksMissNone'
  BY DEF CasInv, WalksMissNone, Settles, TooOld, Proves
<1>3. AccessIsEarned' /\ AccessExpires'
  BY DEF CasInv, AccessIsEarned, AccessExpires, Passed
<1>4. QED
  BY <1>1, <1>2, <1>3 DEF CasInv

\* Every step of a page has this invariant.
LEMMA PageKeeps == ASSUME CasInv, NEW u \in User, Page(u) PROVE CasInv'
<1>1. UNCHANGED <<clock, member, last, blocks, walk, accepted, refused>>
  BY DEF Page, Visit, Load, Login, Deny, Redirect, NoAccess, Trouble, ledger, checks
<1>2. TypeOK' /\ PagesKnow'
  <2>1. ASSUME NEW s \in Url, Visit(u, s) PROVE TypeOK' /\ PagesKnow'
    BY <2>1 DEF CasInv, TypeOK, PagesKnow, State, Visit, ledger, checks
  <2>2. CASE Load(u)
    <3>1. PICK p \in State : /\ page' = [page EXCEPT ![u] = p]
                             /\ p = "asking" => <<u, ActionOf[url[u]]>> \in member
                             /\ p # "sending"
      <4> DEFINE a == ActionOf[url[u]]
      <4>1. CASE a = NoAction
        <5>1. <<u, a>> \notin member
          BY <4>1 DEF CasInv, TypeOK
        <5>2. page' = [page EXCEPT ![u] = "nosuch"]
          BY <2>2, <4>1, <5>1 DEF Load
        <5>3. QED
          BY <5>2 DEF State
      <4>2. CASE a # NoAction /\ <<u, a>> \in member
        <5>1. page' = [page EXCEPT ![u] = "asking"]
          BY <2>2, <4>2 DEF Load
        <5>2. QED
          BY <4>2, <5>1 DEF State
      <4>3. CASE a # NoAction /\ <<u, a>> \notin member
        <5>1. page' = [page EXCEPT ![u] = "noaccess"]
          BY <2>2, <4>3 DEF Load
        <5>2. QED
          BY <5>1 DEF State
      <4>4. QED
        BY <4>1, <4>2, <4>3
    <3>2. p = "asking" => ActionOf[url[u]] \in Action
      BY <3>1 DEF CasInv, TypeOK
    <3>3. UNCHANGED <<pool, url, secret, issued>>
      BY <2>2 DEF Load, ledger
    <3>4. QED
      BY <1>1, <3>1, <3>2, <3>3 DEF CasInv, TypeOK, PagesKnow
  <2>3. CASE Login(u)
    <3>1. PICK c \in Challenge :
             /\ secret' = [secret EXCEPT ![u] = c]
             /\ pool' = pool \cup {[user |-> u, action |-> ActionOf[url[u]],
                                    challenge |-> c]}
      BY <2>3 DEF Login
    <3>2. ActionOf[url[u]] \in Action
      BY <2>3 DEF Login, CasInv, PagesKnow
    <3>3. pool' \subseteq Tx /\ secret' \in [User -> Challenge \cup {NoChallenge}]
      BY <3>1, <3>2 DEF CasInv, TypeOK, Tx
    <3>4. page' = [page EXCEPT ![u] = "sending"] /\ UNCHANGED <<url, issued>>
      BY <2>3 DEF Login
    <3>5. QED
      BY <1>1, <3>2, <3>3, <3>4 DEF CasInv, TypeOK, PagesKnow, State
  <2>4. CASE Redirect(u)
    <3>1. PICK tx \in Passed : tx.challenge = secret[u]
      BY <2>4 DEF Redirect
    <3>2. tx \in Tx
      BY BlockTyped DEF Passed, CasInv
    <3>3. [user |-> u, challenge |-> secret[u], url |-> url[u]] \in Ticket
      BY <3>1, <3>2 DEF Ticket, Tx, CasInv, TypeOK
    <3>4. issued' \subseteq Ticket
      BY <2>4, <3>3 DEF Redirect, CasInv, TypeOK
    <3>5. /\ page' = [page EXCEPT ![u] = "redirecting"]
          /\ UNCHANGED <<pool, url, secret>>
      BY <2>4 DEF Redirect, ledger
    <3>6. QED
      BY <1>1, <3>4, <3>5 DEF CasInv, TypeOK, PagesKnow, State
  <2>5. CASE Deny(u) \/ NoAccess(u) \/ Trouble(u)
    <3>1. PICK p \in State : /\ page' = [page EXCEPT ![u] = p]
                             /\ p = "asking" => page[u] = "sending"
                             /\ p # "sending"
      BY <2>5 DEF Deny, NoAccess, Trouble, State
    <3>2. UNCHANGED <<pool, url, secret, issued>>
      BY <2>5 DEF Deny, NoAccess, Trouble, ledger
    <3>3. QED
      BY <1>1, <3>1, <3>2 DEF CasInv, TypeOK, PagesKnow
  <2>6. QED
    BY <2>1, <2>2, <2>3, <2>4, <2>5 DEF Page
<1>3. QED
  BY <1>1, <1>2, PageStepKeeps

-----------------------------------------------------------------------------
(* The CAS.                                                                *)

\* A step of a check leaves the rest alone.
LEMMA CheckStepKeeps ==
  ASSUME CasInv, UNCHANGED <<clock, ledger, pages>>
  PROVE  PagesKnow' /\ LastIsPast' /\ TimesGrow' /\ SignersCould'
BY DEF CasInv, PagesKnow, LastIsPast, TimesGrow, SignersCould, ledger, pages

\* The walk that a check goes on with.
LEMMA WalkTyped ==
  ASSUME CasInv, NEW s \in Service, walk[s].at > 0
  PROVE  /\ walk[s] \in Walk
         /\ walk[s].at \in DOMAIN blocks
         /\ walk[s].at <= walk[s].from
         /\ walk[s].from \in Nat /\ walk[s].from <= Len(blocks)
<1>1. walk[s] \in Walk
  BY DEF CasInv, TypeOK, Asked, Idle
<1>2. /\ walk[s].at \in Nat /\ walk[s].from \in Nat
      /\ walk[s].at <= walk[s].from /\ walk[s].from <= Len(blocks)
  BY <1>1 DEF CasInv, WalksMissNone, Walk
<1>3. Len(blocks) \in Nat /\ DOMAIN blocks = 1..Len(blocks)
  BY LenProperties DEF CasInv, TypeOK
<1>4. QED
  BY <1>1, <1>2, <1>3

\* The check of one service leaves those of the others alone.
LEMMA OthersMissNone ==
  ASSUME CasInv, UNCHANGED <<clock, ledger>>, NEW s \in Service, NEW w,
         walk' = [walk EXCEPT ![s] = w],
         w.at > 0 =>
            /\ w.at <= w.from /\ w.from <= Len(blocks)
            /\ \A i \in DOMAIN blocks : w.at < i /\ i <= w.from =>
                  TooOld(blocks[i]) \/ ~Proves(blocks[i], w.user, ActionOf[s], w.challenge)
  PROVE  WalksMissNone'
<1> SUFFICES ASSUME NEW r \in Service, walk'[r].at > 0
             PROVE  /\ walk'[r].at <= walk'[r].from
                    /\ walk'[r].from <= Len(blocks)
                    /\ \A i \in DOMAIN blocks :
                          walk'[r].at < i /\ i <= walk'[r].from => ~Settles(r, i)'
  BY DEF WalksMissNone, ledger
<1>1. CASE r = s
  <2>1. walk'[r] = w
    BY <1>1 DEF CasInv, TypeOK
  <2>2. QED
    BY <1>1, <2>1 DEF Settles, TooOld, Proves, ledger
<1>2. CASE r # s
  <2>1. walk'[r] = walk[r]
    BY <1>2 DEF CasInv, TypeOK
  <2>2. QED
    BY <2>1 DEF CasInv, WalksMissNone, Settles, TooOld, Proves, ledger
<1>3. QED
  BY <1>1, <1>2

\* A ticket that is asked about has no walk.
LEMMA ValidateKeeps ==
  ASSUME CasInv, NEW s \in Service, NEW k \in issued, Validate(s, k) PROVE CasInv'
<1>1. UNCHANGED <<clock, ledger, pages, accepted, refused>>
  BY DEF Validate
<1> DEFINE w == [at |-> 0, user |-> k.user, challenge |-> k.challenge]
<1>2. walk' = [walk EXCEPT ![s] = w] /\ ~(w.at > 0)
  BY DEF Validate
<1>3. w \in Asked
  BY DEF CasInv, TypeOK, Ticket, Asked
<1> HIDE DEF w
<1>4. WalksMissNone'
  BY <1>1, <1>2, OthersMissNone
<1>5. TypeOK'
  BY <1>1, <1>2, <1>3 DEF CasInv, TypeOK, ledger, pages
<1>6. AccessIsEarned' /\ AccessExpires' /\ NoFalseRefusal'
  BY <1>1 DEF CasInv, AccessIsEarned, AccessExpires, NoFalseRefusal, Passed, ledger
<1>7. QED
  BY <1>1, <1>4, <1>5, <1>6, CheckStepKeeps DEF CasInv

\* The walk begins at a block of the chain, with none behind it.
LEMMA BeginKeeps ==
  ASSUME CasInv, NEW s \in Service, Begin(s) PROVE CasInv'
<1>1. UNCHANGED <<clock, ledger, pages, accepted, refused>>
  BY DEF Begin
<1>2. PICK i \in DOMAIN blocks :
         walk' = [walk EXCEPT ![s] = [at |-> i, from |-> i, user |-> walk[s].user,
                                      challenge |-> walk[s].challenge]]
  BY DEF Begin
<1> DEFINE w == [at |-> i, from |-> i, user |-> walk[s].user,
                 challenge |-> walk[s].challenge]
<1>3. i \in Nat /\ i <= Len(blocks) /\ DOMAIN blocks = 1..Len(blocks) /\ Len(blocks) \in Nat
  BY LenProperties DEF CasInv, TypeOK
<1>4. w \in Walk
  <2>1. walk[s] \in Walk \cup Asked
    BY DEF Begin, CasInv, TypeOK
  <2>2. walk[s].user \in User /\ walk[s].challenge \in Challenge
    BY <2>1 DEF Walk, Asked
  <2>3. QED
    BY <1>3, <2>2 DEF Walk
<1>5. w.at = i /\ w.from = i
  OBVIOUS
<1>6. walk' = [walk EXCEPT ![s] = w]
  BY <1>2
<1> HIDE DEF w
<1>7. WalksMissNone'
  <2>1. \A j \in DOMAIN blocks : ~(w.at < j /\ j <= w.from)
    BY <1>3, <1>5
  <2>2. w.at <= w.from /\ w.from <= Len(blocks)
    BY <1>3, <1>5
  <2>3. QED
    BY <1>1, <1>6, <2>1, <2>2, OthersMissNone
<1>8. TypeOK'
  BY <1>1, <1>4, <1>6 DEF CasInv, TypeOK, ledger, pages
<1>9. AccessIsEarned' /\ AccessExpires' /\ NoFalseRefusal'
  BY <1>1 DEF CasInv, AccessIsEarned, AccessExpires, NoFalseRefusal, Passed, ledger
<1>10. QED
  BY <1>1, <1>7, <1>8, <1>9, CheckStepKeeps DEF CasInv

\* The block that the walk leaves behind did not settle it.
LEMMA StepBackKeeps ==
  ASSUME CasInv, NEW s \in Service, StepBack(s) PROVE CasInv'
<1>1. UNCHANGED <<clock, ledger, pages, accepted, refused>>
  BY DEF StepBack
<1> DEFINE w == [walk[s] EXCEPT !.at = @ - 1]
<1>2. walk' = [walk EXCEPT ![s] = w]
  BY DEF StepBack
<1>3. /\ walk[s] \in Walk
      /\ walk[s].at \in DOMAIN blocks
      /\ walk[s].at <= walk[s].from
      /\ walk[s].from \in Nat /\ walk[s].from <= Len(blocks)
      /\ walk[s].at > 1
  <2>1. walk[s].at > 1 /\ walk[s].at \in Nat
    BY DEF StepBack, CasInv, TypeOK, Walk, Asked, Idle
  <2>2. walk[s].at > 0
    BY <2>1
  <2>3. QED
    BY <2>1, <2>2, WalkTyped
<1>4. walk[s].at \in Nat /\ \A i \in DOMAIN blocks : i \in Nat
  BY <1>3 DEF Walk
<1>5. w \in Walk
  BY <1>3, <1>4 DEF Walk
<1>6. /\ w.at = walk[s].at - 1 /\ w.from = walk[s].from
      /\ w.user = walk[s].user /\ w.challenge = walk[s].challenge
  BY <1>3 DEF Walk
<1> HIDE DEF w
<1>7. WalksMissNone'
  <2>1. ASSUME NEW i \in DOMAIN blocks, w.at < i, i <= w.from
        PROVE  TooOld(blocks[i]) \/ ~Proves(blocks[i], w.user, ActionOf[s], w.challenge)
    <3>1. CASE i = walk[s].at
      BY <1>6, <3>1 DEF StepBack
    <3>2. CASE walk[s].at < i
      BY <1>3, <1>6, <2>1, <3>2 DEF CasInv, WalksMissNone, Settles
    <3>3. QED
      BY <1>4, <1>6, <2>1, <3>1, <3>2
  <2>2. w.at <= w.from /\ w.from <= Len(blocks)
    BY <1>3, <1>4, <1>6
  <2>3. QED
    BY <1>1, <1>2, <2>1, <2>2, OthersMissNone
<1>8. TypeOK'
  BY <1>1, <1>2, <1>5 DEF CasInv, TypeOK, ledger, pages
<1>9. AccessIsEarned' /\ AccessExpires' /\ NoFalseRefusal'
  BY <1>1 DEF CasInv, AccessIsEarned, AccessExpires, NoFalseRefusal, Passed, ledger
<1>10. QED
  BY <1>1, <1>7, <1>8, <1>9, CheckStepKeeps DEF CasInv

\* The end of a check.
LEMMA StopKeeps ==
  ASSUME CasInv, UNCHANGED <<clock, ledger>>, NEW s \in Service, Stop(s)
  PROVE  WalksMissNone' /\ walk' \in [Service -> Walk \cup Asked \cup {Idle}]
<1>1. walk' = [walk EXCEPT ![s] = Idle] /\ ~(Idle.at > 0)
  BY DEF Stop, Idle
<1>2. WalksMissNone'
  BY <1>1, OthersMissNone
<1>3. QED
  BY <1>1, <1>2 DEF CasInv, TypeOK

\* A request that fails says nothing of the ticket.
LEMMA FailKeeps ==
  ASSUME CasInv, NEW s \in Service, Fail(s) PROVE CasInv'
<1>1. UNCHANGED <<clock, ledger, pages, accepted, refused>>
  BY DEF Fail
<1>2. WalksMissNone' /\ walk' \in [Service -> Walk \cup Asked \cup {Idle}]
  BY <1>1, StopKeeps DEF Fail
<1>3. TypeOK' /\ NoFalseRefusal'
  BY <1>1, <1>2 DEF CasInv, TypeOK, NoFalseRefusal, ledger, pages
<1>4. AccessIsEarned' /\ AccessExpires'
  BY <1>1 DEF CasInv, AccessIsEarned, AccessExpires, Passed, ledger
<1>5. QED
  BY <1>1, <1>2, <1>3, <1>4, CheckStepKeeps DEF CasInv

\* What a service accepts was signed at the time of a recent block.
LEMMA AcceptKeeps ==
  ASSUME CasInv, NEW s \in Service, Accept(s) PROVE CasInv'
<1>1. UNCHANGED <<clock, ledger, pages, refused>> /\ accepted' = accepted \cup {At(s)}
  BY DEF Accept
<1>2. WalksMissNone' /\ walk' \in [Service -> Walk \cup Asked \cup {Idle}]
  BY <1>1, StopKeeps DEF Accept
<1>3. /\ walk[s] \in Walk
      /\ walk[s].at \in DOMAIN blocks
  BY WalkTyped DEF Accept
<1> DEFINE b == blocks[walk[s].at]
<1> DEFINE v == At(s)
<1>4. /\ v \in Verdict
      /\ v.user = walk[s].user /\ v.challenge = walk[s].challenge
      /\ v.url = s /\ v.time = clock
  BY <1>3 DEF At, Verdict, Walk, Service, CasInv, TypeOK
<1>5. PICK tx \in b.passed : /\ tx.user = v.user
                             /\ tx.action = ActionOf[v.url]
                             /\ tx.challenge = v.challenge
  BY <1>4 DEF Accept, Proves
<1>6. tx \in Tx /\ tx \in Passed /\ b.time \in Nat
  BY <1>3, BlockTyped DEF Passed, CasInv
<1>7. b.time + Validity >= clock + 1 /\ clock \in Nat
  BY <1>6 DEF Accept, TooOld, CasInv, TypeOK
<1>8. b.time <= last[<<tx.user, tx.action>>] /\ last[<<tx.user, tx.action>>] \in Nat
  BY <1>3, <1>6 DEF CasInv, SignersCould, TypeOK, Tx
<1> HIDE DEF b, v
<1>9. v.time < last[<<v.user, ActionOf[v.url]>>] + Validity
  BY <1>4, <1>5, <1>6, <1>7, <1>8
<1>10. UNCHANGED <<last, blocks>>
  BY <1>1 DEF ledger
<1>11. accepted' = accepted \cup {v}
  BY <1>1 DEF v
<1>12. AccessIsEarned'
  BY <1>5, <1>6, <1>10, <1>11 DEF CasInv, AccessIsEarned, Passed
<1>13. AccessExpires'
  BY <1>9, <1>10, <1>11 DEF CasInv, AccessExpires
<1>14. TypeOK' /\ NoFalseRefusal'
  BY <1>1, <1>2, <1>4, <1>11 DEF CasInv, TypeOK, NoFalseRefusal, ledger, pages
<1>15. QED
  BY <1>1, <1>2, <1>12, <1>13, <1>14, CheckStepKeeps DEF CasInv

\* When a walk ends without success, no block settles the check: those before
\* an old one are older still.
LEMMA RefuseKeeps ==
  ASSUME CasInv, NEW s \in Service, Refuse(s) PROVE CasInv'
<1>1. UNCHANGED <<clock, ledger, pages, accepted>>
  BY DEF Refuse
<1>2. WalksMissNone' /\ walk' \in [Service -> Walk \cup Asked \cup {Idle}]
  BY <1>1, StopKeeps DEF Refuse
<1>3. /\ walk[s] \in Walk
      /\ walk[s].at \in DOMAIN blocks
      /\ walk[s].from \in Nat /\ walk[s].from <= Len(blocks)
  BY WalkTyped DEF Refuse
<1>4. /\ walk[s].at \in Nat /\ DOMAIN blocks = 1..Len(blocks) /\ Len(blocks) \in Nat
      /\ clock \in Nat
  BY <1>3, LenProperties DEF Walk, CasInv, TypeOK
<1>5. ~Good(s)
  <2> SUFFICES ASSUME NEW i \in 1..walk[s].from, Settles(s, i) PROVE FALSE
    <3> SUFFICES ASSUME NEW i \in 1..walk[s].from,
                        clock - blocks[i].time <= Validity - 1
                 PROVE  ~TooOld(blocks[i])
      BY DEF Good, Settles
    <3>1. blocks[i].time \in Nat
      BY <1>3, <1>4, BlockTyped DEF CasInv
    <3>2. QED
      BY <1>4, <3>1 DEF TooOld
  <2>1. i \in DOMAIN blocks
    BY <1>3, <1>4
  <2>2. ~(walk[s].at < i)
    BY <2>1 DEF CasInv, WalksMissNone, Refuse
  <2>3. i <= walk[s].at
    BY <1>4, <2>2
  <2>4. CASE TooOld(blocks[walk[s].at])
    <3>1. blocks[i].time <= blocks[walk[s].at].time
      BY <1>3, <2>1, <2>3 DEF CasInv, TimesGrow
    <3>2. blocks[i].time \in Nat /\ blocks[walk[s].at].time \in Nat
      BY <1>3, <2>1, BlockTyped DEF CasInv
    <3>3. TooOld(blocks[i])
      <4> DEFINE x == blocks[i].time
      <4> DEFINE y == blocks[walk[s].at].time
      <4>1. x <= y /\ x \in Nat /\ y \in Nat
        BY <3>1, <3>2
      <4>2. y + Validity < clock + 1
        BY <2>4 DEF TooOld
      <4> HIDE DEF x, y
      <4>3. x + Validity < clock + 1
        BY <1>4, <4>1, <4>2
      <4>4. QED
        BY <4>3 DEF TooOld, x
    <3>4. QED
      BY <3>3 DEF Settles
  <2>5. CASE walk[s].at = 1 /\ ~Proves(blocks[1], walk[s].user, ActionOf[s],
                                       walk[s].challenge)
    <3>1. i = 1
      BY <2>3, <2>5
    <3>2. QED
      BY <2>5, <3>1 DEF Settles
  <2>6. QED
    BY <2>4, <2>5 DEF Refuse
<1>6. refused' = refused
  BY <1>5 DEF Refuse
<1>7. TypeOK' /\ NoFalseRefusal'
  BY <1>1, <1>2, <1>6 DEF CasInv, TypeOK, NoFalseRefusal, ledger, pages
<1>8. AccessIsEarned' /\ AccessExpires'
  BY <1>1 DEF CasInv, AccessIsEarned, AccessExpires, Passed, ledger
<1>9. QED
  BY <1>1, <1>2, <1>7, <1>8, CheckStepKeeps DEF CasInv

-----------------------------------------------------------------------------
(* The theorems.                                                           *)

LEMMA NextKeeps == CasInv /\ [Next]_vars => CasInv'
<1> SUFFICES ASSUME CasInv, [Next]_vars PROVE CasInv'
  OBVIOUS
<1>1. CASE Tick
  BY <1>1, TickKeeps
<1>2. CASE Chain
  BY <1>2, MakeBlockKeeps, MembersKeep DEF Chain
<1>3. CASE \E u \in User : Page(u)
  BY <1>3, PageKeeps
<1>4. CASE \E s \in Service : Check(s) \/ Fail(s)
  BY <1>4, BeginKeeps, AcceptKeeps, StepBackKeeps, RefuseKeeps, FailKeeps DEF Check
<1>5. CASE \E s \in Service : \E k \in issued : Validate(s, k)
  BY <1>5, ValidateKeeps
<1>6. CASE UNCHANGED vars
  BY <1>6 DEF vars, ledger, pages, checks, CasInv, TypeOK, PagesKnow, LastIsPast,
       TimesGrow, SignersCould, WalksMissNone, Settles, TooOld, Proves,
       AccessIsEarned, AccessExpires, NoFalseRefusal, Passed
<1>7. QED
  BY <1>1, <1>2, <1>3, <1>4, <1>5, <1>6 DEF Next

LEMMA CasInvHolds == Spec => []CasInv
BY InitInv, NextKeeps, PTL DEF Spec

\* The state has its type.
THEOREM CasTyped == Spec => []TypeOK
<1>1. CasInv => TypeOK
  BY DEF CasInv
<1>2. QED
  BY <1>1, CasInvHolds, PTL

\* Who gets in has signed the challenge of his ticket on the chain, for the
\* action of the service that lets him in.
THEOREM AccessEarned == Spec => []AccessIsEarned
<1>1. CasInv => AccessIsEarned
  BY DEF CasInv
<1>2. QED
  BY <1>1, CasInvHolds, PTL

\* Nobody gets in once the validity time has passed after his expulsion.
THEOREM OldTicketsExpire == Spec => []AccessExpires
<1>1. CasInv => AccessExpires
  BY DEF CasInv
<1>2. QED
  BY <1>1, CasInvHolds, PTL

\* The walk through the blocks misses no ticket that is valid and on a block that
\* the node knew: such a ticket is refused only if a request has failed.
THEOREM GoodTicketsPass == Spec => []NoFalseRefusal
<1>1. CasInv => NoFalseRefusal
  BY DEF CasInv
<1>2. QED
  BY <1>1, CasInvHolds, PTL

\* A step of a check ends it or takes it one block back.
WalksGoBack == [][\A s \in Service : walk[s].at > 0 /\ walk'[s] # walk[s]
                                   => walk'[s].at = 0 \/ walk'[s].at = walk[s].at - 1]_vars

\* No step of a check leaves it at its block or takes it forward, and nobody
\* begins it anew before its end: it takes at most as many steps as its node
\* had blocks (service_validate.go:198).  What CheckEnds needs besides is
\* fairness.
THEOREM ChecksGoBack == Spec => WalksGoBack
<1>1. TypeOK /\ [Next]_vars =>
         [\A s \in Service : walk[s].at > 0 /\ walk'[s] # walk[s]
             => walk'[s].at = 0 \/ walk'[s].at = walk[s].at - 1]_vars
  <2> SUFFICES ASSUME TypeOK, [Next]_vars, NEW s \in Service, walk[s].at > 0,
                      walk'[s] # walk[s]
               PROVE  walk'[s].at = 0 \/ walk'[s].at = walk[s].at - 1
    OBVIOUS
  <2>1. walk \in [Service -> Walk \cup Asked \cup {Idle}] /\ walk' # walk
    BY DEF TypeOK
  <2>2. PICK r \in Service : Check(r) \/ Fail(r) \/ \E k \in issued : Validate(r, k)
    BY <2>1 DEF Next, Tick, Chain, MakeBlock, Admit, Expel, Page, Visit, Load, Login, Deny,
         Redirect, NoAccess, Trouble, checks, vars
  <2>3. CASE \E k \in issued : Validate(r, k)
    BY <2>1, <2>3 DEF Validate, Idle
  <2>4. CASE Accept(r) \/ Refuse(r) \/ Fail(r)
    BY <2>1, <2>4 DEF Accept, Refuse, Fail, Stop, Idle
  <2>5. CASE StepBack(r)
    BY <2>1, <2>5 DEF StepBack
  <2>6. CASE Begin(r)
    BY <2>1, <2>6 DEF Begin
  <2> QED BY <2>2, <2>3, <2>4, <2>5, <2>6 DEF Check
<1> QED BY <1>1, CasTyped, PTL DEF Spec, WalksGoBack
=============================================================================
