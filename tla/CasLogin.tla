------------------------------ MODULE CasLogin ------------------------------
(***************************************************************************)
(* Signing in to a web service with a transaction.                         *)
(*                                                                         *)
(* The login page of a user puts a hashed challenge on the chain, in a     *)
(* transfer of coins to the coin of the service's action and back, which   *)
(* only members of the action can sign.  The challenge and the user are    *)
(* the ticket; the page sends it to the service, and the service asks the  *)
(* CAS.  The CAS walks back from the latest block that its node knows      *)
(* until it meets the transaction, or a block that is too old.             *)
(***************************************************************************)
EXTENDS Naturals, Sequences, FiniteSets

CONSTANTS User,
          Url,               \* URLs of services
          Action, ActionOf,  \* the action behind an URL, NoAction if unknown
          NoAction,
          Challenge, NoChallenge,
          Validity,          \* TxValidityDuration, in seconds
          MaxTime,           \* bound: seconds that pass
          MaxBlock           \* bound: blocks that are made

ASSUME ActionsAssumption == /\ NoAction \notin Action
                            /\ ActionOf \in [Url -> Action \cup {NoAction}]
ASSUME ChallengesAssumption == NoChallenge \notin Challenge
ASSUME TimesAssumption == /\ Validity \in Nat
                          /\ MaxTime \in Nat
                          /\ MaxBlock \in Nat

\* The services that the CAS and the login page know.
Service == {s \in Url : ActionOf[s] # NoAction}

VARIABLES clock,
          member,   \* who may sign for which action
          last,     \* when he last could
          pool,     \* transactions that are in no block yet
          blocks,   \* the chain, with the transactions that passed and failed
          page,     \* the state of each user's login page,
          url,      \* the service that it was opened for
          secret,   \* and its challenge
          issued,   \* the tickets that pages have sent to services
          walk,     \* the check of a ticket that each service waits for
          accepted, \* history: the tickets that were accepted, and
          refused   \* those that were good, and were refused by a CAS whose
                    \* requests were all answered

ledger == <<member, last, pool, blocks>>
pages == <<page, url, secret, issued>>
checks == <<walk, accepted, refused>>
vars == <<clock, ledger, pages, checks>>

State == {"closed", "loading", "nosuch", "asking", "noaccess", "sending",
          "notx", "redirecting"}
Tx == [user : User, action : Action, challenge : Challenge]
Block == [time : Nat, passed : SUBSET Tx, failed : SUBSET Tx]
Ticket == [user : User, challenge : Challenge, url : Url]
Verdict == [user : User, challenge : Challenge, url : Url, time : Nat]

\* A walk started at the latest block that the node knew and stands at an
\* earlier one.  A ticket that is asked about has no walk yet.
Walk == [at : Nat, from : Nat, user : User, challenge : Challenge]
Asked == [at : {0}, user : User, challenge : Challenge]
Idle == [at |-> 0]

TypeOK == /\ clock \in Nat
          /\ member \subseteq User \X Action
          /\ last \in [User \X Action -> Nat]
          /\ pool \subseteq Tx
          /\ blocks \in Seq(Block)
          /\ page \in [User -> State]
          /\ url \in [User -> Url]
          /\ secret \in [User -> Challenge \cup {NoChallenge}]
          /\ issued \subseteq Ticket
          /\ walk \in [Service -> Walk \cup Asked \cup {Idle}]
          /\ accepted \subseteq Verdict
          /\ refused \subseteq Verdict

-----------------------------------------------------------------------------
(* The chain and its clock.                                                *)

Tick ==
    /\ clock < MaxTime
    /\ clock' = clock + 1
    /\ last' = [m \in User \X Action |-> IF m \in member THEN clock + 1 ELSE last[m]]
    /\ UNCHANGED <<member, pool, blocks, pages, checks>>

\* The second transfer is signed by the action: it passes for members only,
\* and takes the first one with it.
MakeBlock(S) ==
    /\ Len(blocks) < MaxBlock
    /\ blocks' = Append(blocks,
         [time |-> clock,
          passed |-> {tx \in S : <<tx.user, tx.action>> \in member},
          failed |-> {tx \in S : <<tx.user, tx.action>> \notin member}])
    /\ pool' = pool \ S
    /\ UNCHANGED <<clock, member, last, pages, checks>>

\* Somebody who may evolve the darc of the action lets a user in or out.
Admit(u, a) ==
    /\ member' = member \cup {<<u, a>>}
    /\ last' = [last EXCEPT ![<<u, a>>] = clock]
    /\ UNCHANGED <<clock, pool, blocks, pages, checks>>

Expel(u, a) ==
    /\ member' = member \ {<<u, a>>}
    /\ UNCHANGED <<clock, last, pool, blocks, pages, checks>>

Passed == UNION {blocks[i].passed : i \in DOMAIN blocks}
Failed == UNION {blocks[i].failed : i \in DOMAIN blocks}

-----------------------------------------------------------------------------
(* The login page.                                                         *)

\* The service sends the user to the page.
Visit(u, s) ==
    /\ page[u] \in {"closed", "nosuch", "noaccess", "notx", "redirecting"}
    /\ page' = [page EXCEPT ![u] = "loading"]
    /\ url' = [url EXCEPT ![u] = s]
    /\ UNCHANGED <<clock, ledger, secret, issued, checks>>

\* Mutant: the page asks without a look at the service and the access.
LoadUnchecked(u) ==
    /\ page[u] = "loading"
    /\ page' = [page EXCEPT ![u] = "asking"]
    /\ UNCHANGED <<clock, ledger, url, secret, issued, checks>>

\* ngOnInit: an unknown service, no access, or the question.
Load(u) ==
    /\ page[u] = "loading"
    /\ LET a == ActionOf[url[u]]
       IN page' = [page EXCEPT ![u] = CASE a = NoAction -> "nosuch"
                                       [] <<u, a>> \in member -> "asking"
                                       [] OTHER -> "noaccess"]
    /\ UNCHANGED <<clock, ledger, url, secret, issued, checks>>

\* login and putChallenge, up to the wait for the block.
Login(u) ==
    /\ page[u] = "asking"
    /\ \E c \in Challenge :
          /\ \A tx \in pool \cup Passed \cup Failed : tx.challenge # c
          /\ secret' = [secret EXCEPT ![u] = c]
          /\ pool' = pool \cup {[user |-> u, action |-> ActionOf[url[u]],
                                 challenge |-> c]}
    /\ page' = [page EXCEPT ![u] = "sending"]
    /\ UNCHANGED <<clock, member, last, blocks, url, issued, checks>>

Deny(u) ==
    /\ page[u] = "asking"
    /\ page' = [page EXCEPT ![u] = "closed"]
    /\ UNCHANGED <<clock, ledger, url, secret, issued, checks>>

\* The transaction is in a block: off to the service with the ticket.
Redirect(u) ==
    /\ page[u] = "sending"
    /\ \E tx \in Passed : tx.challenge = secret[u]
    /\ page' = [page EXCEPT ![u] = "redirecting"]
    /\ issued' = issued \cup {[user |-> u, challenge |-> secret[u], url |-> url[u]]}
    /\ UNCHANGED <<clock, ledger, url, secret, checks>>

\* Its second instruction could not be verified.
NoAccess(u) ==
    /\ page[u] = "sending"
    /\ \E tx \in Failed : tx.challenge = secret[u]
    /\ page' = [page EXCEPT ![u] = "notx"]
    /\ UNCHANGED <<clock, ledger, url, secret, issued, checks>>

\* Any other error leaves the page where it was; the transaction may pass yet.
Trouble(u) ==
    /\ page[u] = "sending"
    /\ page' = [page EXCEPT ![u] = "asking"]
    /\ UNCHANGED <<clock, ledger, url, secret, issued, checks>>

-----------------------------------------------------------------------------
(* The CAS.                                                                *)

\* Mutant: the age of the block is not looked at.
TooOldNever(b) == FALSE

\* Mutant: one second too early.
TooOldEarly(b) == b.time + Validity < clock + 2

\* time.Unix(-1, ...) puts every block one second back.
TooOld(b) == b.time + Validity < clock + 1

\* Mutant: the coin of the action is not compared.
ProvesAnywhere(b, u, a, c) == \E tx \in b.passed : /\ tx.user = u
                                                   /\ tx.challenge = c

Proves(b, u, a, c) == \E tx \in b.passed : /\ tx.user = u
                                           /\ tx.action = a
                                           /\ tx.challenge = c

\* What should be accepted: a ticket that is valid for another second, as
\* README.md of the CAS counts it, and on a block that the node knew.
Good(s) == \E i \in 1..walk[s].from :
              /\ clock - blocks[i].time <= Validity - 1
              /\ Proves(blocks[i], walk[s].user, ActionOf[s], walk[s].challenge)

At(s) == [user |-> walk[s].user, challenge |-> walk[s].challenge, url |-> s,
          time |-> clock]

\* ServiceValidateXML: a service asks about a ticket that it was given, which
\* may have been made for another URL.  A host that it does not know is refused at once.
Validate(s, k) ==
    /\ walk[s] = Idle
    /\ walk' = [walk EXCEPT ![s] = [at |-> 0, user |-> k.user, challenge |-> k.challenge]]
    /\ UNCHANGED <<clock, ledger, pages, accepted, refused>>

\* validateAndGetUserInfo up to the latest block; its node may be behind.
Begin(s) ==
    /\ walk[s] # Idle
    /\ walk[s].at = 0
    /\ \E i \in DOMAIN blocks :
          walk' = [walk EXCEPT ![s] = [at |-> i, from |-> i, user |-> walk[s].user,
                                       challenge |-> walk[s].challenge]]
    /\ UNCHANGED <<clock, ledger, pages, accepted, refused>>

Stop(s) == walk' = [walk EXCEPT ![s] = Idle]

\* INVALID_TICKET: the CAS cannot read the ticket or does not know its user, or the
\* node does not answer, for the latest block or for the one before.
Fail(s) ==
    /\ walk[s] # Idle
    /\ walk[s].at > 0 =>
         /\ ~TooOld(blocks[walk[s].at])
         /\ ~Proves(blocks[walk[s].at], walk[s].user, ActionOf[s], walk[s].challenge)
    /\ Stop(s)
    /\ UNCHANGED <<clock, ledger, pages, accepted, refused>>

Accept(s) ==
    /\ walk[s].at > 0
    /\ ~TooOld(blocks[walk[s].at])
    /\ Proves(blocks[walk[s].at], walk[s].user, ActionOf[s], walk[s].challenge)
    /\ accepted' = accepted \cup {At(s)}
    /\ Stop(s)
    /\ UNCHANGED <<clock, ledger, pages, refused>>

\* The block before; before the first one there is only an error.
StepBack(s) ==
    /\ walk[s].at > 1
    /\ ~TooOld(blocks[walk[s].at])
    /\ ~Proves(blocks[walk[s].at], walk[s].user, ActionOf[s], walk[s].challenge)
    /\ walk' = [walk EXCEPT ![s].at = @ - 1]
    /\ UNCHANGED <<clock, ledger, pages, accepted, refused>>

\* Mutant: there is no error at the first block.
RefuseOld(s) ==
    /\ walk[s].at > 0
    /\ TooOld(blocks[walk[s].at])
    /\ refused' = IF Good(s) THEN refused \cup {At(s)} ELSE refused
    /\ Stop(s)
    /\ UNCHANGED <<clock, ledger, pages, accepted>>

Refuse(s) ==
    /\ walk[s].at > 0
    /\ \/ TooOld(blocks[walk[s].at])
       \/ walk[s].at = 1 /\ ~Proves(blocks[1], walk[s].user, ActionOf[s],
                                    walk[s].challenge)
    /\ refused' = IF Good(s) THEN refused \cup {At(s)} ELSE refused
    /\ Stop(s)
    /\ UNCHANGED <<clock, ledger, pages, accepted>>

-----------------------------------------------------------------------------

Init == /\ clock = 0
        /\ member \in SUBSET (User \X Action)
        /\ last = [m \in User \X Action |-> 0]
        /\ pool = {}
        /\ blocks = <<[time |-> 0, passed |-> {}, failed |-> {}]>>
        /\ page = [u \in User |-> "closed"]
        /\ url \in [User -> Url]
        /\ secret = [u \in User |-> NoChallenge]
        /\ issued = {}
        /\ walk = [s \in Service |-> Idle]
        /\ accepted = {}
        /\ refused = {}

Chain == \/ \E S \in SUBSET pool : MakeBlock(S)
         \/ \E u \in User, a \in Action : Admit(u, a) \/ Expel(u, a)

Page(u) == \/ \E s \in Url : Visit(u, s)
           \/ Load(u) \/ Login(u) \/ Deny(u)
           \/ Redirect(u) \/ NoAccess(u) \/ Trouble(u)

Check(s) == Begin(s) \/ Accept(s) \/ StepBack(s) \/ Refuse(s)

Next == \/ Tick
        \/ Chain
        \/ \E u \in User : Page(u)
        \/ \E s \in Service : Check(s) \/ Fail(s) \/ \E k \in issued : Validate(s, k)

Spec == Init /\ [][Next]_vars

\* Nothing but the CAS has to go on, and none of its requests has to fail.
Fairness == \A s \in Service : WF_vars(Check(s))

FairSpec == Spec /\ Fairness

-----------------------------------------------------------------------------
(* Properties.                                                             *)

\* A ticket is accepted for the user who has signed its challenge on the chain,
\* and for services of the action that he has signed it for.
AccessIsEarned ==
    \A v \in accepted : \E tx \in Passed : /\ tx.user = v.user
                                           /\ tx.challenge = v.challenge
                                           /\ tx.action = ActionOf[v.url]

\* README.md of the CAS: TxValidityDuration is the maximum validity time of a
\* ticket.  A user whom the action has expelled gets in with his old tickets
\* for less than that time.
AccessExpires ==
    \A v \in accepted : v.time < last[<<v.user, ActionOf[v.url]>>] + Validity

\* The CAS refuses a ticket that is valid, and on a block that its node knew,
\* only when one of its requests has failed (service_validate.go:191, 208): its
\* walk does not stop too early, whatever time passes and blocks come meanwhile.
NoFalseRefusal == refused = {}

\* Every check comes to an end, at the first block at the latest.
CheckEnds == \A s \in Service : walk[s] # Idle ~> walk[s] = Idle
=============================================================================
