---------------------------- MODULE Registration ----------------------------
(***************************************************************************)
(* How a browser gets the key of a device, keeps it and loses it.          *)
(*                                                                         *)
(* A new device starts with an ephemeral key that somebody else chose and  *)
(* put in a link.  The page that opens the link loads the account with     *)
(* that key, chooses a key of its own, evolves the darc of the device and  *)
(* stores the key in the database of the browser: after this the link is   *)
(* worthless, and so is the account if the new key is lost.  All tabs of a *)
(* browser share the database, and every read or write of it is one await. *)
(***************************************************************************)
EXTENDS Naturals, FiniteSets

CONSTANTS Tab,
          Browser, In,       \* the browser that a tab is in
          Link, DeviceLink,  \* signup links; those that add a device
          Account, Of,       \* the account that a link belongs to
          NoLink,
          NewKey, NoKey, NoAccount,
          Old,               \* the account in the old database of a browser
          Overwrites,        \* TRUE: a user may let a link replace his account
          Failing,           \* TRUE: requests may fail or time out
          Closing,           \* TRUE: a tab may be closed at any moment
          MaxOpen            \* bound: how often pages are opened

Key == Link \cup NewKey

ASSUME TabsAssumption == In \in [Tab -> Browser]
ASSUME LinksAssumption == /\ DeviceLink \subseteq Link
                          /\ Of \in [Link -> Account]
                          /\ Old \in [Browser -> Link \cup {NoLink}]
                          /\ NoLink \notin Link
ASSUME KeysAssumption == /\ Link \cap NewKey = {}
                         /\ NoKey \notin Key
                         /\ NoAccount \notin Account
ASSUME TroubleAssumption == /\ {Overwrites, Failing, Closing} \subseteq BOOLEAN
                            /\ MaxOpen \in Nat

VARIABLES at,      \* what a tab is doing
          goal,    \* the link that it has opened, NoLink for the start page
          next,    \* what it does once the account is saved
          priv,    \* the key and
          cred,    \* the account that it works with
          fresh,   \* the key that it has chosen for its device
          dbPriv,  \* the key and
          dbCred,  \* the account in the database of each browser
          device,  \* the key in the darc of the device of each link
          revoked, \* the links whose device has been revoked
          pool,    \* transactions that are in no block yet
          used,    \* the keys that have been chosen
          opened,  \* how many pages have been opened
          given    \* history: the keys that were given up (see GivenUp)

tab == <<at, goal, next, priv, cred, fresh>>
db == <<dbPriv, dbCred>>
chain == <<device, revoked>>
vars == <<tab, db, chain, pool, used, opened, given>>

Reading == {"has1", "has2", "load1", "load2"}
Working == Reading \cup {"fetch", "save1", "save2", "auth", "clear1", "clear2",
                         "old1", "old2", "ask", "decide", "switch", "wait"}
AtRest == {"closed", "ready", "kept", "newuser", "revoked", "error"}

TypeOK == /\ at \in [Tab -> Working \cup AtRest]
          /\ goal \in [Tab -> Link \cup {NoLink}]
          /\ next \in [Tab -> Working \cup AtRest]
          /\ priv \in [Tab -> Key \cup {NoKey}]
          /\ cred \in [Tab -> Account \cup {NoAccount}]
          /\ fresh \in [Tab -> NewKey \cup {NoKey}]
          /\ dbPriv \in [Browser -> Key \cup {NoKey}]
          /\ dbCred \in [Browser -> Account \cup {NoAccount}]
          /\ device \in [Link -> Key]
          /\ revoked \subseteq Link
          /\ pool \subseteq [tab : Tab, link : Link, key : NewKey]
          /\ used \subseteq NewKey
          /\ opened \in Nat
          /\ given \subseteq Key

-----------------------------------------------------------------------------
(* The chain, as far as it knows keys.                                     *)

\* checkAuthorization of the signer darc: it looks through the device darcs.
Authorised(k, a) == \E l \in Link \ revoked : Of[l] = a /\ device[l] = k

\* The evolution of a device darc is signed with the key that it replaces.
Acceptable(tx) == device[tx.link] = tx.link

Waits(tx) == at[tx.tab] = "wait" /\ fresh[tx.tab] = tx.key

\* Mutant: the new key is used, and not saved.
IncludeUnsaved(tx) ==
    /\ Acceptable(tx)
    /\ pool' = pool \ {tx}
    /\ device' = [device EXCEPT ![tx.link] = tx.key]
    /\ IF Waits(tx) THEN /\ priv' = [priv EXCEPT ![tx.tab] = tx.key]
                         /\ at' = [at EXCEPT ![tx.tab] = "ready"]
                    ELSE UNCHANGED <<at, priv>>
    /\ UNCHANGED <<goal, next, cred, fresh, db, revoked, used, opened, given>>

\* The page that waits takes its new key; a link to register loads it again.
Include(tx) ==
    /\ Acceptable(tx)
    /\ pool' = pool \ {tx}
    /\ device' = [device EXCEPT ![tx.link] = tx.key]
    /\ IF Waits(tx)
         THEN /\ priv' = [priv EXCEPT ![tx.tab] = tx.key]
              /\ at' = [at EXCEPT ![tx.tab] = "save1"]
              /\ next' = [next EXCEPT ![tx.tab] =
                             IF tx.link \in DeviceLink THEN "ready" ELSE "load1"]
         ELSE UNCHANGED <<at, next, priv>>
    /\ UNCHANGED <<goal, cred, fresh, db, revoked, used, opened, given>>

\* Mutant: the page is not told.
RefuseSilently(tx) ==
    /\ ~Acceptable(tx)
    /\ pool' = pool \ {tx}
    /\ UNCHANGED <<tab, db, chain, used, opened, given>>

Refuse(tx) ==
    /\ ~Acceptable(tx)
    /\ pool' = pool \ {tx}
    /\ at' = IF Waits(tx) THEN [at EXCEPT ![tx.tab] = "error"] ELSE at
    /\ UNCHANGED <<goal, next, priv, cred, fresh, db, chain, used, opened, given>>

\* Another device of the account removes this one (Devices.tla).
Revoke(l) ==
    /\ revoked' = revoked \cup {l}
    /\ UNCHANGED <<tab, db, device, pool, used, opened, given>>

-----------------------------------------------------------------------------
(* The steps of a page: one for each await.                                *)

Rest == UNCHANGED <<chain, pool, used, opened, given>>

\* From one place of the program to another, with nothing else changed.
Go(t, from, to) == /\ at[t] = from
                   /\ at' = [at EXCEPT ![t] = to]

\* What is lost if a page stops here: the key that it was going to store, or
\* has stored without its account.
GivenUp(t) == CASE at[t] = "wait" -> {fresh[t]}
                [] at[t] \in {"save1", "save2"} -> {priv[t]}
                [] at[t] = "old2" -> {Old[In[t]]}
                [] OTHER -> {}

Open(t, l) ==
    /\ opened < MaxOpen
    /\ at[t] \in AtRest
    /\ at' = [at EXCEPT ![t] = "has1"]
    /\ goal' = [goal EXCEPT ![t] = l]
    /\ priv' = [priv EXCEPT ![t] = NoKey]
    /\ cred' = [cred EXCEPT ![t] = NoAccount]
    /\ fresh' = [fresh EXCEPT ![t] = NoKey]
    /\ opened' = opened + 1
    /\ UNCHANGED <<next, db, chain, pool, used, given>>

Close(t) ==
    /\ at[t] # "closed"
    /\ Closing \/ at[t] \in AtRest
    /\ at' = [at EXCEPT ![t] = "closed"]
    /\ given' = given \cup GivenUp(t)
    /\ UNCHANGED <<goal, next, priv, cred, fresh, db, chain, pool, used, opened>>

\* retrieveUserKeyCredID, for hasUser and for loadUser: two reads.
ReadPriv(t) ==
    /\ Go(t, "has1", "has2") \/ Go(t, "load1", "load2")
    /\ priv' = [priv EXCEPT ![t] = dbPriv[In[t]]]
    /\ UNCHANGED <<goal, next, cred, fresh, db>> /\ Rest

Complete(t) == priv[t] # NoKey /\ dbCred[In[t]] # NoAccount

\* The link replaces what the tab has read, and goes to work.
UseLink(t) ==
    /\ at' = [at EXCEPT ![t] = "fetch"]
    /\ next' = [next EXCEPT ![t] = "switch"]
    /\ priv' = [priv EXCEPT ![t] = goal[t]]
    /\ cred' = [cred EXCEPT ![t] = Of[goal[t]]]

\* hasUser says no: the start page tries to migrate, a link is used.
NoUser(t) ==
    /\ at[t] = "has2"
    /\ ~Complete(t)
    /\ IF goal[t] # NoLink
         THEN UseLink(t)
         ELSE /\ at' = [at EXCEPT ![t] = IF Old[In[t]] # NoLink
                                           THEN "old1" ELSE "newuser"]
              /\ UNCHANGED <<next, priv, cred>>
    /\ UNCHANGED <<goal, fresh, db>> /\ Rest

\* hasUser says yes: a link to register asks at once, the others load first.
HasUser(t) ==
    /\ Complete(t)
    /\ Go(t, "has2", IF goal[t] \in Link \ DeviceLink THEN "ask" ELSE "load1")
    /\ next' = [next EXCEPT ![t] = IF goal[t] = NoLink THEN "auth" ELSE "decide"]
    /\ UNCHANGED <<goal, priv, cred, fresh, db>> /\ Rest

ReadCred(t) ==
    /\ Go(t, "load2", IF Complete(t) THEN "fetch" ELSE "error")
    /\ cred' = [cred EXCEPT ![t] = dbCred[In[t]]]
    /\ next' = [next EXCEPT ![t] = IF @ = "load1" THEN "ready" ELSE @]
    /\ UNCHANGED <<goal, priv, fresh, db>> /\ Rest

\* The look-ups of retrieveUser, up to its save.
Fetch(t) ==
    /\ Go(t, "fetch", "save1")
    /\ UNCHANGED <<goal, next, priv, cred, fresh, db>> /\ Rest

\* User.save: two writes.
SavePriv(t) ==
    /\ Go(t, "save1", "save2")
    /\ dbPriv' = [dbPriv EXCEPT ![In[t]] = priv[t]]
    /\ UNCHANGED <<goal, next, priv, cred, fresh, dbCred>> /\ Rest

SaveCred(t) ==
    /\ Go(t, "save2", next[t])
    /\ dbCred' = [dbCred EXCEPT ![In[t]] = cred[t]]
    /\ UNCHANGED <<goal, next, priv, cred, fresh, dbPriv>> /\ Rest

\* The start page signs a device out that has no rights any more.
Authorise(t) ==
    /\ Go(t, "auth", IF Authorised(priv[t], cred[t]) THEN "ready" ELSE "clear1")
    /\ UNCHANGED <<goal, next, priv, cred, fresh, db>> /\ Rest

ClearPriv(t) ==
    /\ Go(t, "clear1", "clear2")
    /\ dbPriv' = [dbPriv EXCEPT ![In[t]] = NoKey]
    /\ UNCHANGED <<goal, next, priv, cred, fresh, dbCred>> /\ Rest

\* Mutant: the empty key instead of the empty account.
ClearCredAsKey(t) ==
    /\ Go(t, "clear2", "revoked")
    /\ dbCred' = [dbCred EXCEPT ![In[t]] = NoKey]
    /\ UNCHANGED <<goal, next, priv, cred, fresh, dbPriv>> /\ Rest

ClearCred(t) ==
    /\ Go(t, "clear2", "revoked")
    /\ dbCred' = [dbCred EXCEPT ![In[t]] = NoAccount]
    /\ UNCHANGED <<goal, next, priv, cred, fresh, dbPriv>> /\ Rest

\* User.migrate: two writes, then the start page again.
MigratePriv(t) ==
    /\ Go(t, "old1", "old2")
    /\ dbPriv' = [dbPriv EXCEPT ![In[t]] = Old[In[t]]]
    /\ UNCHANGED <<goal, next, priv, cred, fresh, dbCred>> /\ Rest

MigrateCred(t) ==
    /\ Go(t, "old2", "has1")
    /\ dbCred' = [dbCred EXCEPT ![In[t]] = Of[Old[In[t]]]]
    /\ UNCHANGED <<goal, next, priv, cred, fresh, dbPriv>> /\ Rest

\* A link for a device of the very account that is there already.
Decide(t) ==
    /\ Go(t, "decide", IF cred[t] = Of[goal[t]] THEN "kept" ELSE "ask")
    /\ UNCHANGED <<goal, next, priv, cred, fresh, db>> /\ Rest

Keep(t) ==
    /\ Go(t, "ask", "kept")
    /\ UNCHANGED <<goal, next, priv, cred, fresh, db>> /\ Rest

Overwrite(t) ==
    /\ Overwrites
    /\ at[t] = "ask"
    /\ UseLink(t)
    /\ given' = given \cup ({dbPriv[In[t]]} \ {NoKey})
    /\ UNCHANGED <<goal, fresh, db, chain, pool, used, opened>>

\* Mutant: switchKey does not wait for the block of its transaction.
SwitchKeyHasty(t) ==
    /\ at[t] = "switch"
    /\ IF goal[t] \notin revoked /\ device[goal[t]] = priv[t]
         THEN \E k \in NewKey \ used :
                 /\ at' = [at EXCEPT ![t] = "save1"]
                 /\ next' = [next EXCEPT ![t] =
                                IF goal[t] \in DeviceLink THEN "ready" ELSE "load1"]
                 /\ priv' = [priv EXCEPT ![t] = k]
                 /\ fresh' = [fresh EXCEPT ![t] = k]
                 /\ used' = used \cup {k}
                 /\ pool' = pool \cup {[tab |-> t, link |-> goal[t], key |-> k]}
         ELSE /\ at' = [at EXCEPT ![t] = "error"]
              /\ UNCHANGED <<next, priv, fresh, used, pool>>
    /\ UNCHANGED <<goal, cred, db, chain, opened, given>>

\* switchKey up to its transaction.
SwitchKey(t) ==
    /\ at[t] = "switch"
    /\ IF goal[t] \notin revoked /\ device[goal[t]] = priv[t]
         THEN \E k \in NewKey \ used :
                 /\ at' = [at EXCEPT ![t] = "wait"]
                 /\ fresh' = [fresh EXCEPT ![t] = k]
                 /\ used' = used \cup {k}
                 /\ pool' = pool \cup {[tab |-> t, link |-> goal[t], key |-> k]}
         ELSE /\ at' = [at EXCEPT ![t] = "error"]
              /\ UNCHANGED <<fresh, used, pool>>
    /\ UNCHANGED <<goal, next, priv, cred, db, chain, opened, given>>

\* A request that fails ends all that the page was doing.
Fail(t) ==
    /\ Failing
    /\ at[t] \in {"fetch", "auth", "switch", "wait"}
    /\ at' = [at EXCEPT ![t] = "error"]
    /\ given' = given \cup GivenUp(t)
    /\ UNCHANGED <<goal, next, priv, cred, fresh, db, chain, pool, used, opened>>

-----------------------------------------------------------------------------

Init == /\ at = [t \in Tab |-> "closed"]
        /\ goal = [t \in Tab |-> NoLink]
        /\ next = [t \in Tab |-> "closed"]
        /\ priv = [t \in Tab |-> NoKey]
        /\ cred = [t \in Tab |-> NoAccount]
        /\ fresh = [t \in Tab |-> NoKey]
        /\ dbPriv = [b \in Browser |-> NoKey]
        /\ dbCred = [b \in Browser |-> NoAccount]
        /\ device = [l \in Link |-> l]
        /\ revoked = {}
        /\ pool = {}
        /\ used = {}
        /\ opened = 0
        /\ given = {}

\* What a page does without its user.
Run(t) == \/ ReadPriv(t) \/ NoUser(t) \/ HasUser(t) \/ ReadCred(t) \/ Fetch(t)
          \/ SavePriv(t) \/ SaveCred(t) \/ Authorise(t)
          \/ ClearPriv(t) \/ ClearCred(t) \/ MigratePriv(t) \/ MigrateCred(t)
          \/ Decide(t) \/ SwitchKey(t)

\* The dialog cannot be left without an answer.
Answer(t) == Keep(t) \/ Overwrite(t)

Shown == Link \ {Old[b] : b \in Browser}

Next == \/ \E t \in Tab : \/ Run(t) \/ Answer(t) \/ Fail(t) \/ Close(t)
                          \/ \E l \in Shown \cup {NoLink} : Open(t, l)
        \/ \E tx \in pool : Include(tx) \/ Refuse(tx)
        \/ \E l \in Link : Revoke(l)

Spec == Init /\ [][Next]_vars

\* A page that is open runs, its questions are answered, and so are its
\* transactions.
Fairness == /\ \A t \in Tab : WF_vars(Run(t)) /\ WF_vars(Answer(t))
            /\ WF_vars(\E tx \in pool : Include(tx) \/ Refuse(tx))

FairSpec == Spec /\ Fairness

-----------------------------------------------------------------------------
(* Properties.                                                             *)

\* A tab that still holds key k and is on its way to store it.
WillStore(t, k) == priv[t] = k /\ at[t] \in {"save1", "save2"}

Stored(l) == \E b \in Browser : dbPriv[b] = device[l] /\ dbCred[b] = Of[l]

\* README.md of dynacred: a link "will store the private key in your browser".
\* The key that a page has put in the darc of its device is in the browser, or
\* the page still runs that is going to store it.  A key gets lost only with a
\* page that is closed or fails, or if the user lets a link replace it.
KeyKept ==
    \A l \in Link \ revoked :
       device[l] \in NewKey \ given
          => Stored(l) \/ \E t \in Tab : WillStore(t, device[l])

\* register.component.ts:108: "you can only register once using a registration
\* link".  Of the pages that open one link, in one browser or in several, only
\* one gets to its end, the one whose key is in the darc of the device; and no
\* browser stores a new key that the chain has refused.
OneRegisters ==
    /\ \A t \in Tab : at[t] = "ready" /\ goal[t] \in Link => device[goal[t]] = fresh[t]
    /\ \A b \in Browser : dbPriv[b] \in NewKey => \E l \in Link : device[l] = dbPriv[b]

\* Every page comes to rest.
PageEnds == \A t \in Tab : at[t] = "has1" ~> at[t] \in AtRest

\* A page that has begun to replace the key of a link, and is not stopped, ends
\* with the new key of that link in some browser.
KeyGetsStored ==
    \A t \in Tab, l \in Link :
       at[t] = "wait" /\ goal[t] = l
          ~> Stored(l) \/ l \in revoked \/ {device[l], fresh[t]} \cap given # {}
=============================================================================
