------------------------- MODULE RegistrationProofs -------------------------
(* Links are used once, and the keys that replace theirs are kept, for any   *)
(* number of tabs, browsers, links and accounts: proofs about Registration.  *)
EXTENDS Registration, TLAPS

USE TabsAssumption, LinksAssumption, KeysAssumption, TroubleAssumption

Place == Working \cup AtRest

\* The places that a page goes through on its way to its next one.
Loading == {"load1", "load2"}
Saving == {"fetch", "save1", "save2"}

\* What a page at place p, with n as its next one, a link g, a key k and a new
\* key f, may go on with in browser b.
Fit(p, n, g, k, f, b) ==
    /\ p \in {"decide", "ask", "switch", "wait"} => g \in Link
    /\ p \in Loading => n \in {"load1", "auth"} \/ (n = "decide" /\ g \in Link)
    /\ p \in Saving => \/ n \in {"load1", "ready", "auth"}
                       \/ n \in {"switch", "decide"} /\ g \in Link
    /\ p \in {"old1", "old2"} => Old[b] \in Link
    /\ p \in Saving => k \in Key
    /\ p = "wait" => f \in NewKey

Goals == \A t \in Tab : Fit(at[t], next[t], goal[t], priv[t], fresh[t], In[t])

\* A device has the key of its link, or one that a page has chosen.
Devices == \A l \in Link : device[l] = l \/ device[l] \in NewKey

\* Inductive for any tabs.
BaseInv == TypeOK /\ Goals /\ Devices

-----------------------------------------------------------------------------
(* Types, and devices that get one new key.                                *)

LEMMA BaseInit == Init => BaseInv
BY DEF Init, BaseInv, TypeOK, Goals, Fit, Devices, Key, Working, Reading, AtRest,
       Loading, Saving

\* A page goes on to a place that fits, and the rest has its type.
LEMMA TabStep ==
  ASSUME BaseInv, NEW t \in Tab, NEW p \in Place, NEW n \in Place,
         NEW g \in Link \cup {NoLink}, NEW k \in Key \cup {NoKey},
         NEW a \in Account \cup {NoAccount}, NEW f \in NewKey \cup {NoKey},
         Fit(p, n, g, k, f, In[t]),
         at' = [at EXCEPT ![t] = p], next' = [next EXCEPT ![t] = n],
         goal' = [goal EXCEPT ![t] = g], priv' = [priv EXCEPT ![t] = k],
         cred' = [cred EXCEPT ![t] = a], fresh' = [fresh EXCEPT ![t] = f]
  PROVE  /\ at' \in [Tab -> Place] /\ next' \in [Tab -> Place]
         /\ goal' \in [Tab -> Link \cup {NoLink}]
         /\ priv' \in [Tab -> Key \cup {NoKey}]
         /\ cred' \in [Tab -> Account \cup {NoAccount}]
         /\ fresh' \in [Tab -> NewKey \cup {NoKey}]
         /\ Goals'
<1>1. /\ at' \in [Tab -> Place] /\ next' \in [Tab -> Place]
      /\ goal' \in [Tab -> Link \cup {NoLink}]
      /\ priv' \in [Tab -> Key \cup {NoKey}]
      /\ cred' \in [Tab -> Account \cup {NoAccount}]
      /\ fresh' \in [Tab -> NewKey \cup {NoKey}]
  BY DEF BaseInv, TypeOK, Place
<1>2. Goals'
  <2> SUFFICES ASSUME NEW s \in Tab
               PROVE  Fit(at'[s], next'[s], goal'[s], priv'[s], fresh'[s], In[s])
    BY DEF Goals, Fit
  <2>1. CASE s = t
    <3>1. /\ at'[s] = p /\ next'[s] = n /\ goal'[s] = g
          /\ priv'[s] = k /\ fresh'[s] = f
      BY <2>1 DEF BaseInv, TypeOK
    <3>2. QED
      BY <2>1, <3>1
  <2>2. CASE s # t
    <3>1. /\ at'[s] = at[s] /\ next'[s] = next[s] /\ goal'[s] = goal[s]
          /\ priv'[s] = priv[s] /\ fresh'[s] = fresh[s]
      BY <2>2 DEF BaseInv, TypeOK
    <3>2. Fit(at[s], next[s], goal[s], priv[s], fresh[s], In[s])
      BY DEF BaseInv, Goals
    <3>3. QED
      BY <3>1, <3>2
  <2>3. QED
    BY <2>1, <2>2
<1>3. QED
  BY <1>1, <1>2

\* A step of a page that writes neither the chain nor the pool.
LEMMA PageStep ==
  ASSUME BaseInv, NEW t \in Tab, NEW p \in Place, NEW n \in Place,
         NEW k \in Key \cup {NoKey}, NEW a \in Account \cup {NoAccount},
         Fit(p, n, goal[t], k, fresh[t], In[t]),
         at' = [at EXCEPT ![t] = p], next' = [next EXCEPT ![t] = n],
         priv' = [priv EXCEPT ![t] = k], cred' = [cred EXCEPT ![t] = a],
         UNCHANGED <<goal, fresh, chain, pool, used, opened>>,
         dbPriv' \in [Browser -> Key \cup {NoKey}],
         dbCred' \in [Browser -> Account \cup {NoAccount}],
         given' \subseteq Key
  PROVE  BaseInv'
<1>1. /\ goal' = [goal EXCEPT ![t] = goal[t]]
      /\ fresh' = [fresh EXCEPT ![t] = fresh[t]]
      /\ goal[t] \in Link \cup {NoLink} /\ fresh[t] \in NewKey \cup {NoKey}
  BY DEF BaseInv, TypeOK
<1>2. /\ at' \in [Tab -> Place] /\ next' \in [Tab -> Place]
      /\ goal' \in [Tab -> Link \cup {NoLink}]
      /\ priv' \in [Tab -> Key \cup {NoKey}]
      /\ cred' \in [Tab -> Account \cup {NoAccount}]
      /\ fresh' \in [Tab -> NewKey \cup {NoKey}]
      /\ Goals'
  BY <1>1, TabStep
<1>3. TypeOK'
  BY <1>2 DEF BaseInv, TypeOK, Place, chain
<1>4. Devices'
  BY DEF BaseInv, Devices, chain
<1>5. QED
  BY <1>2, <1>3, <1>4 DEF BaseInv

\* What a page gives up is a key.
LEMMA GivenUpIsKey ==
  ASSUME BaseInv, NEW t \in Tab PROVE GivenUp(t) \subseteq Key
<1>1. Fit(at[t], next[t], goal[t], priv[t], fresh[t], In[t])
  BY DEF BaseInv, Goals
<1>2. CASE at[t] = "wait"
  BY <1>1, <1>2 DEF GivenUp, Key, Fit
<1>3. CASE at[t] \in {"save1", "save2"}
  BY <1>1, <1>3 DEF GivenUp, Fit, Saving
<1>4. CASE at[t] = "old2"
  BY <1>1, <1>4 DEF GivenUp, Key, Fit
<1>5. CASE at[t] \notin {"wait", "save1", "save2", "old2"}
  BY <1>5 DEF GivenUp
<1>6. QED
  BY <1>2, <1>3, <1>4, <1>5

LEMMA RunKeepsBase == ASSUME BaseInv, NEW t \in Tab, Run(t) PROVE BaseInv'
<1> DEFINE b == In[t]
<1>1. /\ at[t] \in Place /\ next[t] \in Place /\ goal[t] \in Link \cup {NoLink}
      /\ priv[t] \in Key \cup {NoKey} /\ cred[t] \in Account \cup {NoAccount}
      /\ b \in Browser /\ dbPriv[b] \in Key \cup {NoKey}
      /\ dbCred[b] \in Account \cup {NoAccount}
      /\ Old[b] \in Link \cup {NoLink} /\ given \subseteq Key
      /\ dbPriv \in [Browser -> Key \cup {NoKey}]
      /\ dbCred \in [Browser -> Account \cup {NoAccount}]
  BY DEF BaseInv, TypeOK, Place
<1>2. Fit(at[t], next[t], goal[t], priv[t], fresh[t], b)
  BY DEF BaseInv, Goals
<1>3. /\ at = [at EXCEPT ![t] = at[t]] /\ next = [next EXCEPT ![t] = next[t]]
      /\ priv = [priv EXCEPT ![t] = priv[t]] /\ cred = [cred EXCEPT ![t] = cred[t]]
  BY DEF BaseInv, TypeOK
<1>4. Link \subseteq Key /\ \A l \in Link : Of[l] \in Account
  BY DEF Key
\* Steps that read or write only a place, a key or an account.
<1>5. ASSUME NEW p \in Place, NEW n \in Place, NEW k \in Key \cup {NoKey},
             NEW a \in Account \cup {NoAccount}, Fit(p, n, goal[t], k, fresh[t], b),
             at' = [at EXCEPT ![t] = p], next' = [next EXCEPT ![t] = n],
             priv' = [priv EXCEPT ![t] = k], cred' = [cred EXCEPT ![t] = a],
             UNCHANGED <<goal, fresh>>, Rest,
             dbPriv' \in [Browser -> Key \cup {NoKey}],
             dbCred' \in [Browser -> Account \cup {NoAccount}]
      PROVE  BaseInv'
  BY <1>1, <1>5, PageStep DEF Rest
<1>18. ASSUME NEW p \in Place, Fit(p, next[t], goal[t], priv[t], fresh[t], b),
              at' = [at EXCEPT ![t] = p],
              UNCHANGED <<goal, next, priv, cred, fresh>>, Rest,
              dbPriv' \in [Browser -> Key \cup {NoKey}],
              dbCred' \in [Browser -> Account \cup {NoAccount}]
       PROVE  BaseInv'
  BY <1>1, <1>3, <1>5, <1>18
<1>6. CASE ReadPriv(t)
  <2>1. PICK p \in {"has2", "load2"} : at' = [at EXCEPT ![t] = p]
                                       /\ (p = "load2" => at[t] = "load1")
    BY <1>6 DEF ReadPriv, Go
  <2>2. p \in Place /\ Fit(p, next[t], goal[t], dbPriv[b], fresh[t], b)
    BY <1>2, <2>1 DEF Fit, Loading, Saving, Place, Working, Reading
  <2>3. QED
    BY <1>1, <1>3, <1>5, <1>6, <2>1, <2>2 DEF ReadPriv, db
<1>7. CASE NoUser(t)
  <2>1. CASE goal[t] # NoLink
    <3>1. UseLink(t) /\ goal[t] \in Link
      BY <1>1, <1>7, <2>1 DEF NoUser
    <3>2. Fit("fetch", "switch", goal[t], goal[t], fresh[t], b)
      BY <1>4, <3>1 DEF Fit, Saving, Loading
    <3>3. "fetch" \in Place /\ "switch" \in Place
      BY DEF Place, Working
    <3>4. QED
      BY <1>1, <1>4, <1>5, <1>7, <3>1, <3>2, <3>3 DEF NoUser, UseLink, db
  <2>2. CASE goal[t] = NoLink
    <3>1. PICK p \in {"old1", "newuser"} : /\ at' = [at EXCEPT ![t] = p]
                                           /\ p = "old1" => Old[b] # NoLink
      BY <1>7, <2>2 DEF NoUser
    <3>2. Fit(p, next[t], goal[t], priv[t], fresh[t], b) /\ p \in Place
      BY <1>1, <3>1 DEF Fit, Saving, Loading, Place, Working, AtRest
    <3>3. UNCHANGED <<next, priv, cred>>
      BY <1>7, <2>2 DEF NoUser
    <3>4. QED
      BY <1>1, <1>3, <1>5, <1>7, <3>1, <3>2, <3>3 DEF NoUser, db
  <2>3. QED
    BY <2>1, <2>2
<1>8. CASE HasUser(t)
  <2>1. PICK p \in {"ask", "load1"}, n \in {"auth", "decide"} :
           /\ at' = [at EXCEPT ![t] = p] /\ next' = [next EXCEPT ![t] = n]
           /\ p = "ask" => goal[t] \in Link
           /\ n = "decide" => goal[t] # NoLink
    <3> DEFINE p == IF goal[t] \in Link \ DeviceLink THEN "ask" ELSE "load1"
    <3> DEFINE n == IF goal[t] = NoLink THEN "auth" ELSE "decide"
    <3>1. at' = [at EXCEPT ![t] = p] /\ next' = [next EXCEPT ![t] = n]
      BY <1>8 DEF HasUser, Go
    <3>2. QED
      BY <3>1
  <2>2. Fit(p, n, goal[t], priv[t], fresh[t], b) /\ p \in Place /\ n \in Place
    <3>1. CASE p = "ask"
      BY <2>1, <3>1 DEF Fit, Saving, Loading, Place, Working, Reading
    <3>2. CASE p = "load1"
      <4>1. n = "auth" \/ (n = "decide" /\ goal[t] \in Link)
        BY <1>1, <2>1
      <4>2. Fit(p, n, goal[t], priv[t], fresh[t], b)
        BY <3>2, <4>1 DEF Fit, Saving, Loading
      <4>3. p \in Place /\ n \in Place
        BY <3>2, <4>1 DEF Place, Working, Reading
      <4>4. QED
        BY <4>2, <4>3
    <3>3. QED
      BY <3>1, <3>2
  <2>3. UNCHANGED <<goal, priv, cred, fresh, db>> /\ Rest
    BY <1>8 DEF HasUser
  <2>4. QED
    BY <1>1, <1>3, <1>5, <2>1, <2>2, <2>3 DEF db
<1>9. CASE ReadCred(t)
  <2>1. PICK p \in {"fetch", "error"} : /\ at' = [at EXCEPT ![t] = p]
                                        /\ p = "fetch" => priv[t] # NoKey
    BY <1>9 DEF ReadCred, Go, Complete
  <2> DEFINE n == IF next[t] = "load1" THEN "ready" ELSE next[t]
  <2>2. next' = [next EXCEPT ![t] = n] /\ at[t] = "load2"
    BY <1>9 DEF ReadCred, Go
  <2>3. n \in Place
    BY <1>1 DEF Place, AtRest
  <2>4. Fit(p, n, goal[t], priv[t], fresh[t], b) /\ p \in Place
    BY <1>1, <1>2, <2>1, <2>2 DEF Fit, Saving, Loading, Place, Working, AtRest
  <2> HIDE DEF n
  <2>5. QED
    BY <1>1, <1>3, <1>5, <1>9, <2>1, <2>2, <2>3, <2>4 DEF ReadCred, db
<1>10. CASE Fetch(t)
  <2>1. "save1" \in Place /\ Fit("save1", next[t], goal[t], priv[t], fresh[t], b)
    BY <1>2, <1>10 DEF Fetch, Go, Fit, Saving, Loading, Place, Working
  <2>2. QED
    BY <1>1, <1>3, <1>5, <1>10, <2>1 DEF Fetch, Go, db
<1>11. CASE SavePriv(t)
  <2>1. "save2" \in Place /\ Fit("save2", next[t], goal[t], priv[t], fresh[t], b)
    BY <1>2, <1>11 DEF SavePriv, Go, Fit, Saving, Loading, Place, Working
  <2>2. dbPriv' \in [Browser -> Key \cup {NoKey}] /\ dbCred' = dbCred
    BY <1>1, <1>11 DEF SavePriv
  <2>3. QED
    BY <1>1, <1>11, <1>18, <2>1, <2>2 DEF SavePriv, Go
<1>12. CASE SaveCred(t)
  <2>1. Fit(next[t], next[t], goal[t], priv[t], fresh[t], b)
    <3>1. \/ next[t] \in {"load1", "ready", "auth"}
          \/ next[t] \in {"switch", "decide"} /\ goal[t] \in Link
      BY <1>2, <1>12 DEF SaveCred, Go, Fit, Saving
    <3>2. CASE next[t] \in {"load1", "ready", "auth"}
      BY <3>2 DEF Fit, Saving, Loading
    <3>3. CASE next[t] \in {"switch", "decide"} /\ goal[t] \in Link
      BY <3>3 DEF Fit, Saving, Loading
    <3>4. QED
      BY <3>1, <3>2, <3>3
  <2>2. dbCred' \in [Browser -> Account \cup {NoAccount}] /\ dbPriv' = dbPriv
    BY <1>1, <1>12 DEF SaveCred
  <2>3. QED
    <3>1. /\ at' = [at EXCEPT ![t] = next[t]]
          /\ UNCHANGED <<goal, next, priv, cred, fresh>> /\ Rest
      BY <1>12 DEF SaveCred, Go
    <3>2. QED
      BY <1>1, <1>18, <2>1, <2>2, <3>1
<1>13. CASE Authorise(t) \/ ClearPriv(t) \/ ClearCred(t) \/ MigrateCred(t)
  <2>1. PICK p \in {"ready", "clear1", "clear2", "revoked", "has1"} :
           at' = [at EXCEPT ![t] = p]
    BY <1>13 DEF Authorise, ClearPriv, ClearCred, MigrateCred, Go
  <2>2. Fit(p, next[t], goal[t], priv[t], fresh[t], b) /\ p \in Place
    BY <2>1 DEF Fit, Saving, Loading, Place, Working, Reading, AtRest
  <2>3. MigrateCred(t) => Old[b] \in Link
    BY <1>2 DEF MigrateCred, Go, Fit
  <2>4. /\ dbPriv' \in [Browser -> Key \cup {NoKey}]
        /\ dbCred' \in [Browser -> Account \cup {NoAccount}]
    BY <1>1, <1>4, <1>13, <2>3 DEF Authorise, ClearPriv, ClearCred, MigrateCred, db
  <2>5. UNCHANGED <<goal, next, priv, cred, fresh>> /\ Rest
    BY <1>13 DEF Authorise, ClearPriv, ClearCred, MigrateCred
  <2>6. QED
    BY <1>1, <1>3, <1>5, <2>1, <2>2, <2>4, <2>5
<1>14. CASE MigratePriv(t)
  <2>1. Old[b] \in Link
    BY <1>2, <1>14 DEF MigratePriv, Go, Fit
  <2>2. "old2" \in Place /\ Fit("old2", next[t], goal[t], priv[t], fresh[t], b)
    BY <2>1 DEF Fit, Saving, Loading, Place, Working
  <2>3. dbPriv' \in [Browser -> Key \cup {NoKey}] /\ dbCred' = dbCred
    BY <1>1, <1>4, <1>14, <2>1 DEF MigratePriv
  <2>4. QED
    BY <1>1, <1>14, <1>18, <2>2, <2>3 DEF MigratePriv, Go
<1>15. CASE Decide(t)
  <2>1. PICK p \in {"kept", "ask"} : at' = [at EXCEPT ![t] = p]
    BY <1>15 DEF Decide, Go
  <2>2. Fit(p, next[t], goal[t], priv[t], fresh[t], b) /\ p \in Place
    BY <1>2, <1>15, <2>1 DEF Decide, Go, Fit, Saving, Loading, Place, Working, AtRest
  <2>3. QED
    BY <1>1, <1>3, <1>5, <1>15, <2>1, <2>2 DEF Decide, db
<1>16. CASE SwitchKey(t)
  <2>1. goal[t] \in Link /\ UNCHANGED <<goal, next, priv, cred, db, chain, opened, given>>
    BY <1>2, <1>16 DEF SwitchKey, Fit
  <2>2. PICK p \in {"wait", "error"}, f \in NewKey \cup {NoKey} :
           /\ at' = [at EXCEPT ![t] = p] /\ fresh' = [fresh EXCEPT ![t] = f]
           /\ used' \subseteq NewKey
           /\ pool' \subseteq [tab : Tab, link : Link, key : NewKey]
           /\ p = "wait" => f \in NewKey
    <3>1. CASE goal[t] \notin revoked /\ device[goal[t]] = priv[t]
      <4>1. PICK k \in NewKey \ used :
               /\ at' = [at EXCEPT ![t] = "wait"]
               /\ fresh' = [fresh EXCEPT ![t] = k]
               /\ used' = used \cup {k}
               /\ pool' = pool \cup {[tab |-> t, link |-> goal[t], key |-> k]}
        BY <1>16, <3>1 DEF SwitchKey
      <4>2. used \subseteq NewKey /\ pool \subseteq [tab : Tab, link : Link, key : NewKey]
        BY DEF BaseInv, TypeOK
      <4>3. QED
        <5>1. [tab |-> t, link |-> goal[t], key |-> k]
                 \in [tab : Tab, link : Link, key : NewKey]
          BY <2>1
        <5>2. QED
          BY <4>1, <4>2, <5>1
    <3>2. CASE ~(goal[t] \notin revoked /\ device[goal[t]] = priv[t])
      <4>1. at' = [at EXCEPT ![t] = "error"] /\ UNCHANGED <<fresh, used, pool>>
        BY <1>16, <3>2 DEF SwitchKey
      <4>2. fresh' = [fresh EXCEPT ![t] = fresh[t]] /\ fresh[t] \in NewKey \cup {NoKey}
        BY <4>1 DEF BaseInv, TypeOK
      <4>3. QED
        BY <4>1, <4>2 DEF BaseInv, TypeOK
    <3>3. QED
      BY <3>1, <3>2
  <2>3. Fit(p, next[t], goal[t], priv[t], f, b) /\ p \in Place
    BY <2>1, <2>2 DEF Fit, Saving, Loading, Place, Working, AtRest
  <2>4. goal' = [goal EXCEPT ![t] = goal[t]] /\ goal[t] \in Link \cup {NoLink}
    BY <2>1 DEF BaseInv, TypeOK
  <2>5. /\ at' \in [Tab -> Place] /\ next' \in [Tab -> Place]
        /\ goal' \in [Tab -> Link \cup {NoLink}]
        /\ priv' \in [Tab -> Key \cup {NoKey}]
        /\ cred' \in [Tab -> Account \cup {NoAccount}]
        /\ fresh' \in [Tab -> NewKey \cup {NoKey}]
        /\ Goals'
    <3>1. /\ next' = [next EXCEPT ![t] = next[t]] /\ priv' = [priv EXCEPT ![t] = priv[t]]
          /\ cred' = [cred EXCEPT ![t] = cred[t]]
      BY <1>3, <2>1
    <3>2. QED
      BY <1>1, <2>2, <2>3, <2>4, <3>1, TabStep
  <2>6. TypeOK'
    BY <2>1, <2>2, <2>5 DEF BaseInv, TypeOK, Place, db, chain
  <2>7. QED
    BY <2>1, <2>5, <2>6 DEF BaseInv, Devices, chain
<1>17. QED
  BY <1>6, <1>7, <1>8, <1>9, <1>10, <1>11, <1>12, <1>13, <1>14, <1>15, <1>16 DEF Run

\* The user answers, opens and closes pages, and requests fail.
LEMMA UserKeepsBase ==
  ASSUME BaseInv, NEW t \in Tab,
         \/ Answer(t) \/ Fail(t) \/ Close(t)
         \/ \E l \in Link \cup {NoLink} : Open(t, l)
  PROVE  BaseInv'
<1> DEFINE b == In[t]
<1>1. /\ at[t] \in Place /\ next[t] \in Place /\ goal[t] \in Link \cup {NoLink}
      /\ priv[t] \in Key \cup {NoKey} /\ cred[t] \in Account \cup {NoAccount}
      /\ fresh[t] \in NewKey \cup {NoKey}
      /\ b \in Browser /\ dbPriv[b] \in Key \cup {NoKey} /\ given \subseteq Key
      /\ dbPriv \in [Browser -> Key \cup {NoKey}]
      /\ dbCred \in [Browser -> Account \cup {NoAccount}]
  BY DEF BaseInv, TypeOK, Place
<1>2. /\ at = [at EXCEPT ![t] = at[t]] /\ next = [next EXCEPT ![t] = next[t]]
      /\ priv = [priv EXCEPT ![t] = priv[t]] /\ cred = [cred EXCEPT ![t] = cred[t]]
  BY DEF BaseInv, TypeOK
<1>3. ASSUME NEW p \in AtRest, at' = [at EXCEPT ![t] = p],
             UNCHANGED <<goal, next, priv, cred, fresh, db, chain, pool, used, opened>>,
             given' \subseteq Key
      PROVE  BaseInv'
  <2>1. p \in Place /\ Fit(p, next[t], goal[t], priv[t], fresh[t], b)
    BY <1>3 DEF Fit, Saving, Loading, Place, AtRest
  <2>2. QED
    <3>1. /\ next' = [next EXCEPT ![t] = next[t]] /\ priv' = [priv EXCEPT ![t] = priv[t]]
          /\ cred' = [cred EXCEPT ![t] = cred[t]]
          /\ UNCHANGED <<goal, fresh, chain, pool, used, opened>>
          /\ dbPriv' = dbPriv /\ dbCred' = dbCred
      BY <1>2, <1>3 DEF db
    <3>2. /\ dbPriv' \in [Browser -> Key \cup {NoKey}]
          /\ dbCred' \in [Browser -> Account \cup {NoAccount}]
          /\ at' = [at EXCEPT ![t] = p] /\ given' \subseteq Key
      BY <1>1, <1>3, <3>1
    <3>3. /\ next[t] \in Place /\ priv[t] \in Key \cup {NoKey}
          /\ cred[t] \in Account \cup {NoAccount}
      BY <1>1
    <3> HIDE DEF b
    <3>4. p \in Place /\ Fit(p, next[t], goal[t], priv[t], fresh[t], In[t])
      BY <2>1 DEF b
    <3>5. QED
      BY <3>1, <3>2, <3>3, <3>4, PageStep
<1>4. CASE Keep(t)
  <2>1. "kept" \in AtRest
    BY DEF AtRest
  <2>2. QED
    BY <1>1, <1>3, <1>4, <2>1 DEF Keep, Go, Rest
<1>5. CASE Overwrite(t)
  <2>1. UseLink(t) /\ UNCHANGED <<goal, fresh, db, chain, pool, used, opened>>
    BY <1>5 DEF Overwrite
  <2>2. goal[t] \in Link
    BY <1>5 DEF Overwrite, BaseInv, Goals, Fit
  <2>3. goal[t] \in Key /\ Of[goal[t]] \in Account /\ given' \subseteq Key
    BY <1>1, <1>5, <2>2 DEF Key, Overwrite
  <2>4. "fetch" \in Place /\ "switch" \in Place
    BY DEF Place, Working
  <2>5. Fit("fetch", "switch", goal[t], goal[t], fresh[t], b)
    BY <2>2, <2>3 DEF Fit, Saving, Loading
  <2>6. QED
    BY <1>1, <2>1, <2>3, <2>4, <2>5, PageStep DEF UseLink, db
<1>6. CASE Fail(t) \/ Close(t)
  <2>1. PICK p \in {"error", "closed"} : at' = [at EXCEPT ![t] = p]
    BY <1>6 DEF Fail, Close
  <2>2. p \in AtRest
    BY DEF AtRest
  <2>3. given' \subseteq Key
    BY <1>1, <1>6, GivenUpIsKey DEF Fail, Close
  <2>4. UNCHANGED <<goal, next, priv, cred, fresh, db, chain, pool, used, opened>>
    BY <1>6 DEF Fail, Close
  <2>5. QED
    BY <1>3, <2>1, <2>2, <2>3, <2>4
<1>7. ASSUME NEW l \in Link \cup {NoLink}, Open(t, l) PROVE BaseInv'
  <2>1. /\ at' = [at EXCEPT ![t] = "has1"] /\ next' = [next EXCEPT ![t] = next[t]]
        /\ goal' = [goal EXCEPT ![t] = l] /\ priv' = [priv EXCEPT ![t] = NoKey]
        /\ cred' = [cred EXCEPT ![t] = NoAccount] /\ fresh' = [fresh EXCEPT ![t] = NoKey]
        /\ UNCHANGED <<db, chain, pool, used, given>> /\ opened' = opened + 1
    BY <1>2, <1>7 DEF Open
  <2>2. "has1" \in Place
    BY DEF Place, Working, Reading
  <2>3. Fit("has1", next[t], l, NoKey, NoKey, b)
    BY DEF Fit, Saving, Loading
  <2>4. /\ at' \in [Tab -> Place] /\ next' \in [Tab -> Place]
        /\ goal' \in [Tab -> Link \cup {NoLink}]
        /\ priv' \in [Tab -> Key \cup {NoKey}]
        /\ cred' \in [Tab -> Account \cup {NoAccount}]
        /\ fresh' \in [Tab -> NewKey \cup {NoKey}]
        /\ Goals'
    BY <1>1, <2>1, <2>2, <2>3, TabStep
  <2>5. TypeOK'
    BY <2>1, <2>4 DEF BaseInv, TypeOK, Place, db, chain
  <2>6. QED
    BY <2>1, <2>4, <2>5 DEF BaseInv, Devices, chain
<1>8. QED
  BY <1>4, <1>5, <1>6, <1>7 DEF Answer

\* The nodes include a new key, or refuse it; devices are revoked.
LEMMA ChainKeepsBase ==
  ASSUME BaseInv,
         \/ \E tx \in pool : Include(tx) \/ Refuse(tx)
         \/ \E l \in Link : Revoke(l)
  PROVE  BaseInv'
<1>1. ASSUME NEW tx \in pool, Include(tx) PROVE BaseInv'
  <2> DEFINE t == tx.tab
  <2>1. t \in Tab /\ tx.link \in Link /\ tx.key \in NewKey /\ tx.key \in Key
    BY DEF BaseInv, TypeOK, Key
  <2>2. /\ pool' = pool \ {tx} /\ device' = [device EXCEPT ![tx.link] = tx.key]
        /\ UNCHANGED <<goal, cred, fresh, db, revoked, used, opened, given>>
    BY <1>1 DEF Include
  <2>3. device' \in [Link -> Key] /\ Devices'
    BY <2>1, <2>2 DEF BaseInv, TypeOK, Devices
  <2>4. /\ at' \in [Tab -> Place] /\ next' \in [Tab -> Place]
        /\ priv' \in [Tab -> Key \cup {NoKey}] /\ Goals'
    <3>1. CASE Waits(tx)
      <4> DEFINE n == IF tx.link \in DeviceLink THEN "ready" ELSE "load1"
      <4>1. /\ at' = [at EXCEPT ![t] = "save1"] /\ next' = [next EXCEPT ![t] = n]
            /\ priv' = [priv EXCEPT ![t] = tx.key]
        BY <1>1, <3>1 DEF Include
      <4>2. "save1" \in Place /\ n \in Place
        BY DEF Place, Working, Reading, AtRest
      <4>3. Fit("save1", n, goal[t], tx.key, fresh[t], In[t])
        BY <2>1 DEF Fit, Saving, Loading
      <4>4. /\ goal' = [goal EXCEPT ![t] = goal[t]] /\ cred' = [cred EXCEPT ![t] = cred[t]]
            /\ fresh' = [fresh EXCEPT ![t] = fresh[t]]
            /\ goal[t] \in Link \cup {NoLink} /\ cred[t] \in Account \cup {NoAccount}
            /\ fresh[t] \in NewKey \cup {NoKey}
        BY <2>1, <2>2 DEF BaseInv, TypeOK
      <4> HIDE DEF n
      <4>5. QED
        BY <2>1, <4>1, <4>2, <4>3, <4>4, TabStep
    <3>2. CASE ~Waits(tx)
      BY <1>1, <2>2, <3>2 DEF Include, BaseInv, TypeOK, Goals, Fit, Place
    <3>3. QED
      BY <3>1, <3>2
  <2>5. TypeOK'
    BY <2>2, <2>3, <2>4 DEF BaseInv, TypeOK, Place, db
  <2>6. QED
    BY <2>3, <2>4, <2>5 DEF BaseInv
<1>2. ASSUME NEW tx \in pool, Refuse(tx) PROVE BaseInv'
  <2> DEFINE t == tx.tab
  <2>1. t \in Tab
    BY DEF BaseInv, TypeOK
  <2>2. /\ pool' = pool \ {tx}
        /\ UNCHANGED <<goal, next, priv, cred, fresh, db, chain, used, opened, given>>
    BY <1>2 DEF Refuse
  <2>3. at' \in [Tab -> Place] /\ \A s \in Tab : at'[s] \in {at[s], "error"}
    BY <1>2, <2>1 DEF Refuse, BaseInv, TypeOK, Place, AtRest
  <2>4. Goals'
    <3> SUFFICES ASSUME NEW s \in Tab
                 PROVE  Fit(at'[s], next[s], goal[s], priv[s], fresh[s], In[s])
      BY <2>2 DEF Goals, Fit
    <3>1. CASE at'[s] = at[s]
      BY <3>1 DEF BaseInv, Goals
    <3>2. CASE at'[s] = "error"
      BY <3>2 DEF Fit, Saving, Loading
    <3>3. QED
      BY <2>3, <3>1, <3>2
  <2>5. TypeOK' /\ Devices'
    BY <2>2, <2>3 DEF BaseInv, TypeOK, Devices, Place, db, chain
  <2>6. QED
    BY <2>4, <2>5 DEF BaseInv
<1>3. ASSUME NEW l \in Link, Revoke(l) PROVE BaseInv'
  BY <1>3 DEF Revoke, BaseInv, TypeOK, Goals, Fit, Devices, tab, db
<1>4. QED
  BY <1>1, <1>2, <1>3

LEMMA BaseStep == BaseInv /\ [Next]_vars => BaseInv'
<1> SUFFICES ASSUME BaseInv, [Next]_vars PROVE BaseInv'
  OBVIOUS
<1>1. CASE Next
  BY <1>1, RunKeepsBase, UserKeepsBase, ChainKeepsBase DEF Next, Shown
<1>2. CASE UNCHANGED vars
  BY <1>2 DEF vars, tab, db, chain, BaseInv, TypeOK, Goals, Fit, Devices
<1>3. QED
  BY <1>1, <1>2

LEMMA BaseHolds == Spec => []BaseInv
BY BaseInit, BaseStep, PTL DEF Spec

\* The state has its type.
THEOREM RegistrationTyped == Spec => []TypeOK
<1>1. BaseInv => TypeOK
  BY DEF BaseInv
<1>2. QED
  BY <1>1, BaseHolds, PTL

\* A page that has replaced the key of its link and goes on to its end.
Past(p, n) == p = "ready" \/ (p \in Loading \cup Saving /\ n \in {"ready", "load1"})

\* What such a page at p, with n as its next place, a link g and a new key f,
\* knows of the devices; only a start page asks whether it has rights.
Registered(p, n, g, f, dev) ==
    /\ Past(p, n) /\ g \in Link => dev[g] = f /\ f \in NewKey
    /\ p = "auth" \/ (p \in Loading \cup Saving /\ n = "auth") => g = NoLink

\* A new key belongs to one transaction, and to the page that has sent it.
Chosen == \A tx \in pool : /\ tx.key \in used
                           /\ fresh[tx.tab] = tx.key => goal[tx.tab] = tx.link

OnChain(k, dev) == k \in NewKey => \E l \in Link : dev[l] = k

\* Pages and databases have no new key but those that the chain has taken.
RegisterInv == /\ BaseInv
               /\ Chosen
               /\ \A t \in Tab : Registered(at[t], next[t], goal[t], fresh[t], device)
               /\ \A t \in Tab : OnChain(priv[t], device)
               /\ \A b \in Browser : OnChain(dbPriv[b], device)

LEMMA RegisterInit == Init => RegisterInv
<1> SUFFICES ASSUME Init PROVE RegisterInv
  OBVIOUS
<1>1. BaseInv /\ Chosen
  BY BaseInit DEF Init, Chosen
<1>2. \A t \in Tab : Registered(at[t], next[t], goal[t], fresh[t], device)
  BY DEF Init, Registered, Past, Loading, Saving
<1>3. /\ \A t \in Tab : OnChain(priv[t], device)
      /\ \A b \in Browser : OnChain(dbPriv[b], device)
  BY DEF Init, OnChain, Key
<1>4. QED
  BY <1>1, <1>2, <1>3 DEF RegisterInv

\* A page goes from one place to another and keeps its link.
LEMMA RegisterStep ==
  ASSUME RegisterInv, BaseInv', NEW t \in Tab, NEW p, NEW n, NEW k,
         at' = [at EXCEPT ![t] = p], next' = [next EXCEPT ![t] = n],
         priv' = [priv EXCEPT ![t] = k], UNCHANGED <<goal, fresh, device, pool, used>>,
         Registered(p, n, goal[t], fresh[t], device), OnChain(k, device),
         \A b \in Browser : OnChain(dbPriv'[b], device)
  PROVE  RegisterInv'
<1>1. /\ at \in [Tab -> Place] /\ next \in [Tab -> Place]
      /\ priv \in [Tab -> Key \cup {NoKey}]
  BY DEF RegisterInv, BaseInv, TypeOK, Place
<1>2. ASSUME NEW s \in Tab
      PROVE  /\ Registered(at'[s], next'[s], goal[s], fresh[s], device)
             /\ OnChain(priv'[s], device)
  <2>1. CASE s = t
    BY <1>1, <2>1
  <2>2. CASE s # t
    <3>1. at'[s] = at[s] /\ next'[s] = next[s] /\ priv'[s] = priv[s]
      BY <1>1, <2>2
    <3>2. QED
      BY <3>1 DEF RegisterInv
  <2>3. QED
    BY <2>1, <2>2
<1>3. Chosen'
  BY DEF RegisterInv, Chosen
<1>4. QED
  BY <1>2, <1>3 DEF RegisterInv

\* The steps of a page, but the one that sends the new key.
LEMMA RunRegisters ==
  ASSUME RegisterInv, BaseInv', NEW t \in Tab, Run(t), ~SwitchKey(t)
  PROVE  RegisterInv'
<1>1. /\ at \in [Tab -> Place] /\ next \in [Tab -> Place]
      /\ priv \in [Tab -> Key \cup {NoKey}] /\ dbPriv \in [Browser -> Key \cup {NoKey}]
      /\ goal[t] \in Link \cup {NoLink} /\ In[t] \in Browser
      /\ Old[In[t]] \in Link \cup {NoLink}
  BY DEF RegisterInv, BaseInv, TypeOK, Place
<1>2. /\ Registered(at[t], next[t], goal[t], fresh[t], device)
      /\ OnChain(priv[t], device)
      /\ \A b \in Browser : OnChain(dbPriv[b], device)
      /\ Fit(at[t], next[t], goal[t], priv[t], fresh[t], In[t])
  BY DEF RegisterInv, BaseInv, Goals
<1>3. UNCHANGED <<goal, fresh, device, pool, used>>
  BY DEF Run, SwitchKey, ReadPriv, NoUser, HasUser, ReadCred, Fetch, SavePriv, SaveCred,
     Authorise, ClearPriv, ClearCred, MigratePriv, MigrateCred, Decide, Rest, chain
<1>4. OnChain(NoKey, device) /\ \A l \in Link : OnChain(l, device)
  BY DEF OnChain, Key
<1>5. PICK p \in Place, n \in Place, k \in Key \cup {NoKey} :
         /\ at' = [at EXCEPT ![t] = p] /\ next' = [next EXCEPT ![t] = n]
         /\ priv' = [priv EXCEPT ![t] = k]
  <2>1. /\ at' = [at EXCEPT ![t] = at'[t]] /\ next' = [next EXCEPT ![t] = next'[t]]
        /\ priv' = [priv EXCEPT ![t] = priv'[t]]
    BY <1>1, SMTT(60) DEF Run, SwitchKey, ReadPriv, NoUser, UseLink, HasUser, ReadCred,
       Fetch, SavePriv, SaveCred, Authorise, ClearPriv, ClearCred, MigratePriv,
       MigrateCred, Decide, Go
  <2>2. at'[t] \in Place /\ next'[t] \in Place /\ priv'[t] \in Key \cup {NoKey}
    BY DEF BaseInv, TypeOK, Place
  <2>3. QED
    BY <2>1, <2>2
<1>6. at'[t] = p /\ next'[t] = n /\ priv'[t] = k
  BY <1>1, <1>5
<1>7. OnChain(k, device)
  <2>1. k = priv[t] \/ k = dbPriv[In[t]] \/ k \in Link
    BY <1>1, <1>6 DEF Run, SwitchKey, ReadPriv, NoUser, UseLink, HasUser, ReadCred,
       Fetch, SavePriv, SaveCred, Authorise, ClearPriv, ClearCred, MigratePriv,
       MigrateCred, Decide, Go
  <2>2. QED
    BY <1>1, <1>2, <1>4, <2>1
<1>8. \A b \in Browser : OnChain(dbPriv'[b], device)
  <2> SUFFICES ASSUME NEW b \in Browser PROVE OnChain(dbPriv'[b], device)
    OBVIOUS
  <2>1. MigratePriv(t) => Old[In[t]] \in Link
    BY <1>2 DEF MigratePriv, Go, Fit
  <2>2. dbPriv'[b] \in {dbPriv[b], priv[t], NoKey} \cup Link
    BY <1>1, <2>1 DEF Run, SwitchKey, ReadPriv, NoUser, HasUser, ReadCred,
       Fetch, SavePriv, SaveCred, Authorise, ClearPriv, ClearCred, MigratePriv,
       MigrateCred, Decide, db
  <2>3. QED
    BY <1>2, <1>4, <2>2
<1>9. Registered(p, n, goal[t], fresh[t], device)
  <2>1. /\ Past(p, n) => Past(at[t], next[t]) \/ goal[t] = NoLink
        /\ p = "auth" \/ (p \in Loading \cup Saving /\ n = "auth")
             => \/ at[t] \in Loading \cup Saving /\ next[t] = "auth"
                \/ goal[t] = NoLink
    <3>1. CASE ReadPriv(t)
      BY <1>1, <1>6, <3>1 DEF ReadPriv, Go, Past, Loading, Saving
    <3>2. CASE NoUser(t)
      BY <1>1, <1>6, <3>2 DEF NoUser, UseLink, Past, Loading, Saving
    <3>3. CASE HasUser(t)
      BY <1>1, <1>6, <3>3 DEF HasUser, Go, Past, Loading, Saving
    <3>4. CASE ReadCred(t)
      BY <1>1, <1>6, <3>4 DEF ReadCred, Go, Past, Loading, Saving
    <3>5. CASE Fetch(t) \/ SavePriv(t)
      BY <1>1, <1>6, <3>5 DEF Fetch, SavePriv, Go, Past, Loading, Saving
    <3>6. CASE SaveCred(t)
      BY <1>1, <1>2, <1>6, <3>6 DEF SaveCred, Go, Past, Loading, Saving, Fit
    <3>7. CASE Authorise(t)
      BY <1>1, <1>2, <1>6, <3>7 DEF Authorise, Go, Past, Loading, Saving, Registered
    <3>8. CASE ClearPriv(t) \/ ClearCred(t) \/ MigratePriv(t) \/ MigrateCred(t) \/ Decide(t)
      BY <1>1, <1>6, <3>8 DEF ClearPriv, ClearCred, MigratePriv, MigrateCred, Decide,
         Go, Past, Loading, Saving
    <3>9. QED
      BY <3>1, <3>2, <3>3, <3>4, <3>5, <3>6, <3>7, <3>8 DEF Run
  <2>2. QED
    BY <1>1, <1>2, <2>1 DEF Registered
<1>10. QED
  BY <1>3, <1>5, <1>7, <1>8, <1>9, RegisterStep

\* A key that nobody has chosen is sent.
LEMMA SwitchRegisters ==
  ASSUME RegisterInv, BaseInv', NEW t \in Tab, SwitchKey(t)
  PROVE  RegisterInv'
<1>1. /\ at \in [Tab -> Place] /\ fresh \in [Tab -> NewKey \cup {NoKey}]
      /\ \A tx \in pool : tx.tab \in Tab
      /\ UNCHANGED <<goal, next, priv, device, dbPriv>>
  BY DEF RegisterInv, BaseInv, TypeOK, Place, SwitchKey, db, chain
<1>2. \A s \in Tab : Registered(at'[s], next[s], goal[s], fresh'[s], device)
  <2> SUFFICES ASSUME NEW s \in Tab
               PROVE  Registered(at'[s], next[s], goal[s], fresh'[s], device)
    OBVIOUS
  <2>1. CASE s = t
    BY <1>1, <2>1 DEF SwitchKey, Registered, Past, Loading, Saving
  <2>2. CASE s # t
    <3>1. at'[s] = at[s] /\ fresh'[s] = fresh[s]
      BY <1>1, <2>2 DEF SwitchKey
    <3>2. QED
      BY <3>1 DEF RegisterInv
  <2>3. QED
    BY <2>1, <2>2
<1>3. Chosen'
  <2>1. CASE UNCHANGED <<fresh, used, pool>>
    BY <1>1, <2>1 DEF RegisterInv, Chosen
  <2>2. ASSUME NEW k \in NewKey \ used, fresh' = [fresh EXCEPT ![t] = k],
               used' = used \cup {k},
               pool' = pool \cup {[tab |-> t, link |-> goal[t], key |-> k]}
        PROVE  Chosen'
    <3> SUFFICES ASSUME NEW tx \in pool'
                 PROVE  /\ tx.key \in used'
                        /\ fresh'[tx.tab] = tx.key => goal'[tx.tab] = tx.link
      BY DEF Chosen
    <3>1. CASE tx \in pool
      <4>1. tx.key \in used /\ tx.key # k
        BY <3>1 DEF RegisterInv, Chosen
      <4>2. fresh'[tx.tab] = tx.key => fresh[tx.tab] = tx.key
        BY <1>1, <2>2, <3>1, <4>1
      <4>3. QED
        BY <1>1, <2>2, <3>1, <4>1, <4>2 DEF RegisterInv, Chosen
    <3>2. CASE tx = [tab |-> t, link |-> goal[t], key |-> k]
      BY <1>1, <2>2, <3>2
    <3>3. QED
      BY <2>2, <3>1, <3>2
  <2>3. QED
    BY <2>1, <2>2 DEF SwitchKey
<1>4. QED
  BY <1>1, <1>2, <1>3 DEF RegisterInv

\* The user, who may replace his account by a link, and requests that fail.
LEMMA UserRegisters ==
  ASSUME RegisterInv, BaseInv', NEW t \in Tab, Answer(t) \/ Fail(t) \/ Close(t)
  PROVE  RegisterInv'
<1>1. /\ at \in [Tab -> Place] /\ next \in [Tab -> Place]
      /\ priv \in [Tab -> Key \cup {NoKey}]
  BY DEF RegisterInv, BaseInv, TypeOK, Place
<1>2. /\ Registered(at[t], next[t], goal[t], fresh[t], device)
      /\ OnChain(priv[t], device)
      /\ \A b \in Browser : OnChain(dbPriv[b], device)
      /\ Fit(at[t], next[t], goal[t], priv[t], fresh[t], In[t])
  BY DEF RegisterInv, BaseInv, Goals
<1>3. UNCHANGED <<goal, fresh, device, pool, used, dbPriv>>
  BY DEF Answer, Fail, Close, Keep, Overwrite, Rest, db, chain
<1>4. CASE Overwrite(t)
  <2>1. goal[t] \in Link
    BY <1>2, <1>4 DEF Overwrite, Fit
  <2>2. OnChain(goal[t], device)
    BY <2>1 DEF OnChain
  <2>3. Registered("fetch", "switch", goal[t], fresh[t], device)
    BY DEF Registered, Past, Saving
  <2>4. QED
    BY <1>2, <1>3, <1>4, <2>2, <2>3, RegisterStep DEF Overwrite, UseLink
<1>5. CASE Keep(t) \/ Fail(t) \/ Close(t)
  <2>1. PICK p \in {"kept", "error", "closed"} : at' = [at EXCEPT ![t] = p]
    BY <1>5 DEF Keep, Fail, Close, Go
  <2>2. next' = [next EXCEPT ![t] = next[t]] /\ priv' = [priv EXCEPT ![t] = priv[t]]
    BY <1>1, <1>5 DEF Keep, Fail, Close
  <2>3. Registered(p, next[t], goal[t], fresh[t], device)
    BY <2>1 DEF Registered, Past, Loading, Saving
  <2>4. QED
    BY <1>2, <1>3, <2>1, <2>2, <2>3, RegisterStep
<1>6. QED
  BY <1>4, <1>5 DEF Answer

LEMMA OpenRegisters ==
  ASSUME RegisterInv, BaseInv', NEW t \in Tab, NEW l \in Link \cup {NoLink}, Open(t, l)
  PROVE  RegisterInv'
<1>1. /\ at \in [Tab -> Place] /\ goal \in [Tab -> Link \cup {NoLink}]
      /\ fresh \in [Tab -> NewKey \cup {NoKey}] /\ priv \in [Tab -> Key \cup {NoKey}]
      /\ \A tx \in pool : tx.tab \in Tab /\ tx.key \in NewKey
      /\ UNCHANGED <<next, device, dbPriv, pool, used>>
  BY DEF RegisterInv, BaseInv, TypeOK, Place, Open, db, chain
<1>2. /\ at' = [at EXCEPT ![t] = "has1"] /\ goal' = [goal EXCEPT ![t] = l]
      /\ priv' = [priv EXCEPT ![t] = NoKey] /\ fresh' = [fresh EXCEPT ![t] = NoKey]
  BY DEF Open
<1>3. ASSUME NEW s \in Tab
      PROVE  /\ Registered(at'[s], next[s], goal'[s], fresh'[s], device)
             /\ OnChain(priv'[s], device)
  <2>1. CASE s = t
    BY <1>1, <1>2, <2>1 DEF Registered, Past, Loading, Saving, OnChain, Key
  <2>2. CASE s # t
    <3>1. at'[s] = at[s] /\ goal'[s] = goal[s] /\ fresh'[s] = fresh[s] /\ priv'[s] = priv[s]
      BY <1>1, <1>2, <2>2
    <3>2. QED
      BY <3>1 DEF RegisterInv
  <2>3. QED
    BY <2>1, <2>2
<1>4. Chosen'
  <2> SUFFICES ASSUME NEW tx \in pool
               PROVE  /\ tx.key \in used
                      /\ fresh'[tx.tab] = tx.key => goal'[tx.tab] = tx.link
    BY <1>1 DEF Chosen
  <2>1. tx.tab = t => fresh'[tx.tab] # tx.key
    BY <1>1, <1>2 DEF Key
  <2>2. tx.tab # t => fresh'[tx.tab] = fresh[tx.tab] /\ goal'[tx.tab] = goal[tx.tab]
    BY <1>1, <1>2
  <2>3. QED
    BY <2>1, <2>2 DEF RegisterInv, Chosen
<1>5. QED
  BY <1>1, <1>3, <1>4 DEF RegisterInv

\* The chain takes the new key of a link that nobody has used before.
LEMMA IncludeRegisters ==
  ASSUME RegisterInv, BaseInv', NEW tx \in pool, Include(tx)
  PROVE  RegisterInv'
<1>1. /\ at \in [Tab -> Place] /\ next \in [Tab -> Place]
      /\ priv \in [Tab -> Key \cup {NoKey}] /\ device \in [Link -> Key]
      /\ tx.tab \in Tab /\ tx.link \in Link /\ tx.key \in NewKey
  BY DEF RegisterInv, BaseInv, TypeOK, Place
<1>2. /\ pool' = pool \ {tx} /\ device' = [device EXCEPT ![tx.link] = tx.key]
      /\ device[tx.link] = tx.link /\ tx.link \notin NewKey
      /\ UNCHANGED <<goal, fresh, dbPriv, used>>
  BY <1>1 DEF Include, Acceptable, db
<1>3. ASSUME NEW k, OnChain(k, device) PROVE OnChain(k, device')
  <2> SUFFICES ASSUME k \in NewKey PROVE \E l \in Link : device'[l] = k
    BY DEF OnChain
  <2>1. PICK l \in Link : device[l] = k
    BY <1>3 DEF OnChain
  <2>2. l # tx.link
    BY <1>2, <2>1
  <2>3. QED
    BY <1>1, <1>2, <2>1, <2>2
<1>4. OnChain(tx.key, device')
  BY <1>1, <1>2 DEF OnChain
<1>5. ASSUME NEW s \in Tab
      PROVE  /\ Registered(at'[s], next'[s], goal[s], fresh[s], device')
             /\ OnChain(priv'[s], device')
  <2>1. CASE Waits(tx) /\ s = tx.tab
    <3>1. at'[s] = "save1" /\ next'[s] \in {"ready", "load1"} /\ priv'[s] = tx.key
      BY <1>1, <2>1 DEF Include
    <3>2. goal[s] = tx.link /\ fresh[s] = tx.key
      BY <2>1 DEF Waits, RegisterInv, Chosen
    <3>3. device'[tx.link] = tx.key
      BY <1>1, <1>2
    <3>4. QED
      BY <1>1, <1>4, <3>1, <3>2, <3>3 DEF Registered, Past
  <2>2. CASE ~(Waits(tx) /\ s = tx.tab)
    <3>1. at'[s] = at[s] /\ next'[s] = next[s] /\ priv'[s] = priv[s]
      BY <1>1, <2>2 DEF Include
    <3>2. Registered(at[s], next[s], goal[s], fresh[s], device) /\ OnChain(priv[s], device)
      BY DEF RegisterInv
    <3>3. \A g \in Link : device[g] \in NewKey => device'[g] = device[g]
      BY <1>1, <1>2
    <3>4. Registered(at[s], next[s], goal[s], fresh[s], device')
      BY <3>2, <3>3 DEF Registered
    <3>5. QED
      BY <1>3, <3>1, <3>2, <3>4
  <2>3. QED
    BY <2>1, <2>2
<1>6. Chosen' /\ \A b \in Browser : OnChain(dbPriv[b], device')
  BY <1>2, <1>3 DEF RegisterInv, Chosen
<1>7. QED
  BY <1>2, <1>5, <1>6 DEF RegisterInv

LEMMA ChainRegisters ==
  ASSUME RegisterInv, BaseInv',
         (\E tx \in pool : Refuse(tx)) \/ (\E l \in Link : Revoke(l)) \/ UNCHANGED vars
  PROVE  RegisterInv'
<1>1. /\ UNCHANGED <<goal, next, priv, fresh, dbPriv, device, used>> /\ pool' \subseteq pool
      /\ \A s \in Tab : at'[s] \in {at[s], "error"}
  BY DEF RegisterInv, BaseInv, TypeOK, Refuse, Revoke, vars, tab, db, chain
<1>2. \A s \in Tab : Registered(at'[s], next[s], goal[s], fresh[s], device)
  BY <1>1 DEF RegisterInv, Registered, Past, Loading, Saving
<1>3. Chosen'
  BY <1>1 DEF RegisterInv, Chosen
<1>4. QED
  BY <1>1, <1>2, <1>3 DEF RegisterInv

LEMMA RegisterHolds == Spec => []RegisterInv
<1>1. RegisterInv /\ [Next]_vars => RegisterInv'
  <2> SUFFICES ASSUME RegisterInv, [Next]_vars PROVE RegisterInv'
    OBVIOUS
  <2>1. BaseInv'
    BY BaseStep DEF RegisterInv
  <2>2. QED
    BY <2>1, RunRegisters, SwitchRegisters, UserRegisters, OpenRegisters,
       IncludeRegisters, ChainRegisters DEF Next, Shown
<1>2. QED
  BY <1>1, RegisterInit, PTL DEF Spec

\* However many pages open a link, in one browser or in several, the only one to
\* get to its end is the one whose key the chain has taken, and no browser
\* stores a key that the chain has refused.
THEOREM LinksRegisterOnce == Spec => []OneRegisters
<1>1. RegisterInv => OneRegisters
  BY DEF RegisterInv, Registered, Past, OnChain, OneRegisters
<1>2. QED
  BY <1>1, RegisterHolds, PTL

\* A page that waits for the chain has its transaction there.
Served == \A t \in Tab : at[t] = "wait" => \E tx \in pool : tx.tab = t /\ Waits(tx)

LEMMA ServedStep == BaseInv /\ Served /\ [Next]_vars => Served'
<1> SUFFICES ASSUME BaseInv, Served, [Next]_vars PROVE Served'
  OBVIOUS
<1>1. /\ at \in [Tab -> Place] /\ fresh \in [Tab -> NewKey \cup {NoKey}]
      /\ \A tx \in pool : tx.tab \in Tab
  BY DEF BaseInv, TypeOK, Place
<1>2. ASSUME \A t \in Tab : at'[t] = "wait" => at[t] = "wait" /\ fresh'[t] = fresh[t],
             UNCHANGED pool
      PROVE  Served'
  BY <1>2 DEF Served, Waits
<1>3. ASSUME NEW t \in Tab, Run(t), ~SwitchKey(t) PROVE Served'
  <2>1. fresh' = fresh /\ pool' = pool
    BY <1>3 DEF Run, ReadPriv, NoUser, HasUser, ReadCred, Fetch, SavePriv, SaveCred,
         Authorise, ClearPriv, ClearCred, MigratePriv, MigrateCred, Decide, Rest
  <2>2. PICK p \in Place \ {"wait"} : at' = [at EXCEPT ![t] = p]
    <3>1. CASE SaveCred(t)
      <4>1. at' = [at EXCEPT ![t] = next[t]] /\ at[t] = "save2"
        BY <3>1 DEF SaveCred, Go
      <4>2. next[t] \in {"load1", "ready", "auth", "switch", "decide"}
        BY <4>1 DEF BaseInv, Goals, Fit, Saving
      <4>3. next[t] \in Place \ {"wait"}
        BY <4>2 DEF Place, Working, Reading, AtRest
      <4>4. QED
        BY <4>1, <4>3
    <3>2. CASE ~SaveCred(t)
      <4>1. PICK p \in {"has1", "has2", "load1", "load2", "fetch", "save1", "save2",
                        "clear1", "clear2", "old1", "old2", "ask", "ready", "kept",
                        "newuser", "revoked", "error"} : at' = [at EXCEPT ![t] = p]
        BY <1>3, <3>2 DEF Run, ReadPriv, NoUser, HasUser, ReadCred, Fetch, SavePriv,
             Authorise, ClearPriv, ClearCred, MigratePriv, MigrateCred, Decide, UseLink, Go
      <4>2. p \in Place \ {"wait"}
        BY DEF Place, Working, Reading, AtRest
      <4>3. QED
        BY <4>1, <4>2
    <3>3. QED
      BY <3>1, <3>2
  <2>3. QED
    BY <1>1, <1>2, <2>1, <2>2
<1>4. ASSUME NEW t \in Tab, SwitchKey(t) PROVE Served'
  <2>1. CASE at' = [at EXCEPT ![t] = "error"] /\ UNCHANGED <<fresh, used, pool>>
    BY <1>1, <1>2, <2>1
  <2>2. ASSUME NEW k \in NewKey \ used,
               at' = [at EXCEPT ![t] = "wait"], fresh' = [fresh EXCEPT ![t] = k],
               pool' = pool \cup {[tab |-> t, link |-> goal[t], key |-> k]}
        PROVE  Served'
    <3>1. PICK new \in pool' : new.tab = t /\ new.key = k
      <4> DEFINE tx == [tab |-> t, link |-> goal[t], key |-> k]
      <4>1. tx \in pool' /\ tx.tab = t /\ tx.key = k
        BY <2>2
      <4>2. QED
        BY <4>1
    <3>2. at'[t] = "wait" /\ fresh'[t] = k
      BY <1>1, <2>2
    <3>3. Waits(new)'
      BY <3>1, <3>2 DEF Waits
    <3>4. ASSUME NEW s \in Tab \ {t}, at'[s] = "wait"
          PROVE  \E tx \in pool' : tx.tab = s /\ Waits(tx)'
      <4>1. at'[s] = at[s] /\ fresh'[s] = fresh[s]
        BY <1>1, <2>2
      <4>2. PICK tx \in pool : tx.tab = s /\ Waits(tx)
        BY <3>4, <4>1 DEF Served
      <4>3. tx \in pool' /\ Waits(tx)'
        BY <2>2, <4>1, <4>2 DEF Waits
      <4>4. QED
        BY <4>2, <4>3
    <3>5. QED
      BY <3>1, <3>3, <3>4 DEF Served
  <2>3. QED
    BY <1>4, <2>1, <2>2 DEF SwitchKey
<1>5. ASSUME NEW t \in Tab, Answer(t) \/ Fail(t) \/ Close(t) PROVE Served'
  <2>1. fresh' = fresh /\ pool' = pool
    BY <1>5 DEF Answer, Keep, Overwrite, Fail, Close, Rest
  <2>2. PICK p \in {"kept", "fetch", "error", "closed"} : at' = [at EXCEPT ![t] = p]
    BY <1>5 DEF Answer, Keep, Overwrite, UseLink, Fail, Close, Go
  <2>3. QED
    BY <1>1, <1>2, <2>1, <2>2
<1>6. ASSUME NEW t \in Tab, NEW l \in Shown \cup {NoLink}, Open(t, l) PROVE Served'
  BY <1>1, <1>2, <1>6 DEF Open
<1>7. ASSUME NEW tx \in pool, Include(tx) \/ Refuse(tx) PROVE Served'
  <2>1. /\ pool' = pool \ {tx} /\ fresh' = fresh
        /\ Waits(tx) => at'[tx.tab] # "wait"
        /\ \A s \in Tab : at'[s] = "wait" => at[s] = "wait"
    BY <1>1, <1>7 DEF Include, Refuse
  <2> SUFFICES ASSUME NEW s \in Tab, at'[s] = "wait"
               PROVE  \E ty \in pool' : ty.tab = s /\ Waits(ty)'
    BY DEF Served
  <2>2. PICK ty \in pool : ty.tab = s /\ Waits(ty)
    BY <2>1 DEF Served
  <2>3. ty # tx /\ Waits(ty)'
    BY <2>1, <2>2 DEF Waits
  <2>4. QED
    BY <2>1, <2>2, <2>3
<1>8. ASSUME NEW l \in Link, Revoke(l) PROVE Served'
  BY <1>2, <1>8 DEF Revoke, tab
<1>9. CASE UNCHANGED vars
  BY <1>2, <1>9 DEF vars, tab
<1>10. QED
  BY <1>3, <1>4, <1>5, <1>6, <1>7, <1>8, <1>9 DEF Next

\* A page that waits in switchKey has a transaction in the pool whose block or
\* refusal it will be told: no step of another tab takes it away (user.ts:88).
\* What KeyGetsStored and PageEnds need besides is fairness.
THEOREM WaitsAreServed == Spec => []Served
<1>1. Init => Served
  BY DEF Init, Served
<1>2. QED
  BY <1>1, ServedStep, BaseHolds, PTL DEF Spec

-----------------------------------------------------------------------------
(* The key that a page has put in a device is kept, as long as no two pages  *)
(* of a browser work at the same time.  (RegTabs.cfg shows what happens if   *)
(* they do.)                                                                 *)

\* No other page of its browser is at work.
Alone(t) == \A s \in Tab \ {t} : In[s] = In[t] => at[s] \in AtRest

\* A browser may have any number of pages, but only one of them is at work.
OneAtATime == \A t \in Tab : at[t] \notin AtRest => Alone(t)

\* A device that counts, with a key that nobody gave up.
Live(l) == l \notin revoked /\ device[l] \notin given

\* A key that is chosen is new, and a key in a transaction is nowhere else.
KeysOnce ==
    /\ \A tx \in pool :
          /\ tx.key \in used
          /\ \A ty \in pool : tx.key = ty.key => tx = ty
          /\ \A l \in Link : device[l] # tx.key
          /\ \A t \in Tab : priv[t] # tx.key
          /\ \A b \in Browser : dbPriv[b] # tx.key
    /\ \A l \in Link : device[l] \in NewKey => device[l] \in used
    /\ \A t \in Tab : priv[t] \in NewKey => priv[t] \in used
    /\ \A b \in Browser : dbPriv[b] \in NewKey => dbPriv[b] \in used
    /\ \A l, m \in Link : device[l] = device[m] => l = m

\* A key that is on its way to the chain has a page that waits, or is given up.
Pending == \A tx \in pool : /\ Waits(tx) \/ tx.key \in given
                            /\ Waits(tx) => tx.link = goal[tx.tab]

\* What a page knows of its keys, by its place.
Course(t) ==
    /\ at[t] \in Saving /\ next[t] = "switch"
          => priv[t] = goal[t] /\ cred[t] = Of[goal[t]]
    /\ at[t] \in {"switch", "wait"}
          => priv[t] = goal[t] /\ cred[t] = Of[goal[t]] /\ dbPriv[In[t]] = priv[t]
    /\ at[t] \in {"has2", "load2", "save2", "auth"} => dbPriv[In[t]] = priv[t]
    /\ at[t] = "old2" => dbPriv[In[t]] = Old[In[t]]
    /\ at[t] = "clear2" => dbPriv[In[t]] = NoKey

\* The key of a live device goes with its account, in a page that works on it
\* and in a browser where no page is between its two writes.  A page that is
\* going to write over the key in its browser has that very key, and the key
\* that a page is going to clear is not one of a live device.
Sound(t) ==
    \A l \in Link : Live(l) =>
       /\ at[t] \in Saving \cup {"auth"} /\ priv[t] = device[l] => cred[t] = Of[l]
       /\ at[t] \in {"fetch", "save1"} /\ dbPriv[In[t]] = device[l]
             => priv[t] = device[l]
       /\ at[t] \in {"clear1", "old1"} => dbPriv[In[t]] # device[l]

Matched(b) ==
    \A l \in Link : Live(l) /\ dbPriv[b] = device[l] =>
       \/ dbCred[b] = Of[l]
       \/ \E t \in Tab : In[t] = b /\ at[t] \in {"save2", "old2"}

IInv == /\ BaseInv /\ KeysOnce /\ Pending
        /\ \A t \in Tab : Course(t) /\ Sound(t)
        /\ \A b \in Browser : Matched(b)
        /\ KeyKept

LEMMA IInit == Init => IInv
<1> SUFFICES ASSUME Init PROVE IInv
  OBVIOUS
<1>1. BaseInv
  BY BaseInit
<1>2. KeysOnce /\ Pending
  BY DEF Init, KeysOnce, Pending, Key
<1>3. \A t \in Tab : Course(t) /\ Sound(t)
  BY DEF Init, Course, Sound, Saving
<1>4. \A b \in Browser : Matched(b)
  BY DEF Init, Matched, Key
<1>5. KeyKept
  BY DEF Init, KeyKept, Key
<1>6. QED
  BY <1>1, <1>2, <1>3, <1>4, <1>5 DEF IInv

\* The page, or its browser, has the key of a device.
Holds(t, l) == \/ dbPriv[In[t]] = device[l] /\ dbCred[In[t]] = Of[l]
               \/ WillStore(t, device[l])

\* A page that does something of its own, and is sound afterwards.
LEMMA TabMoves ==
  ASSUME IInv, BaseInv', NEW t \in Tab, Alone(t),
         \A s \in Tab \ {t} : /\ at'[s] = at[s] /\ next'[s] = next[s]
                              /\ goal'[s] = goal[s] /\ priv'[s] = priv[s]
                              /\ cred'[s] = cred[s] /\ fresh'[s] = fresh[s],
         \A b \in Browser \ {In[t]} : dbPriv'[b] = dbPriv[b] /\ dbCred'[b] = dbCred[b],
         UNCHANGED <<chain, pool, used>>, given \subseteq given',
         priv'[t] \in {priv[t], dbPriv[In[t]], NoKey} \cup Link,
         dbPriv'[In[t]] \in {priv[t], dbPriv[In[t]], NoKey} \cup Link,
         at[t] = "wait" => fresh[t] \in given',
         at'[t] # "wait",
         Course(t)', Sound(t)', Matched(In[t])',
         \A l \in Link : Live(l)' /\ device[l] \in NewKey /\ Holds(t, l) => Holds(t, l)'
  PROVE  IInv'
<1> DEFINE b == In[t]
<1>1. /\ \A s \in Tab : In[s] \in Browser
      /\ \A s \in Tab \ {t} : In[s] = b => at[s] \in AtRest
  BY DEF Alone
<1>2. \A l \in Link : Live(l)' => Live(l)
  BY DEF Live, chain
<1>3. /\ \A s \in Tab : priv'[s] \in {priv[s], dbPriv[b], NoKey} \cup Link
      /\ \A c \in Browser : dbPriv'[c] \in {priv[t], dbPriv[c], NoKey} \cup Link
      /\ \A tx \in pool : tx.tab \in Tab /\ tx.key \in NewKey
      /\ UNCHANGED <<device, revoked, pool, used>>
  BY <1>1 DEF chain, IInv, BaseInv, TypeOK
<1>4. KeysOnce'
  BY <1>1, <1>3 DEF IInv, KeysOnce, Key
<1>5. Pending'
  <2> SUFFICES ASSUME NEW tx \in pool
               PROVE  /\ Waits(tx)' \/ tx.key \in given'
                      /\ Waits(tx)' => tx.link = goal'[tx.tab]
    BY <1>3 DEF Pending
  <2>1. (Waits(tx) \/ tx.key \in given) /\ (Waits(tx) => tx.link = goal[tx.tab])
    BY DEF IInv, Pending
  <2>2. CASE tx.tab = t
    BY <2>1, <2>2 DEF Waits
  <2>3. CASE tx.tab # t
    BY <1>3, <2>1, <2>3 DEF Waits
  <2>4. QED
    BY <2>2, <2>3
<1>6. \A s \in Tab : Course(s)' /\ Sound(s)'
  <2> SUFFICES ASSUME NEW s \in Tab, s # t PROVE Course(s)' /\ Sound(s)'
    OBVIOUS
  <2>1. /\ at'[s] = at[s] /\ next'[s] = next[s] /\ goal'[s] = goal[s]
        /\ priv'[s] = priv[s] /\ cred'[s] = cred[s]
        /\ at[s] \in AtRest \/ dbPriv'[In[s]] = dbPriv[In[s]]
    BY <1>1
  <2>2. Course(s) /\ Sound(s)
    BY DEF IInv
  <2>3. Course(s)'
    BY <2>1, <2>2 DEF Course, Saving, AtRest
  <2>4. Sound(s)'
    BY <1>2, <1>3, <2>1, <2>2 DEF Sound, Saving, AtRest
  <2>5. QED
    BY <2>3, <2>4
<1>7. \A c \in Browser : Matched(c)'
  <2> SUFFICES ASSUME NEW c \in Browser, c # b, NEW l \in Link, Live(l)',
                      dbPriv'[c] = device'[l]
               PROVE  \/ dbCred'[c] = Of[l]
                      \/ \E s \in Tab : In[s] = c /\ at'[s] \in {"save2", "old2"}
    BY DEF Matched
  <2>1. Live(l) /\ dbPriv[c] = device[l] /\ dbCred'[c] = dbCred[c]
    BY <1>2, <1>3
  <2>2. \/ dbCred[c] = Of[l]
        \/ \E s \in Tab : In[s] = c /\ at[s] \in {"save2", "old2"}
    BY <2>1 DEF IInv, Matched
  <2>3. QED
    BY <2>1, <2>2
<1>8. KeyKept'
  <2> SUFFICES ASSUME NEW l \in Link, l \notin revoked', device'[l] \in NewKey \ given'
               PROVE  Stored(l)' \/ \E s \in Tab : WillStore(s, device[l])'
    BY <1>3 DEF KeyKept
  <2>1. Live(l)' /\ device'[l] = device[l] /\ device[l] \in NewKey
    BY <1>3 DEF Live
  <2>2. Stored(l) \/ \E s \in Tab : WillStore(s, device[l])
    BY <1>2, <2>1 DEF IInv, KeyKept, Live
  <2>3. CASE Holds(t, l)
    <3>1. Holds(t, l)'
      BY <2>1, <2>3
    <3>2. QED
      BY <1>1, <3>1, <2>1 DEF Holds, Stored, WillStore
  <2>4. CASE ~Holds(t, l)
    <3>1. \/ \E c \in Browser \ {b} : dbPriv[c] = device[l] /\ dbCred[c] = Of[l]
          \/ \E s \in Tab \ {t} : WillStore(s, device[l])
      BY <1>1, <2>2, <2>4 DEF Holds, Stored
    <3>2. QED
      BY <1>3, <3>1, <2>1 DEF Stored, WillStore
  <2>5. QED
    BY <2>3, <2>4
<1>9. QED
  BY <1>4, <1>5, <1>6, <1>7, <1>8 DEF IInv

\* A page writes its own state and its browser, and gives keys up for good.
LEMMA Frame ==
  ASSUME BaseInv, NEW t \in Tab,
         \/ Run(t) \/ Answer(t) \/ Fail(t) \/ Close(t)
         \/ \E l \in Link \cup {NoLink} : Open(t, l)
  PROVE  /\ \A s \in Tab \ {t} : /\ at'[s] = at[s] /\ next'[s] = next[s]
                                 /\ goal'[s] = goal[s] /\ priv'[s] = priv[s]
                                 /\ cred'[s] = cred[s] /\ fresh'[s] = fresh[s]
         /\ \A b \in Browser \ {In[t]} : dbPriv'[b] = dbPriv[b] /\ dbCred'[b] = dbCred[b]
         /\ UNCHANGED chain /\ given \subseteq given'
<1>1. CASE Run(t) /\ ~SwitchKey(t)
  BY <1>1 DEF BaseInv, TypeOK, Run, ReadPriv, NoUser, HasUser, ReadCred, Fetch, UseLink,
     SavePriv, SaveCred, Authorise, ClearPriv, ClearCred, MigratePriv, MigrateCred,
     Decide, Go, Rest, db
<1>2. CASE SwitchKey(t)
  BY <1>2 DEF BaseInv, TypeOK, SwitchKey, db
<1>3. CASE Answer(t) \/ Fail(t) \/ Close(t)
  BY <1>3 DEF BaseInv, TypeOK, Answer, Keep, Overwrite, UseLink, Fail, Close, Go, Rest,
     db, chain
<1>4. ASSUME NEW l \in Link \cup {NoLink}, Open(t, l)
      PROVE  /\ \A s \in Tab \ {t} : /\ at'[s] = at[s] /\ next'[s] = next[s]
                                     /\ goal'[s] = goal[s] /\ priv'[s] = priv[s]
                                     /\ cred'[s] = cred[s] /\ fresh'[s] = fresh[s]
             /\ UNCHANGED <<db, chain, given>>
  BY <1>4 DEF Open, BaseInv, TypeOK
<1>5. QED
  BY <1>1, <1>2, <1>3, <1>4 DEF db

\* What holds of one page and its browser.
LEMMA Local ==
  ASSUME IInv, NEW t \in Tab
  PROVE  /\ Fit(at[t], next[t], goal[t], priv[t], fresh[t], In[t])
         /\ Course(t) /\ Sound(t) /\ Matched(In[t]) /\ In[t] \in Browser
         /\ \A l \in Link : device[l] = l \/ device[l] \in NewKey
         /\ \A l \in Link : Live(l) /\ dbPriv[In[t]] = device[l] =>
               \/ dbCred[In[t]] = Of[l] \/ ~Alone(t) \/ at[t] \in {"save2", "old2"}
BY DEF IInv, BaseInv, Goals, Devices, Matched, Alone, AtRest

\* Steps that write neither the browser nor what has been given up.
LEMMA QuietKeeps ==
  ASSUME IInv, BaseInv', NEW t \in Tab, Alone(t),
         \/ ReadPriv(t) \/ NoUser(t) \/ HasUser(t) \/ ReadCred(t) \/ Fetch(t)
         \/ Authorise(t) \/ Decide(t) \/ Keep(t)
  PROVE  IInv'
<1> DEFINE b == In[t]
<1>1. /\ Fit(at[t], next[t], goal[t], priv[t], fresh[t], b)
      /\ Course(t) /\ Sound(t) /\ Matched(b) /\ b \in Browser
      /\ \A l \in Link : device[l] = l \/ device[l] \in NewKey
      /\ \A l \in Link : Live(l) /\ dbPriv[b] = device[l] =>
            dbCred[b] = Of[l] \/ at[t] \in {"save2", "old2"}
  BY Local
<1>2. /\ \A s \in Tab \ {t} : /\ at'[s] = at[s] /\ next'[s] = next[s]
                              /\ goal'[s] = goal[s] /\ priv'[s] = priv[s]
                              /\ cred'[s] = cred[s] /\ fresh'[s] = fresh[s]
      /\ UNCHANGED chain
  BY Frame DEF Run, Answer, IInv
<1>3. UNCHANGED <<dbPriv, dbCred, device, revoked, pool, used, given>>
  BY DEF ReadPriv, NoUser, HasUser, ReadCred, Fetch, Authorise, Decide, Keep, Rest, db,
         chain
<1>4. \A l \in Link : Live(l)' <=> Live(l)
  BY <1>3 DEF Live
<1>5. \A l \in Link : dbCred[b] = Of[l] => dbCred[b] # NoAccount
  OBVIOUS
<1>6. goal'[t] = goal[t] /\ fresh'[t] = fresh[t]
  BY DEF ReadPriv, NoUser, HasUser, ReadCred, Fetch, Authorise, Decide, Keep
<1>7. /\ at'[t] \notin {"wait", "switch", "save2", "old2"}
      /\ at[t] \notin {"wait", "save1", "save2", "old2", "clear2"}
      /\ Course(t)' /\ Sound(t)'
      /\ priv'[t] \in {priv[t], dbPriv[b], NoKey} \cup Link
  <2>1. CASE ReadPriv(t)
    BY <1>1, <1>3, <1>4, <1>6, <2>1
       DEF ReadPriv, Go, Course, Sound, Saving, IInv, BaseInv, TypeOK
  <2>2. CASE NoUser(t)
    BY <1>1, <1>3, <1>4, <1>5, <1>6, <2>2
       DEF NoUser, UseLink, Complete, Course, Sound, Saving, IInv, BaseInv, TypeOK, Key
  <2>3. CASE HasUser(t)
    BY <1>1, <1>3, <1>4, <1>6, <2>3
       DEF HasUser, Go, Course, Sound, Saving, IInv, BaseInv, TypeOK
  <2>4. CASE ReadCred(t)
    BY <1>1, <1>3, <1>4, <1>6, <2>4
       DEF ReadCred, Go, Fit, Loading, Course, Sound, Saving, IInv, BaseInv, TypeOK
  <2>5. CASE Fetch(t)
    BY <1>1, <1>3, <1>4, <1>6, <2>5
       DEF Fetch, Go, Course, Sound, Saving, IInv, BaseInv, TypeOK
  <2>6. CASE Authorise(t)
    BY <1>1, <1>3, <1>4, <1>6, <2>6
       DEF Authorise, Authorised, Go, Course, Sound, Saving, Live, IInv, BaseInv, TypeOK
  <2>7. CASE Decide(t) \/ Keep(t)
    BY <1>1, <1>3, <1>4, <1>6, <2>7
       DEF Decide, Keep, Go, Course, Sound, Saving, IInv, BaseInv, TypeOK
  <2>8. QED
    BY <2>1, <2>2, <2>3, <2>4, <2>5, <2>6, <2>7
<1>8. Matched(b)'
  BY <1>1, <1>3, <1>4, <1>7 DEF Matched
<1>9. \A l \in Link : Holds(t, l) => Holds(t, l)'
  BY <1>3, <1>7 DEF Holds, WillStore
<1>10. QED
  BY <1>2, <1>3, <1>7, <1>8, <1>9, TabMoves DEF chain

\* Steps that write the browser.
LEMMA WritesKeep ==
  ASSUME IInv, BaseInv', NEW t \in Tab, Alone(t),
         \/ SavePriv(t) \/ SaveCred(t) \/ ClearPriv(t) \/ ClearCred(t)
         \/ MigratePriv(t) \/ MigrateCred(t)
  PROVE  IInv'
<1> DEFINE b == In[t]
<1>1. /\ Fit(at[t], next[t], goal[t], priv[t], fresh[t], b)
      /\ Course(t) /\ Sound(t) /\ Matched(b) /\ b \in Browser
      /\ \A l \in Link : device[l] = l \/ device[l] \in NewKey
      /\ \A l \in Link : Live(l) /\ dbPriv[b] = device[l] =>
            dbCred[b] = Of[l] \/ at[t] \in {"save2", "old2"}
  BY Local
<1>2. /\ \A s \in Tab \ {t} : /\ at'[s] = at[s] /\ next'[s] = next[s]
                              /\ goal'[s] = goal[s] /\ priv'[s] = priv[s]
                              /\ cred'[s] = cred[s] /\ fresh'[s] = fresh[s]
      /\ \A c \in Browser \ {b} : dbPriv'[c] = dbPriv[c] /\ dbCred'[c] = dbCred[c]
      /\ UNCHANGED chain
  BY Frame DEF Run, IInv
<1>3. UNCHANGED <<goal, next, priv, cred, fresh, device, revoked, pool, used, given>>
  BY DEF SavePriv, SaveCred, ClearPriv, ClearCred, MigratePriv, MigrateCred, Rest, chain
<1>4. \A l \in Link : Live(l)' <=> Live(l)
  BY <1>3 DEF Live
<1>5. at \in [Tab -> Place] /\ dbPriv \in [Browser -> Key \cup {NoKey}]
      /\ dbCred \in [Browser -> Account \cup {NoAccount}] /\ device \in [Link -> Key]
  BY DEF IInv, BaseInv, TypeOK, Place
<1>6. /\ at'[t] # "wait" /\ at[t] # "wait"
      /\ dbPriv'[b] \in {priv[t], dbPriv[b], NoKey} \cup Link
      /\ Course(t)' /\ Sound(t)' /\ Matched(b)'
      /\ \A l \in Link : Live(l) /\ device[l] \in NewKey /\ Holds(t, l) => Holds(t, l)'
  <2>1. CASE SavePriv(t)
    <3>1. /\ at[t] = "save1" /\ at'[t] = "save2" /\ dbPriv'[b] = priv[t]
          /\ dbCred' = dbCred
      BY <1>1, <1>5, <2>1 DEF SavePriv, Go
    <3>2. Course(t)' /\ Sound(t)'
      BY <1>1, <1>3, <1>4, <3>1 DEF Course, Sound, Saving
    <3>3. Matched(b)'
      BY <1>1, <3>1 DEF Matched
    <3>4. \A l \in Link : Live(l) /\ Holds(t, l) => Holds(t, l)'
      BY <1>1, <1>3, <3>1 DEF Holds, WillStore, Sound
    <3>5. QED
      BY <3>1, <3>2, <3>3, <3>4
  <2>2. CASE SaveCred(t)
    <3>1. /\ at[t] = "save2" /\ at'[t] = next[t] /\ dbCred'[b] = cred[t]
          /\ dbPriv' = dbPriv
      BY <1>1, <1>5, <2>2 DEF SaveCred, Go
    <3>2. /\ dbPriv[b] = priv[t]
          /\ next[t] \in {"load1", "ready", "auth", "switch", "decide"}
      BY <1>1, <3>1 DEF Course, Fit, Saving
    <3>3. Course(t)' /\ Sound(t)'
      BY <1>1, <1>3, <1>4, <3>1, <3>2 DEF Course, Sound, Saving
    <3>4. Matched(b)'
      BY <1>1, <1>3, <1>4, <3>1, <3>2 DEF Matched, Sound, Saving
    <3>5. \A l \in Link : Live(l) /\ Holds(t, l) => Holds(t, l)'
      BY <1>1, <1>3, <3>1, <3>2 DEF Holds, WillStore, Sound, Saving
    <3>6. QED
      BY <3>1, <3>2, <3>3, <3>4, <3>5
  <2>3. CASE ClearPriv(t)
    <3>1. /\ at[t] = "clear1" /\ at'[t] = "clear2" /\ dbPriv'[b] = NoKey
          /\ dbCred' = dbCred
      BY <1>1, <1>5, <2>3 DEF ClearPriv, Go
    <3>2. Course(t)' /\ Sound(t)'
      BY <1>1, <1>3, <1>4, <3>1 DEF Course, Sound, Saving
    <3>3. Matched(b)'
      BY <1>3, <1>5, <3>1 DEF Matched
    <3>4. \A l \in Link : Live(l) /\ Holds(t, l) => Holds(t, l)'
      BY <1>1, <3>1 DEF Holds, WillStore, Sound
    <3>5. QED
      BY <3>1, <3>2, <3>3, <3>4
  <2>4. CASE ClearCred(t)
    <3>1. /\ at[t] = "clear2" /\ at'[t] = "revoked" /\ dbPriv' = dbPriv
          /\ dbPriv[b] = NoKey
      BY <1>1, <1>5, <2>4 DEF ClearCred, Go, Course
    <3>2. Course(t)' /\ Sound(t)'
      BY <1>1, <1>3, <1>4, <3>1 DEF Course, Sound, Saving
    <3>3. Matched(b)'
      BY <1>3, <1>5, <3>1 DEF Matched
    <3>4. \A l \in Link : Holds(t, l) => Holds(t, l)'
      BY <1>5, <3>1 DEF Holds, WillStore
    <3>5. QED
      BY <3>1, <3>2, <3>3, <3>4
  <2>5. CASE MigratePriv(t)
    <3>1. /\ at[t] = "old1" /\ at'[t] = "old2" /\ dbPriv'[b] = Old[b]
          /\ Old[b] \in Link
      BY <1>1, <1>5, <2>5 DEF MigratePriv, Go, Fit
    <3>2. Course(t)' /\ Sound(t)'
      BY <1>1, <1>3, <1>4, <3>1 DEF Course, Sound, Saving
    <3>3. Matched(b)'
      BY <1>1, <3>1 DEF Matched
    <3>4. \A l \in Link : Live(l) /\ Holds(t, l) => Holds(t, l)'
      BY <1>1, <3>1 DEF Holds, WillStore, Sound
    <3>5. QED
      BY <3>1, <3>2, <3>3, <3>4
  <2>6. CASE MigrateCred(t)
    <3>1. /\ at[t] = "old2" /\ at'[t] = "has1" /\ dbPriv' = dbPriv
          /\ dbPriv[b] = Old[b] /\ Old[b] \in Link /\ dbCred'[b] = Of[Old[b]]
      BY <1>1, <1>5, <2>6 DEF MigrateCred, Go, Course, Fit
    <3>2. Course(t)' /\ Sound(t)'
      BY <1>1, <1>3, <1>4, <3>1 DEF Course, Sound, Saving
    <3>3. Matched(b)'
      BY <1>1, <1>3, <3>1 DEF Matched
    <3>4. \A l \in Link : device[l] \in NewKey => ~Holds(t, l)
      BY <3>1 DEF Holds, WillStore
    <3>5. QED
      BY <3>1, <3>2, <3>3, <3>4
  <2>7. QED
    BY <2>1, <2>2, <2>3, <2>4, <2>5, <2>6
<1>7. QED
  BY <1>2, <1>3, <1>4, <1>6, TabMoves DEF chain

\* Steps that give keys up, or begin anew.
LEMMA UserKeeps ==
  ASSUME IInv, BaseInv', NEW t \in Tab, Alone(t),
         \/ Overwrite(t) \/ Fail(t) \/ Close(t)
         \/ \E l \in Link \cup {NoLink} : Open(t, l)
  PROVE  IInv'
<1> DEFINE b == In[t]
<1>1. /\ Fit(at[t], next[t], goal[t], priv[t], fresh[t], b)
      /\ Course(t) /\ Sound(t) /\ Matched(b) /\ b \in Browser
      /\ \A l \in Link : device[l] = l \/ device[l] \in NewKey
      /\ \A l \in Link : Live(l) /\ dbPriv[b] = device[l] =>
            dbCred[b] = Of[l] \/ at[t] \in {"save2", "old2"}
  BY Local
<1>2. /\ \A s \in Tab \ {t} : /\ at'[s] = at[s] /\ next'[s] = next[s]
                              /\ goal'[s] = goal[s] /\ priv'[s] = priv[s]
                              /\ cred'[s] = cred[s] /\ fresh'[s] = fresh[s]
      /\ UNCHANGED chain /\ given \subseteq given'
  BY Frame DEF Answer, IInv
<1>3. UNCHANGED <<dbPriv, dbCred, device, revoked, pool, used>>
  BY <1>2 DEF Overwrite, Fail, Close, Open, db, chain
<1>4. \A l \in Link : Live(l)' => Live(l) /\ device[l] \notin given'
  BY <1>2, <1>3 DEF Live
<1>5. /\ at'[t] \notin {"wait", "switch", "save1", "save2", "old2"}
      /\ at[t] = "wait" => fresh[t] \in given'
      /\ at[t] \in {"save1", "save2"} => priv[t] \in given'
      /\ at[t] = "old2" => Old[b] \in given'
      /\ Course(t)' /\ Sound(t)'
      /\ priv'[t] \in {priv[t], dbPriv[b], NoKey} \cup Link
  <2>1. CASE Overwrite(t)
    <3>1. /\ at[t] = "ask" /\ at'[t] = "fetch" /\ next'[t] = "switch"
          /\ goal'[t] = goal[t] /\ priv'[t] = goal[t] /\ cred'[t] = Of[goal[t]]
          /\ goal[t] \in Link
      BY <1>1, <2>1 DEF Overwrite, UseLink, Fit, IInv, BaseInv, TypeOK
    <3>2. dbPriv[b] = NoKey \/ dbPriv[b] \in given'
      BY <2>1 DEF Overwrite
    <3>3. \A l \in Link : device[l] # NoKey
      BY DEF IInv, BaseInv, TypeOK
    <3>4. QED
      BY <1>1, <1>3, <1>4, <3>1, <3>2, <3>3 DEF Course, Sound, Saving, Key
  <2>2. CASE Fail(t) \/ Close(t)
    <3>1. at'[t] \in {"error", "closed"} /\ priv'[t] = priv[t]
      BY <2>2 DEF Fail, Close, IInv, BaseInv, TypeOK
    <3>2. given' = given \cup GivenUp(t)
      BY <2>2 DEF Fail, Close
    <3>3. Course(t)' /\ Sound(t)'
      BY <3>1 DEF Course, Sound, Saving
    <3>4. QED
      BY <3>1, <3>2, <3>3 DEF GivenUp
  <2>3. CASE \E l \in Link \cup {NoLink} : Open(t, l)
    <3>1. at'[t] = "has1" /\ priv'[t] = NoKey /\ at[t] \in AtRest
      BY <2>3 DEF Open, IInv, BaseInv, TypeOK
    <3>2. Course(t)' /\ Sound(t)'
      BY <3>1 DEF Course, Sound, Saving
    <3>3. QED
      BY <3>1, <3>2 DEF AtRest
  <2>4. QED
    BY <2>1, <2>2, <2>3
<1>6. Matched(b)'
  <2> SUFFICES ASSUME NEW l \in Link, Live(l)', dbPriv[b] = device[l]
               PROVE  dbCred[b] = Of[l]
    BY <1>3 DEF Matched
  <2>1. at[t] \in {"save2", "old2"} => dbPriv[b] \in given'
    BY <1>1, <1>5 DEF Course
  <2>2. QED
    BY <1>1, <1>4, <2>1
<1>7. \A l \in Link : Live(l)' /\ Holds(t, l) => Holds(t, l)'
  BY <1>3, <1>4, <1>5 DEF Holds, WillStore
<1>8. QED
  BY <1>2, <1>3, <1>5, <1>6, <1>7, TabMoves DEF chain

LEMMA SwitchKeeps ==
  ASSUME IInv, BaseInv', NEW t \in Tab, Alone(t), SwitchKey(t) PROVE IInv'
<1> DEFINE b == In[t]
<1>1. /\ Course(t) /\ Sound(t) /\ Matched(b) /\ b \in Browser
      /\ at[t] = "switch" /\ goal[t] \in Link
  BY Local DEF SwitchKey, Fit
<1>2. /\ \A s \in Tab \ {t} : at'[s] = at[s] /\ fresh'[s] = fresh[s]
      /\ UNCHANGED <<goal, next, priv, cred, dbPriv, dbCred, device, revoked, given>>
  BY Frame DEF Run, IInv, SwitchKey, db, chain
<1>3. Course(t) => /\ priv[t] = goal[t] /\ cred[t] = Of[goal[t]] /\ dbPriv[b] = priv[t]
  BY <1>1 DEF Course
<1>4. CASE at' = [at EXCEPT ![t] = "error"] /\ UNCHANGED <<fresh, used, pool>>
  <2>1. at'[t] = "error"
    BY <1>4 DEF IInv, BaseInv, TypeOK
  <2>2. Course(t)' /\ Sound(t)'
    BY <2>1 DEF Course, Sound, Saving
  <2>3. Matched(b)' /\ \A l \in Link : Holds(t, l) => Holds(t, l)'
    BY <1>1, <1>2, <2>1 DEF Matched, Holds, WillStore, Live, Alone, AtRest
  <2>4. QED
    BY <1>1, <1>2, <1>4, <2>1, <2>2, <2>3, TabMoves, Frame DEF Run, IInv, chain
<1>5. ASSUME NEW k \in NewKey \ used,
             at' = [at EXCEPT ![t] = "wait"], fresh' = [fresh EXCEPT ![t] = k],
             used' = used \cup {k},
             pool' = pool \cup {[tab |-> t, link |-> goal[t], key |-> k]}
      PROVE  IInv'
  <2> DEFINE tx == [tab |-> t, link |-> goal[t], key |-> k]
  <2>1. at'[t] = "wait" /\ fresh'[t] = k
    BY <1>5 DEF IInv, BaseInv, TypeOK
  <2>2. /\ tx.tab = t /\ tx.link = goal[t] /\ tx.key = k
        /\ pool' = pool \cup {tx} /\ \A ty \in pool : ty.key # k
    BY <1>5 DEF IInv, KeysOnce
  <2>3. /\ \A l \in Link : device[l] # k
        /\ \A s \in Tab : priv[s] # k
        /\ \A c \in Browser : dbPriv[c] # k
    BY <1>5 DEF IInv, KeysOnce
  <2> HIDE DEF tx
  <2>4. KeysOnce'
    <3>1. \A ty \in pool' : ty.key \in used'
      BY <1>5, <2>2 DEF IInv, KeysOnce
    <3>2. \A ty \in pool' : \A tz \in pool' : ty.key = tz.key => ty = tz
      BY <2>2 DEF IInv, KeysOnce
    <3>3. \A ty \in pool' : /\ \A l \in Link : device[l] # ty.key
                            /\ \A s \in Tab : priv[s] # ty.key
                            /\ \A c \in Browser : dbPriv[c] # ty.key
      BY <2>2, <2>3 DEF IInv, KeysOnce
    <3>4. used \subseteq used'
      BY <1>5
    <3>5. QED
      BY <1>2, <3>1, <3>2, <3>3, <3>4 DEF IInv, KeysOnce
  <2>5. Pending'
    <3> SUFFICES ASSUME NEW ty \in pool'
                 PROVE  /\ Waits(ty)' \/ ty.key \in given'
                        /\ Waits(ty)' => ty.link = goal'[ty.tab]
      BY DEF Pending
    <3>1. CASE ty = tx
      BY <1>2, <2>1, <2>2, <3>1 DEF Waits
    <3>2. CASE ty \in pool
      <4>1. ty.tab \in Tab /\ (Waits(ty) \/ ty.key \in given)
            /\ (Waits(ty) => ty.link = goal[ty.tab])
        BY <3>2 DEF IInv, BaseInv, TypeOK, Pending
      <4>2. ty.tab = t => ~Waits(ty) /\ ~Waits(ty)'
        BY <1>1, <2>1, <2>2, <3>2 DEF Waits
      <4>3. QED
        BY <1>2, <4>1, <4>2 DEF Waits
    <3>3. QED
      BY <2>2, <3>1, <3>2
  <2>6. \A s \in Tab : Course(s)' /\ Sound(s)'
    <3>1. Course(t)' /\ Sound(t)'
      BY <1>1, <1>2, <1>3, <2>1 DEF Course, Sound, Saving
    <3>2. ASSUME NEW s \in Tab \ {t} PROVE Course(s)' /\ Sound(s)'
      BY <1>2, <3>2 DEF IInv, Course, Sound, Saving, Live
    <3>3. QED
      BY <3>1, <3>2
  <2>7. \A c \in Browser : Matched(c)'
    BY <1>1, <1>2 DEF IInv, Matched, Live
  <2>8. KeyKept'
    BY <1>1, <1>2 DEF IInv, KeyKept, Stored, WillStore
  <2>9. QED
    BY <2>4, <2>5, <2>6, <2>7, <2>8 DEF IInv
<1>6. QED
  BY <1>4, <1>5 DEF SwitchKey

LEMMA IncludeKeeps ==
  ASSUME IInv, BaseInv', NEW tx \in pool, Include(tx) PROVE IInv'
<1> DEFINE t == tx.tab
<1>1. t \in Tab /\ tx.link \in Link /\ tx.key \in NewKey
  BY DEF IInv, BaseInv, TypeOK
<1>2. /\ pool' = pool \ {tx} /\ device[tx.link] = tx.link
      /\ device' = [device EXCEPT ![tx.link] = tx.key]
      /\ UNCHANGED <<goal, cred, fresh, dbPriv, dbCred, revoked, used, opened, given>>
  BY DEF Include, Acceptable, db
<1>3. /\ device'[tx.link] = tx.key
      /\ \A l \in Link \ {tx.link} : device'[l] = device[l]
  BY <1>1, <1>2 DEF IInv, BaseInv, TypeOK
<1>4. \A s \in Tab : s # t \/ ~Waits(tx)
         => at'[s] = at[s] /\ next'[s] = next[s] /\ priv'[s] = priv[s]
  BY <1>1 DEF Include, IInv, BaseInv, TypeOK
<1>5. Waits(tx) => /\ at[t] = "wait" /\ fresh[t] = tx.key
                   /\ at'[t] = "save1" /\ next'[t] \in {"ready", "load1"}
                   /\ priv'[t] = tx.key /\ tx.link = goal[t]
                   /\ priv[t] = goal[t] /\ cred[t] = Of[goal[t]]
                   /\ dbPriv[In[t]] = goal[t]
  <2>1. Waits(tx) => /\ at'[t] = "save1" /\ next'[t] \in {"ready", "load1"}
                     /\ priv'[t] = tx.key
    BY <1>1 DEF Include, IInv, BaseInv, TypeOK
  <2>2. Course(t) /\ (Waits(tx) => tx.link = goal[t])
    BY <1>1 DEF IInv, Pending
  <2>3. QED
    BY <2>1, <2>2 DEF Waits, Course
<1>6. /\ tx.key \in used
      /\ \A ty \in pool : tx.key = ty.key => tx = ty
      /\ \A l \in Link : device[l] # tx.key
      /\ \A s \in Tab : priv[s] # tx.key
      /\ \A c \in Browser : dbPriv[c] # tx.key
  BY DEF IInv, KeysOnce
<1>7. \A s \in Tab : priv'[s] = priv[s] \/ priv'[s] = tx.key
  BY <1>4, <1>5
<1>8. KeysOnce'
  BY <1>1, <1>2, <1>3, <1>6, <1>7 DEF IInv, KeysOnce
<1>9. Pending'
  <2> SUFFICES ASSUME NEW ty \in pool, ty # tx
               PROVE  /\ Waits(ty)' \/ ty.key \in given
                      /\ Waits(ty)' => ty.link = goal[ty.tab]
    BY <1>2 DEF Pending
  <2>1. /\ ty.tab \in Tab /\ (Waits(ty) \/ ty.key \in given)
        /\ (Waits(ty) => ty.link = goal[ty.tab]) /\ ty.key # tx.key
    BY <1>6 DEF IInv, BaseInv, TypeOK, Pending
  <2>2. CASE ty.tab = t /\ Waits(tx)
    BY <1>2, <1>5, <2>1, <2>2 DEF Waits
  <2>3. CASE ty.tab # t \/ ~Waits(tx)
    BY <1>2, <1>4, <2>1, <2>3 DEF Waits
  <2>4. QED
    BY <2>2, <2>3
<1>10. \A l \in Link : Live(l)' /\ l # tx.link => Live(l) /\ device'[l] = device[l]
  BY <1>2, <1>3 DEF Live
<1>11. \A s \in Tab : Course(s)' /\ Sound(s)'
  <2>1. ASSUME NEW s \in Tab, s # t \/ ~Waits(tx) PROVE Course(s)' /\ Sound(s)'
    <3>1. at'[s] = at[s] /\ next'[s] = next[s] /\ priv'[s] = priv[s]
      BY <1>4, <2>1
    <3>2. Course(s) /\ Sound(s) /\ In[s] \in Browser
      BY DEF IInv
    <3>3. Course(s)'
      BY <1>2, <3>1, <3>2 DEF Course
    <3>4. Sound(s)'
      <4> SUFFICES ASSUME NEW l \in Link, Live(l)'
            PROVE /\ at[s] \in Saving \cup {"auth"} /\ priv[s] = device'[l] => cred[s] = Of[l]
                  /\ at[s] \in {"fetch", "save1"} /\ dbPriv[In[s]] = device'[l]
                        => priv[s] = device'[l]
                  /\ at[s] \in {"clear1", "old1"} => dbPriv[In[s]] # device'[l]
        BY <1>2, <3>1 DEF Sound
      <4>1. CASE l = tx.link
        BY <1>3, <1>6, <3>2, <4>1
      <4>2. CASE l # tx.link
        BY <1>10, <3>2, <4>2 DEF Sound
      <4>3. QED
        BY <4>1, <4>2
    <3>5. QED
      BY <3>3, <3>4
  <2>2. ASSUME Waits(tx) PROVE Course(t)' /\ Sound(t)'
    <3>1. Course(t)'
      BY <1>5, <2>2 DEF Course, Saving
    <3>2. Sound(t)'
      <4> SUFFICES ASSUME NEW l \in Link, Live(l)'
                   PROVE  /\ tx.key = device'[l] => cred[t] = Of[l]
                          /\ dbPriv[In[t]] = device'[l] => tx.key = device'[l]
        BY <1>2, <1>5, <2>2 DEF Sound
      <4>1. CASE l = tx.link
        BY <1>3, <1>5, <2>2, <4>1
      <4>2. CASE l # tx.link
        <5>1. device'[l] = device[l] /\ device[l] # tx.key
          BY <1>3, <1>6, <4>2
        <5>2. device[l] # device[tx.link]
          BY <1>1, <4>2 DEF IInv, KeysOnce
        <5>3. QED
          BY <1>2, <1>5, <2>2, <5>1, <5>2
      <4>3. QED
        BY <4>1, <4>2
    <3>3. QED
      BY <3>1, <3>2
  <2>3. QED
    BY <2>1, <2>2
<1>12. \A c \in Browser : Matched(c)'
  <2> SUFFICES ASSUME NEW c \in Browser, NEW l \in Link, Live(l)', dbPriv[c] = device'[l]
               PROVE  \/ dbCred[c] = Of[l]
                      \/ \E s \in Tab : In[s] = c /\ at'[s] \in {"save2", "old2"}
    BY <1>2 DEF Matched
  <2>1. l # tx.link
    BY <1>3, <1>6
  <2>2. \/ dbCred[c] = Of[l]
        \/ \E s \in Tab : In[s] = c /\ at[s] \in {"save2", "old2"}
    BY <1>10, <2>1 DEF IInv, Matched
  <2>3. \A s \in Tab : at[s] \in {"save2", "old2"} => at'[s] = at[s]
    BY <1>4, <1>5
  <2>4. QED
    BY <2>2, <2>3
<1>13. KeyKept'
  <2> SUFFICES ASSUME NEW l \in Link \ revoked, device'[l] \in NewKey \ given
               PROVE  Stored(l)' \/ \E s \in Tab : WillStore(s, device[l])'
    BY <1>2 DEF KeyKept
  <2>1. CASE l = tx.link
    <3>1. Waits(tx)
      BY <1>3, <2>1 DEF IInv, Pending
    <3>2. QED
      BY <1>1, <1>3, <1>5, <2>1, <3>1 DEF WillStore
  <2>2. CASE l # tx.link
    <3>1. device'[l] = device[l]
      BY <1>3, <2>2
    <3>2. Stored(l) \/ \E s \in Tab : WillStore(s, device[l])
      BY <3>1 DEF IInv, KeyKept
    <3>3. \A s \in Tab : WillStore(s, device[l]) => WillStore(s, device[l])'
      BY <1>4, <1>5, <3>1 DEF WillStore
    <3>4. Stored(l) => Stored(l)'
      BY <1>2, <3>1 DEF Stored
    <3>5. QED
      BY <3>2, <3>3, <3>4
  <2>3. QED
    BY <2>1, <2>2
<1>14. QED
  BY <1>8, <1>9, <1>11, <1>12, <1>13 DEF IInv

LEMMA RefuseKeeps ==
  ASSUME IInv, BaseInv', NEW tx \in pool, Refuse(tx) PROVE IInv'
<1> DEFINE t == tx.tab
<1>1. t \in Tab /\ pool' = pool \ {tx}
      /\ UNCHANGED <<goal, next, priv, cred, fresh, dbPriv, dbCred, device, revoked,
                     used, opened, given>>
  BY DEF IInv, BaseInv, TypeOK, Refuse, db, chain
<1>2. \A s \in Tab : at'[s] = IF s = t /\ Waits(tx) THEN "error" ELSE at[s]
  BY <1>1 DEF Refuse, IInv, BaseInv, TypeOK
<1>3. \A s \in Tab : at'[s] = at[s] \/ (at'[s] = "error" /\ at[s] = "wait")
  BY <1>2 DEF Waits
<1>4. KeysOnce'
  BY <1>1 DEF IInv, KeysOnce
<1>5. Pending'
  <2> SUFFICES ASSUME NEW ty \in pool, ty # tx
               PROVE  /\ Waits(ty)' \/ ty.key \in given
                      /\ Waits(ty)' => ty.link = goal[ty.tab]
    BY <1>1 DEF Pending
  <2>1. /\ ty.tab \in Tab /\ (Waits(ty) \/ ty.key \in given)
        /\ (Waits(ty) => ty.link = goal[ty.tab]) /\ ty.key # tx.key
    BY DEF IInv, BaseInv, TypeOK, Pending, KeysOnce
  <2>2. Waits(ty) <=> Waits(ty)'
    BY <1>1, <1>2, <2>1 DEF Waits
  <2>3. QED
    BY <2>1, <2>2
<1>6. \A s \in Tab : Course(s)' /\ Sound(s)'
  BY <1>1, <1>3 DEF IInv, Course, Sound, Saving, Live
<1>7. \A c \in Browser : Matched(c)'
  BY <1>1, <1>3 DEF IInv, Matched, Live
<1>8. KeyKept'
  BY <1>1, <1>3 DEF IInv, KeyKept, Stored, WillStore
<1>9. QED
  BY <1>4, <1>5, <1>6, <1>7, <1>8 DEF IInv

LEMMA StillKeeps ==
  ASSUME IInv, BaseInv', UNCHANGED vars \/ \E l \in Link : Revoke(l) PROVE IInv'
<1>1. /\ UNCHANGED <<at, goal, next, priv, cred, fresh, dbPriv, dbCred, device, pool,
                     used, given>>
      /\ revoked \subseteq revoked'
  BY DEF vars, tab, db, chain, Revoke
<1>2. KeysOnce' /\ Pending'
  BY <1>1 DEF IInv, KeysOnce, Pending, Waits
<1>3. \A s \in Tab : Course(s)' /\ Sound(s)'
  BY <1>1 DEF IInv, Course, Sound, Saving, Live
<1>4. \A c \in Browser : Matched(c)'
  BY <1>1 DEF IInv, Matched, Live
<1>5. KeyKept'
  BY <1>1 DEF IInv, KeyKept, Stored, WillStore
<1>6. QED
  BY <1>2, <1>3, <1>4, <1>5 DEF IInv

\* A page that rests is closed: the others of its browser may be at work.
LEMMA RestKeeps ==
  ASSUME IInv, BaseInv', NEW t \in Tab, Close(t), at[t] \in AtRest PROVE IInv'
<1>1. /\ at' = [at EXCEPT ![t] = "closed"] /\ given' = given
      /\ UNCHANGED <<goal, next, priv, cred, fresh, dbPriv, dbCred, device, revoked, pool,
                     used>>
  BY DEF Close, GivenUp, AtRest, db, chain
<1>2. \A s \in Tab : at'[s] = at[s] \/ (at[s] \in AtRest /\ at'[s] \in AtRest)
  BY <1>1 DEF IInv, BaseInv, TypeOK, AtRest
<1>3. KeysOnce'
  BY <1>1 DEF IInv, KeysOnce
<1>4. Pending'
  <2>1. \A tx \in pool : tx.tab \in Tab
    BY DEF IInv, BaseInv, TypeOK
  <2>2. \A tx \in pool : Waits(tx)' <=> Waits(tx)
    BY <1>1, <1>2, <2>1 DEF Waits, AtRest
  <2>3. QED
    BY <1>1, <2>2 DEF IInv, Pending
<1>5. \A s \in Tab : Course(s)' /\ Sound(s)'
  BY <1>1, <1>2 DEF IInv, Course, Sound, Saving, AtRest, Live
<1>6. \A c \in Browser : Matched(c)'
  BY <1>1, <1>2 DEF IInv, Matched, Live, AtRest
<1>7. KeyKept'
  BY <1>1, <1>2 DEF IInv, KeyKept, Stored, WillStore, AtRest
<1>8. QED
  BY <1>3, <1>4, <1>5, <1>6, <1>7 DEF IInv

LEMMA IStep == OneAtATime /\ OneAtATime' /\ IInv /\ [Next]_vars => IInv'
<1> SUFFICES ASSUME OneAtATime, OneAtATime', IInv, [Next]_vars PROVE IInv'
  OBVIOUS
<1>1. BaseInv'
  BY BaseStep DEF IInv
<1>2. ASSUME NEW t \in Tab, at[t] \notin AtRest,
             Run(t) \/ Answer(t) \/ Fail(t) \/ Close(t)
      PROVE  IInv'
  <2>1. Alone(t)
    BY <1>2 DEF OneAtATime
  <2>2. QED
    BY <1>1, <1>2, <2>1, QuietKeeps, WritesKeep, UserKeeps, SwitchKeeps DEF Run, Answer
<1>3. ASSUME NEW t \in Tab, NEW l \in Shown \cup {NoLink}, Open(t, l) PROVE IInv'
  <2>1. at'[t] \notin AtRest /\ \A s \in Tab \ {t} : at'[s] = at[s]
    BY <1>3 DEF Open, IInv, BaseInv, TypeOK, AtRest
  <2>2. Alone(t)
    BY <2>1 DEF OneAtATime, Alone
  <2>3. QED
    BY <1>1, <1>3, <2>2, UserKeeps DEF Shown
<1>4. ASSUME NEW t \in Tab, at[t] \in AtRest, Run(t) \/ Answer(t) \/ Fail(t) \/ Close(t)
      PROVE  IInv'
  <2>1. Close(t)
    BY <1>4 DEF Run, ReadPriv, NoUser, HasUser, ReadCred, Fetch, SavePriv, SaveCred,
         Authorise, ClearPriv, ClearCred, MigratePriv, MigrateCred, Decide, SwitchKey,
         Answer, Keep, Overwrite, Fail, Go, AtRest
  <2>2. QED
    BY <1>1, <1>4, <2>1, RestKeeps
<1>5. ASSUME NEW tx \in pool, Include(tx) \/ Refuse(tx) PROVE IInv'
  BY <1>1, <1>5, IncludeKeeps, RefuseKeeps
<1>6. QED
  BY <1>1, <1>2, <1>3, <1>4, <1>5, StillKeeps DEF Next

LEMMA IHolds == Spec /\ []OneAtATime => []IInv
BY IInit, IStep, PTL DEF Spec

\* If the pages of a browser work one after the other, the new key of a link is
\* never lost but with a page that stops, or by the will of the user
\* (user.ts:105, fetcher.ts:84).
THEOREM KeysAreKept == Spec /\ []OneAtATime => []KeyKept
<1>1. IInv => KeyKept
  BY DEF IInv
<1>2. QED
  BY <1>1, IHolds, PTL
=============================================================================
