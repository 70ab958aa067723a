---------------------------- MODULE DevicesProofs ----------------------------
(* The rights of an account are safe for any number of wallets, devices and  *)
(* helpers: proofs about Devices.                                            *)
EXTENDS Devices, TLAPS

\* A new account is well formed.
LEMMA InitType == Init => TypeOK
  BY FoundersAssumption DEF Init, TypeOK, Darc, CredStruct, View, FirstCred

\* What each change of a darc or a credential returns.
LEMMA EvolvedType ==
  ASSUME NEW darc \in Darc, NEW s \in SUBSET Id, NEW e \in SUBSET Id
  PROVE  /\ Evolved(darc, s, e) \in Darc
         /\ Evolved(darc, s, e).version = darc.version + 1
         /\ Evolved(darc, s, e).sign = s
         /\ Evolved(darc, s, e).evolve = e
  BY DEF Evolved, Darc

\* DarcBS.addSignEvolve is one version on and adds to both rules.
LEMMA AddType ==
  ASSUME NEW darc \in Darc, NEW s \in SUBSET Id, NEW e \in SUBSET Id
  PROVE  /\ AddSignEvolve(darc, s, e) \in Darc
         /\ AddSignEvolve(darc, s, e).version = darc.version + 1
         /\ AddSignEvolve(darc, s, e).sign = darc.sign \cup s
         /\ AddSignEvolve(darc, s, e).evolve = darc.evolve \cup e
<1>1. darc.sign \cup s \in SUBSET Id /\ darc.evolve \cup e \in SUBSET Id
  BY DEF Darc
<1> QED BY <1>1, EvolvedType DEF AddSignEvolve

\* DarcBS.rmSignEvolve is one version on and takes i out of both rules.
LEMMA RmType ==
  ASSUME NEW darc \in Darc, NEW i \in Id
  PROVE  /\ RmSignEvolve(darc, i) \in Darc
         /\ RmSignEvolve(darc, i).version = darc.version + 1
         /\ RmSignEvolve(darc, i).sign = darc.sign \ {i}
         /\ RmSignEvolve(darc, i).evolve = darc.evolve \ {i}
<1>1. darc.sign \ {i} \in SUBSET Id /\ darc.evolve \ {i} \in SUBSET Id
  BY DEF Darc
<1> QED BY <1>1, EvolvedType DEF RmSignEvolve

\* Setting a name leaves a credential.
LEMMA EntryType ==
  ASSUME NEW cs \in CredStruct, NEW i \in Id, NEW n \in Name
  PROVE  SetEntry(cs, n, i) \in CredStruct
  BY DEF SetEntry, CredStruct

\* So does removing one.
LEMMA NoEntryType ==
  ASSUME NEW cs \in CredStruct, NEW i \in Id
  PROVE  RmEntry(cs, i) \in CredStruct
  BY DEF RmEntry, CredStruct

\* So does setting another attribute.
LEMMA AliasType ==
  ASSUME NEW cs \in CredStruct, NEW v \in Alias
  PROVE  [cs EXCEPT !.alias = v] \in CredStruct
  BY DEF CredStruct

\* The copies a wallet works on are a darc and a credential.
LEMMA ViewType ==
  ASSUME TypeOK, NEW a \in Agent
  PROVE  /\ view[a].signer \in Darc
         /\ view[a].cred \in CredStruct
         /\ view[a].signer.version \in Nat
         /\ view[a].signer.sign \in SUBSET Id
         /\ view[a].signer.evolve \in SUBSET Id
  BY DEF TypeOK, View, Darc

-----------------------------------------------------------------------------
(* Every operation of a wallet ends in Send; what it has to pass to it.    *)

Message(a, by, spawn, evolve, update, wait) ==
    [from |-> a, by |-> by, spawn |-> spawn, evolve |-> evolve,
     update |-> update, wait |-> wait]

\* What the wallet of a sends is typed, evolves the copy of the signer darc by
\* one version, and is legal if that copy is up to date.
Proper(a, by, spawn, evolve, update, wait) ==
    /\ by \in Id
    /\ spawn \in SUBSET Device
    /\ evolve \in SUBSET Darc
    /\ update \in SUBSET CredStruct
    /\ wait \in BOOLEAN
    /\ evolve = {} => spawn = {}
    /\ \A e \in evolve :
          /\ e.version = view[a].signer.version + 1
          /\ view[a].signer = signer
                => Legal(Message(a, by, spawn, evolve, update, wait), e)

\* A legal transaction may leave: what is on its way stays legal.
LEMMA SendKeepsInv ==
  ASSUME RightsInv, NEW a \in Agent, NEW by, NEW spawn, NEW evolve, NEW update,
         NEW wait,
         Proper(a, by, spawn, evolve, update, wait),
         Send(a, by, spawn, evolve, update, wait),
         UNCHANGED <<chain, online, listed>>,
         granted' \in [Helper -> SUBSET Device],
         asking' \in [Client -> SUBSET Id],
         \A c \in Client : asking'[c] \subseteq asking[c]
  PROVE  RightsInv'
<1> DEFINE m == Message(a, by, spawn, evolve, update, wait)
<1>1. m \in Tx /\ sent' = sent \cup {m}
  BY DEF Proper, Message, Tx, Send
<1>2. /\ view' \in [Agent -> View]
      /\ \A b \in Agent : view'[b].signer = view[b].signer
  <2>1. CASE UNCHANGED view
    BY <2>1 DEF RightsInv, TypeOK
  <2>2. ASSUME NEW cs \in update, view' = [view EXCEPT ![a].cred = cs]
        PROVE  <1>2
    <3>1. cs \in CredStruct
      BY DEF Proper
    <3>2. view \in [Agent -> View]
      BY DEF RightsInv, TypeOK
    <3>3. view[a] \in View
      BY <3>2
    <3>4. [view[a] EXCEPT !.cred = cs] \in View
      BY <3>1, <3>3 DEF View
    <3>5. view' = [view EXCEPT ![a] = [view[a] EXCEPT !.cred = cs]]
      BY <2>2
    <3>6. [view[a] EXCEPT !.cred = cs].signer = view[a].signer
      BY <3>3 DEF View
    <3> QED BY <3>2, <3>4, <3>5, <3>6
  <2> QED BY <2>1, <2>2 DEF Send
<1>3. TypeOK'
  BY <1>1, <1>2 DEF RightsInv, TypeOK, chain
<1>4. NeverLockedOut' /\ DevicesSign'
  BY DEF RightsInv, NeverLockedOut, DevicesSign, chain
<1>5. CopiesAreOld'
  BY <1>2 DEF RightsInv, CopiesAreOld, chain
<1>6. OthersAsked'
  BY DEF RightsInv, OthersAsked
<1>7. SentAreLegal'
  <2>1. signer' = signer
    BY DEF chain
  <2>2. \A t, e : Legal(t, e)' <=> Legal(t, e)
    BY <2>1 DEF Legal, Grants, Delegates, Withdraws, Downgrades
  <2>3. m.evolve = evolve /\ m.spawn = spawn
    BY DEF Message
  <2>4. ASSUME NEW e \in evolve
        PROVE  /\ e.version <= signer.version + 1
               /\ e.version = signer.version + 1 => Legal(m, e)
    <3>1. /\ view[a].signer.version <= signer.version
          /\ view[a].signer.version = signer.version
                => view[a].signer = signer
      BY DEF RightsInv, CopiesAreOld
    <3>2. view[a].signer.version \in Nat /\ signer.version \in Nat
      BY ViewType DEF RightsInv, TypeOK, Darc
    <3>3. /\ e.version = view[a].signer.version + 1
          /\ view[a].signer = signer => Legal(m, e)
      BY DEF Proper
    <3> QED BY <3>1, <3>2, <3>3
  <2>5. evolve = {} => spawn = {}
    BY DEF Proper
  <2>6. \A t \in sent : /\ t.evolve = {} => t.spawn = {}
                        /\ \A e \in t.evolve :
                             /\ e.version <= signer.version + 1
                             /\ e.version = signer.version + 1 => Legal(t, e)
    BY DEF RightsInv, SentAreLegal
  <2> HIDE DEF m
  <2> QED BY <1>1, <2>1, <2>2, <2>3, <2>4, <2>5, <2>6 DEF SentAreLegal
<1> QED BY <1>3, <1>4, <1>5, <1>6, <1>7 DEF RightsInv

-----------------------------------------------------------------------------
(* The operations: each passes something proper to Send.                   *)

\* A new device is granted its rights by its own transaction.
LEMMA DeviceCreateKeepsInv ==
  ASSUME RightsInv, NEW c \in Client, NEW d \in Device, NEW n \in Name,
         DeviceCreate(c, d, n)
  PROVE  RightsInv'
<1> DEFINE e == AddSignEvolve(view[c].signer, {d}, {d})
           cs == SetEntry(view[c].cred, n, d)
<1>1. c \in Agent /\ Own[c] \in Id /\ d \in Id /\ TypeOK
  BY OwnAssumption DEF Agent, Id, RightsInv
<1>2. /\ view[c].signer \in Darc /\ view[c].cred \in CredStruct
  BY <1>1, ViewType
<1>3. /\ e \in Darc
      /\ e.version = view[c].signer.version + 1
      /\ e.sign = view[c].signer.sign \cup {d}
      /\ e.evolve = view[c].signer.evolve \cup {d}
  <2>1. {d} \in SUBSET Id
    BY <1>1
  <2> QED BY <1>2, <2>1, AddType
<1>4. cs \in CredStruct
  BY <1>1, <1>2, EntryType
<1>5. Proper(c, Own[c], {d}, {e}, {cs}, TRUE)
  <2> HIDE DEF e, cs
  <2> QED BY <1>1, <1>3, <1>4 DEF Proper, Legal, Grants, Message
<1>6. /\ Send(c, Own[c], {d}, {e}, {cs}, TRUE)
      /\ UNCHANGED <<chain, online, listed, asking, granted>>
  BY DEF DeviceCreate
<1> HIDE DEF e, cs
<1> QED BY <1>1, <1>5, <1>6, SendKeepsInv DEF TypeOK

\* Linking a recovery only delegates.
LEMMA RecoveryCreateKeepsInv ==
  ASSUME RightsInv, NEW c \in Client, NEW r \in Recovery, NEW n \in Name,
         RecoveryCreate(c, r, n)
  PROVE  RightsInv'
<1> DEFINE e == AddSignEvolve(view[c].signer, {}, {r})
           cs == SetEntry(view[c].cred, n, r)
<1>1. c \in Agent /\ Own[c] \in Id /\ r \in Id /\ TypeOK
  BY OwnAssumption DEF Agent, Id, RightsInv
<1>2. view[c].signer \in Darc /\ view[c].cred \in CredStruct
  BY <1>1, ViewType
<1>3. /\ e \in Darc
      /\ e.version = view[c].signer.version + 1
      /\ e.sign = view[c].signer.sign
      /\ e.evolve = view[c].signer.evolve \cup {r}
  <2>1. /\ view[c].signer.sign \cup {} = view[c].signer.sign
        /\ view[c].signer.sign \cup {} \in SUBSET Id
        /\ view[c].signer.evolve \cup {r} \in SUBSET Id
    BY <1>1, <1>2 DEF Darc
  <2> QED BY <1>2, <2>1, EvolvedType DEF AddSignEvolve
<1>4. cs \in CredStruct
  BY <1>1, <1>2, EntryType
<1>5. Proper(c, Own[c], {}, {e}, {cs}, TRUE)
  <2> HIDE DEF e, cs
  <2> QED BY <1>1, <1>3, <1>4 DEF Proper, Legal, Delegates, Message
<1>6. /\ Send(c, Own[c], {}, {e}, {cs}, TRUE)
      /\ UNCHANGED <<chain, online, listed, asking, granted>>
  BY DEF RecoveryCreate
<1> HIDE DEF e, cs
<1> QED BY <1>1, <1>5, <1>6, SendKeepsInv DEF TypeOK

\* A confirmed removal is never that of the own device, so it is legal.
LEMMA ConfirmKeepsInv ==
  ASSUME RightsInv, NEW c \in Client, Confirm(c)
  PROVE  RightsInv'
<1>1. PICK i \in asking[c] :
         /\ asking' = [asking EXCEPT ![c] = {}]
         /\ IF HasEntry(view[c].cred, i)
              THEN Send(c, Own[c], {}, {RmSignEvolve(view[c].signer, i)},
                        {RmEntry(view[c].cred, i)}, TRUE)
              ELSE UNCHANGED <<sent, view>>
         /\ UNCHANGED <<chain, online, listed, granted>>
  BY DEF Confirm
<1>2. c \in Agent /\ Own[c] \in Id /\ i \in Id /\ TypeOK /\ i # Own[c]
  BY OwnAssumption DEF Agent, Id, RightsInv, TypeOK, OthersAsked
<1>3. view[c].signer \in Darc /\ view[c].cred \in CredStruct
  BY <1>2, ViewType
<1>4. /\ asking' \in [Client -> SUBSET Id]
      /\ \A b \in Client : asking'[b] \subseteq asking[b]
  <2>1. asking \in [Client -> SUBSET Id]
    BY <1>2 DEF TypeOK
  <2>2. /\ DOMAIN asking' = Client
        /\ \A b \in Client : asking'[b] = IF b = c THEN {} ELSE asking[b]
    BY <1>1, <2>1
  <2>3. {} \in SUBSET Id
    OBVIOUS
  <2> QED BY <1>1, <2>1, <2>2, <2>3
<1>5. CASE HasEntry(view[c].cred, i)
  <2> DEFINE e == RmSignEvolve(view[c].signer, i)
             cs == RmEntry(view[c].cred, i)
  <2>1. /\ e \in Darc
        /\ e.version = view[c].signer.version + 1
        /\ e.sign = view[c].signer.sign \ {i}
        /\ e.evolve = view[c].signer.evolve \ {i}
    BY <1>2, <1>3, RmType
  <2>2. cs \in CredStruct
    BY <1>2, <1>3, NoEntryType
  <2>3. Send(c, Own[c], {}, {e}, {cs}, TRUE)
    BY <1>1, <1>5
  <2> HIDE DEF e, cs
  <2>4. Proper(c, Own[c], {}, {e}, {cs}, TRUE)
    BY <1>2, <2>1, <2>2 DEF Proper, Legal, Withdraws, Message
  <2> QED BY <1>1, <1>2, <1>4, <2>3, <2>4, SendKeepsInv DEF TypeOK
<1>6. CASE ~HasEntry(view[c].cred, i)
  <2>1. UNCHANGED <<signer, exists, cred, updates, sent, online, view, listed,
                    granted>>
    BY <1>1, <1>6 DEF chain
  <2>2. TypeOK'
    BY <1>4, <2>1 DEF RightsInv, TypeOK
  <2>3. OthersAsked'
    BY <1>4 DEF RightsInv, OthersAsked
  <2>4. /\ NeverLockedOut' /\ DevicesSign' /\ CopiesAreOld' /\ SentAreLegal'
    BY <2>1 DEF RightsInv, NeverLockedOut, DevicesSign, CopiesAreOld,
                SentAreLegal, Legal, Grants, Delegates, Withdraws, Downgrades
  <2> QED BY <2>2, <2>3, <2>4 DEF RightsInv
<1> QED BY <1>5, <1>6

\* A rename sends no evolution.
LEMMA RenameKeepsInv ==
  ASSUME RightsInv, NEW c \in Client, NEW i \in Id, NEW n \in Name,
         Rename(c, i, n)
  PROVE  RightsInv'
<1> DEFINE cs == SetEntry(view[c].cred, n, i)
<1>1. c \in Agent /\ Own[c] \in Id /\ TypeOK
  BY OwnAssumption DEF Agent, Id, RightsInv
<1>2. cs \in CredStruct
  BY <1>1, ViewType, EntryType
<1>3. /\ Send(c, Own[c], {}, {}, {cs}, TRUE)
      /\ UNCHANGED <<chain, online, listed, asking, granted>>
  BY DEF Rename
<1> HIDE DEF cs
<1>4. Proper(c, Own[c], {}, {}, {cs}, TRUE)
  BY <1>1, <1>2 DEF Proper
<1> QED BY <1>1, <1>3, <1>4, SendKeepsInv DEF TypeOK

\* Migrating a recovery only downgrades it.
LEMMA RecoveryUpdateKeepsInv ==
  ASSUME RightsInv, NEW c \in Client, NEW r \in Recovery,
         RecoveryUpdate(c, r)
  PROVE  RightsInv'
<1> DEFINE e == Evolved(view[c].signer, view[c].signer.sign \ {r},
                        view[c].signer.evolve)
<1>1. /\ c \in Agent /\ Own[c] \in Id /\ Own[c] \in Device
      /\ r \in Id /\ TypeOK
  BY OwnAssumption DEF Agent, Id, RightsInv
<1>2. /\ view[c].signer \in Darc
      /\ view[c].signer.sign \ {r} \in SUBSET Id
      /\ view[c].signer.evolve \in SUBSET Id
  BY <1>1, ViewType
<1>3. /\ e \in Darc
      /\ e.version = view[c].signer.version + 1
      /\ e.sign = view[c].signer.sign \ {r}
      /\ e.evolve = view[c].signer.evolve
  BY <1>2, EvolvedType
<1>4. /\ Send(c, Own[c], {}, {e}, {}, TRUE)
      /\ UNCHANGED <<chain, online, listed, asking, granted>>
  BY DEF RecoveryUpdate
<1> HIDE DEF e
<1>5. Proper(c, Own[c], {}, {e}, {}, TRUE)
  BY <1>1, <1>3 DEF Proper, Legal, Downgrades, Message
<1> QED BY <1>1, <1>4, <1>5, SendKeepsInv DEF TypeOK

\* Another attribute is no matter of rights.
LEMMA UpdateCredentialKeepsInv ==
  ASSUME RightsInv, NEW c \in Client, NEW v \in Alias, UpdateCredential(c, v)
  PROVE  RightsInv'
<1> DEFINE cs == [view[c].cred EXCEPT !.alias = v]
<1>1. c \in Agent /\ Own[c] \in Id /\ TypeOK
  BY OwnAssumption DEF Agent, Id, RightsInv
<1>2. cs \in CredStruct
  BY <1>1, ViewType, AliasType
<1>3. /\ Send(c, Own[c], {}, {}, {cs}, FALSE)
      /\ UNCHANGED <<chain, online, listed, asking, granted>>
  BY DEF UpdateCredential
<1> HIDE DEF cs
<1>4. Proper(c, Own[c], {}, {}, {cs}, FALSE)
  BY <1>1, <1>2 DEF Proper
<1> QED BY <1>1, <1>3, <1>4, SendKeepsInv DEF TypeOK

\* A helper grants a new device its rights, and nothing else.
LEMMA RecoverKeepsInv ==
  ASSUME RightsInv, NEW h \in Helper, NEW d \in Device, Recover(h, d)
  PROVE  RightsInv'
<1> DEFINE e == AddSignEvolve(view[h].signer, {d}, {d})
<1>1. h \in Agent /\ Own[h] \in Id /\ d \in Id /\ TypeOK
  BY OwnAssumption DEF Agent, Id, RightsInv
<1>2. view[h].signer \in Darc
  BY <1>1, ViewType
<1>3. /\ e \in Darc
      /\ e.version = view[h].signer.version + 1
      /\ e.sign = view[h].signer.sign \cup {d}
      /\ e.evolve = view[h].signer.evolve \cup {d}
  <2>1. {d} \in SUBSET Id
    BY <1>1
  <2> QED BY <1>2, <2>1, AddType
<1>4. /\ Send(h, Own[h], {d}, {e}, {}, TRUE)
      /\ UNCHANGED <<chain, online, listed, asking, granted>>
  BY DEF Recover
<1> HIDE DEF e
<1>5. Proper(h, Own[h], {d}, {e}, {}, TRUE)
  BY <1>1, <1>3 DEF Proper, Legal, Grants, Message
<1> QED BY <1>1, <1>4, <1>5, SendKeepsInv DEF TypeOK

\* Naming that device sends no evolution.
LEMMA AttachKeepsInv ==
  ASSUME RightsInv, NEW h \in Helper, NEW n \in Name, Attach(h, n)
  PROVE  RightsInv'
<1>1. PICK d \in granted[h] :
         /\ Send(h, d, {}, {}, {SetEntry(view[h].cred, n, d)}, TRUE)
         /\ granted' = [granted EXCEPT ![h] = {}]
         /\ UNCHANGED <<chain, online, listed, asking>>
  BY DEF Attach
<1> DEFINE cs == SetEntry(view[h].cred, n, d)
<1>2. h \in Agent /\ d \in Id /\ TypeOK
  BY DEF Agent, Id, RightsInv, TypeOK
<1>3. cs \in CredStruct
  BY <1>2, ViewType, EntryType
<1>4. Send(h, d, {}, {}, {cs}, TRUE)
  BY <1>1
<1> HIDE DEF cs
<1>5. Proper(h, d, {}, {}, {cs}, TRUE)
  BY <1>2, <1>3 DEF Proper
<1>6. /\ granted' \in [Helper -> SUBSET Device]
      /\ asking' \in [Client -> SUBSET Id]
      /\ \A c \in Client : asking'[c] \subseteq asking[c]
  <2>1. /\ granted \in [Helper -> SUBSET Device]
        /\ asking \in [Client -> SUBSET Id]
    BY <1>2 DEF TypeOK
  <2>2. {} \in SUBSET Device
    OBVIOUS
  <2> QED BY <1>1, <2>1, <2>2
<1> QED BY <1>1, <1>2, <1>4, <1>5, <1>6, SendKeepsInv

-----------------------------------------------------------------------------
(* Steps that send nothing and leave the chain alone.                      *)

\* With chain and network untouched, only the copies can break the invariant.
LEMMA QuietKeepsInv ==
  ASSUME RightsInv, UNCHANGED chain, TypeOK',
         sent' \subseteq sent,
         \A a \in Agent : \/ view'[a].signer = view[a].signer
                         \/ view'[a].signer = signer,
         OthersAsked'
  PROVE  RightsInv'
<1>1. signer' = signer
  BY DEF chain
<1>2. NeverLockedOut' /\ DevicesSign'
  BY <1>1 DEF RightsInv, NeverLockedOut, DevicesSign
<1>3. CopiesAreOld'
  <2>1. signer.version <= signer.version
    BY DEF RightsInv, TypeOK, Darc
  <2> QED BY <1>1, <2>1 DEF RightsInv, CopiesAreOld
<1>4. SentAreLegal'
  BY <1>1 DEF RightsInv, SentAreLegal, Legal, Grants, Delegates, Withdraws,
              Downgrades
<1> QED BY <1>2, <1>3, <1>4 DEF RightsInv

\* The dialog is never opened for the own device.
LEMMA AskKeepsInv ==
  ASSUME RightsInv, NEW c \in Client, NEW i \in Id, i # Own[c],
         asking' = [asking EXCEPT ![c] = {i}],
         UNCHANGED <<chain, sent, online, view, listed, granted>>
  PROVE  RightsInv'
<1>1. {i} \in SUBSET Id /\ asking \in [Client -> SUBSET Id]
  BY DEF RightsInv, TypeOK
<1>2. asking' \in [Client -> SUBSET Id]
  BY <1>1
<1>3. TypeOK'
  BY <1>2 DEF RightsInv, TypeOK, chain
<1>4. OthersAsked'
  BY <1>1 DEF RightsInv, OthersAsked
<1> QED BY <1>3, <1>4, QuietKeepsInv

\* Closing the dialog asks for nothing.
LEMMA CancelKeepsInv ==
  ASSUME RightsInv, NEW c \in Client, Cancel(c)
  PROVE  RightsInv'
<1>1. {} \in SUBSET Id /\ asking \in [Client -> SUBSET Id]
  BY DEF RightsInv, TypeOK
<1>2. asking' \in [Client -> SUBSET Id]
  BY <1>1 DEF Cancel
<1>3. TypeOK'
  BY <1>2 DEF RightsInv, TypeOK, Cancel, chain
<1>4. OthersAsked'
  BY <1>1 DEF RightsInv, OthersAsked, Cancel
<1> QED BY <1>3, <1>4, QuietKeepsInv DEF Cancel

\* A transaction that goes away leaves the others as legal as they were.
LEMMA RefuseOrLoseKeepsInv ==
  ASSUME RightsInv, NEW t \in sent, Refuse(t) \/ Lose(t)
  PROVE  RightsInv'
<1>1. sent' = sent \ {t} /\ UNCHANGED <<chain, online, view, listed, asking, granted>>
  BY DEF Refuse, Lose
<1>2. TypeOK' /\ OthersAsked'
  BY <1>1 DEF RightsInv, TypeOK, OthersAsked, chain
<1> QED BY <1>1, <1>2, QuietKeepsInv

\* Whether a wallet still waits for a transaction changes nothing about it.
LEMMA AbandonKeepsInv ==
  ASSUME RightsInv, NEW t \in sent, Abandon(t)
  PROVE  RightsInv'
<1> DEFINE u == [t EXCEPT !.wait = FALSE]
<1>1. TypeOK /\ t \in Tx
  BY DEF RightsInv, TypeOK
<1>2. /\ u \in Tx /\ u.by = t.by /\ u.spawn = t.spawn
      /\ u.evolve = t.evolve /\ u.update = t.update
  BY <1>1 DEF Tx
<1>3. /\ sent' = (sent \ {t}) \cup {u}
      /\ UNCHANGED <<signer, exists, cred, updates, online, view, listed, asking, granted>>
  BY DEF Abandon, chain
<1> HIDE DEF u
<1>4. TypeOK'
  BY <1>1, <1>2, <1>3 DEF TypeOK
<1>5. NeverLockedOut' /\ DevicesSign' /\ CopiesAreOld' /\ OthersAsked'
  BY <1>3 DEF RightsInv, NeverLockedOut, DevicesSign, CopiesAreOld, OthersAsked
<1>6. SentAreLegal'
  <2>1. \A s \in sent : /\ s.evolve = {} => s.spawn = {}
                        /\ \A e \in s.evolve :
                             /\ e.version <= signer.version + 1
                             /\ e.version = signer.version + 1 => Legal(s, e)
    BY DEF RightsInv, SentAreLegal
  <2>2. \A e : Legal(t, e) => Legal(u, e)
    BY <1>2 DEF Legal, Grants, Delegates, Withdraws, Downgrades
  <2>3. \A s, e : Legal(s, e)' <=> Legal(s, e)
    BY <1>3 DEF Legal, Grants, Delegates, Withdraws, Downgrades
  <2> QED BY <1>2, <1>3, <2>1, <2>2, <2>3 DEF SentAreLegal
<1> QED BY <1>4, <1>5, <1>6 DEF RightsInv

\* A refreshed copy is the darc of the chain.
LEMMA FollowSignerKeepsInv ==
  ASSUME RightsInv, NEW a \in Agent, FollowSigner(a)
  PROVE  RightsInv'
<1>1. view \in [Agent -> View] /\ signer \in Darc
  BY DEF RightsInv, TypeOK
<1>2. /\ [view[a] EXCEPT !.signer = signer] \in View
      /\ [view[a] EXCEPT !.signer = signer].signer = signer
  BY <1>1 DEF View
<1>3. view' = [view EXCEPT ![a] = [view[a] EXCEPT !.signer = signer]]
  BY DEF FollowSigner
<1>4. /\ view' \in [Agent -> View]
      /\ \A b \in Agent : \/ view'[b].signer = view[b].signer
                         \/ view'[b].signer = signer
  BY <1>1, <1>2, <1>3
<1>5. TypeOK' /\ OthersAsked'
  BY <1>4 DEF RightsInv, TypeOK, OthersAsked, FollowSigner, chain
<1> QED BY <1>4, <1>5, QuietKeepsInv DEF FollowSigner

\* The listed devices are devices.
LEMMA ListedType ==
  ASSUME TypeOK, NEW c \in Client
  PROVE  [listed EXCEPT ![c] = Entries(cred) \cap exists]
            \in [Client -> SUBSET Device]
<1>1. Entries(cred) \cap exists \in SUBSET Device
  BY DEF TypeOK
<1> HIDE DEF Entries
<1> QED BY <1>1 DEF TypeOK

\* Refreshing the credential does not touch the copy of the signer darc.
LEMMA FollowCredKeepsInv ==
  ASSUME RightsInv, NEW a \in Agent, FollowCred(a)
  PROVE  RightsInv'
<1> DEFINE v == [view[a] EXCEPT !.cred = cred, !.seen = updates]
<1>1. /\ view \in [Agent -> View] /\ cred \in CredStruct /\ updates \in Nat
      /\ TypeOK
  BY DEF RightsInv, TypeOK
<1>2. v \in View /\ v.signer = view[a].signer
  BY <1>1 DEF View
<1>3. view' = [view EXCEPT ![a] = v]
  BY <1>1 DEF FollowCred
<1> HIDE DEF v
<1>4. /\ view' \in [Agent -> View]
      /\ \A b \in Agent : view'[b].signer = view[b].signer
  BY <1>1, <1>2, <1>3
<1>5. listed' \in [Client -> SUBSET Device]
  <2>1. CASE a \in Client
    BY <1>1, <2>1, ListedType DEF FollowCred
  <2>2. CASE a \notin Client
    BY <1>1, <2>2 DEF FollowCred, TypeOK
  <2> QED BY <2>1, <2>2
<1>6. UNCHANGED <<signer, exists, cred, updates, sent, online, asking, granted>>
  BY DEF FollowCred, chain
<1>7. TypeOK' /\ OthersAsked'
  BY <1>4, <1>5, <1>6 DEF RightsInv, TypeOK, OthersAsked
<1> QED BY <1>4, <1>6, <1>7, QuietKeepsInv DEF chain

\* A loaded wallet has the darc of the chain and asks for nothing.
LEMMA LoadKeepsInv ==
  ASSUME RightsInv, NEW a \in Agent, Load(a)
  PROVE  RightsInv'
<1> DEFINE v == [signer |-> signer, cred |-> cred, seen |-> updates]
<1>1. /\ view \in [Agent -> View] /\ TypeOK
      /\ asking \in [Client -> SUBSET Id] /\ granted \in [Helper -> SUBSET Device]
  BY DEF RightsInv, TypeOK
<1>2. v \in View /\ v.signer = signer
  BY <1>1 DEF View, TypeOK
<1>3. \/ view' = [view EXCEPT ![a] = v] /\ online' = online \cup {a}
      \/ view' = view /\ online' = online \ {a}
  BY DEF Load
<1> HIDE DEF v
<1>4. /\ view' \in [Agent -> View]
      /\ \A b \in Agent : \/ view'[b].signer = view[b].signer
                         \/ view'[b].signer = signer
      /\ online' \subseteq Agent
  BY <1>1, <1>2, <1>3 DEF TypeOK
<1>5. /\ listed' \in [Client -> SUBSET Device]
      /\ asking' \in [Client -> SUBSET Id]
      /\ granted' \in [Helper -> SUBSET Device]
      /\ \A c \in Client : asking'[c] \subseteq asking[c]
  <2>1. CASE a \in Client
    <3>1. /\ listed' = [listed EXCEPT ![a] = Entries(cred) \cap exists]
          /\ asking' = [asking EXCEPT ![a] = {}]
          /\ granted' = granted
      BY <2>1 DEF Load
    <3>2. {} \in SUBSET Id
      OBVIOUS
    <3>3. listed' \in [Client -> SUBSET Device]
      BY <1>1, <2>1, <3>1, ListedType
    <3>4. /\ asking' \in [Client -> SUBSET Id]
          /\ \A c \in Client : asking'[c] \subseteq asking[c]
      BY <1>1, <3>1, <3>2
    <3> QED BY <1>1, <3>1, <3>3, <3>4
  <2>2. CASE a \notin Client
    <3>1. /\ UNCHANGED <<listed, asking>>
          /\ granted' = [granted EXCEPT ![a] = {}]
      BY <2>2 DEF Load
    <3>2. {} \in SUBSET Device
      OBVIOUS
    <3> QED BY <1>1, <3>1, <3>2 DEF TypeOK
  <2> QED BY <2>1, <2>2
<1>6. UNCHANGED <<signer, exists, cred, updates, sent>>
  BY DEF Load, chain
<1>7. TypeOK' /\ OthersAsked'
  BY <1>4, <1>5, <1>6 DEF RightsInv, TypeOK, OthersAsked
<1> QED BY <1>4, <1>6, <1>7, QuietKeepsInv DEF chain

\* A helper who goes away leaves the rights alone.
LEMMA LeaveKeepsInv ==
  ASSUME RightsInv, NEW h \in Helper, Leave(h)
  PROVE  RightsInv'
<1>1. {} \in SUBSET Device /\ granted \in [Helper -> SUBSET Device]
  BY DEF RightsInv, TypeOK
<1>2. granted' \in [Helper -> SUBSET Device]
  BY <1>1 DEF Leave
<1>3. TypeOK' /\ OthersAsked'
  BY <1>2 DEF RightsInv, TypeOK, OthersAsked, Leave, chain
<1> QED BY <1>3, QuietKeepsInv DEF Leave

-----------------------------------------------------------------------------
(* The chain includes a transaction: the one step that moves rights.       *)

\* What an included transaction does to the rights, if it evolves the darc.
LEMMA IncludeIsLegal ==
  ASSUME RightsInv, NEW t \in sent, Include(t), t.evolve # {}
  PROVE  /\ signer' \in Darc
         /\ signer'.version = signer.version + 1
         /\ Legal(t, signer')
         /\ t.spawn \cap exists = {}
         /\ t.by \in signer.evolve
         /\ t.update # {} => t.by \in signer.sign
<1>1. signer' \in t.evolve /\ t.evolve \in SUBSET Darc
  BY DEF Include, RightsInv, TypeOK, Tx
<1>2. signer'.version = signer.version + 1 /\ t.by \in signer.evolve
  BY <1>1 DEF Include, Acceptable
<1>3. Legal(t, signer')
  BY <1>1, <1>2 DEF RightsInv, SentAreLegal
<1>4. t.spawn \cap exists = {} /\ (t.update # {} => t.by \in signer.sign)
  BY DEF Include, Acceptable
<1> QED BY <1>1, <1>2, <1>3, <1>4

\* After a legal evolution somebody can sign, and the key ring has moved.
LEMMA LegalIsRingStep ==
  ASSUME RightsInv, NEW t \in sent, Include(t), t.evolve # {}
  PROVE  /\ signer'.sign # {}
         /\ signer'.evolve \cap Device \subseteq signer'.sign
         /\ \A i \in exists \cup Recovery :
                i \in signer'.sign => i \in signer.sign
         /\ Ring!RingNext
<1>1. /\ signer' \in Darc /\ Legal(t, signer') /\ t.spawn \cap exists = {}
      /\ t.by \in signer.evolve /\ (t.update # {} => t.by \in signer.sign)
  BY IncludeIsLegal
<1>2. signer.sign # {} /\ signer.evolve \cap Device \subseteq signer.sign
  BY DEF RightsInv, NeverLockedOut, DevicesSign
<1>3. exists' = exists \cup t.spawn /\ exists \subseteq Device
  BY DEF Include, RightsInv, TypeOK
<1>4. CASE Grants(t, signer')
  <2>1. PICK d \in Device : /\ t.spawn = {d}
                            /\ signer'.sign = signer.sign \cup {d}
                            /\ signer'.evolve = signer.evolve \cup {d}
    BY <1>4 DEF Grants
  <2>2. d \notin exists /\ exists' = exists \cup {d}
    BY <1>1, <1>3, <2>1
  <2>3. Ring!Grant(d)
    BY <2>1, <2>2 DEF Ring!Grant
  <2> QED BY <1>2, <2>1, <2>2, <2>3, IdsDiffer DEF Ring!RingNext
<1>5. CASE Delegates(t, signer')
  <2>1. PICK r \in Recovery : /\ t.spawn = {}
                              /\ signer'.sign = signer.sign
                              /\ signer'.evolve = signer.evolve \cup {r}
    BY <1>5 DEF Delegates
  <2>2. Ring!Delegate(r)
    BY <1>3, <2>1 DEF Ring!Delegate
  <2> QED BY <1>2, <2>1, <2>2, IdsDiffer DEF Ring!RingNext
<1>6. CASE Withdraws(t, signer')
  <2>1. PICK i \in Id : /\ t.spawn = {} /\ t.update # {} /\ t.by # i
                        /\ signer'.sign = signer.sign \ {i}
                        /\ signer'.evolve = signer.evolve \ {i}
    BY <1>6 DEF Withdraws
  <2>2. t.by \in signer'.sign
    BY <1>1, <2>1
  <2>3. Ring!Withdraw(i)
    BY <1>3, <2>1, <2>2 DEF Ring!Withdraw
  <2>4. \E j \in Ring!Id : Ring!Withdraw(j)
    BY <2>3 DEF Id, Ring!Id
  <2> QED BY <1>2, <2>1, <2>2, <2>4 DEF Ring!RingNext
<1>7. CASE Downgrades(t, signer')
  <2>1. PICK r \in Recovery : /\ t.spawn = {} /\ t.by \in Device
                              /\ signer'.sign = signer.sign \ {r}
                              /\ signer'.evolve = signer.evolve
    BY <1>7 DEF Downgrades
  <2>2. t.by \in signer'.sign
    BY <1>1, <1>2, <2>1, IdsDiffer
  <2>3. Ring!Downgrade(r)
    BY <1>3, <2>1, <2>2 DEF Ring!Downgrade
  <2> QED BY <1>2, <2>1, <2>2, <2>3, IdsDiffer DEF Ring!RingNext
<1> QED BY <1>1, <1>4, <1>5, <1>6, <1>7 DEF Legal

\* A transaction without an evolution does not touch the rights.
LEMMA IncludeWithoutEvolve ==
  ASSUME RightsInv, NEW t \in sent, Include(t), t.evolve = {}
  PROVE  signer' = signer /\ exists' = exists
BY DEF Include, RightsInv, SentAreLegal

\* Including one transaction makes the other evolutions too old.
LEMMA IncludeKeepsInv ==
  ASSUME RightsInv, NEW t \in sent, Include(t)
  PROVE  RightsInv'
<1>1. TypeOK /\ t \in Tx
  BY DEF RightsInv, TypeOK
<1>2. /\ sent' \subseteq sent /\ exists' = exists \cup t.spawn
      /\ UNCHANGED <<online, view, listed, asking>>
  BY DEF Include
<1>3. cred' \in CredStruct /\ updates' \in Nat
  <2>1. t.update \in SUBSET CredStruct
    BY <1>1 DEF Tx
  <2> QED BY <1>1, <2>1 DEF Include, TypeOK
<1>4. granted' \in [Helper -> SUBSET Device]
  <2>1. t.spawn \in SUBSET Device /\ granted \in [Helper -> SUBSET Device]
    BY <1>1 DEF Tx, TypeOK
  <2>2. \/ granted' = [granted EXCEPT ![t.from] = t.spawn]
        \/ granted' = granted
    BY DEF Include
  <2> QED BY <2>1, <2>2
<1>5. exists' \subseteq Device
  BY <1>1, <1>2 DEF TypeOK, Tx
<1>6. OthersAsked'
  BY <1>2 DEF RightsInv, OthersAsked
<1>7. CASE t.evolve = {}
  <2>1. signer' = signer
    BY <1>7, IncludeWithoutEvolve
  <2>2. TypeOK'
    BY <1>1, <1>2, <1>3, <1>4, <1>5, <2>1 DEF TypeOK
  <2>3. NeverLockedOut' /\ DevicesSign' /\ CopiesAreOld' /\ SentAreLegal'
    BY <1>2, <2>1 DEF RightsInv, NeverLockedOut, DevicesSign, CopiesAreOld,
                      SentAreLegal, Legal, Grants, Delegates, Withdraws,
                      Downgrades
  <2> QED BY <1>6, <2>2, <2>3 DEF RightsInv
<1>8. CASE t.evolve # {}
  <2>1. signer' \in Darc /\ signer'.version = signer.version + 1
    BY <1>8, IncludeIsLegal
  <2>2. signer.version \in Nat
    BY <1>1 DEF TypeOK, Darc
  <2>3. TypeOK'
    BY <1>1, <1>2, <1>3, <1>4, <1>5, <2>1 DEF TypeOK
  <2>4. NeverLockedOut' /\ DevicesSign'
    BY <1>8, LegalIsRingStep DEF NeverLockedOut, DevicesSign
  <2>5. CopiesAreOld'
    <3>1. ASSUME NEW a \in Agent
          PROVE  /\ view[a].signer.version <= signer'.version
                 /\ view[a].signer.version # signer'.version
      <4>1. view[a].signer.version \in Nat
        BY <1>1, ViewType
      <4>2. view[a].signer.version <= signer.version
        BY DEF RightsInv, CopiesAreOld
      <4> QED BY <2>1, <2>2, <4>1, <4>2
    <3> QED BY <1>2, <3>1 DEF CopiesAreOld
  <2>6. SentAreLegal'
    <3>1. ASSUME NEW u \in sent, NEW e \in u.evolve
          PROVE  /\ e.version <= signer'.version + 1
                 /\ e.version # signer'.version + 1
      <4>1. e.version \in Nat
        BY <1>1 DEF TypeOK, Tx, Darc
      <4>2. e.version <= signer.version + 1
        BY DEF RightsInv, SentAreLegal
      <4> QED BY <2>1, <2>2, <4>1, <4>2
    <3>2. \A u \in sent : u.evolve = {} => u.spawn = {}
      BY DEF RightsInv, SentAreLegal
    <3> QED BY <1>2, <3>1, <3>2 DEF SentAreLegal
  <2> QED BY <1>6, <2>3, <2>4, <2>5, <2>6 DEF RightsInv
<1> QED BY <1>7, <1>8

-----------------------------------------------------------------------------
(* The theorems.                                                           *)

\* The invariant holds of a new account.
LEMMA InitRights == Init => RightsInv
<1> SUFFICES ASSUME Init PROVE RightsInv
  OBVIOUS
<1>1. TypeOK
  BY InitType
<1>2. NeverLockedOut /\ DevicesSign
  BY FoundersAssumption DEF Init, NeverLockedOut, DevicesSign
<1>3. CopiesAreOld
  BY DEF Init, CopiesAreOld
<1>4. OthersAsked /\ SentAreLegal
  BY DEF Init, OthersAsked, SentAreLegal
<1> QED BY <1>1, <1>2, <1>3, <1>4 DEF RightsInv

\* Every step keeps the invariant: one case for each action.
LEMMA NextKeepsRights == RightsInv /\ [Next]_vars => RightsInv'
<1> SUFFICES ASSUME RightsInv, [Next]_vars PROVE RightsInv'
  OBVIOUS
<1>1. ASSUME NEW c \in Client, UserStep(c) PROVE RightsInv'
  <2>1. ASSUME NEW d \in Device, NEW n \in Name, DeviceCreate(c, d, n)
        PROVE  RightsInv'
    BY <2>1, DeviceCreateKeepsInv
  <2>2. ASSUME NEW r \in Recovery, NEW n \in Name, RecoveryCreate(c, r, n)
        PROVE  RightsInv'
    BY <2>2, RecoveryCreateKeepsInv
  <2>3. ASSUME NEW d \in Device, AskRevoke(c, d) PROVE RightsInv'
    BY <2>3, AskKeepsInv DEF AskRevoke, Id
  <2>4. ASSUME NEW r \in Recovery, AskDelete(c, r) PROVE RightsInv'
    <3>1. r \in Id /\ r # Own[c]
      BY OwnAssumption, IdsDiffer DEF Id
    <3> QED BY <2>4, <3>1, AskKeepsInv DEF AskDelete
  <2>5. ASSUME NEW r \in Recovery, RecoveryUpdate(c, r) PROVE RightsInv'
    BY <2>5, RecoveryUpdateKeepsInv
  <2>6. ASSUME Confirm(c) PROVE RightsInv'
    BY <2>6, ConfirmKeepsInv
  <2>7. ASSUME Cancel(c) PROVE RightsInv'
    BY <2>7, CancelKeepsInv
  <2>8. ASSUME NEW i \in Id, NEW n \in Name, Rename(c, i, n) PROVE RightsInv'
    BY <2>8, RenameKeepsInv
  <2>9. ASSUME NEW v \in Alias, UpdateCredential(c, v) PROVE RightsInv'
    BY <2>9, UpdateCredentialKeepsInv
  <2> QED BY <1>1, <2>1, <2>2, <2>3, <2>4, <2>5, <2>6, <2>7, <2>8, <2>9
          DEF UserStep
<1>2. ASSUME NEW h \in Helper, HelperStep(h) \/ Leave(h) PROVE RightsInv'
  BY <1>2, RecoverKeepsInv, AttachKeepsInv, LeaveKeepsInv DEF HelperStep
<1>3. ASSUME NEW t \in sent, Settle(t) \/ Abandon(t) PROVE RightsInv'
  BY <1>3, IncludeKeepsInv, RefuseOrLoseKeepsInv, AbandonKeepsInv DEF Settle
<1>4. ASSUME NEW a \in Agent, Follow(a) \/ Load(a) PROVE RightsInv'
  BY <1>4, FollowSignerKeepsInv, FollowCredKeepsInv, LoadKeepsInv DEF Follow
<1>5. CASE UNCHANGED vars
  BY <1>5 DEF RightsInv, vars, TypeOK, NeverLockedOut, DevicesSign,
              CopiesAreOld, OthersAsked, SentAreLegal, Legal, Grants,
              Delegates, Withdraws, Downgrades
<1> QED BY <1>1, <1>2, <1>3, <1>4, <1>5 DEF Next

\* The inductive invariant holds for every number of wallets and devices.
THEOREM RightsAreInvariant == Spec => []RightsInv
  BY InitRights, NextKeepsRights, PTL DEF Spec

\* All values keep the types of the code.
THEOREM TypeCorrect == Spec => []TypeOK
<1>1. RightsInv => TypeOK
  BY DEF RightsInv
<1> QED BY <1>1, RightsAreInvariant, PTL

\* Devices that revoke each other at the same time never lock the account.
THEOREM AccountStaysOpen == Spec => []NeverLockedOut
<1>1. RightsInv => NeverLockedOut
  BY DEF RightsInv
<1> QED BY <1>1, RightsAreInvariant, PTL

-----------------------------------------------------------------------------
(* Only an included transaction changes the rights, and only legally.      *)

\* No other action touches the signer darc or spawns a device darc.
LEMMA RightsMoveByInclude ==
  ASSUME Next
  PROVE  \/ signer' = signer /\ exists' = exists
         \/ \E t \in sent : Include(t)
<1>1. ASSUME NEW c \in Client, UserStep(c)
      PROVE  UNCHANGED chain
  BY <1>1 DEF UserStep, DeviceCreate, RecoveryCreate, AskRevoke, AskDelete,
              RecoveryUpdate, Confirm, Cancel, Rename, UpdateCredential
<1>2. ASSUME NEW h \in Helper, HelperStep(h) \/ Leave(h)
      PROVE  UNCHANGED chain
  BY <1>2 DEF HelperStep, Recover, Attach, Leave
<1>3. ASSUME NEW t \in sent, Settle(t) \/ Abandon(t)
      PROVE  UNCHANGED chain \/ Include(t)
  BY <1>3 DEF Settle, Refuse, Lose, Abandon
<1>4. ASSUME NEW a \in Agent, Follow(a) \/ Load(a)
      PROVE  UNCHANGED chain
  BY <1>4 DEF Follow, FollowSigner, FollowCred, Load
<1> QED BY <1>1, <1>2, <1>3, <1>4 DEF Next, chain

\* Every step is a step of the key ring, or leaves the rights alone.
LEMMA StepIsRingStep ==
  ASSUME RightsInv, [Next]_vars
  PROVE  /\ [Ring!RingNext]_(Ring!rights)
         /\ \A i \in exists \cup Recovery :
                i \in signer'.sign => i \in signer.sign
<1>1. CASE signer' = signer /\ exists' = exists
  BY <1>1 DEF Ring!rights
<1>2. ASSUME NEW t \in sent, Include(t), t.evolve # {}
      PROVE  /\ Ring!RingNext
             /\ \A i \in exists \cup Recovery :
                    i \in signer'.sign => i \in signer.sign
  BY <1>2, LegalIsRingStep
<1>3. ASSUME NEW t \in sent, Include(t), t.evolve = {}
      PROVE  signer' = signer /\ exists' = exists
  BY <1>3, IncludeWithoutEvolve
<1>4. CASE UNCHANGED vars
  BY <1>1, <1>4 DEF vars
<1> QED BY <1>1, <1>2, <1>3, <1>4, RightsMoveByInclude

\* No step gives the right to sign back to a revoked device, or to a recovery.
THEOREM RevokedStaysRevoked == Spec => NoRightsRegained
<1>1. RightsInv /\ [Next]_vars
        => [\A i \in exists \cup Recovery :
               i \in signer'.sign => i \in signer.sign]_vars
  BY StepIsRingStep
<1> QED BY <1>1, RightsAreInvariant, PTL DEF Spec, NoRightsRegained

\* The wallets together implement the key ring.
THEOREM DevicesImplementKeyRing == Spec => RingSpec
<1>1. Init => Ring!RingInit
  BY DEF Init, Ring!RingInit
<1>2. RightsInv /\ [Next]_vars => [Ring!RingNext]_(Ring!rights)
  BY StepIsRingStep
<1> QED BY <1>1, <1>2, RightsAreInvariant, PTL DEF Spec, RingSpec, Ring!RingSpec

-----------------------------------------------------------------------------
(* Names move with the rights.                                             *)

\* What an evolution from darc to e does to the names, when update goes with it.
Named(from, spawn, update, darc, e) ==
    /\ \A i \in darc.evolve \ e.evolve :
          update # {} /\ \A cs \in update : cs.name[i] = NoName
    /\ \A i \in e.evolve \ darc.evolve :
          \/ from \in Helper /\ i \in spawn
          \/ update # {} /\ \A cs \in update : cs.name[i] # NoName

\* An evolution that the chain may take goes with its names.
SentAreNamed ==
    \A t \in sent : \A e \in t.evolve :
       e.version = signer.version + 1 => Named(t.from, t.spawn, t.update, signer, e)

\* What a wallet sends is made from one copy, names and rights.
LEMMA SendKeepsNames ==
  ASSUME RightsInv, SentAreNamed, NEW a \in Agent, NEW by, NEW spawn, NEW evolve,
         NEW update, NEW wait, UNCHANGED signer,
         Send(a, by, spawn, evolve, update, wait),
         \A e \in evolve : /\ e.version = view[a].signer.version + 1
                           /\ Named(a, spawn, update, view[a].signer, e)
  PROVE  SentAreNamed'
<1> DEFINE m == Message(a, by, spawn, evolve, update, wait)
<1>1. /\ sent' = sent \cup {m} /\ m.from = a /\ m.spawn = spawn
      /\ m.evolve = evolve /\ m.update = update
  BY DEF Send, Message
<1>2. ASSUME NEW e \in evolve, e.version = signer.version + 1
      PROVE  Named(a, spawn, update, signer, e)
  <2>1. view[a].signer.version \in Nat /\ signer.version \in Nat
    BY ViewType DEF RightsInv, TypeOK, Darc
  <2>2. view[a].signer.version = signer.version
    BY <1>2, <2>1
  <2>3. view[a].signer = signer
    BY <2>2 DEF RightsInv, CopiesAreOld
  <2> QED BY <2>3
<1> HIDE DEF m
<1> QED BY <1>1, <1>2 DEF SentAreNamed

LEMMA SendOneKeepsNames ==
  ASSUME RightsInv, SentAreNamed, NEW a \in Agent, NEW by, NEW spawn, NEW e,
         NEW update, NEW wait, UNCHANGED signer,
         Send(a, by, spawn, {e}, update, wait),
         e.version = view[a].signer.version + 1,
         Named(a, spawn, update, view[a].signer, e)
  PROVE  SentAreNamed'
<1>1. \A x \in {e} : /\ x.version = view[a].signer.version + 1
                     /\ Named(a, spawn, update, view[a].signer, x)
  OBVIOUS
<1> QED BY <1>1, SendKeepsNames

\* The operations of the wallets.
LEMMA WalletKeepsNames ==
  ASSUME RightsInv, SentAreNamed,
         \/ \E c \in Client : UserStep(c)
         \/ \E h \in Helper : HelperStep(h)
  PROVE  SentAreNamed'
<1>1. ASSUME NEW c \in Client, NEW d \in Device, NEW n \in Name, DeviceCreate(c, d, n)
      PROVE  SentAreNamed'
  <2> DEFINE e == AddSignEvolve(view[c].signer, {d}, {d})
             cs == SetEntry(view[c].cred, n, d)
  <2>1. c \in Agent /\ d \in Id /\ TypeOK
    BY DEF Agent, Id, RightsInv
  <2>2. view[c].signer \in Darc /\ view[c].cred \in CredStruct
    BY <2>1, ViewType
  <2>3. /\ e \in Darc
        /\ e.version = view[c].signer.version + 1
        /\ e.sign = view[c].signer.sign \cup {d}
        /\ e.evolve = view[c].signer.evolve \cup {d}
    <3>1. /\ view[c].signer.sign \cup {d} \in SUBSET Id
          /\ view[c].signer.evolve \cup {d} \in SUBSET Id
      BY <2>1, <2>2 DEF Darc
    <3> QED BY <2>2, <3>1, EvolvedType DEF AddSignEvolve
  <2>4. cs.name[d] # NoName
    BY <2>1, <2>2, NamesAssumption DEF SetEntry, CredStruct
  <2>5. Send(c, Own[c], {d}, {e}, {cs}, TRUE) /\ UNCHANGED signer
    BY <1>1 DEF DeviceCreate, chain
  <2> HIDE DEF e, cs
  <2>6. Named(c, {d}, {cs}, view[c].signer, e)
    BY <2>3, <2>4 DEF Named
  <2> QED BY <2>1, <2>3, <2>5, <2>6, SendOneKeepsNames
<1>2. ASSUME NEW c \in Client, NEW r \in Recovery, NEW n \in Name, RecoveryCreate(c, r, n)
      PROVE  SentAreNamed'
  <2> DEFINE e == AddSignEvolve(view[c].signer, {}, {r})
             cs == SetEntry(view[c].cred, n, r)
  <2>1. c \in Agent /\ r \in Id /\ TypeOK
    BY DEF Agent, Id, RightsInv
  <2>2. view[c].signer \in Darc /\ view[c].cred \in CredStruct
    BY <2>1, ViewType
  <2>3. /\ view[c].signer.sign \cup {} = view[c].signer.sign
        /\ view[c].signer.sign \cup {} \in SUBSET Id
        /\ view[c].signer.evolve \cup {r} \in SUBSET Id
    BY <2>1, <2>2 DEF Darc
  <2>4. /\ e \in Darc
        /\ e.version = view[c].signer.version + 1
        /\ e.evolve = view[c].signer.evolve \cup {r}
    BY <2>2, <2>3, EvolvedType DEF AddSignEvolve
  <2>5. cs.name[r] # NoName
    BY <2>1, <2>2, NamesAssumption DEF SetEntry, CredStruct
  <2>6. Send(c, Own[c], {}, {e}, {cs}, TRUE) /\ UNCHANGED signer
    BY <1>2 DEF RecoveryCreate, chain
  <2> HIDE DEF e, cs
  <2>7. Named(c, {}, {cs}, view[c].signer, e)
    BY <2>4, <2>5 DEF Named
  <2> QED BY <2>1, <2>4, <2>6, <2>7, SendOneKeepsNames
<1>3. ASSUME NEW c \in Client, Confirm(c) PROVE SentAreNamed'
  <2>1. PICK i \in asking[c] :
           /\ IF HasEntry(view[c].cred, i)
                THEN Send(c, Own[c], {}, {RmSignEvolve(view[c].signer, i)},
                          {RmEntry(view[c].cred, i)}, TRUE)
                ELSE UNCHANGED <<sent, view>>
           /\ UNCHANGED signer
    BY <1>3 DEF Confirm, chain
  <2>2. c \in Agent /\ i \in Id /\ TypeOK
    BY DEF Agent, RightsInv, TypeOK
  <2>3. CASE HasEntry(view[c].cred, i)
    <3> DEFINE e == RmSignEvolve(view[c].signer, i)
               cs == RmEntry(view[c].cred, i)
    <3>1. view[c].signer \in Darc /\ view[c].cred \in CredStruct
      BY <2>2, ViewType
    <3>2. /\ e.version = view[c].signer.version + 1
          /\ e.evolve = view[c].signer.evolve \ {i}
      BY <2>2, <3>1, RmType
    <3>3. cs.name[i] = NoName
      BY <2>2, <3>1 DEF RmEntry, CredStruct
    <3>4. Send(c, Own[c], {}, {e}, {cs}, TRUE)
      BY <2>1, <2>3
    <3> HIDE DEF e, cs
    <3>5. Named(c, {}, {cs}, view[c].signer, e)
      BY <3>2, <3>3 DEF Named
    <3> QED BY <2>1, <2>2, <3>2, <3>4, <3>5, SendOneKeepsNames
  <2>4. CASE ~HasEntry(view[c].cred, i)
    BY <2>1, <2>4 DEF SentAreNamed
  <2> QED BY <2>3, <2>4
<1>4. ASSUME NEW c \in Client, NEW r \in Recovery, RecoveryUpdate(c, r)
      PROVE  SentAreNamed'
  <2> DEFINE e == Evolved(view[c].signer, view[c].signer.sign \ {r},
                          view[c].signer.evolve)
  <2>1. c \in Agent /\ TypeOK
    BY DEF Agent, RightsInv
  <2>2. /\ e.version = view[c].signer.version + 1
        /\ e.evolve = view[c].signer.evolve
    BY DEF Evolved
  <2>3. Send(c, Own[c], {}, {e}, {}, TRUE) /\ UNCHANGED signer
    BY <1>4 DEF RecoveryUpdate, chain
  <2> HIDE DEF e
  <2>4. Named(c, {}, {}, view[c].signer, e)
    BY <2>2 DEF Named
  <2> QED BY <2>1, <2>2, <2>3, <2>4, SendOneKeepsNames
<1>5. ASSUME NEW h \in Helper, NEW d \in Device, Recover(h, d) PROVE SentAreNamed'
  <2> DEFINE e == AddSignEvolve(view[h].signer, {d}, {d})
  <2>1. h \in Agent /\ d \in Id /\ TypeOK
    BY DEF Agent, Id, RightsInv
  <2>2. view[h].signer \in Darc
    BY <2>1, ViewType
  <2>3. /\ e \in Darc
        /\ e.version = view[h].signer.version + 1
        /\ e.sign = view[h].signer.sign \cup {d}
        /\ e.evolve = view[h].signer.evolve \cup {d}
    <3>1. /\ view[h].signer.sign \cup {d} \in SUBSET Id
          /\ view[h].signer.evolve \cup {d} \in SUBSET Id
      BY <2>1, <2>2 DEF Darc
    <3> QED BY <2>2, <3>1, EvolvedType DEF AddSignEvolve
  <2>4. Send(h, Own[h], {d}, {e}, {}, TRUE) /\ UNCHANGED signer
    BY <1>5 DEF Recover, chain
  <2> HIDE DEF e
  <2>5. Named(h, {d}, {}, view[h].signer, e)
    BY <2>3 DEF Named
  <2> QED BY <2>1, <2>3, <2>4, <2>5, SendOneKeepsNames
<1>6. ASSUME NEW a \in Agent, NEW by, NEW update, NEW wait,
             Send(a, by, {}, {}, update, wait), UNCHANGED signer
      PROVE  SentAreNamed'
  BY <1>6, SendKeepsNames
<1>7. ASSUME NEW c \in Client,
             \/ \E i \in Id, n \in Name : Rename(c, i, n)
             \/ \E v \in Alias : UpdateCredential(c, v)
      PROVE  SentAreNamed'
  BY <1>6, <1>7 DEF Rename, UpdateCredential, chain, Agent
<1>8. ASSUME NEW h \in Helper, NEW n \in Name, Attach(h, n) PROVE SentAreNamed'
  BY <1>6, <1>8 DEF Attach, chain, Agent
<1>9. ASSUME NEW c \in Client, \/ \E d \in Device : AskRevoke(c, d)
                               \/ \E r \in Recovery : AskDelete(c, r)
                               \/ Cancel(c)
      PROVE  SentAreNamed'
  BY <1>9 DEF AskRevoke, AskDelete, Cancel, chain, SentAreNamed
<1> QED BY <1>1, <1>2, <1>3, <1>4, <1>5, <1>7, <1>8, <1>9 DEF UserStep, HelperStep

LEMMA StepKeepsNames == RightsInv /\ SentAreNamed /\ [Next]_vars => SentAreNamed'
<1> SUFFICES ASSUME RightsInv, SentAreNamed, [Next]_vars PROVE SentAreNamed'
  OBVIOUS
<1>1. ASSUME NEW t \in sent, Include(t) PROVE SentAreNamed'
  <2>1. sent' \subseteq sent
    BY <1>1 DEF Include
  <2>2. CASE t.evolve = {}
    BY <1>1, <2>1, <2>2, IncludeWithoutEvolve DEF SentAreNamed
  <2>3. CASE t.evolve # {}
    <3>1. signer'.version = signer.version + 1
      BY <1>1, <2>3, IncludeIsLegal
    <3>2. ASSUME NEW u \in sent, NEW e \in u.evolve PROVE e.version # signer'.version + 1
      <4>1. e.version \in Nat /\ signer.version \in Nat
        BY DEF RightsInv, TypeOK, Tx, Darc
      <4>2. e.version <= signer.version + 1
        BY DEF RightsInv, SentAreLegal
      <4> QED BY <3>1, <4>1, <4>2
    <3> QED BY <2>1, <3>2 DEF SentAreNamed
  <2> QED BY <2>2, <2>3
<1>2. ASSUME NEW t \in sent, Refuse(t) \/ Lose(t) PROVE SentAreNamed'
  BY <1>2 DEF Refuse, Lose, chain, SentAreNamed
<1>3. ASSUME NEW t \in sent, Abandon(t) PROVE SentAreNamed'
  <2> DEFINE u == [t EXCEPT !.wait = FALSE]
  <2>1. /\ u.from = t.from /\ u.spawn = t.spawn /\ u.evolve = t.evolve
        /\ u.update = t.update
    BY DEF RightsInv, TypeOK, Tx
  <2>2. sent' = (sent \ {t}) \cup {u} /\ UNCHANGED signer
    BY <1>3 DEF Abandon, chain
  <2> HIDE DEF u
  <2> QED BY <2>1, <2>2 DEF SentAreNamed
<1>4. ASSUME UNCHANGED <<signer, sent>> PROVE SentAreNamed'
  BY <1>4 DEF SentAreNamed
<1>5. ASSUME NEW a \in Agent, Follow(a) \/ Load(a) PROVE SentAreNamed'
  BY <1>4, <1>5 DEF Follow, FollowSigner, FollowCred, Load, chain
<1>6. ASSUME NEW h \in Helper, Leave(h) PROVE SentAreNamed'
  BY <1>4, <1>6 DEF Leave, chain
<1> QED BY <1>1, <1>2, <1>3, <1>4, <1>5, <1>6, WalletKeepsNames DEF Next, Settle, vars

\* Whatever wallets send at the same time: whoever loses the right to change the
\* devices loses his name with it, and whoever a device gives it to is named.
THEOREM NamesFollowRights == Spec => NamesMoveWithRights
<1>1. Init => SentAreNamed
  BY DEF Init, SentAreNamed
<1>2. Spec => []SentAreNamed
  BY <1>1, StepKeepsNames, RightsAreInvariant, PTL DEF Spec
<1>3. RightsInv /\ SentAreNamed /\ [Next]_vars =>
         [/\ \A i \in signer.evolve \ signer'.evolve : cred'.name[i] = NoName
          /\ \A i \in signer'.evolve \ signer.evolve :
                cred'.name[i] # NoName \/ \E t \in sent : t.from \in Helper /\ i \in t.spawn]_vars
  <2> SUFFICES ASSUME RightsInv, SentAreNamed, Next
               PROVE  /\ \A i \in signer.evolve \ signer'.evolve : cred'.name[i] = NoName
                      /\ \A i \in signer'.evolve \ signer.evolve :
                            \/ cred'.name[i] # NoName
                            \/ \E t \in sent : t.from \in Helper /\ i \in t.spawn
    BY DEF vars
  <2>1. CASE signer' = signer
    BY <2>1
  <2>2. ASSUME NEW t \in sent, Include(t), t.evolve # {}
        PROVE  Named(t.from, t.spawn, {cred'} \cap t.update, signer, signer')
    <3>1. signer' \in t.evolve /\ signer'.version = signer.version + 1
      BY <2>2, IncludeIsLegal DEF Include
    <3>2. Named(t.from, t.spawn, t.update, signer, signer')
      BY <3>1 DEF SentAreNamed
    <3>3. t.update # {} => cred' \in t.update
      BY <2>2 DEF Include
    <3> QED BY <3>2, <3>3 DEF Named
  <2>3. CASE \E t \in sent : Include(t) /\ t.evolve # {}
    BY <2>2, <2>3 DEF Named
  <2>4. CASE \E t \in sent : Include(t) /\ t.evolve = {}
    BY <2>1, <2>4, IncludeWithoutEvolve
  <2> QED BY <2>1, <2>3, <2>4, RightsMoveByInclude
<1> QED BY <1>2, <1>3, RightsAreInvariant, PTL DEF Spec, NamesMoveWithRights
=============================================================================
