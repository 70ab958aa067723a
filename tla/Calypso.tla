------------------------------ MODULE Calypso ------------------------------
(***************************************************************************)
(* The encrypted files of an account (class Calypso).                      *)
(*                                                                         *)
(* A file is a write instance on the chain.  The account keeps the names   *)
(* of its files in its credential, in a map from the ID of the instance to *)
(* the name; every browser of the account works on a copy of that map,     *)
(* which addFile and rmFile change in place before anything is sent.  Who  *)
(* wants the content puts a read instance on the chain and shows the       *)
(* proofs of both instances to the nodes of the secret (LongTermSecret),   *)
(* which then re-encrypt the key for him.                                  *)
(***************************************************************************)
EXTENDS Naturals, FiniteSets, SequencesExt

CONSTANTS Browser,   \* browsers of the account
          Reader,    \* other users
          File,      \* IDs of write instances
          Name,      \* names that users give to files
          MaxUpdate, \* bound: updates of the credential
          MaxSent,   \* bound: transactions on their way at one moment
          MaxGet     \* bound: calls of getFile of each user

Agent == Browser \cup Reader

ASSUME AgentsDiffer == Browser \cap Reader = {}
ASSUME NamesAssumption == Name \cap File = {}
ASSUME BoundsAssumption == /\ {MaxUpdate, MaxSent} \subseteq Nat
                           /\ MaxGet \in [Agent -> Nat]

VARIABLES chain,    \* the write and read instances, who may read, and the map
          used,     \* files that addFile has returned an ID for
          view,     \* the copies of the map
          sent,     \* transactions sent and neither included nor given up
          get,      \* the latest call of getFile of each user
          keeps     \* history: the files that a browser has seen or added in
                    \* its copy, and not removed

vars == <<chain, used, view, sent, get, keeps>>

Entry == [id : File, name : Name]
Instruction == [op : {"spawn", "delete"}, id : File]
                 \cup [op : {"read"}, id : File, nth : Nat]
                 \cup [op : {"update"}, map : Seq(Entry), keeps : SUBSET File]
Stage == {"sending", "sent", "write", "read", "content", "error"}

Tx == [from : Agent, instrs : Seq(Instruction), wait : BOOLEAN]
Chain == [write : [File -> {"none", "there", "deleted"}],
          readers : SUBSET Agent, reads : SUBSET [by : Agent, id : File, nth : Nat],
          map : Seq(Entry), updates : Nat, kept : SUBSET File]

\* A call of getFile, with what its proofs have shown; late means that the file
\* was deleted before.
Idle == [stage : {"none"}, nth : {0}]
Got == [stage : Stage, id : File, nth : Nat, late : BOOLEAN, wr : BOOLEAN, rd : BOOLEAN]

TypeOK ==
    /\ chain \in Chain
    /\ used \subseteq File
    /\ view \in [Browser -> [map : Seq(Entry), seen : Nat]]
    /\ sent \subseteq Tx
    /\ get \in [Agent -> Idle \cup Got]
    /\ keeps \in [Browser -> SUBSET File]

-----------------------------------------------------------------------------
(* The map of names (CredentialInstanceMapBS).                             *)

Ids(map) == {map[i].id : i \in DOMAIN map}

HasEntry(map, id) == id \in Ids(map)

\* Mutant: name and ID the wrong way round.
SetEntrySwapped(map, n, f) == Append(map, [id |-> n, name |-> f])

\* IDs are random, so there is no entry yet.
SetEntry(map, n, f) == Append(map, [id |-> f, name |-> n])

\* Mutant: every entry with the name of the one to remove.
RmEntryByName(map, f) ==
    SelectSeq(map, LAMBDA e : \A i \in DOMAIN map : map[i].id = f => map[i].name # e.name)

\* There is one entry for an ID.
RmEntry(map, f) == RemoveAt(map, SelectInSeq(map, LAMBDA e : e.id = f))

\* The first file of this name.
Find(map, n) == SelectInSeq(map, LAMBDA e : e.name = n)

-----------------------------------------------------------------------------
(* The calls of the account's browsers.                                    *)

Waiting(a) == \E t \in sent : t.from = a /\ t.wait

\* What the calls work on: the map of the browser's copy and the builder.
Start(b) == [map |-> view[b].map, instrs |-> <<>>, keeps |-> keeps[b], used |-> used]

\* Mutant: the copy is left as it is until the chain has the update.
SetMapLater(st, first, map, kept) ==
    [st EXCEPT !.keeps = kept,
               !.instrs = @ \o <<first, [op |-> "update", map |-> map, keeps |-> kept]>>]

\* setInstanceMap: the copy is changed, an update goes into the builder.
SetMap(st, first, map, kept) ==
    [st EXCEPT !.map = map, !.keeps = kept,
               !.instrs = @ \o <<first, [op |-> "update", map |-> map, keeps |-> kept]>>]

\* addFile.  It looks for the name among the IDs.
AddFile(st) ==
    UNION {{[SetMap(st, [op |-> "spawn", id |-> f], SetEntry(st.map, n, f),
                    st.keeps \cup {f}) EXCEPT !.used = @ \cup {f}] :
            f \in File \ st.used} :
           n \in {m \in Name : ~HasEntry(st.map, m)}}

\* rmFile; without a file of this name it throws.
RmFile(st) ==
    {LET f == st.map[Find(st.map, n)].id
     IN  SetMap(st, [op |-> "delete", id |-> f], RmEntry(st.map, f), st.keeps \ {f}) :
     n \in {m \in Name : Find(st.map, m) # 0}}

Call(st) == AddFile(st) \cup RmFile(st)

\* The builder after one or two calls.
Calls(b) == Call(Start(b)) \cup UNION {Call(st) : st \in Call(Start(b))}

SendTx(a, instrs, wait) ==
    /\ Cardinality(sent) < MaxSent
    /\ sent' = sent \cup {[from |-> a, instrs |-> instrs, wait |-> wait]}

\* The calls with a new builder, and sendCoins.
Edit(b) ==
    /\ ~Waiting(b)
    /\ \E st \in Calls(b) :
          /\ view' = [view EXCEPT ![b].map = st.map]
          /\ keeps' = [keeps EXCEPT ![b] = st.keeps]
          /\ used' = st.used
          /\ SendTx(b, st.instrs, TRUE)
    /\ UNCHANGED <<chain, get>>

\* Any other attribute is changed (storeUserCredential): the struct goes out
\* with the map as it is in the copy.
UpdateCredential(b) ==
    /\ SendTx(b, <<[op |-> "update", map |-> view[b].map, keeps |-> keeps[b]]>>, FALSE)
    /\ UNCHANGED <<chain, used, view, get, keeps>>

\* The subscription to the credential.
FollowCred(b) ==
    /\ view[b].seen # chain.updates
    /\ view' = [view EXCEPT ![b] = [map |-> chain.map, seen |-> chain.updates]]
    /\ keeps' = [keeps EXCEPT ![b] = Ids(chain.map)]
    /\ UNCHANGED <<chain, used, sent, get>>

-----------------------------------------------------------------------------
(* getFile, from one await to the next.                                    *)

\* The read instruction goes out, on a builder that has sent what it had before.
GetFile(a, f) ==
    /\ get[a].stage \in {"none", "content", "error"}
    /\ get[a].nth < MaxGet[a]
    /\ f \in used
    /\ ~Waiting(a)
    /\ SendTx(a, <<[op |-> "read", id |-> f, nth |-> get[a].nth + 1]>>, TRUE)
    /\ get' = [get EXCEPT ![a] =
           [stage |-> "sending", id |-> f, nth |-> @.nth + 1,
            late |-> chain.write[f] = "deleted", wr |-> FALSE, rd |-> FALSE]]
    /\ UNCHANGED <<chain, used, view, keeps>>

\* A proof that an instance is there, or that it is not.
WriteThere(a) == chain.write[get[a].id] = "there"
ReadThere(a) == [by |-> a, id |-> get[a].id, nth |-> get[a].nth] \in chain.reads

Step(a, from, rec) ==
    /\ get[a].stage = from
    /\ get' = [get EXCEPT ![a] = rec]
    /\ UNCHANGED <<chain, used, view, sent, keeps>>

WriteProof(a) == Step(a, "sent", [get[a] EXCEPT !.stage = "write", !.wr = WriteThere(a)])

ReadProof(a) == Step(a, "write", [get[a] EXCEPT !.stage = "read", !.rd = ReadThere(a)])

\* The nodes check the two proofs, with the state they are of; then the content
\* is decrypted without a further request.
ReencryptKey(a) ==
    Step(a, "read", [get[a] EXCEPT
        !.stage = IF get[a].wr /\ get[a].rd THEN "content" ELSE "error"])

\* A request of one of these steps fails.
Fail(a) == \E s \in {"sent", "write", "read"} :
               Step(a, s, [get[a] EXCEPT !.stage = "error"])

GetStep(a) == WriteProof(a) \/ ReadProof(a) \/ ReencryptKey(a) \/ Fail(a)

-----------------------------------------------------------------------------
(* The chain.                                                              *)

\* The read rule of the darc of the files.
HasAccess(a) == a \in chain.readers

\* Mutant: everybody may read.
AuthorisedAll(a, instr) == instr.op \in {"delete", "update"} => a \in Browser

\* The rules of the darc of the files and of that of the credential.
Authorised(a, instr) ==
    /\ instr.op \in {"delete", "update"} => a \in Browser
    /\ instr.op = "read" => HasAccess(a)

\* Is instruction i possible after those before it?
Possible(t, i) ==
    LET instr == t.instrs[i]
        before(op) == \E j \in 1..i - 1 : t.instrs[j].op = op /\ t.instrs[j].id = instr.id
    IN  instr.op \in {"delete", "read"} =>
            /\ chain.write[instr.id] = "there" \/ before("spawn")
            /\ ~before("delete")

Acceptable(t) == \A i \in DOMAIN t.instrs : Authorised(t.from, t.instrs[i]) /\ Possible(t, i)

Instrs(t, op) == {instr \in ToSet(t.instrs) : instr.op = op}

\* The last update of a transaction is what remains.
LastUpdate(t) == t.instrs[SelectLastInSeq(t.instrs, LAMBDA instr : instr.op = "update")]

\* getFile goes on, or sendCoins has thrown.
Settled(t, stage) ==
    get' = IF t.wait /\ Instrs(t, "read") # {}
             THEN [get EXCEPT ![t.from].stage = stage] ELSE get

\* All instructions of a transaction are applied.
Include(t) ==
    /\ Acceptable(t)
    /\ Instrs(t, "update") # {} => chain.updates < MaxUpdate
    /\ sent' = sent \ {t}
    /\ LET ids(op) == {instr.id : instr \in Instrs(t, op)}
           written == [chain EXCEPT
               !.write = [f \in File |-> CASE f \in ids("delete") -> "deleted"
                                           [] f \in ids("spawn") \ ids("delete") -> "there"
                                           [] OTHER -> @[f]],
               !.reads = @ \cup {[by |-> t.from, id |-> instr.id, nth |-> instr.nth] :
                                 instr \in Instrs(t, "read")}]
       IN  chain' = IF Instrs(t, "update") = {} THEN written
                    ELSE [written EXCEPT !.map = LastUpdate(t).map,
                                         !.kept = LastUpdate(t).keeps,
                                         !.updates = @ + 1]
    /\ Settled(t, "sent")
    /\ UNCHANGED <<used, view, keeps>>

\* The transaction is refused or lost, and the caller is told.
Refuse(t) == /\ sent' = sent \ {t}
             /\ Settled(t, "error")
             /\ UNCHANGED <<chain, used, view, keeps>>

\* After ten blocks sendCoins gives up; the nodes may still include it.
Abandon(t) == /\ t.wait
              /\ sent' = (sent \ {t}) \cup {[t EXCEPT !.wait = FALSE]}
              /\ Settled(t, "error")
              /\ UNCHANGED <<chain, used, view, keeps>>

-----------------------------------------------------------------------------

\* The darc of the files is given: the account may read, others perhaps.
Init == /\ \E S \in SUBSET Reader :
              chain = [write |-> [f \in File |-> "none"], readers |-> Browser \cup S,
                       reads |-> {}, map |-> <<>>, updates |-> 0, kept |-> {}]
        /\ used = {}
        /\ view = [b \in Browser |-> [map |-> <<>>, seen |-> 0]]
        /\ sent = {}
        /\ get = [a \in Agent |-> [stage |-> "none", nth |-> 0]]
        /\ keeps = [b \in Browser |-> {}]

Next == \/ \E b \in Browser : Edit(b) \/ UpdateCredential(b) \/ FollowCred(b)
        \/ \E a \in Agent : GetStep(a) \/ \E f \in File : GetFile(a, f)
        \/ \E t \in sent : Include(t) \/ Refuse(t) \/ Abandon(t)

Spec == Init /\ [][Next]_vars

-----------------------------------------------------------------------------
(* Properties.                                                             *)

\* Who gets a content had the right to read, his call has left its read
\* instance on the chain, and the file was not deleted when he asked.
ReadEarned == \A a \in Agent : get[a].stage = "content" =>
                  /\ HasAccess(a)
                  /\ ReadThere(a)
                  /\ ~get[a].late

\* The list on the chain has every file that the browser which wrote it last
\* had seen or added, and not removed: also when several files have one name,
\* and when some of its transactions had failed.
KeepsFiles == chain.kept \subseteq Ids(chain.map)

\* A file comes to the chain with its name, and goes with it, whatever else is
\* in the same transaction.
Together == [][\A f \in File :
    /\ chain.write[f] = "none" /\ chain'.write[f] = "there" => HasEntry(chain'.map, f)
    /\ chain.write[f] # "deleted" /\ chain'.write[f] = "deleted" => ~HasEntry(chain'.map, f)]_vars
=============================================================================
