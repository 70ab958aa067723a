# OmniLedger: TLA+ models, checks and proofs

OmniLedger is a web application (`src/webapp`) over a library (`src/dynacred`) that keeps
accounts, their devices, contacts, groups and coins in instances of a ByzCoin chain. A small Go
service (`src/webapp/cas`) lets other web services use such an account for a login.

The chain itself lives in another repository (`dedis/cothority`). What a contract accepts is taken
from how this code uses it, from its tests (`src/dynacred/spec`) and from the simulation of ByzCoin
that they run against (`src/dynacred/spec/simul/byzcoinSimul.ts`).

Nearly everything that can go wrong here comes from one pattern. Several browsers hold the keys of
one account. Each works on *copies* of the instances, changes them in place, sends whole new values
built from the copies, and hears from the chain later, one instance at a time. The models are about
what this pattern keeps and what it does not keep.

- [Inventory](#inventory)
- [Modules](#modules)
- [How state and actions correspond to the code](#how-state-and-actions-correspond-to-the-code)
- [Runs](#runs)
- [Fairness](#fairness)
- [Proofs](#proofs)
- [What the checks found](#what-the-checks-found)
- [Abstractions and what is left out](#abstractions-and-what-is-left-out)
- [Plan](#plan)

## Inventory

For each part: its state, its operations, what it interacts with, what is hard about it, and what
makes it correct.

**Devices and recoveries** (`dynacred/src/credentialSignerBS.ts`, `byzcoin/darcsBS.ts`,
`migrate.ts`, `webapp/.../devices.component.ts`).
*State*: the signer darc of the account (rules `_sign` and `invoke:darc.evolve`), the device darcs,
the `devices` and `recoveries` attributes of the credential, and copies of all of them in every
browser.
*Operations*: create, link, unlink, rename, update of an old recovery, with confirmation dialogs.
*Hard*: two browsers at once, checks made before a dialog and used after it, copies of different age,
transactions that nobody waits for any more.
*Correct when*: somebody can always sign for the account; a revoked device never comes back; a
recovery never signs; rights and names change together.

**Recovery of a contact** (`webapp/.../contacts.component.ts`).
*State*: none of its own; two transactions in sequence, the second signed with the new device's key.
*Hard*: the helper closes the browser in between, or only one of the two passes.
*Correct when*: the account is never left without a signer.

**Credential struct** (`credentialStructBS.ts`).
*State*: one instance with attributes; in each wallet the copy, the maps and sets made from it, and
an observable per attribute that passes a value on only if it differs from the last.
*Operations*: every setter changes the copy in place and sends the whole struct.
*Hard*: overwriting another browser's attributes; changes in place that survive a failed transaction.
*Correct when*: what is stored ends on the page, and what is removed leaves it.

**Transaction builders** (`byzcoin/transactionBuilder.ts`, `byzcoin/coinBS.ts`,
`spawnerTransactionBuilder.ts`).
*State*: collected instructions and their cost; on the chain the coin and the counter of each key.
*Operations*: append, prepend, send, sendCoins, spawns that add to the cost.
*Hard*: same counter read by several builders, stale copy of the coin, failures after which the
builder is still full, time-outs followed by late inclusion.
*Correct when*: nothing is executed twice, what is sent together is executed together, a builder that
waits is emptied only after its block, and the account pays what was asked for.

**User and its private key** (`user.ts`, `byz-coin.service.ts`, `register/*`).
*State*: key and credential ID in the browser's database, two entries written one after the other;
the key in the device's darc.
*Operations*: save, load, clear, migrate, switchKey, the two registration pages.
*Hard*: tabs share the database, and every access to it is asynchronous; the key changes on the chain
before it is saved; a link is opened twice.
*Correct when*: of the pages that open a link one registers, the key on the chain is in a browser,
every page comes to rest.

**Fetcher** (`fetcher.ts`, `observableUtils.ts`).
*State*: subscriptions from instances to copies.
*Operations*: `retrieveUser`, look-ups of lists.
*Hard*: each instance is followed on its own; look-ups overtake each other.
*Correct when*: copies are old or right, never a mixture that the chain would accept.

**Start of the webapp** (`app.component.ts`). Loads, migrates or sends to the registration; signs out
a revoked device. *Hard*: its checks run against another tab's writes.

**CAS login page** (`api/v0/cas/login/login.component.ts`, `config.service.ts`).
*State*: a challenge and the page's state. *Operations*: look-up of the service, login, deny,
redirect with the ticket. *Hard*: access is checked on the page and again on the chain, membership
changes in between.

**CAS service** (`webapp/cas/service_validate.go`, `client.go`, `config.go`).
*State*: none; walks back over the blocks of a node. *Hard*: the node may be behind, or not answer; the
limit of the age; where the walk ends. *Correct when*: access is earned, expires, is not refused wrongly, and
every check ends.

**Windows that wait for a transaction** (`webapp/src/lib/Ui.ts`, `dialog-transaction.ts`).
*State*: the blocks a window has drawn, its subscription to the stream of blocks, its worker, and the
promise its caller waits for. *Operations*: the fourth block drawn starts the worker; its end closes
the window after a second, or shows the error with a button. *Hard*: later blocks come while the
worker runs; the browser's history takes a modal window away with its worker still running; the
stream of blocks may be refused; nothing else ends the wait. *Correct when*: the worker runs once, and
the caller hears of its end as it was.

**Address book** (`addressBook.ts`, `credentialStructBS.ts`, `fetcher.ts`).
*State*: sets of contacts, groups and actions as IDs in the credential, and the darcs found for them.
*Operations*: create, link, unlink, rename. *Hard*: changes in place, several browsers, look-ups that
overtake each other.
*Correct when*: the page shows only what exists, and what is linked and not unlinked.

**Pages of groups and actions** (`contacts.component.ts`, `manage-darc.ts`).
*State*: a darc that several accounts may evolve, and an open window with a darc made from a copy.
*Operations*: create, rename, choose members, put a new contact in groups. *Hard*: a window is open
while others change the group; a new contact's account and membership in one transaction that may
fail. *Correct when*: no rule becomes empty, members exist, nobody undoes what he has not seen.

**Calypso** (`calypso.ts`, `spawnerTransactionBuilder.ts`, the instance maps of
`credentialStructBS.ts`).
*State*: write and read instances on the chain, and the map from the files' IDs to their names in the
credential, with a copy in every browser. *Operations*: addFile, rmFile, getFile, hasAccess.
*Hard*: several calls in one transaction, each with the whole map; copies changed before anything is
sent; two files of one name; a file deleted while somebody reads it. *Correct when*: every file the
account knows of has its name in the list, files and names come and go together, a content is only
read by who may.

**Block viewer** (`bcviewer.component.ts`). *State*: the list of the latest blocks. *Operations*: one
call per new block, which goes on to ask for older ones. *Hard*: calls overlap at their `await` and
share the list. *Correct when*: the list ends with the latest block, has no gap, and gets full.

**Not modelled**: *CAS logout, proxies, commands* (stateless answers), the *remaining user interface*
(forms whose transactions are `Devices!UpdateCredential`), *keys and helpers* (pure conversions).
*Genesis and first user* is modelled as the initial states; creating a chain is a straight sequence of
calls that only tests make. The *simulated ByzCoin* is the reference for the contracts.

The hazards of this code, each at its line, with the properties that watch it, are in
`PROJECT.json`.

## Modules

| module | models | lines of the code it rests on |
|---|---|---|
| `KeyRing` | abstract: how the rights of an account may move | – |
| `Devices` | devices, recoveries, recovery of a contact; implements `KeyRing` | `credentialSignerBS.ts`, `darcsBS.ts`, `credentialStructBS.ts`, `devices.component.ts`, `contacts.component.ts` |
| `DevicesProofs` | theorems about `Devices` | |
| `Batch` | abstract: instructions wait together and are executed together, once | – |
| `TxBuilder` | builders, coin, counters; implements `Batch` | `transactionBuilder.ts`, `spawnerTransactionBuilder.ts`, `coinBS.ts` |
| `TxBuilderProofs` | theorems about `TxBuilder` | |
| `Registration` | links, tabs, browsers, keys | `user.ts`, `byz-coin.service.ts`, `app.component.ts`, `register/*` |
| `RegistrationProofs` | theorems about `Registration` | |
| `CasLogin` | login page, service, CAS | `cas/*.go`, `api/v0/cas/*` |
| `CasLoginProofs` | theorems about `CasLogin` | |
| `Groups` | groups and actions that several accounts change | `contacts.component.ts`, `manage-darc.ts`, `darcsBS.ts` |
| `GroupsProofs` | theorems about `Groups` | |
| `Lists` | the lists of groups, actions and contacts on the pages | `addressBook.ts`, `credentialStructBS.ts`, `fetcher.ts` |
| `ListsProofs` | theorems about `Lists` | |
| `Calypso` | encrypted files, their names and their readers | `calypso.ts`, `spawnerTransactionBuilder.ts`, `credentialStructBS.ts` |
| `CalypsoProofs` | theorems about `Calypso` | |
| `Viewer` | the list of the latest blocks | `bcviewer.component.ts` |
| `Window` | the windows of transactions | `Ui.ts`, `dialog-transaction.ts` |
| `BlockStream` | composes `Viewer` and `Window` on one stream of blocks | `bcviewer.component.ts`, `dialog-transaction.ts` |
| `BlockStreamProofs` | theorems about the three | |
| `MC*` | constants of the instances that TLC checks | – |

But for `Viewer` and `Window`, which `BlockStream` puts together, the modules share no variables: each
has its own view of the chain. `Devices`, `Groups`, `Lists` and `Calypso` see the same transactions with different contents; `TxBuilder` is the layer underneath, and its
result (a transaction is executed whole, once or not at all) is what `Include`, `Refuse` and `Lose` of
the others assume. `Window` is the layer above: that its worker runs once and that its caller waits is
what the guards `Idle`, `MayStart` and `Waiting` of the others stand for. `Registration!Revoke` is the effect of `Devices` on one device.

Definitions with the comment "Mutant" are not part of any specification. Each is a plausible
mistake in the code; put in the place of the definition after it, it breaks the property that
`PROJECT.json` names with it.

## How state and actions correspond to the code

### Devices

`signer` and `cred` are the two instances on the chain, `exists` the spawned device darcs, `updates`
the version of the credential's instance. `view[a]` holds the copies of a wallet, `DarcBS` and
`CredentialStructBS`; `listed` the darcs of the page (`DarcsBS`, refreshed with the credential);
`asking` the open confirmation dialog; `granted` the device that `contactRecover` has added and not
yet named; `sent` the transactions on their way, with `wait` as long as a modal window waits.

`DeviceCreate` is `CSTypesBS.create`, `RecoveryCreate` is `link` with the flag of a recovery,
`AskRevoke`/`AskDelete`/`Confirm`/`Cancel` are `deviceRevoke` and `recoveryDelete` on both sides of
their dialog, `Confirm` with all of `unlink`. `Rename`, `RecoveryUpdate` (`Migrate.updateRecovery`),
`UpdateCredential` (any other attribute, through `storeUserCredential`), and `Recover` with `Attach`
(the two transactions of `contactRecover`) complete the operations. Each changes the copy of the
credential in the same step as it sends, because the code does so before its first `await`.

`Include` applies all instructions of a transaction or none: an update needs the `_sign` rule, an
evolution the evolve rule and the version after the stored one. Transactions that one key has signed
at the same time carry the same counter, so `Include` may take any of them out. `Lose` and `Abandon`
are the failures and the end of the wait after ten blocks. `FollowSigner` and `FollowCred` are the
two subscriptions, `Load` a (re)load, `Leave` the helper who goes away.

`Ring` maps the rights to `KeyRing`: a device is granted both rights when it is spawned, a recovery
only the right to change devices, and whoever is withdrawn loses all while somebody can still sign.

### TxBuilder

`stage` is what a builder is doing, `work` its instructions, `fetched` the coins that its fetches ask
for (each `sendCoins` puts one more in front), `cost` and `coin` the two fields of the class, `ctx` the
transaction that `sendCoins` has made of the instructions before its first `await`. `pool` holds signed
transactions, `counter` and `balance` are on the chain, `times` counts executions. `Add` is any
`append`, `spawn`, `invoke` or `delete`: the methods look at nothing, so it may come while the builder
is being sent. `Sign` is `updateCountersAndSign`, `Reply` the return of `sendTransactionAndWait` after
which instructions and cost are reset: it comes after the block, or, for the builders in `NoWait` (a
wait of 0), as soon as a node has the transaction. `Unreachable`, `Refuse` and `TimeOut` are the
exceptions after which nothing is emptied. `AfterFailure` says what becomes of the builder: those in
`Retry` are sent again, the others their caller drops, as all callers in the repository do. Those in
`GiveUp` may run into the end of their wait.

`Batch` is what remains for the caller: `wanted` is what is in the builder, `sent` the batches that are
signed or being signed, `done` what has been executed. A batch is executed whole or not at all, and
never after another one that has a part of it; a builder keeps all through a failure, and is emptied
only after one of its batches was executed, unless it is hasty (`NoWait`).

### Registration

One `at[t]` per tab, with one place for each `await`: two reads of `hasUser` and of `loadUser`, the
look-ups of `retrieveUser`, its two writes, the check of the rights, two writes to clear, two to
migrate, the question, the transaction of `switchKey` and the wait for it. `goal` is the link that was
opened, `next` where the page goes once the account is saved. `dbPriv` and `dbCred` are the
database. `device` is the key in each link's darc; a link is at the same time the ephemeral key in it.
`given` is history: the keys that a page was about to store when it failed or was closed (`GivenUp`),
and those that a user let a link replace.

### CasLogin

`blocks` are the chain with what passed and failed, `member` the darcs of actions, `page`, `url`,
`secret` the login pages, `issued` the tickets that services have. `walk` is a running check:
`Validate` is the request of a service whose host the CAS knows (`Service`; any other is refused at
once), `Begin` picks the latest block of a node that may be behind, `StepBack` goes to the block before,
`Accept` and `Refuse` end it. `Fail` is `INVALID_TICKET` for every other reason, at any point of the
walk: a ticket that cannot be read, an unknown user, or a node that does not answer
(`service_validate.go:169-194`, `207-211`). The clock may tick and blocks may come between any two
steps. `last` and `refused` are history, for the properties only.

### Groups

`darc` and `exists` are on the chain, `copy` each user's copies, `window` the open `ManageDarc`
window with the darc it was opened for (`old`), the one it is making (`new`), the rule that is shown,
and its three lists. A transaction records for each evolved group the darc it was made from; the code
does not, the chain does not look at it, and `NoLostUpdate` is about it. `ItemsFound` is the look-up
of items that ends while the window is open, `RuleChange`, `AddItem` and `RemoveItem` the handlers of
the window with the `updateDarc` they all call, `Apply` the end of `groupEdit`.

### Lists

`checked` tells groups and actions (looked up before they are linked) from contacts (any ID may be
linked). `attr` is the attribute in the copy of the credential (`Absent` until there is a first
member), `set` the `InstanceSet` that link and unlink
change in place, `last` the buffer that passed `distinctUntilChanged` last, `lookups` the look-ups
without an answer, each with the version of the list that it is for, `shown` the page. A new list does
not wait for a look-up nor end it (`flatMap`), and they are answered in any order; `late` is history: the
page shows the answer of a look-up that a newer one had overtaken. The order of the IDs in an `InstanceSet` is kept, because it
decides whether two buffers are equal.

### Viewer, Window and BlockStream

`blocks` are the indices in the viewer's list, `loops` the calls of `updateBlock` that wait for an
older block, each with the block that started it and the index it asks for. `UpdateBlock` is a call up
to its first `await`, `OlderBlock` from one `await` to the next (`Go`), `NoBlock` a request that fails
and ends its call.

A window is `stage` (what is on the screen), `bars` (the blocks it has drawn, `this.blocks.length`),
`ub` (its subscription), `worker` and `promise`, which is resolved or rejected; `left` is history. The
stream is a `BehaviorSubject` behind
`startWith` with three older blocks: `Subscribe` draws four at once and starts the worker. `NoStream` is
a `getNewBlocks` that rejects, which `ngOnInit` does not catch. `Succeed` and `Fail` are the two ends of
`startTransactions`, `Timer` its `setTimeout`, `PressClose` the button of the template. `Leave` is a
navigation of the browser, which closes the windows of `MatDialog` with no value: that resolves the
promise just as a worker without a result does. `NewBlock` of `BlockStream` passes a block to all subscribers in one step.

### Calypso

`chain` holds the instances, the readers and the map of the credential; `view[b]` the copy of a
browser. `Edit` is one or two calls of `addFile` and `rmFile` with one builder and its `sendCoins`:
no `await` comes in between. `Start`, `AddFile` and `RmFile` thread the copy of the map and the
builder through the calls. `GetFile` is `getFile` up to the end of its `sendCoins`; `WriteProof`,
`ReadProof` and `ReencryptKey` are its three awaited requests. `Include` applies a transaction's
instructions in order: of several updates the last one remains. `keeps` and `kept` are history, the
files that a browser, or the writer of the map on the chain, had seen or added and not removed.

## Runs

All runs end by themselves. Times are those of two workers.


| run | instance | checks | states, time |
|---|---|---|---|
| `devices_two` | 2 browsers, 2 devices, 3 evolutions, 3 updates, 2 transactions on their way | `RightsInv` (the inductive invariant, with `TypeOK`), `NeverLockedOut` | 1 370 000, 70 s |
| `devices_recovery` | 1 browser and a helper, 2 devices and an old recovery that may sign, 1 further device, 2 evolutions, 2 updates, 1 transaction on its way | `NoRightsRegained`, `NamesMoveWithRights`, `RingSpec` | 1 330 000, 35 s |
| `devices_named` | 2 browsers, 3 devices, 2 evolutions, 2 updates | `AccessIsNamed`, violated | |
| `tx` | 3 builders with up to 3 sends, 2 keys, 5 coins; one is retried, one does not wait, two give up and are dropped | `TypeOK`, `CostIsPrice`, `FairCharge`, `OnceOnly`, `BatchSpec`, `SendEnds` | 269 000, 40 s |
| `reg` | 2 browsers with a tab each, 3 links, 2 pages, 1 old database, overwriting, failing requests, pages closed at any await | `TypeOK`, `KeyKept`, `OneRegisters`, `PageEnds`, `KeyGetsStored` | 87 000, 30 s |
| `reg_tabs` | 2 tabs of one browser, 1 link | `KeyKept`, violated | – |
| `cas` | 1 user, 3 URLs (two of actions, one unknown), 1 challenge, validity 1 of 2 seconds, 3 blocks | `TypeOK`, `AccessIsEarned`, `AccessExpires`, `NoFalseRefusal`, `CheckEnds` | 432 000, 2¼ min |
| `groups` | 1 account and 1 contact, 1 group, 2 names, 2 evolutions, 1 window, 2 transactions on their way | `TypeOK`, `NeverOrphaned`, `MembersExist`, `NoLostUpdate` | 1 921 000, 1½ min |
| `lists` | 2 browsers, groups and contacts, 2 items of which one exists, lists that are absent or not, 3 updates | `TypeOK`, `ShownExists`, `UnlinkedGoes` | 1 095 000, 2¾ min |
| `lists_comes` | 1 browser, groups, otherwise the same | `LinkedComes`, violated | |
| `blocks` | a chain of 1, 2 or 6 blocks that grows to 9, 2 windows | `TypeOK`, `NoGap`, `ShowsLatest`, `FillsUp`, `WorkerOnce`, `ToldAsItEnded`, `CallEnds` | 81 000, 30 s |
| `calypso` | 2 browsers and a reader, 2 files of one name, 2 updates, 2 transactions on their way, 1 read; symmetric in browsers and files | `TypeOK`, `ReadEarned`, `KeepsFiles`, `Together` | 1 369 000, 75 s |

Why the bounds are enough for what the runs are to show:

- *devices_two*: three evolutions let a device be created, the two revoke each other, and one more
  evolution from an old copy arrive; two transactions at a time let them race. `MaxUpdate` bounds the
  credential the same way. The first device is called `FirstName`, so that one further name is enough
  for renaming. In *devices_recovery* two devices and an old
  recovery are listed from the start, so that either evolution may revoke a device, remove the
  recovery, take its signature away or recover the account for somebody, and the second one may be made
  from an older copy than the first: taken by the chain it would give back what the first one took.
- *tx*: three builders of two keys race for a counter and, with another key, for the coins; five coins
  are not enough for all that the builders may want. Up to three sends let two fetches stand in front
  of the third. The builder that does not wait is emptied while its transaction is in the pool, and
  filled and sent again.
- *reg*: two pages in two browsers let one link be opened twice, also in a browser with an old
  account, with every failure and every way to stop in between. The tabs of one browser are in
  *reg_tabs*: there `KeyKept` does not hold, whatever else goes right. The theorems hold for any number
  of pages, links and browsers.
- *cas*: a validity of one second in two gives a login that is just good, just too old, and too old
  by more; three blocks let the walk pass a block, find its transaction, and meet one that is too old.
- *groups*: one group with two evolutions lets a change happen behind an open window. The contact,
  once in the group, changes it as well; two transactions let one that nobody waits for any more come in
  beside a later change. (`Room` counts what is on its way against the evolutions, too, which keeps the
  instance small.) The window finds only the user's own account in the address
  book, so that `unknown` has members. The theorems hold for any number of accounts and groups.
- *lists*: with three updates a group is linked, unlinked in the other browser, and overwritten by
  the first; the initial lists are those without the attribute and with one item. Up to three look-ups
  of a page overtake each other.
- *blocks*: a chain of one, two or six blocks lets the viewer reach the first block, or get full before;
  three more blocks let several of its calls overlap, and pass a window in every stage.
- *calypso*: two files of one name are the least that `rmFile` can mix up; two transactions let the
  browsers race and one of them fail. Two users who call `getFile` share nothing but the chain, so one
  is enough. `Name` has one element and `MaxGet` is symmetric in the browsers, therefore the symmetry
  of browsers and files is sound (the run has no liveness property).

`CHECK_DEADLOCK FALSE` is set in the runs where the bounds, or the end of all work, stop the system
(pages, blocks, builders that are dropped, updates, transactions); in `devices_*` some step is always
left, and deadlock is checked.

## Fairness

- `TxBuilder!Fairness`: the library goes on with its requests (each gets an answer or an error), and
  the nodes include or refuse what is in their pool. Without a time-out this second part is needed:
  `sendTransactionAndWait` has no other end. Callers need not go on, and nobody counts on a time-out:
  blocks may come as slowly as they like.
- `Registration!Fairness`: a page that is open runs, the modal question is answered, transactions are
  settled. No fairness for opening, closing, failing or revoking.
- `CasLogin!Fairness`: only the CAS goes on with its checks. Nothing is asked of users, nodes or the
  clock, and no request of the CAS has to fail (`Fail` is not fair): a check that fails ends as well.
- `BlockStream!Fairness`: the stream comes or is refused, requests for older blocks are answered or fail,
  workers end or throw, the timer goes off. No new block has to come, and no user has to close a window: `CallEnds` allows for an
  error that waits on the screen and for a stream that was refused. That a worker ends is what `SendEnds` shows of `TxBuilder`.
- `Lists!Fairness`: wallets are told of new blocks and look-ups are answered. Whether a transaction is
  ever included is left open.

All of it is weak fairness: a promise chain that can run is run by the browser's event loop.

## Proofs

`tlapm` checks eight modules to the last leaf, for all values of the constants under the assumptions
that the models state.

**DevicesProofs**. `NeverLockedOut` is not inductive: the last signer could be removed by an
evolution that is already on its way. `RightsInv` adds why this cannot happen. A device that may
evolve may also sign (`DevicesSign`); a copy of the signer darc is the chain's or has a lower version
(`CopiesAreOld`); nobody is asked to remove himself (`OthersAsked`); and each evolution on its way is
either too old for the chain or does one legal thing to the darc *as it is now*
(`SentAreLegal`): it adds a new device, adds a recovery, removes somebody other than its sender in a
transaction which the sender must be able to sign, or takes the signature of a recovery away on behalf
of a device. The version check makes this inductive: an included evolution makes all others of
the same version too old. From it:
`RightsAreInvariant` (`Spec => []RightsInv`), `TypeCorrect`, `AccountStaysOpen`
(`NeverLockedOut`), `RevokedStaysRevoked` (`NoRightsRegained`) and `DevicesImplementKeyRing`
(every step of `Devices` is a step of `KeyRing` or leaves the rights alone). `NamesFollowRights`
(`NamesMoveWithRights`) needs a second invariant, `SentAreNamed`: every evolution of the signer darc that
the chain may still take goes with a credential which names whom it adds and does not name whom it
removes (a helper names the new device in a transaction of its own).

**TxBuilderProofs**. Assumption `OneChance`: a builder is not both used again after a failure and
given up by a time-out. `BatchInv` says what transactions in the pool contain: the work of their
builder (`PoolIsWork`), apart from all others (`Apart`), and not executed yet while the builder waits
(`NotYet`); so nothing is executed twice (`OnceOnly`). From it `NothingTwice` and
`BuildersImplementBatch`. A builder that does not wait (`NoWait`) is emptied while its transaction is
in the pool, which is apart from whatever it is filled with afterwards; `Batch` promises of such a
builder (`Hasty`) no more than that.

What a builder costs is a sum over a set, a fold. That it is well defined is proved first: a set for
which no sum exists, or for which two do, would have a least one among its subsets, and without the
element that `Sum` takes first that one would have failed already (`LeastSet` and `LeastNumber`, from
the well-foundedness of `\subseteq` on finite sets and of `<`). `SumTake`, `SumAdd` and `SumUnion` are
the facts about sums that the rest needs. `ChargeInv` then says that builders and transactions hold
finitely many instructions (`FiniteWork`), that the cost is their price (`CostIsPrice`), and that the
fetches ask for just this price, unless the builder is in `Retry` (`FetchIsPrice`). It needs no
assumption, and gives `BuildersTyped` (`TypeOK`, which says that the coin is never overdrawn),
`CostStaysPrice` (`CostIsPrice`) and `ChargedFairly` (`FairCharge`).

Both together give `AccountIsBalanced`, over whole behaviours: what the account has left and
what has been spent on executed instructions is never more than it had at the start, and just that if
no builder is sent again after a failure. This one needs `OneChance`, because what is executed twice
is paid for twice.

**GroupsProofs**. `GroupsInv`: copies, windows and changes on their way descend from darcs that the
chain had (`Past`, by version), and each is `Sane`, which is that no rule is empty and every
member is an account, or is created by the very transaction. From it `GroupsAreInvariant`,
`GroupsTyped`, `GroupsKeepMembers` (`NeverOrphaned`), `MembersAreAccounts` (`MembersExist`) and
`NothingOverwritten` (`NoLostUpdate`).

**RegistrationProofs**. The inductive invariant is `IInv`: the types; that a page only does what fits
its goal (`BaseInv`); that keys are chosen once and a transaction carries the key of its page
(`KeysOnce`, `Pending`); where a page is, and what it holds there (`Course`, `Sound`); that the key in
a browser is next to its own account, unless a page is between its two writes or was stopped there
(`Matched`); and `KeyKept`. From `BaseInv` alone follows `RegistrationTyped` (`TypeOK`).
`LinksRegisterOnce` (`OneRegisters`) is proved for any tabs in any browsers, at work at once or not:
of all pages that open a link only the one whose key the chain took gets to its end, and no browser
stores a key that the chain refused. It adds to `BaseInv` that a new key belongs to one transaction and
to the page that sent it (`Chosen`), and that a page past `switchKey`, and a database that holds a new
key, have one that the chain has taken (`RegisterInv`). `KeysAreKept`
(`Spec /\ []OneAtATime => []KeyKept`) is about behaviours in
which a browser may have any number of pages, but only one of them is at work (not in `AtRest`) at a
time (`OneAtATime`); where every tab has its own browser this is always so. The code does not keep two
tabs from working at once, and the run *reg_tabs* shows that `KeyKept` is false then. The argument is that whatever a page has read is still in the browser when it writes
(`Course`, `Sound`); pages at rest neither know nor write anything.

**CasLoginProofs**. The walk of the CAS only looks at blocks of the chain at or before the one it
started from, the time of blocks grows with their index, and what a block holds has been signed by a
member at the time. From it `CasTyped` (`TypeOK`), `AccessEarned` (`AccessIsEarned`),
`OldTicketsExpire` (`AccessExpires`) and `GoodTicketsPass` (`NoFalseRefusal`): a ticket that is valid,
by the age that the documentation gives and not by the limit of the code (`TooOld`), and stands in a block
that the node knew, is refused only by a check one of whose requests failed.

**ListsProofs**. `NothingInvented` (`ShownExists`): a page shows what a look-up has found, and nothing
is ever deleted from the chain. `ListsTyped` (`TypeOK`) says that a list names no ID twice, wherever
it is kept; it rests on what `add` and `rm` do to a list: `AddIsInstanceSet` and `RmIsInstanceSet`
prove, for lists of any length, that the result has no ID twice and has the old IDs with, or without,
the one in question. Assumption: there are finitely many IDs (they have 32 bytes). `UnlinkedIsGone` is
the safe half of `UnlinkedGoes`: a page that has heard of the newest version and waits for no look-up
shows nothing that is not in the stored list, unless an answer came late (`late`). Its invariant
`PageInv` says that the look-up of the last list is on its way and the newest; or it has been answered, all
that are still on their way are older, and the page shows its answer or is `late`. No order of the
answers is assumed.

**BlockStreamProofs**. The viewer (`ViewerInv`): every call that waits asks for the block right before
the first of the list, or is behind by one block, and the latter only if the list needs just one more
(`Near`); hence `ViewerIsInOrder` (`NoGap`) and `LatestIsShown` (`ShowsLatest`) although calls
overlap. The windows: a worker is started by the fourth block drawn, and
the number drawn stays at four (`WindowInv`); hence `WorkedOnce` (`WorkerOnce`) and `NoFalseAnswer`
(`ToldAsItEnded`): timer, button and worker tell a caller only what happened, and no caller whose window
is still there is told of a success that did not happen. With both invariants, `StreamTyped` (`TypeOK`).

**CalypsoProofs**. Every update on its way carries a map with all files that its sender keeps
(`KeepsFiles`), and the last update of a transaction names the files that it spawns and none that it
deletes (`Together`): `FilesAreKept` and `NamesComeAndGo`. The proofs of a call of `getFile` are
witnesses of instances that its own transaction has put there: `ReadsAreEarned` (`ReadEarned`).
`CalypsoTyped` is `TypeOK`.

Liveness needs fairness and `ENABLED`, which are out of the prover's reach. What can be proved of it
is that nothing but fairness is missing: whoever has to go on still can.

| liveness (model-checked) | proved | which says |
|---|---|---|
| `SendEnds` | `SendsAreInPool` | a builder that waits for a block has its transaction in the pool |
| `PageEnds`, `KeyGetsStored` | `WaitsAreServed` | so has a page that waits in `switchKey` |
| `CheckEnds` | `ChecksGoBack` | every step of a check ends it or takes it one block back |
| `UnlinkedGoes` | `UnlinkedIsGone` | a page that has heard of everything shows nothing that was unlinked, but by a late answer |
| `FillsUp` | `ViewerKeepsAsking` | while blocks are missing and no request has failed, a call of the viewer waits for one |
| `CallEnds` | `CallersAreCaredFor` | a caller who waits has a window, and the stream, its worker, its timer or its button to end the wait, unless the stream was refused |

Only model-checked: the liveness properties of this table. The three properties that runs find
violated have no theorem, of course, and all others have one.

## What the checks found

Three runs end in a violation, each of something that a comment or a document of the repository says.

- **`AccessIsNamed`** (`devices_named`). `credentialStructBS.ts:25` calls the devices "the naming
  system to point to all DARCs that have access to this credential". An update carries the whole
  struct as the copy has it (`credentialStructBS.ts:83`), so the later of two updates removes the name
  that the earlier one added. The rights stay in the signer darc, without a name, and the page cannot
  revoke them.
- **`KeyKept`** (`reg_tabs`). `retrieveUser` saves the key it was called with (`fetcher.ts:84`), for a
  link the ephemeral one, before `switchKey` finds out whether the link was used. A second tab with the
  same link saves the spent key over the new one. (The same two tabs can clear a good key: the second
  finds no rules for the spent key that it has loaded, and `clearDB` then empties the database that the
  first has just written, with the message "this device has been revoked", `app.component.ts:92-95`. The
  device has not been revoked.)
- **`LinkedComes`** (`lists_comes`). `addressBook.ts:24` says that observers are told whenever an element
  is added or removed. Creating a group changes the set and the copy before anything is
  sent (`addressBook.ts:88`). After a failure the ID goes to the chain with the next update of any
  attribute. When the group is made in the end, the attribute does not change, `distinctUntilChanged`
  (`credentialStructBS.ts:182`) passes nothing on, and the page never shows it until it is reloaded. (A removal can be missed as
  well: `flatMap` in `fetcher.ts:139`, `154` and `209` keeps an older look-up running, whose late answer
  puts the older list back on the page. `UnlinkedGoes` excepts just this, `late`.)

Other behaviour a reader should know of, which a property excepts or an instance leaves out:

- `Registration` with `Closing` or `Failing`: a page that is closed or fails between the block of
  `switchKey` and the save loses the new key. There is no other copy of it. `KeyKept` and
  `KeyGetsStored` except such keys (`given`). A page stopped between the two writes of `save` or
  `migrate` leaves a key next to another account or none; the next start then finds no rules for it and
  clears both.
- `TxBuilder`: a builder that is sent again after a refusal (`Retry`) fetches the cost a second time,
  and the spawner keeps what is left over, although `transactionBuilder.ts:25` says that a failed
  transaction can be retried. No caller does; `FairCharge` is about all others.
- `TxBuilder` with a builder in both `Retry` and `GiveUp`: a retry after a time-out may execute everything
  twice (`OnceOnly`); this is what `OneChance` rules out.
- `TxBuilder` with a wait of 0 (`NoWait`): the builder is emptied when the node has taken the
  transaction, before anything is executed, although `transactionBuilder.ts:24` says "only emptied if the
  transaction has been accepted successfully". The one caller (`storeUserCredential`, `Ui.ts:104-112`)
  drops its builder.
- `Devices`: `dynacred/README.md:254` says that a device and a recovery both allow full control of the
  darc. A recovery enters the evolve rule only (`credentialSignerBS.ts:54-60`): it signs nothing until it
  has evolved the darc, which is how it does give full control. That a recovery which could sign is taken
  that right when a device updates it is modelled (`RecoveryUpdate`).
- `Lists`: an update of another browser whose copy has no such attribute takes the whole attribute
  away; `filter` (`credentialStructBS.ts:181`) passes nothing on, and the other pages keep their list.
  `UnlinkedGoes` is about attributes that are there.
- `Viewer`: when calls overlap a block may be in the list twice, so that it shows fewer than four
  different ones until later blocks push it out.
- `Window`: a window that the browser's history takes away resolves its promise with `undefined` while
  its worker runs on, or has failed, although `Ui.ts:125` says "If an error occurs, the promise will be
  rejected". For a worker with a result this looks like a success: `devices.component.ts:79-90` shows a
  link that ends in "undefined". `ToldAsItEnded` shows that it is the only way a caller can hear of
  anything before the worker's end.
- `Window`: if `getNewBlocks` rejects (`dialog-transaction.ts:39`), the window stays without worker and
  without a button, and its caller waits until the user navigates away (`NoStream`; `CallEnds` excepts it).
- `Calypso`: `addFile` asks `hasEntry` for the name, whose keys are IDs (`calypso.ts:31`), so a second
  file of a name is never refused; `rmFile` removes the first of them.
- A refused transaction leaves the wallet's copy of the credential changed (`Devices`, `Lists`); the
  next update of any attribute carries the change. In `Devices` this can name a device that
  never got its rights; the page does not show it, because its darc does not exist.
- `contactNew` calls `addSignEvolve(id, undefined)` for the groups of a new contact; the default of the
  parameter gives him the right to change the group as well (`contacts.component.ts:110`,
  `darcsBS.ts:116`). `Joined` models it as it is.

## Abstractions and what is left out

- *Contracts* are those of another repository. An update of the credential needs `_sign` of the signer
  darc, an evolution its evolve rule and the next version, a group's evolution the evolve rule of the
  group; a transaction passes whole or not at all (`spec/signers.spec.ts`, `byzcoinSimul.ts`).
- *Rules* are sets of identities: all expressions that the code builds are disjunctions.
- *Signer counters* in `Devices`, `Groups` and `Lists` are the choice of `Include` to take other
  transactions of the same key out; `TxBuilder` has the numbers.
- *Versions* are unbounded in the modules; the `MaxEvolve`, `MaxUpdate` and `MaxOpen` guards bound
  them, and no width is reached.
- *Data*: names, aliases, challenges and keys are model values. Two items have different IDs unless
  the code derives the same one (`Lists`: same name and signer, same ID).
- `TxBuilder` leaves the order of instructions out (no operation depends on it but the fetch, which is
  in front), and other accounts that pay into the coin. It models callers that fill a builder and then
  await its one `sendCoins`, as all callers in the repository do. An instruction appended during the
  await would be lost (`transactionBuilder.ts:35`). Instructions and cost are reset in one step; the code
  resets the cost one microtask later (`spawnerTransactionBuilder.ts:71`), before its caller goes on.
- `Groups` leaves groups that are members of groups out and the look-up of a group by the suffix of
  its name; `Lists` the coins of actions. The first load of a list is one step.
- `CasLogin` leaves out the amounts of the transfers (`service_validate.go` looks at the coin and the
  argument only) and the cut of long user names. The clock of the CAS and the one of the blocks are
  the same; `time.Unix(-1, …)` in the code, which puts every block one second back, is kept.
- `Window` leaves out what is drawn, and rejections that are no `Error` (a worker throws errors only, so
  the button closes with one). That a page may have several windows open (`Call`) is more than the
  modal windows allow.
- `Calypso` leaves the encryption to its library, drops a builder after a failure (see `TxBuilder`),
  gives the rules of the darc from the start (`spawnDarc`), and limits a transaction to two calls.
  Within the repository only tests call it.
- `BlockStream`: the library's stream of new blocks is assumed to leave none out and to keep their order.
- `Viewer` leaves out what is written about a block (`BCBlock`, `TxStr`, `InstStr`, the links).

## Plan

Done: all components with state of their own, and the proofs for each. What is left, in this order:

1. *Composition*: `Devices`, `Lists` and `Calypso` on one copy of the credential, so that overwriting
   between attributes is checked and not only within one.
2. *Two pages of a browser at work at once*: a weaker `KeyKept` for `Registration` that says which
   keys are lost. (For one at a time it is proved.)
3. *Genesis*: the sequence of a new chain, as the state in which the other modules start.

Not modelled, because there is nothing a model checker could add: the *CAS logout and proxies* answer
without state; the *remaining user interface* has forms only; *keys and helpers* convert. The *cache
of instances* (`getInstanceObservable`) and the streams behind `ObservableToBS` are in a library, and
their behaviour when a request fails cannot be read from this repository.
