# Verification of the secure-messaging RPC layer and two wallet dialogs

This directory models, in TLA+:

- `src/src/rpcsmessage.cpp`, the RPC handlers of the node's secure
  messaging;
- `src/src/qt/sendcoinsbydelegatedialog.cpp`, the send-by-delegate dialog;
- `src/src/qt/blockbrowser.cpp`, the block browser.

TLC checks the modules on small instances, and TLAPS proves some of the
results for every instance.

## The system

The repository has three files with behaviour that can be checked. The
other sources are declarations only (see "Not modelled").

The RPC handlers run on the RPC server's thread pool, so several can run
at once. They share the following state, owned by `smessage.cpp`. That
file is not in the repository, so this state is modelled from `spec.md`:

| State | Code | Guard |
|---|---|---|
| enabled flag | `fSecMsgEnabled` | none: read and written unlocked |
| message database (inbox `im`, outbox `sm`) | `SecMsgDB` (leveldb, transaction batch) | `cs_smsgDB` |
| bucket set | `smsgBuckets` (time window -> token set) | `cs_smsg` |
| bucket files | `<time>_01.dat` | `cs_smsg` |
| listed local addresses with receive/anon flags | `smsgAddresses` | `cs_smsg` on append only |
| options | `smsgOptions` | none |
| public key database | `SecMsgDB` `pk` records | `cs_smsgDB` |

## Modules

| Module | Models |
|---|---|
| `SecMsg` | The message store and its handlers: `smsgenable`, `smsgdisable`, `smsgsend`/`smsgsendanon`, `smsginbox all|unread|clear`, `smsgoutbox clear` (and `all` as the read-only `OutboxListed`), `smsgbuckets dump` (and `stats` as `BucketStats`), `smsgscanbuckets`. The environment: peer messages, wallet lock/unlock, and a process crash and restart. |
| `AddressDirectory` | The address directory: `smsgoptions set`, `smsglocalkeys` (listings as operators; `recv`/`anon` toggles as two steps), `smsgaddkey`, `smsgscanchain`, `smsggetpubkey` (an operator), and the wallet's new-address callback. |
| `InboxAtomic` | The abstract specification of the inbox (spec.md 4.4, 8): each `smsginbox` call is one atomic step (unread scan, clear), plus receipt under a fresh key. `SecMsg` instantiates it with the identity mapping on `inbox`, `unread` and `shown`. |
| `SendAtomic` | The abstract specification of the dialog's entries: changed freely while no send is under way; a send begins from valid entries, and ends paid (entries cleared) or unpaid (entries as they were), with nothing in between. `SendByDelegate` instantiates it with `busy <- spc \in Frozen`. |
| `SendByDelegate` | The send-by-delegate dialog: its entries, `fNewRecipientAllowed`, `on_sendButton_clicked` with its three modal dialogs and the `processEvents()` of `accept()`, `setAddress`, `handleURI`/`pasteEntry`, `removeEntry`, `clear`. |
| `BlockBrowser` | The block view (`blockClicked` and its getters through `getBlockHash`) and `blocksInPastHours`, on the GUI thread, against a node thread that connects and disconnects blocks. |
| `BlockBrowserTx` | The transaction view: `txClicked` with `getTxTotalValue`, `getTxFees`, `getInputValue` and `getInputs`. |
| `MCSecMsg`, `MCAddressDirectory`, `MCSendByDelegate`, `MCBlockBrowser`, `MCBlockBrowserTx` | Model values, definitions and symmetry for TLC. |
| `SecMsgProofs` | The TLAPS proofs about `SecMsg` and its refinement of `InboxAtomic`. |
| `AddressDirectoryProofs` | The TLAPS proof of `DirTypeOK`. |
| `SendByDelegateProofs` | The TLAPS proofs of the dialog's three properties and of its refinement of `SendAtomic`. |
| `BlockBrowserProofs` | The TLAPS proof of `BrowserTypeOK`. |

The store and the directory share only `fSecMsgEnabled`. The store takes
what the directory decides as inputs: whether a recipient key resolves
(`SendStore`'s `resolved`) and whether a peer message is for a listed
receiving address (`PeerMessage`'s `forUs`). This is why they are
separate modules: composing them would multiply the state spaces and
show nothing more.

### How `SecMsg` corresponds to the code

Messages, tokens and database keys are one id each, taken in order from
`nextId`; leveldb's key order is the order of the ids (`IsNextKey`). A
handler that holds no lock across steps is one action. `cs_smsgDB` is held
across many steps only by the inbox scan (lines 538-611), so that scan is
three kinds of action:

- `InboxOpen` locks and starts the iterator;
- each `InboxNext` is one turn of the `NextSmesg` loop;
- `InboxCommit` does `TxnCommit` and unlocks.

The scan's batch (`batch`) is lost when the process crashes before the
commit. `MaxMsgs` bounds the fresh keys: once they are used up, only
`SendStore`'s error path is left, as if the key did not resolve.
`SecureMsgSend` has two critical sections: the outbox commit under
`cs_smsgDB` (`SendStore`) and the bucket store under `cs_smsg`
(`SendBucket`). A thread's `pc`, `mode`, `todo`, `got`, `okd` and `sendReq`
are the locals of its handler call. `shown`, `seenText` and `dumped` are
history variables, read only by the properties.

Undefined behaviour is a nondeterministic choice. In `AddressDirectory`,
a write through an iterator that a `push_back` may have invalidated
(`stale`) either lands or is lost. A failing `boost::filesystem::remove`
is the choice `failed` in `SmsgBucketsDump`.

`smsgoutbox all` is read only, so it is the operator `OutboxListed(u)`
rather than an action. It gives the listing for every set `u` of sent
messages that `SecureMsgDecrypt` fails on. One failure throws and lists
nothing (line 681). `spec.md` section 7 asks for a per-item placeholder.
No run checks this: a single unit test with one undecryptable sent
message shows it.

### How `SendByDelegate` corresponds to the code

The GUI has a single thread, but `on_sendButton_clicked` does not run to
completion. The following each run a nested event loop:

- the confirmation box;
- the passphrase dialog of `requestUnlock`;
- the warning box;
- the `processEvents()` in `addEntry` (called by `accept()`).

A payment URI queued meanwhile is delivered inside that loop.

`spc` records where the handler is: `"confirm"`, `"unlock"`, `"send"`,
`"warn"` or `"accepted"`. `HandleURI` is enabled at every `spc`. The
user's own actions require `spc = "idle"`, because the modal dialogs
block them: `EditEntry`, `RemoveEntry`, `ClearClicked`, `SetAddress`
and `SendClicked`.

Each `QMessageBox`/`WalletModel` outcome is an action parameter:

- `ConfirmAnswer(yes)`;
- `UnlockAnswer(ok)`;
- `SendCoins(ok)`, whose non-OK statuses all end in one warning box.

`SendDone` is the code after the switch.

An entry is a recipient, `Blank` (`isClear()`) or `Bad` (fails
`validate()`). `taken` records the recipient of a URI that `handleURI`
answered `true` for. The caller drops a URI on that answer.

### How `BlockBrowser` and `BlockBrowserTx` correspond to the code

The GUI thread reads `chainActive` without `cs_main`. The node thread
changes it (`ConnectTip`, `DisconnectTip`; spec-modelled, since
`main.cpp` is not here). Every getter goes through
`getBlockHash(Height)`, which reads the chain three times. Each read is
one step:

- `LookupCheck`: the tip test;
- `LookupRecheck`: `chainActive.Height()`;
- `LookupIndex`: `chainActive[Height]`.

`blocksInPastHours` reads the tip twice: `HoursStart` for `height`
and `HoursReadTip` for `heightHour`. The node may step between any two
of these steps. `ClickUse` and `HoursUse` are what
`blockClicked` and `blocksInPastHours` do with the hash. `Getters` lists
`blockClicked`'s calls in order. Process-ending failures set `gpc = "crashed"`:

- a `NULL` dereference;
- `return 0` into a `std::string`.

Whether the fixed hash `getBlockHash` returns is in `mapBlockIndex` is
the constant `FallbackKnown`.

`BlockBrowserTx` has a single step, `TxClicked`. `getInputValue` looks for the output by its script, as the code does.
An unknown transaction's value is `NotFoundValue`, for `GetBlockValue(0, 0)`. The initial state picks
the transaction and the one previous transaction its inputs spend, and
whether `GetTransaction` finds each. `getInputValue`'s read of
`vout[i]` past the end is undefined behaviour, so it may return any
amount or none. Amounts are whole units. The rounding of the code's
doubles is below the six printed decimals and is not modelled.

## Runs

| Run | cfg | Result | What it shows |
|---|---|---|---|
| secmsg_safety | `SecMsg.cfg` | pass | `TypeOK`, `UnreadShownOnce`, `IndexWithinFiles` and the refinement `InboxRefinement` hold (about 1.0M distinct states, depth 27) |
| secmsg_store_when_disabled | `SecMsg_StoreOnlyWhenEnabled.cfg` | violation | send passes the unlocked enabled test, smsgdisable runs, then the message is committed |
| secmsg_dump_resurrects | `SecMsg_DumpIsFinal.cfg` | violation | dump with a failing remove, then smsgscanbuckets brings the dumped token back |
| secmsg_read_without_text | `SecMsg_ReadImpliesDecrypted.cfg` | violation | the wallet relocks mid-scan and the message is marked read without being decrypted |
| directory_types | `AddressDirectory.cfg` | pass | the flags stay on listed wallet addresses (434,624 distinct states, 22 s) |
| directory_toggle_lost | `AddressDirectory_ToggleTakesEffect.cfg` | violation | a new address reallocates `smsgAddresses` under a toggle, which replies "Success." with the flag unchanged |
| dialog_send | `SendByDelegate.cfg` | pass | `DlgTypeOK`, `AllowedWhenIdle`, `AcceptDiscardsOnlySent` and the refinement `SendRefinement` of `SendAtomic` (150 distinct states) |
| dialog_uri_dropped | `SendByDelegate_TakenURIEntered.cfg` | violation | a URI delivered during the confirmation box is refused by `pasteEntry`, but `handleURI` answers `true`, so the caller drops it |
| blockbrowser_types | `BlockBrowser.cfg` | pass | `BrowserTypeOK` (207,460 distinct states) |
| blockbrowser_reorg_crash | `BlockBrowser_NoCrash.cfg` | violation | the tip is disconnected between `getBlockHash`'s tip test and its recheck, and `return 0` into a `std::string` throws |
| blockbrowser_negative_count | `BlockBrowser_CountNonNegative.cfg` | violation | a block connected between the two `Tip()` reads of `blocksInPastHours` (lines 141, 142), older than the target, makes it return -1 |
| blockbrowser_fee | `BlockBrowserTx_FeeShownIsFee.cfg` | violation | the previous transaction's two outputs pay one script with amounts 1 and 2; the input spends output 1, but `getInputValue` finds output 0 by its script, so the input is valued at 1 and the fee shown is wrong |

The violations are the findings in `PROJECT.json`.

- `AllowedWhenIdle` says that every way out of `on_sendButton_clicked`
  gives back `fNewRecipientAllowed`. There are four: cancel, unlock
  cancelled, a failed send, and OK.
- `AcceptDiscardsOnlySent` says that the `clear()` of `accept()` after a
  successful send discards only the entries that send paid.
  `fNewRecipientAllowed` exists to make this true. It holds because
  `pasteEntry` refuses URIs from the confirmation onwards. That refusal
  is itself the finding of `dialog_uri_dropped`.
- `SendRefinement` says that a send is atomic for the entries. Under
  `busy <- spc \in Frozen`:
  - the user's edits, and a URI pasted while idle, are `Change`;
  - the click that passes validation is `Begin`;
  - a cancelled confirmation or unlock, and closing the failure
    warning, are `End(FALSE)`;
  - a successful `sendCoins` (with the `clear()` of `accept()`) is
    `End(TRUE)`;
  - every other step is a stutter: a refused URI, the answers that go
    on to the next box, a failed send before its warning, leaving
    `"accepted"`.
  It is stronger than `AcceptDiscardsOnlySent`: it also says that an
  unpaid send gives back the entries unchanged.
- `BrowserTypeOK` says that `getBlockHash` reads `chainActive[Height]`
  only inside the chain, so every hash a getter uses is a block's or the
  fixed one. It also bounds what `blocksInPastHours` returns, `height -
  heightHour`, between `-MaxHeight` and the number of blocks. The lower
  bound is negative because of the finding of
  `blockbrowser_negative_count`.

- `UnreadShownOnce` says the unread bit of an inbox message is cleared
  exactly when one committed unread scan returned the message. It is the
  property `cs_smsgDB` and the transaction batch exist for. It fails if
  two scans interleave, or if a crash commits half a batch.
- `IndexWithinFiles` says that while messaging is enabled, every token of
  the bucket set is in its file, across the following:
  - sends split in two critical sections;
  - dumps, rescans and restarts.
  A failing remove leaves a file with more than the set, which this
  property allows; `DumpIsFinal` is about that.
- `InboxRefinement` (`Atomic!AtomicSpec`) says that `SecMsg` implements
  `InboxAtomic`. It is stronger than `UnreadShownOnce`: a commit must also
  mark read *every* unread message (the scan is complete). Under the
  mapping, these steps are stutters:
  - the steps of a scan before its commit;
  - an all-mode commit;
  - a crash;
  - every step outside the inbox.

Each property of a passing run has a mutant (`PROJECT.json`), a plausible
bug that TLC shows breaks it:

| Mutant | Breaks |
|---|---|
| the error path of `SecureMsgSend` without its early return, so the bucket step stores a message that was never sealed | `TypeOK` |
| the scan without `LOCK(cs_smsgDB)` | `UnreadShownOnce` |
| the dump without `smsgBuckets.clear()` | `IndexWithinFiles` |
| the commit before the iterator is exhausted | `InboxRefinement` (not `UnreadShownOnce`) |
| the toggle without "Address not found." | `DirTypeOK` |
| the send without `entry->validate()` | `DlgTypeOK` |
| the cancelled unlock without `fNewRecipientAllowed = true` | `AllowedWhenIdle` |
| `pasteEntry` without the `fNewRecipientAllowed` test | `AcceptDiscardsOnlySent`, `SendRefinement` |
| the walk returning `height - heightHour + 1` | `BrowserTypeOK` |

### Bounds

- Two threads suffice for every pairwise race, and the threads are
  symmetric.
- Two windows let a dump fail on one bucket and succeed on another.
- Two messages let a scan see a read and an unread message, and let a
  send and a peer message interleave.
- One crash covers a crash mid-scan and a crash between the send's two
  critical sections.

In the directory, two wallet addresses (one with a compressed key), one
remote address and one invalid string cover each return code of
`smsggetpubkey` and a toggle racing a new address.

Dialog bounds:

- Two recipients (symmetric) and at most two entries let a URI add an
  entry next to a typed one. They also cover both branches of
  `pasteEntry`: replacing the single clear entry, or appending.
- The entries may also be `Blank` or `Bad`, for `validate()`.

Block browser bounds:

- Four blocks (genesis, `b1`, `b2`, `c1`) and height 2 allow a
  reorganisation that replaces the block the view looks at.
- The targets 1..3 fall on both sides of every block time.

In the transaction view, `MaxIO = 2`, two scripts and amounts `{1, 2}`
give the following:
- an input spending an output index at or above the previous
  transaction's input count;
- two outputs paying one script with different amounts.

### Fairness

No run checks a liveness property, and no run assumes fairness. Two were
tried and dropped, because each held by the shape of its model:

- That a scan releases `cs_smsgDB`. Under weak fairness of its own
  steps, the holder only shrinks a finite to-do set that no other step
  touches. The fairness also ignored the wallet locks that
  `SecureMsgDecrypt` may wait on.
- That `blocksInPastHours` returns. With `FallbackKnown = FALSE` the walk
  is floored at height -1, where the time read is 0, below every target.

## Proofs

`SecMsgProofs` proves four theorems for every value of the constants.
They assume only `ConstAssumption`:

- `MaxMsgs` and `MaxCrashes` are naturals;
- `Times` is non-empty;
- `NoThread` is not a thread.

### `TypeCorrect == Spec => []TypeOK`

`TypeOK` alone is not inductive. `SendBucket` stores `sendReq[th].id`,
which has type `0..MaxMsgs`. The strengthening `TypeInv` adds `SendIdOK`:
a thread at `send_bucket` holds a real id. The proof has two lemmas:

- `InitTypeInv`;
- `NextTypeInv`, with one step per action and a split of `SendStore` on
  its branch.

### `UnreadShownOnceHolds == Spec => []UnreadShownOnce`

A scan in progress breaks the relation between `unread` and `shown`
until it commits. The inductive invariant `UnreadInv` is
`TypeInv /\ UnreadShownOnce /\ \A th : ScanInv(th)`, where
`ScanInv(th)` says the following:

- A scanning thread owns `cs_smsgDB`.
- In unread mode, its batch equals what it has returned (`got`), and all
  of that is still unread.
- In the other modes, its batch is empty.
- A thread that is not scanning holds an empty batch and result.

`NextUnreadInv` has one step per action. Two facts carry it:

- `FreeLockNoScan`: with the lock free, nobody is scanning. This is why
  clear, open and peer messages cannot disturb a scan.
- `UnreadNotShown`: a message still unread has `shown = 0`. This is why a
  commit's increment gives exactly 1.

TLC checked `UnreadInv` on every reachable state of the `SecMsg.cfg`
instance before the proof was written.

### `IndexWithinFilesHolds == Spec => []IndexWithinFiles`

`IndexWithinFiles` is inductive together with `TypeInv`. Every store adds
the token to both the set and the file (`StoreKeepsIndex`). Every other
step that changes the set either clears it or rebuilds it from the files:

- dump;
- rescan;
- enable;
- restart.

### `Refinement == Spec => InboxRefinement`

`RefInv` strengthens `UnreadInv` with three facts:

- `Fresh`: inbox keys are below `nextId`, so a peer message is a
  `Receive` of a fresh key.
- `unread \subseteq inbox`: needed when a scan opens with `todo = inbox`.
- `ScanComplete`: an unread scan has returned, or has still to visit,
  every unread message.

At the commit `todo` is empty, so `got = unread`. The commit is then
exactly `ScanUnread`. `StepRefines` maps each step:

- `InboxClear` to `Clear`;
- `InboxCommit` in unread mode to `ScanUnread`;
- `PeerMessage` for us to `Receive(nextId)`;
- every other step to a stutter (`InboxStutter`).

TLC checked `RefInv` on every reachable state before the proof was
written.

### `DirTypeCorrect == DirSpec => []DirTypeOK`

`AddressDirectoryProofs` proves this from `DirAssumption`:

- the wallet has at least one address (its default key);
- wallet, remote and invalid addresses are disjoint;
- compressed keys are wallet keys;
- chain keys are remote.

The strengthening `PendingListed` says that a toggle between its search
and its write names a listed address. This holds because
`smsgAddresses` only grows.

### `SendByDelegateProofs`

The dialog's inductive invariant is `DlgInv`. It adds two facts to
`DlgTypeOK`:

- `fNewRecipientAllowed` is false at every nested point of the handler
  (`Nested`), and true when it is idle.
- From the confirmation until `accept()` (`Frozen`), the entries equal
  the recipients the handler copied, and there is at least one.

Both hold because the user's actions need `spc = "idle"`, and
`HandleURI` changes the entries only when `allowed` is true.

`NextDlgInv` has one step per action. It rests on two lemmas:

- `PutEntryType`: the shared write of `setAddress` and `pasteEntry`
  respects the bound when `CanPut` holds.
- `RemoveType`: `removeEntry`'s re-indexing gives a sequence.

From `DlgInv` follow:

- `DlgTypeCorrect` (`[]DlgTypeOK`);
- `AllowedWhenIdleHolds` (`[]AllowedWhenIdle`);
- `AcceptDiscardsOnlySentHolds`, the action property. In `"send"`, the
  entries are the recipients.
- `SendRefines` (`DlgSpec => SendRefinement`). Its lemma `StepRefines`
  has one step per action, and the modal answers and `SendCoins` are
  split on their outcome. The edits are `Change` because `DlgInv'`
  bounds the new entries. `SendClicked` is `Begin` because its guard is
  the validation. Every step that leaves `Frozen` is `End`. The paid end
  clears the entries; the unpaid ends leave them as `DlgInv` keeps them.

`DlgInv` was checked by TLC on the `SendByDelegate.cfg` instance before
the proof. The proofs assume `DlgAssumption`:

- `Blank`, `Bad` and `NoRecipient` are not recipients;
- `MaxEntries` is a positive natural.

### `BrowserTypeCorrect == BrowserSpec => []BrowserTypeOK`

`BrowserInv` strengthens `BrowserTypeOK` with one fact:

- A height that passed `getBlockHash`'s first test is not negative, even
  after the chain shrank. This is why `chainActive[Height]` is read
  within `chain` when it is read at all.

The bound on the count needs no strengthening: `top` and `bh` are
each a read of the tip, between 0 and `MaxHeight`, or -1 for `bh` at the
floor of the walk. Earlier, `HoursStart` read the tip once for both, and
the invariant carried `bh <= top`. That made the count non-negative, but
the code reads the tip twice (lines 141, 142), and the claim was false
of the code.

The proof has one step per action, `HoursReadTip` included. `DisconnectTip` needs the facts about
`SubSeq`. `ClickUse` is split on its three branches. The proof holds for
every set of blocks, every height bound and both values of
`FallbackKnown`. TLC checked `BrowserInv` first.

### What stays with TLC

- the violations;
- `FeeShownIsFee`, about the recursive `SumValues` of `BlockBrowserTx`:
  TLAPS cannot reason about a module that declares a `RECURSIVE`
  operator;
- all liveness, since TLAPS cannot reason about `ENABLED` and fairness.

## Not modelled

- `qt/messagemodel.h` declares Qt table models only.
- In the dialog: coin control (`coinControlUpdateLabels` and its
  friends), which only formats labels from the wallet, and the address
  book's labels.
- In the block browser:
  - the double arithmetic of `getBlockHardness` and `getBlockHashrate`.
    At height 1, `timeDiff` is 0, and the infinite quotient is cast to
    `uint64` (undefined behaviour). A unit test reaches this;
  - `getOutputs`'s and `getInputs`'s string formatting;
  - `addrClicked`.
- `irc.h`, `utiltime.h` and `chainparamsbase.h` are declarations only.
- Encryption, hashing and the peer-to-peer protocol of `smessage.cpp` are
  not modelled. Decryption is reduced to "the wallet is unlocked".

## Plan

1. The directory's one real hazard, the unlocked toggle, is a finding.
   Its passing run checks only `DirTypeOK`.
2. Model what `SecureMsgReceive` does with the directory: a message is
   for us if it is addressed to a listed receiving address. This would
   make the store and the directory one composed module, once
   `smessage.cpp` can be consulted.
3. A liveness property for senders waiting on `cs_smsgDB` would need
   strong fairness of the mutex, which the code does not give.
4. The repository does not say whether the hard-coded hash of
   `getBlockHash` is this chain's genesis. The runs take it as unknown
   (`FallbackKnown = FALSE`). With `FallbackKnown = TRUE`, TLC finds that
   the walk can fail to return: for a target at or
   before the genesis time, the walk reads the genesis time below height
   0 for ever and the GUI thread hangs. If that hash is known, this
   deserves a run of its own.
5. `smsgbuckets stats` (`BucketStats`) cannot meet an empty bucket in the
   model: the model's bucket set has no entry with no tokens. Modelling
   empty buckets needs the expiry code of `smessage.cpp`.
