# TLA+ models and proofs of qeth

qeth is a desktop Ethereum (and Tron) wallet: a Qt window with plugins (Wallets,
Tokens, Transactions, Approvals, ENS), a signing core with hot, USB and
air-gapped signers, and a local JSON-RPC server for dapps.  Nearly everything it
shows comes from slow and unreliable sources, and nearly everything it does
waits for a person, a device or a node.  This directory models the parts where
answers arrive late, twice or out of order and the wallet must still show what
is true and send what was shown.  TLC checks the models on small instances;
TLAPS proves their safety properties for every value of the constants.

Paths are relative to `src/qeth`; `tokens`, `transactions`, `approvals`, `ens`
and `wallets` stand for `plugins/<name>/__init__.py`.

## 1. Inventory

Threads.  The Qt main (GUI) thread runs every slot and owns every map of the
plugins; worker QThreads make blocking calls and emit signals that are queued to
it; one asyncio thread runs the ws live watcher, another the JSON-RPC server;
each kind of hardware device has a thread with a queue; one thread writes
transaction histories; a light client is a process of its own.  A slot is atomic
with respect to other slots, so the concurrency is in the order in which signals
reach the GUI thread and in how old their contents are.

| component | state | operations | interacts by | hard behaviour |
|---|---|---|---|---|
| balance ledger (`plugins/tokens/balance_ledger.py`, `wallet_cache.py`) | height floors per token, native, transfer; a cache file per (chain, account) | `apply_read`, `apply_native`, `apply_floor`, `reset_chain`, `note_transfer` | called by slots of the Tokens plugin | lagging backends in any order, receipts beside reads of the same block, reconnections |
| token discovery (`tokens`) | displayed view, in-flight guards, pipelines | refresh, invalidate, callbacks, merge | workers' signals, ledger calls | a merge of amounts read seconds ago; failed reads; two pipelines of one view |
| chain client (`chain.py`) | none shared | `head_balances`, multicall chunks | called by workers | chunks at different heights, failed calls and chunks |
| live watcher (`live_watcher.py`) | connection, counters | Transfer events, polls, pending probes, link state | signals to two plugins | repeats results; reconnects |
| pending watch and history (`transactions`, `transactions_cache.py`) | histories in memory and files, drop readings, page state per chain | tick, confirmed / dropped / still-pending slots, `add_pending`, pages, head checks, saver | two watchers, the sign flow, the explorer | stale nonces and receipts, lazy loading, crash before a save, pages that trail the chain |
| activity column (`tx_activity.py`, `activity_cache.py`, `abi_cache.py`) | activities in panel and on disk, known legs | batches of workers, receipts, simulations, tickers | signals to the panel | results in any order, restarts between |
| composer (`transactions`, `tron_send.py`) | fields, name and identity answers, gas, preview | edits, answers, debounces, Confirm | workers' signals | every answer is late for what is typed now |
| sign flow (`ui.py`, `signing.py`, `dialog.py`, `signer_interaction.py`) | dialogs, attempts, nonce floor, bridge future | sign, push, fail, retry, dismiss | future awaited by the RPC thread; device threads | retry after a failure, dismissal while signing, two dialogs of one account |
| devices (`device_thread.py`, `trezor.py`, `ledger.py`) | job queue, session, scans | jobs of scans and signatures | futures | caller-side timeout while the job goes on, replugs, passphrases |
| air-gapped signer (`qr_signer.py`, `qr_exchange_dialog.py`, `qr_animation.py`, `qr_scan.py`, `qr/`) | the exchange, frame queue, camera | animate, scan, accept, cancel | preparer and decode threads, a device that only looks | queue at its limit, late permission, an old signature in view |
| JSON-RPC server (`rpc.py`) | pins and subscriptions, added chains, failed hosts | dispatch, events, add and switch chain, proxy | asyncio tasks, `SignerBridge` | tasks interleave at every await |
| accounts and store (`store.py`, `hot_wallet.py`, `wallets`, `fsatomic.py`) | records, defaults, keystores, config file | add, import, remove, reorder, connect, save | two threads save | saves out of order, crashes between files |
| approvals (`plugins/approvals`) | epoch, cursor, cache, revoke batch | scan, reconcile, revoke one by one | workers, confirmations, sign flow | results of an old epoch or account, failed reads |
| ENS (`plugins/ens`) | names, owners, records by block, epoch | discover, verify, read, write | workers, confirmations | reads older than the user's own write; roles that change |
| light client and previews (`helios.py`, `verified.py`, `plugins/transactions/simulate.py`) | processes, incapable endpoints | spawn, replace, give up, simulate | worker threads, processes | two threads replace one process; a preview behind the wallet's own block |
| single instance, token lists, pricing, risk, ABI decoding, window, icons | - | - | - | I/O, arithmetic and formatting |

What makes each correct is section 4; what is hard to test, at its line, is the
list "hazards" of `PROJECT.json`.

## 2. Modules

| module | models | proofs | run |
|---|---|---|---|
| `OrderedBalances` | what the ledger promises (abstract) | | `ledger` |
| `BalanceLedger` | ledger, cache and all their live writers; implements `OrderedBalances` | `BalanceLedgerProofs` | `ledger` |
| `TokenDiscovery` (extends it) | pipelines in flight, the view and its guard, the merge | `BalanceLedgerProofs` | `discovery` |
| `PendingWatch` | from broadcast to a settled row, one (chain, account) | `HistoryProofs` | `pending` |
| `TxHistory` | pages, paging, head checks, holds, view switches | `HistoryProofs` | `history` |
| `TxActivity` | the Activity column | `TabProofs` | `ens` |
| `SendForm` | the Send dialog up to Confirm, EVM and Tron | `RequestProofs` | `send` |
| `SignFlow` | dialogs and attempts from Confirm to a recorded transaction | `SignFlowProofs` | `sign` |
| `QrExchange` | the exchange with an air-gapped device | `RequestProofs` | `qr` |
| `DeviceWallets` | device threads: sessions, scans, signatures | `WalletProofs` | `accounts` |
| `Accounts` | records, defaults, keystores, config file, two savers | `WalletProofs` | `accounts` |
| `RpcServer` | chains per origin, `chainChanged`, `wallet_addEthereumChain` | `RequestProofs` | `rpc` |
| `RpcProxy` | `_proxy`: endpoints, cooldowns, timeouts | `RequestProofs` | `rpc` |
| `Approvals` | scans, reconciles, revoke batches | `TabProofs` | `approvals` |
| `EnsNames` | discovery, ownership and records of names | `EnsProofs` | `ens` |
| `EnsWrites` | roles, operations, what a mined write shows | `EnsProofs` | `ens` |
| `VerifiedReads` | light-client processes and previews | `VerifiedReadsProofs` | `verified` |

The state of a module is that of the classes named beside its VARIABLES: each
variable's comment gives the attribute.  Every handler is one action, with the
refreshes it ends in; what runs in another thread between two signals is a step
of its own.  `PROJECT.json` maps each definition to its lines.  Definitions
marked "Slip" are not the code: they are plausible mistakes, each paired in
`PROJECT.json` with the property that tells it from the code.

The MC modules give constants and narrower initial states.  Components that
share no variable are checked in one run as *parts* of one instance: a variable
`part` says which of them moves, and the others stay as they began
(`MCRpcServer`: events or proxy; `MCAccounts`: accounts or devices;
`MCEnsNames`: names, writes or activity).

How the data are abstracted, where it matters:

- An amount in `BalanceLedger` is the height it was read at (`base`) plus the
  blocks of the receipts added on top (`credits`); whether it is zero is
  `empty[k]`, any set of heights.  `Coherent` says what a batched read may be:
  each chunk runs at its backend's height and reports it or fails to.  The
  discovery reads are the same (`Answers`): `FullReads` where no call fails, with
  any chunk at any height, told or not.
- Time in `PendingWatch` is counted in poll intervals (10 s).  A backend may lag
  `Lag` units after a nonce is spent; a probe lasts at most `Delay`.  Both are
  assumptions about the environment; `TimePasses` stops at a probe that has
  reached `Delay`, which is how that bound is expressed.
- In `SignFlow` an attempt is `<<dialog, n>>`, its n-th Confirm.  One slot of the
  GUI thread is one action; a device job goes on after its caller's timeout.
- In `TxHistory` a transaction is its nonce and a sorted list without duplicates
  its set; the explorer's index trails the chain by any number of rows.
- In `SendForm` two texts are one when they parse alike; an amount is 0 when it
  is missing, malformed or too high; an answer carries the request it is of.
- In `QrExchange` a frame is the set of fragments it carries and its mask; the
  device is an adversary as far as geometry goes: it reads one frame in three,
  in one mask only.
- In `EnsNames` registrant, manager and wrapper are one owner and a name has one
  record; `EnsWrites` has the roles and the kinds of records and no discovery.
  An ownership read is several aggregates (`Runs`): the first gives the block that
  stamps every name, a name of a later one is as of a block of its own (`at`).
  `MorePins` says that the account pins more names than those that are followed,
  so a followed one may be in a later aggregate.
- In `RpcServer` a subscription that ends under one of its origin's own events, or
  a switch without an origin, makes a gap for the origins concerned (`cut`, a
  history variable): what an event still on its way tells them is then in no
  order.  The gap ends with a switch of theirs that no older event of theirs meets.
- In `VerifiedReads` a process is what it is and what its `HeliosSidecar` knows
  of it, which differ until somebody asks.

## 3. Runs

All runs pass; they check 40 properties together, each with a mutation of the
mapped code that breaks it.

| run | instance | bounds |
|---|---|---|
| `ledger` | 1 wallet, 1 token | heights 0..2 |
| `discovery` | every call is answered, by chunks that may not tell their height: 1 pipeline beside all live writers; or reads fail: 2 pipelines under the user's moves | heights 0..2 |
| `pending` | one transaction to watch, one of the past; the poll and a ws probe | `Readings` 3, `Spacing` 1, `Lag` = `Delay` = 1, one restart |
| `history` | one chain with a history of 5 and few moves; or two (one sent-only and nonceless) where the user moves | pages and windows of 2 rows, 6 blocks, 1 failed fetch, 2 moves |
| `send` | two recipients, one the user's own, both with names; EVM and Tron | 3 edits |
| `sign` | a dapp's dialog on a USB device beside a Send from a hot wallet; or a message, or a replacement | 2 attempts and 2 estimates each |
| `qr` | two still exchanges with a camera to be asked for; or an animated one after a cancelled one, camera denied | 3 fragments, a queue of 1, 2 masks |
| `accounts` | four records of two families, two savers; or two seeds, two passphrases, one scan | 3 accounts, 3 saves, 1 crash; 2 replugs, 1 late call |
| `rpc` | three subscriptions on two sockets of two dapps, and a caller without an origin; or two endpoints, two reads, a signed transaction | 3 events; a cooldown of 2, a timeout of 4, 5 beats |
| `approvals` | alice with two pairs, bob with one; windows of 1 row; a cache that knows all, some or none of the log | 2 scans or switches, 1 reconcile, 1 event more |
| `ens` | one name, in the first aggregate or a later one, two accounts; or a name and a subname with 6 x 5 beginnings of roles; or one transaction with two coins | 2 blocks and 2 refreshes or 2 reads; 3 blocks, 1 composer, 1 read; 3 renderings, 1 restart |
| `verified` | 2 callers, 3 processes, 2 endpoints, up to symmetry | 2 blocks, 1 swap or 1 fault |

Why the bounds are enough.  The rules of the code compare few things at once,
and a behaviour that breaks a property is one in which each of those things is
once older, once equal and once newer.

- Ledger rules compare heights of one key pairwise and treat keys independently,
  except that one read or receipt covers several.  Three heights and `None` give
  all comparisons; one pipeline beside every live writer makes a merge stale;
  the guard needs two pipelines.  The theorems hold for any number of each.
- The drop logic is per hash.  `Lag + Delay = (Readings - 1) * Spacing` is the
  calibration with no slack: `Lag = 3` breaks it (section 7).  The poll and one
  ws probe are the two sources.
- A history page of two rows overlaps, abuts or misses the rows shown; two chains
  are needed for what a page of one does to the other, one for deep paging.
- Two dialogs of two attempts are the fewest for "one after the other" and "at
  once"; a third adds no new pair.  Two estimates give a late one.
- Two records of one address by different paths, and a second family, are what
  the rules of defaults and keystores tell apart.
- `MCFewBatches` leaves revoke batches out beyond their first dialog where reads
  may fail (the batch does not look at them); `MCBudgets` gives a behaviour of
  `VerifiedReads` a swap or a fault, not both, and one of `EnsNames` several
  refreshes or several record reads, not both; beside record reads an ownership
  read is one aggregate (`OneAggregate`), as records and owners do not look at each
  other.  `MCView` of `MCVerifiedReads` forgets what a process was that is gone and
  unknown to all, that of `MCEnsNames` the workers of earlier refreshes, whose
  signals are dropped.  Processes and callers, and the two requests that add a
  network, are interchangeable, which is the symmetry used.
- One name is enough in `EnsNames`: names meet only in a read's stamp, and the
  followed name may be in any aggregate of it.
- Where a component is proved the bounds only decide how soon TLC would find a
  mistake; section 6 says which properties that leaves to the instances.

Deadlock is not checked where the program may rightly stop: every dialog closed,
every bound used up.

## 4. What the properties say

A star marks the properties that are also proved, for every value of the
constants.

- `SettledRowsAreExact`\*: a token that an ordered read settled shows exactly that
  amount plus receipts mined after it.  `FloorsHold`\*: no fresh native read is
  rejected against a floor no read earned, and a preview never forks below a
  credited receipt.  `NeverRegresses`\*, `NoDoubleCredit`\*: what a row reflects
  only moves forward until a reset; no receipt is added to an amount that
  contains it.  `ImplementsOrderedBalances`\*: the ledger implements its promise.
- `ShownNeverRegresses`\*: the same of the amounts on screen against merges, whose
  chunks ran at different heights: a merge takes a settled token back, or brings
  back one dropped at zero, only by an amount that has no height, because its chunk
  told none or it was carried forward from the cache (both in section 7).
   `GuardIsReleased`: a view is refreshed again.
- `DroppedIsReplaced`: a row shown or saved as dropped was not mined and never
  will be, where receipts lag no more than the readings span and the ws does not
  answer with errors.  `HistoryMovesOn`\*: no saved row is lost, no settled row
  reopened, and, whatever lags (`DropsTakeTime`), no row dropped before its nonce
  has been spent for as long as the readings span.
  `PendingSettles`: a pending row whose nonce is spent is settled.
- `TableStaysHead`\*: the table of a view begins as its newest rows, in order, and
  stays that; a page that fills a hole and one that comes back to a closed tab
  whose table is of another view are what may break it (section 7).
  `PagingEndsAtFirst`\*: no walk is given up above the account's first
  transaction, as far as the explorer showed it when the walk began, unless the
  walk was carried to another chain (section 7).
  `SendsAreNoticed`: what was sent elsewhere appears.
- `ConfirmShowsWhatItSends`\*, `PreviewIsCurrent`\*: next to an enabled Confirm,
  rows and preview speak of the transaction it would send.  `FeeBecomesKnown`,
  `AddressIsPreviewed`: fee and preview come, and failures are recovered from.
- `SettledNeverSends`\*: what the user or the dapp was told stays true.
  `SequentialNoncesDiffer`\*: attempts one after the other have different nonces
  unless one replaces the other.  `SentIsRecorded`: what reaches the node is in
  the history.  `SigningEnds`: no dapp waits for ever.
- `PutFindsRoom`\*, `CameraOnlyWhileShown`\*, `SignedForItsRequest`\*: the preparer
  never finds its queue full; no camera without its dialog; no signature on
  another request.  `ExchangeEnds`: every device gets the request.
- `DefaultIsHeld`\*, `QuietMeansSaved`\*: a family's default is an account that can
  sign for it, in memory and on disk; a program at rest has saved what it holds.
  `SignedByOwner`\*, `NodeTreesAreOneWallet`\*: signatures are of the account asked
  for; a tree derived from nodes is of one wallet.
- `PinnedHearsItsOwn`\*: a dapp that chose its chain believes, on every connection,
  that it is on the one the server answers it with; the exceptions are the gaps of
  section 2, after a subscription of its own ended under one of its events (by
  `eth_unsubscribe` or with its socket) or a switch without an origin (section 7).
  `PassedOverIsFailing`\*: an endpoint is passed over only if it failed last.
- `OwnAccountOnly`\*: caches, rows and revokes are of their account.
  `CalmCursorPassesNothing`\*: without faults a saved cursor passes only
  approvals saved with it, or those whose row a reconcile's late zero took.
- `ShownIsAsRead`\*: names, records and ticks are not painted back.  A row painted
  from an aggregate that ran at another block than its read's stamp is excepted,
  until it is painted as of one as new as all it has shown (`apart`, section 7).
  `RememberedStays`\*, `RolesAuthorise`\*, `ShownWasTrue`\*: an owned name is not
  forgotten; what is offered may be called; what is shown of a write was true of
  some block.
  `ActivityIsKept`\*: known coins stay in the row and in the file.
- `NoOrphan`\*, `PreviewSeesFloor`\*: no light client is left running; a preview
  whose floor was compared is not run before the wallet's own block.

Stated, proved and not in a run: `NotedOnce` (a receipt reaches the ledger once a
session), `RowsDropOnlyAtZero` (a held token does not vanish), `Alone` (one
attempt per dialog), `OncePerPath` (one record per address and path), and the
parts `NativeFloorEarned`, `ForkFloorCoversCredits`, `TerminalIsFinal` and
`HistoryIsKept` of properties above.

## 5. Fairness

Nothing is assumed of the user, of dapps or of the chain, except where said.

- `TokenDiscovery`: every worker ends, in an answer or a failure, and its signal
  is delivered: each network call has a timeout and each worker a `failed`
  signal.
- `PendingWatch`: the timer fires, time passes, a probe that was started ends
  (timeouts), and a poll tried again and again is answered in the end (strong
  fairness of its two reads).  Nothing is assumed of the ws, pages and saves.
- `TxHistory`: requests return, also as failures; timers fire; the explorer
  catches up with the chain.
- `SendForm`: timers fire; name lookups, estimates and signing end; a simulation
  may never answer, which its clock covers.  `RetriesSucceed`: the refresh on
  Tron goes on, and an estimate tried again and again succeeds once.
- `SignFlow`: a device call ends or times out, a push and its signal arrive, a
  hot key signs.  A person at a QR exchange need not.
- `QrExchange`: threads and event loop go on; the shuffle and the rateless parts
  are random, so a fragment that can again and again be put where the device
  looks gets there (strong fairness of `Lucky` and `Mixed`); the camera is held
  to the device and its user approves.


## 6. Proofs

Every theorem is checked by TLAPS to the last leaf.  The only assumptions are the
named ASSUMEs of the modules, which say what kind of value each constant is, and
one hypothesis that a theorem states itself, `EchoesId` in `SignatureAnswers`.
Every invariant named here was checked by TLC on the run's instance before it was
proved.  A proof of an invariant has one lemma per action, an `Init` lemma and a
`Next` lemma.

`BalanceLedgerProofs`.  `IInv` is `TypeOK`, `SettledRowsAreExact`,
`NativeFloorEarned` and `ForkFloorCoversCredits`: exactness is what makes the
stale tests mean anything (the stamp of a settled key is the newest height it
shows, so a read that passes the test is at least as new).  One lemma per writer
(`ApplyRead`, `ApplyFloor`, `ApplyNative`, `ResetChain`) says what it does to one
key; each action's step cites them.  The action properties follow from `IInv` in
the first state, and the refinement from both: a key keeps, advances, credits or
forgets according to the writer.

The same module carries the discovery pipelines (`TokenDiscovery`), whatever call
or chunk fails.  `DiscoveryInv` adds to `IInv` what a pipeline carries from its
read to its merge (`Mergeable`): an amount whose chunk told its height is of that
height, with no receipt on top; and the receipts of an amount carried forward are
covered by the fork floor (`Covered`).  `MergedKey` then does for the merge what
`ReadStep` does for a live read: a key of the view keeps what it shows, takes a
height no older than its stamp, is forgotten, or takes an amount without a height,
after which it is not settled.  `ShownForward` reads off that only the last can
take a token on screen back.

`HistoryProofs`.  Pending rows: `IInv` adds to the types what is in the file is in memory
once the history is loaded (`Kept`), a noted receipt is in `_confirmed_seen`
(`NotedAreSeen`), and only spent nonces have an age (`SpentInOrder`).
`DropsTakeTime` needs two bounds on the age of a spent nonce: `ReadingsAreYoung`
from above (a reading that missed the receipt of a mined transaction was made less
than `Lag` after the nonce was spent, unless the ws answered with an error) and
`CountsTakeTime` from below (a count of n readings took (n - 1) * `Spacing`).  When
the last reading is believed both hold of one nonce, for every `Lag`, `Delay` and
spacing.  That a mined transaction is never dropped follows only where receipts lag
less than that; the code's own comment says they need not (section 7), so
`DroppedIsReplaced` is left to the run, whose constants say when it holds.

The same module proves `TableStaysHead` of `TxHistory`.  `HistoryInv` says that
what is held of a chain are its mined nonces and the wallet's own next one, that
the open tab's table is of the selected view, and that a table is never of a
history that is on disk and not in memory.  The lemmas on ranks (`NewestRanks`,
`NewestUnion`) give what a head does when rows above all of its history go on
top, rows below all of it to the end, or the next window is revealed
(`HeadGrows`, `HeadStays`, `HeadAppends`, `HeadReveals`).  `PageIsWhole` says that
a page leaves out no nonce between two of its own; hence one that brings rows both
above and below a history without holes holds all of that history, which is then
no longer than a page (`PageCovers`): the assumption `PageSize <= Window` (100 and
200 in the code) is what lets older rows be appended only where everything is
shown.  The first statement, which allowed holes only, was false beyond the run's
bound on moves; the attempt to prove it found the closed tab (section 7).

`PagingEndsAtFirst` needs `WalksReach` beside it: a walk's cursor is at or above
the first sent block the explorer showed when the walk began (`Reaches`), or that
transaction is held.  A page that does not bring it is full and lies above it
(`PageReaches`), so neither a short page nor a full history can end the walk, and
the cursor stays above (`WalkGoesOn`).  Each worker carries `begun`, what the
explorer showed at the beginning of its walk, because a page asked later may be
below a transaction that was indexed meanwhile; it is 0 where the walk was carried
to another chain, which is where the statement fails (section 7).  Blocks hold one
transaction of the account, so a block heavier than a page, where a cursor may
stay and the walk end, is not modelled.

`TabProofs`.  Activity: `ActivityIsKept` is inductive with the types, because
every writer goes through one merge that gives the saved and the shown activity
the same coins; the lemma `KeepKeeps` says so for any set of fresh activities.
Approvals: `OwnInv` says that every worker, cache and dialog carries what is of
its account's chain, and that a cursor that counts is of a block there is.
`ScanCovers` follows a pair from a scan's candidates through its queued signals
into the panel: together they cover the scan's cursor, and what was read as zero
is zero or was approved above the cursor since, so pruning it leaves the panel
covering the cursor that is saved.  The first attempt at this proof failed on
states the run's bounds had hidden, where a pair is approved again while a
reconcile's zero is under way; the property now says what the code keeps
(`outrun` names the rows lost that way), the run has the instance, and section 7
the two ways the cursor still passes an approval.

`VerifiedReadsProofs`.  `NoOrphan` is inductive: a process is registered before
its owner lets go of the lock.  `PreviewSeesFloor` needs `FloorReached` (the head
of a process whose floor was compared is at least the floor, for as long as that
process is forked) and `CheckedLate` (only the two stages after the comparison
carry its result).  `OnlyTheWedgedIsReplaced`, which no run checks, follows from
`_ensure_sidecar`'s own conditions (`SuccessorStays`).

`SignFlowProofs`.  `SequentialNoncesDiffer` compares two attempts of any two
dialogs, so the invariant follows an attempt from Confirm to the history:
`Unopened` and `OneEstimate` (a closed dialog owes nothing; one estimate counts),
`ConfirmWaits` and `Alone` (one attempt at a time, unless a QR code's dialog is
enabled again), `Held` (the nonce of an attempt is at least the floor it was
finalised against), `Recorded` (what was sent is in the history by the time its
attempt is over), `Cancelled` and `Distinct`.

`WalletProofs`.  Accounts: a config is sound in memory, in the file and in every
snapshot a thread still has to write (`AllSound`), so a crash may load any of
them; snapshots have different numbers (`Numbered`) and the newest is what memory
holds unless a save is under way (`NewestIsCurrent`), which gives
`QuietMeansSaved` whatever order the two threads write in.  Devices: the job in
front of the queue has had its session opened and its owner compared
(`JobInFront`); a job the caller heard of is the one it asked for (`Heard`); the
rows of a scan follow the fingerprint it began with (`OfNodes`), and so do the
trees built from them (`Trees`).

`EnsProofs`.  Names: every owner under way is what the chain said at the block its
aggregate ran at, every record at its read's block (`ReadsTrue`); outside the rows
of `apart` no stamp is behind what was seen, and no owner on display older than one
that was (`Sound`); a record the user wrote is shown as of its block or a later one
(`Written`); a name is only denied if some block's owner was another.  With
`~MorePins` a read is one aggregate and `apart` stays empty, which gives
`RowNeverPaintedBack` without exception.  `RememberedStays` rests on the listings:
what a source, the file or the cache returns is the account's in some block.
Writes: what is signed is what the composer noted, a mined transaction did what
its callback shows (`Mined`), and roles, records and expiry on display are those
of their block (`WritesInv`).

`RequestProofs`.  Proxy: a host's mark is the time its last exchange was posted,
and that exchange failed (`MarkIsLast`).  Send dialog: every row shown is of the
fields or of nothing, an answer to a name is kept for the typed name only
(`RowsAgree`), and the preview is of `simKey` (`PreviewAgrees`).  Exchange: slots
held, frames queued and the frame being encoded never exceed `PreparedFrames`
(the queue has room whenever a slot is taken), and a camera is wanted for the
dialog on the screen only (`CameraHeld`).  `SignatureAnswers` assumes `EchoesId`:
that the device returns the request's id is its protocol, not this program.

The same module follows the events of `RpcServer` to a dapp that chose its chain.
`TasksWalk` says that a task visits sockets, and a socket's subscriptions, in the
order they came; `QueuesHold` that a task waits exactly once, at the lock of the
socket it sends to.  `Unbroken` says that the own events of a dapp without a gap hold no
subscription that has ended.  `NoOvertaking` compares two events of one dapp, two
of its own where there is no gap, or the wallet's and one of its own: wherever the
older still goes, the newer comes after it, either at a later socket, at a later
subscription, or behind it in the same queue.  `LatestTells` then says of a dapp
without a gap that it was last told its pin or its latest event still owes it, and
when nothing is on its way nothing is owed.  Sockets close and subscriptions end
at any time, and `NoOvertaking` goes on to hold of everybody else's events.
The subscriptions are kept as a set with arrival numbers, the order
in which Python walks its dicts.

Only model-checked.  Liveness: TLAPS has no rule for ENABLED, so
`GuardIsReleased`, `PendingSettles`, `SendsAreNoticed`, `FeeBecomesKnown`,
`AddressIsPreviewed`, `SentIsRecorded`, `SigningEnds` and `ExchangeEnds` stay
with TLC, and so does `DroppedIsReplaced`, which depends on how long receipts
lag.  Every other property of a run is proved.

## 7. Statements of the code that the models refute

Each entry of "findings" in `PROJECT.json` quotes a comment, docstring or test,
the line that does otherwise, and how to reproduce it: add the named property to
the named MC module's configuration.  The properties are defined in the modules
and no passing run checks them.  The ones that reach the user:

- A token whose read failed is written back as it was cached, over a receipt or
  ws read that landed meanwhile (`CarriedNeverRegresses`), and one that was answered
  by a chunk that did not tell its height as it was read
  (`HeightlessNeverRegresses`; both with `SPECIFICATION MCLiveSpec`); a failed
  discovery read sets the native amount (`FailedReadKeepsBalances`).
- After a reconnection a receipt is credited to an amount that contains it, until
  the next read (`CreditsOnlyOlderAmounts`; use `ReconnectSpec`).
- With receipts 30 s late three readings drop a mined transaction
  (`DroppedIsReplaced` with `Lag = 3`).  A pending row of an account that is not
  opened after a restart is not probed (`RestartResumes`), and a page that brings
  the mined row first leaves a confirmation's listener waiting (`ListenerIsTold`).
- A page asked for while the Transactions tab is closed lands in the table of the
  view shown before, and a page that fills a hole puts rows out of order
  (`TableIsHead`; the first with `MaxMoves = 4` and ledgers on both chains).
- A walk for one chain that goes on while another is selected asks the other one,
  below a block of the first, and may mark it exhausted (`CarriedEndsAtFirst`).
- Two dialogs confirmed before either is recorded share a nonce
  (`NoncesDiffer`); an estimate that lands while a QR code is signed enables a
  second Confirm (`SentIsRecorded` with a QR signer).
- A host that times out never gets its cooldown (`FailedHostIsLeftAlone`); a
  switch without an origin is told to every dapp (`EveryoneHears`).  When a
  subscription ends, or its socket closes, while an older `chainChanged` waits
  there, a newer one overtakes it at the dapp's other sockets, and the dapp is told
  the older chain last (`PinnedAlwaysHears`).
- A watched address imported as a hot wallet cannot sign (`ImportedIsUsable`).
- A saved cursor passes an approval that is not listed (`CursorPassesNothing`):
  its read failed in a completed scan (`MCReadFails`), a reconcile saved the
  cursor of a stopped scan (`MCStopped`), or a reconcile's zero was read before
  the spender was approved again (`MCCalm`).
- A wallet of many names is read in several aggregates that share the block of the
  first: an owner from a later one that lags is painted over a newer one, also over
  the user's own confirmed write (`RowNeverPaintedBack`).
- A proof that lags the fast read earns no tick (`ProofEarnsBadge`); names found
  this session may be erased (`SavedStays`); a name owned again stays hidden
  (`OwnedIsListed`); a written custom record may be painted back
  (`AnyRecordStays`).
- A cancelled QR exchange may still return its signature
  (`CancelReturnsNothing`).

## 8. Not modelled

Token discovery: prices, risk, names and icons; `show_all` and a merge before
the token lists are loaded; the sweep and reconcile timers (a re-read may come
at any time, which includes theirs). Histories: re-broadcast counters, the
explorers' formats, their cursor and back-off, export. With `WsErrors = TRUE`
the ws endpoint may answer a receipt request with an error, which `_rpc` takes
for "no receipt": `DroppedIsReplaced` is then false however it is calibrated,
while `DropsTakeTime` says what is left. The native amount is ordered by its
batch's minimum height, so an older read may replace a fresher one;
`docs/race-audit.md` accepts this and no property forbids it.

Composer and signing: fee and token arithmetic, typed-data decoding, key
derivation, QR encoding and image decoding, the USB exchange and PIN entry, idle
close. RPC: permissions, origin checks, account methods, start and stop. Store:
labels, window settings, migrations. Approvals: an allowance read from a backend
that lags the scan. ENS: the app's own window with commit and reveal, price and
expiry formatting; the calls of one name, six at most, count as one read
although two aggregates may share them, the reads of its resolver come with it,
and a record read is one aggregate (it is, below a hundred keys). Light client:
proofs, the fork of the EVM, the unverified path, `_stop_all` and a process
spawned after it listed those to stop. Tron: its transactions as such. ABI
decoding, token lists, pricing, risk, single instance, window and icons are not
modelled at all: they compute, format or do I/O on inputs the models choose
freely.

## 9. Plan

What is left: `OwnedIsListed` and the other refuted statements of section 7.  Once
the code is changed, their properties belong in the runs and their proofs beside
the others.  A block heavier than a page, in `TxHistory`, would need blocks of
several transactions.

Liveness stays with TLC.

## 10. Checking

    tlc -workers 2 -config MCBalanceLedger.cfg MCBalanceLedger
    tlapm BalanceLedgerProofs.tla

Each run takes one to three minutes with two workers.  `EnsProofs`,
`WalletProofs` and `RequestProofs` are the longest proofs; the others take a few
minutes each.
