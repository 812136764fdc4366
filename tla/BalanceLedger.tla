--------------------------- MODULE BalanceLedger ---------------------------
(***************************************************************************)
(* The block-ordered balance writer of the Tokens plugin                   *)
(* (qeth/plugins/tokens/balance_ledger.py) together with the Qt slots of   *)
(* qeth/plugins/tokens/__init__.py that write through it: the ws Transfer  *)
(* event, the http re-read, the receipt credit, the ws native poll and the *)
(* ws link state.  Every slot runs on the GUI thread, so each is one       *)
(* action; the concurrency is in what reaches them: results of reads made  *)
(* by backends at different heights, in any order, any number of times.    *)
(*                                                                         *)
(* A balance is represented by where it comes from: the height of the      *)
(* chain it was read at, plus the blocks of the receipts credited on top.  *)
(* The only fact kept of the amount itself is whether it is zero, because  *)
(* that is what the code branches on.                                      *)
(***************************************************************************)
EXTENDS Integers

CONSTANTS
    Chains,     \* chain ids
    Accounts,   \* the user's own addresses (lower case)
    Tokens,     \* ERC-20 contracts (lower case)
    MaxBlock    \* bound on the chains' heads, for model checking

ASSUME MaxBlockAssumption == MaxBlock \in Nat \ {0}

Heights == 0..MaxBlock

\* Python's None: a read without a height, a key absent from a dict.
None == -1

Wallets == Chains \X Accounts      \* (chain_id, account): one cache file
Keys == Wallets \X Tokens          \* (chain_id, account, token)

ChainOf(w) == w[1]
WalletOf(k) == k[1]
TokenOf(k) == k[2]

VARIABLES
    (* the chains, and what is known about the tokens *)
    head,           \* head[c]: height of chain c
    empty,          \* empty[k]: the heights at which the balance of k is zero
    known,          \* <<c, t>>: metadata or a curated list entry exists for t
    live,           \* _ws_live_chains
    (* the wallet cache (wallet_cache.py) *)
    cached,         \* wallets that have a cache file
    rows,           \* tokens that have a row in their wallet's file
    base,           \* base[k]: height of the read the row's amount comes from
    credits,        \* credits[k]: blocks of the receipts added on top of it
    nativeAt,       \* nativeAt[w]: height of the read native_balance_wei is from
    nativePaired,   \* wallets whose native amount was read with its own height
    (* the ledger *)
    balance_block, native_block, transfer_block,
    (* history: the height of the ordered read a key's row reflects, None    *)
    (* when the row does not come from one since the last reset              *)
    readAt

chainVars == <<head, empty, known>>
cacheVars == <<cached, rows, base, credits, nativeAt, nativePaired>>
ledgerVars == <<balance_block, native_block, transfer_block>>
vars == <<chainVars, live, cacheVars, ledgerVars, readAt>>

----------------------------------------------------------------------------
(* The ordering primitives.  A definition marked as a slip is not the code:  *)
(* it is a mistake the properties are shown to tell from the code.           *)

\* dict.get(key, 0) on a map of heights.
OrZero(stamp) == IF stamp = None THEN 0 ELSE stamp

Highest(a, b) == IF a >= b THEN a ELSE b

Known(k) == <<ChainOf(WalletOf(k)), TokenOf(k)>> \in known

\* Slip: a stamp one block ahead no longer orders the read out.
TokenStaleOffByOne(k, block) ==
    block # None /\ block < OrZero(balance_block[k]) - 1

\* is_token_stale: older than the last height recorded for the token.
TokenStale(k, block) == block # None /\ block < OrZero(balance_block[k])

\* Slip: a block-less read is treated like an ordered one.
TokenIgnoredIfStaleOnly(k, block) == TokenStale(k, block)

\* The two `continue`s of apply_read: a stale read, or a block-less one for a
\* token that an ordered read has already settled.
TokenIgnored(k, block) ==
    \/ TokenStale(k, block)
    \/ block = None /\ balance_block[k] # None

\* native_stale.
NativeStale(w, block) == block # None /\ block < OrZero(native_block[w])

\* Slip: only the block-less native is held back.
NativeIgnoredIfUnorderedOnly(w, block) == block = None /\ native_block[w] # None

\* native_stale or native_unordered of apply_read.
NativeIgnored(w, block) ==
    \/ NativeStale(w, block)
    \/ block = None /\ native_block[w] # None

\* Slip: the read at the receipt's own block is forgotten.
FloorPassed(k, block) == OrZero(balance_block[k]) > block

\* apply_floor's early return: a read or credit at this block, or a later
\* one, is already in the row.
FloorReached(k, block) == OrZero(balance_block[k]) >= block

\* Slip: the last block noted instead of the highest.
TransferLast(ws, block) ==
    [w \in Wallets |->
        IF w \in ws /\ block # None THEN block ELSE transfer_block[w]]

\* note_transfer: monotonic, per account.
TransferNoted(ws, block) ==
    [w \in Wallets |->
        IF w \in ws /\ block # None
        THEN Highest(OrZero(transfer_block[w]), block)
        ELSE transfer_block[w]]

----------------------------------------------------------------------------
(* A read that has come back.  native is the height the native amount was   *)
(* read at, block the height the caller orders it by; at[t] is the height   *)
(* token t was read at and order[t] the one apply_read orders it by         *)
(* (`blocks.get(t, block) if blocks else block`).                           *)

\* on_balance_dirty: token and native read over the ws, pinned at the log's
\* block; at `latest` (any height h) when the log carries none.
WsRead(t, block, h) ==
    [tokens |-> {t}, at |-> [u \in {t} |-> h], order |-> [u \in {t} |-> block],
     native |-> h, told |-> block, block |-> block]

\* head_balances through BalanceWorker: every chunk runs at the height of the
\* backend that serves it and reports that height, or fails to; a token whose
\* call failed is absent; block is the minimum over the chunks that reported,
\* so it is no newer than any of them, and None when none reported.  told is
\* the height the chunk of the native amount reported, None when it did not
\* (or when the amount is from the plain eth_getBalance BalanceWorker falls
\* back to), so that `block` says nothing of the native amount's height.
ReadsOf(ts, top) ==
    [tokens: {ts}, at: [ts -> 0..top], order: [ts -> 0..top \cup {None}],
     native: 0..top, told: 0..top \cup {None}, block: 0..top \cup {None}]

HttpReads(top) == UNION {ReadsOf(ts, top) : ts \in SUBSET Tokens}

\* A chunk that reports a height reports its own, and min_block is no newer
\* than any height reported and present if one is.
Coherent(rd) ==
    /\ \A t \in rd.tokens :
          rd.order[t] # None =>
             rd.order[t] = rd.at[t] /\ rd.block # None /\ rd.block <= rd.order[t]
    /\ rd.told # None =>
          rd.told = rd.native /\ rd.block # None /\ rd.block <= rd.told

----------------------------------------------------------------------------
(* BalanceLedger.apply_read: the ordered absolute write. *)

ReadKeys(w, rd) == {k \in Keys : WalletOf(k) = w /\ TokenOf(k) \in rd.tokens}

Applied(w, rd) ==
    {k \in ReadKeys(w, rd) : ~TokenIgnored(k, rd.order[TokenOf(k)])}

\* The applied keys whose read carries a height: these are stamped.
Stamped(w, rd) == {k \in Applied(w, rd) : rd.order[TokenOf(k)] # None}

ReadsZero(k, rd) == rd.at[TokenOf(k)] \in empty[k]

\* Only an authoritative zero drops a row.
Dropped(w, rd) == {k \in Stamped(w, rd) : k \in rows /\ ReadsZero(k, rd)}

\* An amount replaces an existing row, or adds one when the token can be
\* rendered.
Written(w, rd) ==
    {k \in Applied(w, rd) : ~ReadsZero(k, rd) /\ (k \in rows \/ Known(k))}

\* The stamped keys whose row (or absence of one) now says what the read said.
Settled(w, rd) ==
    {k \in Stamped(w, rd) : k \in Written(w, rd) \/ ReadsZero(k, rd)}

ApplyRead(w, rd) ==
    /\ cached' = cached \cup {w}
    /\ IF w \notin cached \/ ~NativeIgnored(w, rd.block)
       THEN /\ nativeAt' = [nativeAt EXCEPT ![w] = rd.native]
            /\ nativePaired' = IF rd.told # None
                               THEN nativePaired \cup {w}
                               ELSE nativePaired \ {w}
       ELSE UNCHANGED <<nativeAt, nativePaired>>
    /\ native_block' = IF rd.block # None /\ ~NativeStale(w, rd.block)
                       THEN [native_block EXCEPT ![w] = rd.block]
                       ELSE native_block
    /\ rows' = (rows \ Dropped(w, rd)) \cup Written(w, rd)
    /\ base' = [k \in Keys |->
                  IF k \in Written(w, rd) THEN rd.at[TokenOf(k)] ELSE base[k]]
    /\ credits' = [k \in Keys |->
                     IF k \in Written(w, rd) \cup Dropped(w, rd) THEN {}
                     ELSE credits[k]]
    /\ balance_block' = [k \in Keys |->
                           IF k \in Stamped(w, rd) THEN rd.order[TokenOf(k)]
                           ELSE balance_block[k]]
    /\ readAt' = [k \in Keys |->
                    IF k \in Settled(w, rd) THEN rd.at[TokenOf(k)]
                    ELSE IF k \in Stamped(w, rd) THEN None
                    ELSE readAt[k]]

----------------------------------------------------------------------------
(* The other three writers of the ledger. *)

\* apply_native, for an amount read at height h and ordered by block.
ApplyNative(w, h, block) ==
    /\ w \in cached
    /\ ~NativeStale(w, block)
    /\ native_block' = IF block # None THEN [native_block EXCEPT ![w] = block]
                       ELSE native_block
    /\ nativeAt' = [nativeAt EXCEPT ![w] = h]
    /\ nativePaired' = IF block # None THEN nativePaired \cup {w}
                       ELSE nativePaired \ {w}

\* Slip: no early return.
CreditedAlways(ks, block) == {k \in ks : k \in rows \/ Known(k)}

\* apply_floor over the credits of one receipt: the keys that are credited.
\* A token with no row and nothing to render it with is skipped unstamped.
Credited(ks, block) ==
    {k \in ks : ~FloorReached(k, block) /\ (k \in rows \/ Known(k))}

ApplyFloor(ks, block) ==
    LET add == Credited(ks, block)
        new == {WalletOf(k) : k \in add} \ cached
    IN  /\ cached' = cached \cup new
        /\ nativeAt' = [w \in Wallets |-> IF w \in new THEN None ELSE nativeAt[w]]
        /\ nativePaired' = nativePaired \ new
        /\ rows' = rows \cup add
        /\ base' = [k \in Keys |-> IF k \in add \ rows THEN None ELSE base[k]]
        /\ credits' = [k \in Keys |->
                         IF k \notin add THEN credits[k]
                         ELSE IF k \in rows THEN credits[k] \cup {block}
                         ELSE {block}]
        /\ balance_block' = [k \in Keys |->
                               IF k \in add
                               THEN Highest(OrZero(balance_block[k]), block)
                               ELSE balance_block[k]]

\* reset_chain: every freshness floor of the chain goes; transfer_block stays.
ResetChain(c) ==
    /\ balance_block' = [k \in Keys |->
                           IF ChainOf(WalletOf(k)) = c THEN None
                           ELSE balance_block[k]]
    /\ native_block' = [w \in Wallets |->
                          IF ChainOf(w) = c THEN None ELSE native_block[w]]
    /\ readAt' = [k \in Keys |->
                    IF ChainOf(WalletOf(k)) = c THEN None ELSE readAt[k]]

----------------------------------------------------------------------------
(* The environment: chains grow, metadata is learnt. *)

NewBlock(c) ==
    /\ head[c] < MaxBlock
    /\ head' = [head EXCEPT ![c] = @ + 1]
    /\ UNCHANGED <<empty, known, live, cacheVars, ledgerVars, readAt>>

\* A metadata multicall or a token list brings the token's symbol and decimals.
LearnMetadata(c, t) ==
    /\ <<c, t>> \notin known
    /\ known' = known \cup {<<c, t>>}
    /\ UNCHANGED <<head, empty, live, cacheVars, ledgerVars, readAt>>

(* The slots of the Tokens plugin. *)

\* on_balance_dirty with the amounts read over the ws.
OnBalanceDirty(w, t, block, h) ==
    /\ block = None \/ h = block
    /\ ApplyRead(w, WsRead(t, block, h))
    /\ transfer_block' = TransferNoted({w}, block)
    /\ UNCHANGED <<chainVars, live>>

\* on_balance_dirty when the ws read failed: only the movement is noted, and
\* an http read of the token is queued.
OnBalanceDirtyUnread(w, block) ==
    /\ transfer_block' = TransferNoted({w}, block)
    /\ UNCHANGED <<chainVars, live, cacheVars, balance_block, native_block, readAt>>

\* _apply_targeted_balances with a BalanceWorker's result: the reconcile of a
\* receipt or of a failed ws read, the periodic reconcile, the refresh of a
\* view.  _on_reconcile_read may first re-read, which changes nothing here.
OnHttpRead(w, rd) ==
    /\ Coherent(rd)
    /\ ApplyRead(w, rd)
    /\ UNCHANGED <<chainVars, live, transfer_block>>

\* on_native_balance for the displayed account.
OnNativeBalance(w, block, h) ==
    /\ block = None \/ h = block
    /\ ApplyNative(w, h, block)
    /\ UNCHANGED <<chainVars, live, cached, rows, base, credits,
                   balance_block, transfer_block, readAt>>

\* note_receipt_logs: the receipt of a transaction mined in `block` whose logs
\* move the keys of `touched` and pay those of `paid`.
NoteReceiptLogs(touched, paid, block) ==
    /\ ApplyFloor(paid, block)
    /\ transfer_block' = TransferNoted({WalletOf(k) : k \in touched}, block)
    /\ UNCHANGED <<chainVars, live, native_block, readAt>>

\* on_ws_link_state: only the step from down to up clears the floors.
OnLinkUp(c) ==
    /\ IF c \notin live THEN ResetChain(c)
       ELSE UNCHANGED <<balance_block, native_block, readAt>>
    /\ live' = live \cup {c}
    /\ UNCHANGED <<chainVars, cacheVars, transfer_block>>

OnLinkDown(c) ==
    /\ live' = live \ {c}
    /\ UNCHANGED <<chainVars, cacheVars, ledgerVars, readAt>>

----------------------------------------------------------------------------
\* The app starts at some height of each chain, with the cache files an
\* earlier session left and no stamps.
Init ==
    /\ head = [c \in Chains |-> 1]
    /\ empty \in [Keys -> SUBSET Heights]
    /\ known \in SUBSET (Chains \X Tokens)
    /\ live = {}
    /\ cached \in SUBSET Wallets
    /\ rows \in SUBSET {k \in Keys : WalletOf(k) \in cached}
    /\ base = [k \in Keys |-> IF k \in rows THEN 0 ELSE None]
    /\ credits = [k \in Keys |-> {}]
    /\ nativeAt = [w \in Wallets |-> IF w \in cached THEN 0 ELSE None]
    /\ nativePaired = {}
    /\ balance_block = [k \in Keys |-> None]
    /\ native_block = [w \in Wallets |-> None]
    /\ transfer_block = [w \in Wallets |-> None]
    /\ readAt = [k \in Keys |-> None]

Seen(c) == 0..head[c]

Next ==
    \/ \E c \in Chains :
          \/ NewBlock(c) \/ OnLinkUp(c) \/ OnLinkDown(c)
          \/ \E t \in Tokens : LearnMetadata(c, t)
    \/ \E w \in Wallets :
          LET c == ChainOf(w) IN
          \/ \E block \in Seen(c) \cup {None}, h \in Seen(c) :
                \/ \E t \in Tokens : OnBalanceDirty(w, t, block, h)
                \/ OnNativeBalance(w, block, h)
          \/ \E block \in Seen(c) : OnBalanceDirtyUnread(w, block)
          \/ \E rd \in HttpReads(head[c]) : OnHttpRead(w, rd)
    \/ \E c \in Chains, touched \in SUBSET Keys :
          /\ touched # {}
          /\ \A k \in touched : ChainOf(WalletOf(k)) = c
          /\ \E paid \in SUBSET touched, block \in 1..head[c] :
                NoteReceiptLogs(touched, paid, block)

Spec == Init /\ [][Next]_vars

----------------------------------------------------------------------------
(* Properties *)

\* Every map keeps heights the chain has reached, or None; a row belongs to a
\* wallet that has a cache file, and a receipt to a row.
TypeOK ==
    /\ head \in [Chains -> 1..MaxBlock]
    /\ empty \in [Keys -> SUBSET Heights]
    /\ known \subseteq Chains \X Tokens
    /\ live \subseteq Chains
    /\ cached \subseteq Wallets
    /\ rows \subseteq Keys
    /\ \A k \in Keys :
          IF k \in rows THEN WalletOf(k) \in cached ELSE credits[k] = {}
    /\ base \in [Keys -> Heights \cup {None}]
    /\ credits \in [Keys -> SUBSET (1..MaxBlock)]
    /\ nativeAt \in [Wallets -> Heights \cup {None}]
    /\ nativePaired \subseteq Wallets
    /\ balance_block \in [Keys -> Heights \cup {None}]
    /\ native_block \in [Wallets -> Heights \cup {None}]
    /\ transfer_block \in [Wallets -> Heights \cup {None}]
    /\ readAt \in [Keys -> Heights \cup {None}]

\* A token an ordered read has settled shows exactly what that read said: its
\* amount (or its absence, the balance being zero there), plus only receipts
\* mined after it, the newest of which is the height the token is stamped at.
\* This is what the stamp promises to every later read, whatever the order in
\* which ws events, http reads and receipts have landed (balance_ledger.py,
\* apply_read and apply_floor).
SettledRowsAreExact ==
    \A k \in Keys : readAt[k] # None =>
        /\ balance_block[k] # None
        /\ k \notin rows => /\ readAt[k] \in empty[k]
                            /\ balance_block[k] = readAt[k]
        /\ k \in rows =>
             /\ base[k] = readAt[k] \/ (base[k] = None /\ readAt[k] \in empty[k])
             /\ base[k] = None => credits[k] # {}
             /\ \A b \in credits[k] : readAt[k] < b /\ b <= balance_block[k]
             /\ balance_block[k] \in credits[k] \cup {readAt[k]}

\* A read at an older block never regresses a fresher one: between two resets
\* the height a token's row reflects only moves forward, and it is only lost
\* when the ws comes back or when a newer read finds an amount it has no
\* metadata to render (balance_ledger.py:7-8).
NeverRegresses ==
    [][\A k \in Keys : readAt[k] # None =>
         \/ readAt'[k] >= readAt[k]
         \/ /\ readAt'[k] = None
            /\ \/ ChainOf(WalletOf(k)) \in live' \ live
               \/ k \notin rows' /\ ~Known(k)]_vars

\* A receipt is never added to a row whose amount comes from an ordered read
\* at or after its block, nor added twice: the credit and the ws read of the
\* same block may land in either order (BalanceLedger.apply_floor).
NoDoubleCredit ==
    [][\A k \in Keys : \A b \in credits'[k] \ credits[k] :
         readAt[k] # None => readAt[k] < b]_vars

\* A row only disappears when an ordered read found it empty: a stale read or
\* one without a height never makes a held token vanish (apply_read).
RowsDropOnlyAtZero ==
    [][\A k \in rows \ rows' : balance_block'[k] \in empty[k]]_vars

\* The height the native balance is ordered by is never newer than the read it
\* came from, when that read told its height: a fresh poll is never rejected
\* against a floor no read earned (head_balances, stamp by the minimum).
NativeFloorEarned ==
    \A w \in Wallets : native_block[w] # None =>
        /\ w \in cached
        /\ w \in nativePaired => native_block[w] <= nativeAt[w]

\* Every credit in the cache is covered by the block the fork floor of a
\* preview must not go below, and a lost ws link does not lose it
\* (note_transfer, reset_chain).
ForkFloorCoversCredits ==
    \A k \in Keys : \A b \in credits[k] : b <= transfer_block[WalletOf(k)]

\* Both floors the ledger keeps are true to what they stand for: the native one
\* to a read, the fork one to the credits.
FloorsHold == NativeFloorEarned /\ ForkFloorCoversCredits

\* A receipt is only added to an amount read before its block, whatever became
\* of the stamps since: "if an authoritative read at or after block has already
\* been applied for this token, the received amount is already in the cached
\* balance - do nothing" (balance_ledger.py:172-175).
CreditsOnlyOlderAmounts ==
    [][\A k \in rows : \A b \in credits'[k] \ credits[k] : base[k] < b]_vars

\* What the row of a key shows, for OrderedBalances: the height its amount is
\* from (a dropped row shows the zero the last read found).
Version(k) ==
    IF readAt[k] # None /\ k \in rows /\ base[k] # None THEN base[k] ELSE readAt[k]

Extra(k) == IF readAt[k] # None THEN credits[k] ELSE {}

Ordered == INSTANCE OrderedBalances WITH
    Assets <- Keys, Blocks <- Heights, Unknown <- None,
    version <- [k \in Keys |-> Version(k)],
    extra <- [k \in Keys |-> Extra(k)]

\* The ledger implements the ordered balances: the amounts in the cache file,
\* not the stamps, only ever move forward between two forgettings.
ImplementsOrderedBalances == Ordered!Spec
=============================================================================
