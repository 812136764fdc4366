--------------------------- MODULE TokenDiscovery ---------------------------
(***************************************************************************)
(* The discovery pipeline of the Tokens plugin (TokensPlugin._refresh and  *)
(* _on_combined_ready in qeth/plugins/tokens/__init__.py) running against  *)
(* the live writers of BalanceLedger.  A pipeline lists the account's      *)
(* tokens, reads their balances, then waits for the risk and price legs;   *)
(* what it read is merged into the cache when those come back, however     *)
(* much has been written in the meantime.                                  *)
(***************************************************************************)
EXTENDS BalanceLedger

CONSTANT Pipelines   \* slots for pipelines in flight at the same time

VARIABLES
    displayed,  \* _displayed_view as a set: {} while it is None
    guarded,    \* _discovery_in_flight
    filtered,   \* keys the dust and spam filter keeps out of the view
    pv,         \* pv[p]: what pipeline p carries from stage to stage
    readsMayFail  \* a token's balanceOf, or the whole multicall, may fail: of
                  \* the endpoint, the same all through the session

discoveryVars == <<displayed, guarded, filtered, pv>>
allVars == <<vars, discoveryVars, readsMayFail>>

----------------------------------------------------------------------------
(* The stages of a pipeline.  An amount is a height and the credits on top  *)
(* of it, as in the cache; a failed read carries no amounts to be merged.   *)

Idle == [stage |-> "idle"]
Listing(w) == [stage |-> "listing", view |-> w]

\* explorer: the native amount the explorer read (None: the zero that stands
\* for no answer); queried: the contracts the multicall covers; named: those
\* of them the explorer also described.
Reading(w, explorer, queried, named) ==
    [stage |-> "reading", view |-> w, explorer |-> explorer,
     queried |-> queried, named |-> named]

\* amounts[t] is what will be merged for t; order (blocks) has the height of the
\* chunk of each token that was read, None when the chunk told none, and no
\* entry for an amount carried forward from the cache.  meta: the tokens whose
\* metadata was at hand when the balances came back.
Pricing(w, native, told, block, failed, amounts, order, meta) ==
    [stage |-> "pricing", view |-> w, native |-> native, told |-> told,
     block |-> block, failed |-> failed, amounts |-> amounts, order |-> order,
     meta |-> meta]

Running(p) == pv[p].stage # "idle"

TokensOf(ks) == {TokenOf(k) : k \in ks}
RowsOf(w) == {k \in rows : WalletOf(k) = w}

\* _carry_forward_absent: the queried tokens whose read failed keep the amount
\* the cache shows now.
CarriedForward(w, missing) ==
    {k \in RowsOf(w) : TokenOf(k) \in missing /\ (credits[k] # {} \/ base[k] \notin empty[k])}

----------------------------------------------------------------------------
(* The Qt slots that start and steer pipelines. *)

StartPipeline(w) ==
    \E p \in Pipelines : ~Running(p) /\ pv' = [pv EXCEPT ![p] = Listing(w)]

\* _refresh of the selected account: the view is displayed, and a pipeline
\* started unless one is in flight for it.  (The read that also goes out for a
\* new view comes back as an OnHttpRead.)
Refresh(w) ==
    /\ displayed' = {w}
    /\ guarded' = guarded \cup {w}
    /\ IF w \in guarded THEN UNCHANGED pv ELSE StartPipeline(w)
    /\ UNCHANGED <<vars, filtered>>

\* _invalidate_view_and_refresh: the guards are cleared, so the refresh starts
\* a pipeline beside those already running.
InvalidateAndRefresh(w) ==
    /\ displayed' = {w}
    /\ guarded' = {w}
    /\ StartPipeline(w)
    /\ UNCHANGED <<vars, filtered>>

\* The selection is dropped.
LeaveView ==
    /\ displayed # {}
    /\ displayed' = {}
    /\ UNCHANGED <<vars, guarded, filtered, pv>>

\* A price or a pin changes what _compute_visible_tokens lets through.
FilterChanges(k) ==
    /\ filtered' = (filtered \ {k}) \cup ({k} \ filtered)
    /\ UNCHANGED <<vars, displayed, guarded, pv>>

----------------------------------------------------------------------------
(* The callbacks of a pipeline's workers. *)

\* on_discovered: the explorer answered, or failed (on_failed calls
\* on_discovered(0, [])).  The multicall covers what it listed (named), the
\* account's own cached holdings and any other contract (pins, siblings, top
\* tokens, receipts: others).
OnDiscovered(p, explorer, named, others) ==
    /\ pv[p].stage = "listing"
    /\ explorer = None => named = {}
    /\ LET w == pv[p].view IN
       pv' = [pv EXCEPT ![p] =
                Reading(w, explorer, named \cup others \cup TokensOf(RowsOf(w)), named)]
    /\ UNCHANGED <<vars, displayed, guarded, filtered>>

\* build_metadata
Metadata(w, named) == named \cup {t \in Tokens : Known(<<w, t>>)}

\* on_balances: every token read has an amount at the height of its chunk; one
\* whose call failed is carried forward from the cache as it is now.
OnBalances(p, rd) ==
    LET v == pv[p] IN
    /\ v.stage = "reading"
    /\ Coherent(rd)
    /\ rd.tokens \subseteq v.queried
    /\ LET w == v.view
           carried == TokensOf(CarriedForward(w, v.queried \ rd.tokens))
           have == rd.tokens \cup carried
       IN  pv' = [pv EXCEPT ![p] =
             Pricing(w, rd.native, rd.told, rd.block, FALSE,
                     [t \in have |->
                        IF t \in rd.tokens THEN [base |-> rd.at[t], credits |-> {}]
                        ELSE [base |-> base[<<w, t>>], credits |-> credits[<<w, t>>]]],
                     [t \in rd.tokens |-> rd.order[t]],
                     Metadata(w, v.named))]
    /\ UNCHANGED <<vars, displayed, guarded, filtered>>

\* on_balances_fail: the native amount is the explorer's, and nothing has a
\* height; the amounts it collects are never merged.
OnBalancesFail(p) ==
    LET v == pv[p] IN
    /\ v.stage = "reading"
    /\ pv' = [pv EXCEPT ![p] =
                Pricing(v.view, v.explorer, None, None, TRUE, <<>>, <<>>, {})]
    /\ UNCHANGED <<vars, displayed, guarded, filtered>>

----------------------------------------------------------------------------
(* _on_combined_ready: the merge.  v is what the pipeline carries. *)

Amount(k, v) == v.amounts[TokenOf(k)]

\* blocks.get(cl)
OrderOf(k, v) == IF TokenOf(k) \in DOMAIN v.order THEN v.order[TokenOf(k)] ELSE None

\* Slip: the merge does not look at the stamps.
MergedAnyway(v) ==
    {k \in Keys : WalletOf(k) = v.view /\ ~v.failed /\ TokenOf(k) \in DOMAIN v.amounts}

\* The keys whose amount the merge applies.
Merged(v) ==
    {k \in Keys : /\ WalletOf(k) = v.view
                  /\ ~v.failed
                  /\ TokenOf(k) \in DOMAIN v.amounts
                  /\ ~TokenStale(k, OrderOf(k, v))}

MergeStamped(v) == {k \in Merged(v) : OrderOf(k, v) # None}

\* Those it changes to an amount that has no height: what they show no longer
\* comes from an ordered read.
MergedUnordered(v) ==
    {k \in Merged(v) : /\ OrderOf(k, v) = None
                       /\ k \in rows => Amount(k, v) # [base |-> base[k], credits |-> credits[k]]}

Emptied(v) ==
    {k \in Merged(v) : Amount(k, v).credits = {} /\ Amount(k, v).base \in empty[k]}

\* A token is rendered from its metadata, or from its cached row.
Shown(v) ==
    {k \in Merged(v) \ Emptied(v) : k \in rows \/ TokenOf(k) \in v.meta}

\* The rows saved: the cached ones and the merged ones that pass the filter.
SavedRows(v) ==
    {k \in (rows \ Emptied(v)) \cup Shown(v) :
        WalletOf(k) = v.view => k \notin filtered}

MergeNative(v) ==
    LET w == v.view
        stale == NativeStale(w, v.block)
    IN  /\ native_block' = IF stale \/ v.block = None THEN native_block
                           ELSE [native_block EXCEPT ![w] = v.block]
        /\ IF stale /\ w \in cached THEN UNCHANGED <<nativeAt, nativePaired>>
           ELSE /\ nativeAt' = [nativeAt EXCEPT ![w] = v.native]
                /\ nativePaired' = IF v.told # None THEN nativePaired \cup {w}
                                   ELSE nativePaired \ {w}

MergeTokens(v) ==
    LET saved == SavedRows(v)
        shown == Shown(v) \cap saved
        hidden == {k \in Keys : WalletOf(k) = v.view /\ k \notin Emptied(v)} \ saved
    IN  /\ rows' = saved
        /\ base' = [k \in Keys |-> IF k \in shown THEN Amount(k, v).base ELSE base[k]]
        /\ credits' = [k \in Keys |->
                         IF k \notin saved THEN {}
                         ELSE IF k \in shown THEN Amount(k, v).credits
                         ELSE credits[k]]
        /\ balance_block' = [k \in Keys |->
                               IF k \in MergeStamped(v) THEN OrderOf(k, v)
                               ELSE balance_block[k]]
        /\ readAt' = [k \in Keys |->
                        IF k \in hidden
                        THEN IF k \in rows \cup MergeStamped(v) THEN None
                             ELSE readAt[k]
                        ELSE IF k \in MergeStamped(v) THEN OrderOf(k, v)
                        ELSE IF k \in MergedUnordered(v) THEN None
                        ELSE readAt[k]]

\* Slip: a result that is dropped keeps its view guarded.
OnCombinedReadyLeak(p) ==
    LET v == pv[p] IN
    /\ v.stage = "pricing"
    /\ pv' = [pv EXCEPT ![p] = Idle]
    /\ IF v.view \in displayed
       THEN /\ MergeNative(v)
            /\ MergeTokens(v)
            /\ cached' = cached \cup {v.view}
            /\ guarded' = guarded \ {v.view}
            /\ UNCHANGED <<chainVars, live, transfer_block>>
       ELSE UNCHANGED <<vars, guarded>>
    /\ UNCHANGED <<displayed, filtered>>

\* The merge lands on the view it was started for, and is dropped elsewhere.
OnCombinedReady(p) ==
    LET v == pv[p] IN
    /\ v.stage = "pricing"
    /\ guarded' = guarded \ {v.view}
    /\ pv' = [pv EXCEPT ![p] = Idle]
    /\ IF v.view \in displayed
       THEN /\ MergeNative(v)
            /\ MergeTokens(v)
            /\ cached' = cached \cup {v.view}
            /\ UNCHANGED <<chainVars, live, transfer_block>>
       ELSE UNCHANGED vars
    /\ UNCHANGED <<displayed, filtered>>

----------------------------------------------------------------------------
DiscoveryInit ==
    /\ Init
    /\ displayed = {}
    /\ guarded = {}
    /\ filtered = {}
    /\ pv = [p \in Pipelines |-> Idle]
    /\ readsMayFail \in BOOLEAN

\* A chunk runs at one height, c[1], which it tells (c[2]) unless its
\* getBlockNumber failed.
Chunks(top) == {c \in (0..top) \X (0..top \cup {None}) : c[2] \in {c[1], None}}

\* A multicall of which no call failed.  The native amount is the first call,
\* in a chunk it shares with tokens if there are any (first), and the batch is
\* as low as the lowest chunk that told its height (lowest).
FullReads(ts, top) ==
    IF ts = {}
    THEN {[tokens |-> {}, at |-> <<>>, order |-> <<>>,
           native |-> c[1], told |-> c[2], block |-> c[2]] : c \in Chunks(top)}
    ELSE {[tokens |-> ts, at |-> [t \in ts |-> c[t][1]], order |-> [t \in ts |-> c[t][2]],
           native |-> c[first][1], told |-> c[first][2], block |-> c[lowest][2]] :
             c \in [ts -> Chunks(top)], first, lowest \in ts}

\* What a multicall of ts may answer: all of it unless reads may fail.
Answers(ts, top) ==
    {rd \in IF readsMayFail THEN HttpReads(top) ELSE FullReads(ts, top) :
        rd.tokens \subseteq ts /\ Coherent(rd)}

\* What the explorer may say of the native amount: it only matters when the
\* multicall fails.
ExplorerNatives(c) == IF readsMayFail THEN Seen(c) \cup {None} ELSE {0}

\* The live writers that race with a pipeline: ws events and polls pinned at
\* their block, http reads, receipts, reconnections (BalanceLedger has all).
LiveStep ==
    /\ UNCHANGED discoveryVars
    /\ \/ \E c \in Chains : NewBlock(c) \/ OnLinkUp(c) \/ OnLinkDown(c)
       \/ \E w \in Wallets : LET c == ChainOf(w) IN
             \/ \E t \in Tokens, block \in Seen(c) : OnBalanceDirty(w, t, block, block)
             \/ \E rd \in Answers(Tokens, head[c]) : OnHttpRead(w, rd)
             \/ w \in displayed /\ \E block \in Seen(c) : OnNativeBalance(w, block, block)
       \/ \E c \in Chains, t \in Tokens : LearnMetadata(c, t)
       \/ \E k \in Keys : \E block \in 1..head[ChainOf(WalletOf(k))] :
             NoteReceiptLogs({k}, {k}, block)

\* The next callback of a pipeline that runs.
PipelineStep(p) ==
    /\ Running(p)
    /\ LET c == ChainOf(pv[p].view) IN
       \/ /\ pv[p].stage = "listing"
          /\ \E explorer \in ExplorerNatives(c), named, others \in SUBSET Tokens :
                OnDiscovered(p, explorer, named, others)
       \/ /\ pv[p].stage = "reading"
          /\ \E rd \in Answers(pv[p].queried, head[c]) : OnBalances(p, rd)
       \/ readsMayFail /\ OnBalancesFail(p)
       \/ OnCombinedReady(p)

\* The view and its pipelines, with the user moving between accounts.
ViewStep ==
    \/ \E w \in Wallets : Refresh(w) \/ InvalidateAndRefresh(w)
    \/ LeaveView
    \/ \E p \in Pipelines : PipelineStep(p)

DiscoveryNext ==
    /\ UNCHANGED readsMayFail
    /\ LiveStep \/ ViewStep \/ \E k \in Keys : FilterChanges(k)

DiscoverySpec == DiscoveryInit /\ [][DiscoveryNext]_allVars

\* Every worker of a pipeline ends, in an answer or in a failure, and its
\* signal is delivered: a pipeline that runs always moves on.  (Weak fairness
\* of PipelineStep(p), which a running pipeline can always take.)
PipelinesEnd == \A p \in Pipelines : []<>~Running(p) \/ []<><<Running(p)>>_(pv[p])

----------------------------------------------------------------------------
(* Properties *)

\* The pipelines that land in this step and whose amount for k is merged.
Landing(k) ==
    {p \in Pipelines : /\ pv[p].stage = "pricing" /\ pv'[p].stage = "idle"
                       /\ k \in Merged(pv[p])}

\* ... an amount read in a chunk that did not tell its height,
LandsHeightless(k) ==
    \E p \in Landing(k) : /\ TokenOf(k) \in DOMAIN pv[p].order
                          /\ OrderOf(k, pv[p]) = None

\* ... or one that was not read, but carried forward from the cache.
LandsCarried(k) == \E p \in Landing(k) : TokenOf(k) \notin DOMAIN pv[p].order

\* A settled key, shown or dropped at zero, comes to show an older amount.
Regresses(k) ==
    /\ k \in rows'
    /\ readAt[k] # None /\ base'[k] # None
    /\ base'[k] < Version(k)

\* An amount that tells its height never takes the screen back behind a read
\* that was ordered: a merge whose balances are seconds old never replaces what
\* a ws event or a later read wrote in between, nor brings back a token they
\* dropped ("a read older than the block we last recorded for a token is
\* ignored", tokens/__init__.py:1879-1880).  Only the amounts a pipeline lands
\* without a height may, and then nothing is claimed of the key until its next
\* ordered read.
ShownNeverRegresses ==
    [][\A k \in Keys : Regresses(k) => LandsHeightless(k) \/ LandsCarried(k)]_allVars

\* ... which what was answered never does.  Refuted: the chunk answered and its
\* getBlockNumber failed, so nothing is stale about it and the merge takes it
\* over a stamped token, which apply_read would not.
HeightlessNeverRegresses ==
    [][\A k \in Keys : Regresses(k) => ~LandsHeightless(k)]_allVars

\* ... nor what is carried forward from the cache.  Refuted: it has no height,
\* so the merge takes it over anything written since (_carry_forward_absent).
CarriedNeverRegresses ==
    [][\A k \in Keys : Regresses(k) => ~LandsCarried(k)]_allVars

\* A discovery whose multicall failed leaves the cached amounts alone: "a failed
\* multicall (block is None) applies NO balances - it just refreshes prices over
\* the preserved cache" (tokens/__init__.py:1882-1883).
FailedReadKeepsBalances ==
    [][\A p \in Pipelines : LET v == pv[p] IN
         (v.stage = "pricing" /\ pv'[p].stage = "idle" /\ v.failed) =>
            /\ v.view \in cached => nativeAt'[v.view] = nativeAt[v.view]
            /\ \A k \in rows' : k \in rows /\ base'[k] = base[k] /\ credits'[k] = credits[k]]_allVars

\* Discovering a view again is never blocked for good: a view that is marked
\* as being discovered is released, whether its pipeline lands, is superseded
\* or is dropped because the user went elsewhere (_discovery_in_flight).
GuardIsReleased == \A w \in Wallets : w \in guarded ~> w \notin guarded
=============================================================================
