----------------------------- MODULE TxHistory -----------------------------
(***************************************************************************)
(* The history list of the Transactions tab (TransactionsPlugin and        *)
(* TransactionListPanel in plugins/transactions/__init__.py): one account  *)
(* on several chains, paged from a block explorer whose index trails the   *)
(* chain, merged with what the disk and the wallet's own sends say, and    *)
(* shown a window at a time.                                               *)
(*                                                                         *)
(* A transaction of the account is its nonce; the chain is a sequence of   *)
(* one-transaction blocks, sent or received.  A sorted list without        *)
(* duplicates is its set.  What confirms or drops a pending row is the     *)
(* subject of PendingWatch; here it is mined as it was sent.               *)
(***************************************************************************)
EXTENDS Integers, FiniteSets, SequencesExt

CONSTANTS
    Chains,       \* chains the source supports
    SentOnly,     \* chains whose explorer lists what was sent only (Blockscout)
    Nonceless,    \* chains without nonces (Tron): rows are ordered by time
    Ledgers,      \* what the chains may hold when the session starts
    Disks,        \* and what of it, as a set, may be cached on disk
    PageSize,     \* rows of a page: 100
    Batch,        \* INITIAL_BATCH: 50
    Window,       \* INITIAL_VISIBLE: 200
    MaxBlocks,    \* bound: blocks of the chains together
    MaxFails,     \* bound: failed fetches
    MaxMoves      \* bound: the user's moves between views

None == "none"

ASSUME HistoryAssumption ==
    /\ SentOnly \subseteq Chains /\ Nonceless \subseteq Chains
    /\ None \notin Chains
    /\ {Batch, Window} \subseteq Nat \ {0} /\ PageSize \in 2 .. Window
    /\ \A l \in Ledgers : l \in Seq({"sent", "received"}) /\ Len(l) <= MaxBlocks
    /\ MaxBlocks \in Nat /\ MaxFails \in Nat /\ MaxMoves \in Nat

Absent == {-1}         \* of a key that is not in _cache
NoBound == -1          \* before_block is None

VARIABLES
    ledger,       \* ledger[c]: the account's transactions, oldest first
    indexed,      \* how many of them the explorer shows
    saved,        \* what a run before this one left on disk
    cache,        \* _cache
    pending,      \* nonces whose row has no block yet
    exhausted, inFlight, fetchHold,   \* chains in _exhausted, _in_flight, _fetch_hold
    checking, checkHold,              \* ... in _nonce_in_flight, _nonce_hold
    workers,      \* TransactionsWorkers: [for, chain, walk, before, since, begun]
    count,        \* _displayed_count
    renderedFor,  \* _rendered_for, or None
    rows, note,   \* the table, and the text below it
    chain, selected, active,   \* the host's chain, whether it has an account, the tab
    fails, moves  \* counters of the bounds

worldVars == <<ledger, indexed, saved>>
bookVars == <<exhausted, inFlight, fetchHold, checking, checkHold, workers>>
panelVars == <<count, renderedFor, rows, note>>
viewVars == <<chain, selected, active>>
historyVars == <<worldVars, cache, pending, bookVars, panelVars, viewVars, fails, moves>>

-----------------------------------------------------------------------------
(* The chain and its explorer. *)

\* The blocks up to the n-th that hold what the account sent, the nonces there,
\* and the block of a nonce that is mined.
Sent(c, n) == {b \in 1 .. n : ledger[c][b] = "sent"}
SentCount(c) == Cardinality(Sent(c, Len(ledger[c])))
NonceAt(c, b) == Cardinality(Sent(c, b - 1))
SentIn(c, n) == {NonceAt(c, b) : b \in Sent(c, n)}
BlockOf(c, n) == CHOOSE b \in Sent(c, Len(ledger[c])) : NonceAt(c, b) = n

Above(S, n) == {x \in S : x > n}

\* list_transactions: the newest blocks at or below before, as far as the
\* index went (top).
Raw(c, top, before) ==
    LET listed == {b \in 1 .. top : /\ before = NoBound \/ b <= before
                                    /\ c \in SentOnly => ledger[c][b] = "sent"}
    IN  {b \in listed : Cardinality(Above(listed, b)) < PageSize}

\* The sent_only filter.
SentOf(c, raw) == {NonceAt(c, b) : b \in raw \cap Sent(c, Len(ledger[c]))}

Room == MapThenSumSet(LAMBDA c : Len(ledger[c]), Chains) < MaxBlocks

-----------------------------------------------------------------------------
(* The cache. *)

\* S in its order: merge_txs keeps a history newest first.
Newest(S) ==
    [i \in 1 .. Cardinality(S) |-> CHOOSE n \in S : Cardinality(Above(S, n)) = i - 1]
Top(S) == CHOOSE n \in S : \A x \in S : x <= n
Least(S) == CHOOSE n \in S : \A x \in S : x >= n

Cached(c) == IF cache[c] = Absent THEN {} ELSE cache[c]

\* _hydrated: a history on disk is pinned in memory, an empty one is not.
Hydrated(c) == IF cache[c] = Absent THEN saved[c] ELSE cache[c]
Pinned(c) ==
    IF cache[c] = Absent /\ saved[c] # {} THEN [cache EXCEPT ![c] = saved[c]] ELSE cache

\* _is_full_history
IsFull(c, S) == c \notin Nonceless /\ S # {} /\ S = 0 .. Top(S)

\* _oldest_mined_block
OldestMined(c, S) ==
    LET blocks == {BlockOf(c, n) : n \in S \ pending[c]}
    IN  IF blocks = {} THEN NoBound ELSE Least(blocks)

-----------------------------------------------------------------------------
(* _fetch_page: its worker asks the chain the host shows now.  since is     *)
(* what the explorer showed then, begun what it showed when the walk began, *)
(* and 0 of a walk that was carried to another chain.                       *)

MayFetch(c, inFl, exh, held) == c \notin inFl \cup exh \cup held

Worker(c, walk, before, begun) ==
    [for |-> c, chain |-> chain, walk |-> walk, before |-> before, since |-> indexed[chain],
     begun |-> IF chain = c THEN begun ELSE 0]

-----------------------------------------------------------------------------
(* _refresh *)

\* The view that is rendered: [count, rendered, rows, note].
Rendered(c, opened) ==
    LET have == Pinned(c)[c]
        cap == IF have = Absent THEN 0
               ELSE IF Cardinality(have) < Window THEN Cardinality(have) ELSE Window
    IN  IF renderedFor = c
        THEN [count |-> count, for |-> renderedFor, rows |-> rows, note |-> note]
        ELSE IF have # Absent
        THEN [count |-> [count EXCEPT ![c] = cap], for |-> c,
              rows |-> SubSeq(Newest(have), 1, cap),
              note |-> IF cap = 0 THEN "empty" ELSE None]
        ELSE IF opened
        THEN [count |-> [count EXCEPT ![c] = 0], for |-> c, rows |-> <<>>, note |-> "loading"]
        ELSE [count |-> count, for |-> renderedFor, rows |-> rows, note |-> note]

\* With the host on chain c (the primed chain) and the tab opened or not.
Refresh(c, opened) ==
    LET have == Hydrated(c)
        v == Rendered(c, opened)
        full == IsFull(c, have)
        less == have = {} \/ Cardinality(have) < Batch
        fetch == opened /\ ~full /\ less /\ MayFetch(c, inFlight, exhausted, fetchHold)
    IN  /\ cache' = Pinned(c)
        /\ count' = v.count /\ renderedFor' = v.for /\ rows' = v.rows /\ note' = v.note
        /\ checking' = IF opened THEN checking \cup {c} ELSE checking
        /\ exhausted' = IF opened /\ full THEN exhausted \cup {c} ELSE exhausted
        /\ inFlight' = IF fetch THEN inFlight \cup {c} ELSE inFlight
        /\ workers' =
             IF ~fetch THEN workers
             ELSE workers \cup
                  {[for |-> c, chain |-> c, walk |-> have # {},
                    before |-> OldestMined(c, have),
                    since |-> indexed[c], begun |-> indexed[c]]}
        /\ UNCHANGED <<fetchHold, checkHold>>

Move == moves < MaxMoves /\ moves' = moves + 1 /\ UNCHANGED <<worldVars, pending, fails>>

SelectAccount ==
    /\ Move /\ ~selected /\ selected' = TRUE
    /\ Refresh(chain, active)
    /\ UNCHANGED <<chain, active>>

\* on_account_changed(None)
NoAccount ==
    /\ Move /\ selected /\ selected' = FALSE
    /\ rows' = <<>> /\ note' = None /\ renderedFor' = None
    /\ UNCHANGED <<cache, bookVars, count, chain, active>>

SwitchChain(c) ==
    /\ Move /\ c # chain /\ chain' = c
    /\ IF selected THEN Refresh(c, active)
       ELSE UNCHANGED <<cache, bookVars, panelVars>>
    /\ UNCHANGED <<selected, active>>

OpenTab ==
    /\ Move /\ ~active /\ active' = TRUE
    /\ IF selected THEN Refresh(chain, TRUE)
       ELSE UNCHANGED <<cache, bookVars, panelVars>>
    /\ UNCHANGED <<chain, selected>>

LeaveTab ==
    /\ Move /\ active /\ active' = FALSE
    /\ UNCHANGED <<cache, bookVars, panelVars, chain, selected>>

\* _on_scroll_bottom; a table with fewer rows than a batch does not scroll.
Scroll ==
    /\ active /\ selected /\ Len(rows) >= Batch
    /\ LET c == chain
           all == Newest(Cached(c))
           to == IF count[c] + Window < Len(all) THEN count[c] + Window ELSE Len(all)
       IN  IF count[c] < Len(all)
           THEN /\ rows' = rows \o SubSeq(all, count[c] + 1, to)
                /\ count' = [count EXCEPT ![c] = to] /\ note' = None
                /\ UNCHANGED <<renderedFor, bookVars>>
           ELSE /\ MayFetch(c, inFlight, exhausted, fetchHold)
                /\ inFlight' = inFlight \cup {c}
                /\ workers' = workers \cup {Worker(c, TRUE, OldestMined(c, Cached(c)), indexed[c])}
                /\ UNCHANGED <<panelVars, exhausted, fetchHold, checking, checkHold>>
    /\ UNCHANGED <<worldVars, cache, pending, viewVars, fails, moves>>

-----------------------------------------------------------------------------
(* The page that arrives. *)

\* Slip: a page that adds nothing ends the walk, wherever its cursor went.
BottomOfNew(w, raw, fresh) == fresh = {}

\* The walk has bottomed out: no new row, and the cursor stayed.
Bottomed(w, raw, fresh) ==
    fresh = {} /\ ~(raw # {} /\ (w.before = NoBound \/ Least(raw) < w.before))

\* What comes of the paging: [exhausted, next], next a set of at most one
\* worker.
Paging(w, raw, merged, fresh) ==
    LET c == w.chain
        end == Cardinality(raw) < PageSize \/ IsFull(c, merged)
        walk(before) ==
            IF MayFetch(c, inFlight \ {c}, exhausted, {})
            THEN {Worker(c, TRUE, before, w.begun)} ELSE {}
        cursor == IF raw # {} THEN Least(raw) ELSE OldestMined(c, merged)
    IN  IF end THEN [exh |-> {c}, next |-> {}]
        ELSE IF w.walk
        THEN IF Bottomed(w, raw, fresh) THEN [exh |-> {c}, next |-> {}]
             ELSE [exh |-> {}, next |-> IF Cardinality(fresh) < Batch THEN walk(cursor) ELSE {}]
        ELSE [exh |-> {},
              next |-> IF Cardinality(merged) < Batch
                       THEN walk(OldestMined(c, merged)) ELSE {}]

\* The panel, on the view the page is of.
Landed(c, existing, merged, fresh) ==
    LET top == IF existing = {} THEN -1 ELSE Top(existing)
        newer == {n \in fresh : n > top}
        older == fresh \ newer
        shown == count[c] + Cardinality(newer)
        appended == IF older # {} /\ shown >= Cardinality(existing) THEN Newest(older) ELSE <<>>
    IN  IF fresh = {}
        THEN /\ rows' = IF merged = {} THEN <<>> ELSE rows
             /\ note' = IF merged = {} THEN "empty" ELSE IF rows # <<>> THEN None ELSE note
             /\ count' = IF merged = {} THEN [count EXCEPT ![c] = 0] ELSE count
        ELSE /\ rows' = Newest(newer) \o rows \o appended
             /\ note' = IF newer # {} \/ appended # <<>> \/ rows # <<>> THEN None ELSE note
             /\ count' = [count EXCEPT ![c] = shown + Len(appended)]

\* _on_page_fetched, of an index that had come to top when it was read.
PageFetched(w, top) ==
    LET c == w.chain
        raw == Raw(c, top, w.before)
        page == SentOf(c, raw)
        existing == Hydrated(c)
        merged == existing \cup page
        fresh == page \ existing
        p == Paging(w, raw, merged, fresh)
    IN  /\ w \in workers /\ top \in w.since .. indexed[c]
        /\ cache' = [cache EXCEPT ![c] = merged]
        /\ pending' = [pending EXCEPT ![c] = @ \ page]
        /\ exhausted' = exhausted \cup p.exh
        /\ workers' = (workers \ {w}) \cup p.next
        /\ inFlight' = (inFlight \ {c}) \cup {x.for : x \in p.next}
        /\ fetchHold' = fetchHold \ {c}
        /\ IF selected /\ chain = c THEN Landed(c, existing, merged, fresh)
           ELSE UNCHANGED <<rows, note, count>>
        /\ UNCHANGED <<worldVars, checking, checkHold, renderedFor, viewVars, fails, moves>>

\* Slip: an error takes the place of whatever is shown.
BlankedByError(c) == selected /\ chain = c /\ active

\* An error takes the table's place only where nothing is shown; over rows a
\* notice does.
Blanked(c) == selected /\ chain = c /\ active /\ ~(renderedFor = c /\ rows # <<>>)

\* _on_failed
PageFails(w) ==
    /\ w \in workers /\ workers' = workers \ {w}
    /\ fails < MaxFails /\ fails' = fails + 1
    /\ inFlight' = inFlight \ {w.for} /\ fetchHold' = fetchHold \cup {w.for}
    /\ IF Blanked(w.for) THEN rows' = <<>> /\ note' = "error" ELSE UNCHANGED <<rows, note>>
    /\ UNCHANGED <<worldVars, cache, pending, exhausted, checking, checkHold, count,
                   renderedFor, viewVars, moves>>

-----------------------------------------------------------------------------
(* What was sent elsewhere. *)

\* _poll_external_nonce, by its timer.
PollNonce ==
    /\ selected /\ chain \notin checking /\ checking' = checking \cup {chain}
    /\ UNCHANGED <<worldVars, cache, pending, exhausted, inFlight, fetchHold, checkHold,
                   workers, panelVars, viewVars, fails, moves>>

\* Slip: a history without a row has nothing to compare with.
BehindOfRows(c, have) == have # {} /\ SentCount(c) - 1 > Top(have)

Behind(c, have) == SentCount(c) > 0 /\ (have = {} \/ SentCount(c) - 1 > Top(have))

\* _on_external_nonce, _on_tron_activity.  The chain may have grown since it
\* was asked; a failed check is none.
Checked(c) ==
    LET have == Hydrated(c)
        on == selected /\ chain = c
        refetch == on /\ Behind(c, have) /\ c \notin checkHold
        fetch == refetch /\ MayFetch(c, inFlight, {}, fetchHold)
    IN  /\ c \in checking /\ checking' = checking \ {c}
        /\ cache' = IF on THEN Pinned(c) ELSE cache
        /\ checkHold' = IF refetch THEN checkHold \cup {c}
                        ELSE IF on /\ ~Behind(c, have) THEN checkHold \ {c} ELSE checkHold
        /\ exhausted' = IF refetch THEN exhausted \ {c} ELSE exhausted
        /\ inFlight' = IF fetch THEN inFlight \cup {c} ELSE inFlight
        /\ workers' = IF fetch THEN workers \cup {Worker(c, FALSE, NoBound, indexed[c])} ELSE workers
        /\ UNCHANGED <<worldVars, pending, fetchHold, panelVars, viewVars, fails, moves>>

CheckFails(c) ==
    /\ c \in checking /\ checking' = checking \ {c}
    /\ fails < MaxFails /\ fails' = fails + 1
    /\ UNCHANGED <<worldVars, cache, pending, exhausted, inFlight, fetchHold, checkHold,
                   workers, panelVars, viewVars, moves>>

\* The back-off of _strike runs out.
HoldsElapse ==
    /\ fetchHold # {} \/ checkHold # {}
    /\ fetchHold' = {} /\ checkHold' = {}
    /\ UNCHANGED <<worldVars, cache, pending, exhausted, inFlight, checking, workers,
                   panelVars, viewVars, fails, moves>>

-----------------------------------------------------------------------------
(* The wallet's own sends, and the world. *)

\* _insert_pending: the next nonce, shown at once.
InsertPending(c) ==
    LET n == SentCount(c)
    IN  /\ pending[c] = {} /\ Room
        /\ cache' = [cache EXCEPT ![c] = Hydrated(c) \cup {n}]
        /\ pending' = [pending EXCEPT ![c] = {n}]
        /\ IF renderedFor = c
           THEN /\ rows' = <<n>> \o rows /\ note' = None
                /\ count' = [count EXCEPT ![c] = @ + 1]
           ELSE UNCHANGED <<rows, note, count>>
        /\ UNCHANGED <<worldVars, bookVars, renderedFor, viewVars, fails, moves>>

World == UNCHANGED <<saved, cache, bookVars, panelVars, viewVars, fails, moves>>

\* Its receipt is seen: the row has its block.
Mine(c) ==
    /\ World /\ pending[c] # {} /\ Room
    /\ SentCount(c) \in pending[c]
    /\ ledger' = [ledger EXCEPT ![c] = Append(@, "sent")]
    /\ pending' = [pending EXCEPT ![c] = {}]
    /\ UNCHANGED indexed

\* A transaction from another client, or to the account.
Elsewhere(c, kind) ==
    /\ World /\ Room
    /\ kind = "sent" => pending[c] = {}
    /\ ledger' = [ledger EXCEPT ![c] = Append(@, kind)]
    /\ UNCHANGED <<pending, indexed>>

Index(c) ==
    /\ World /\ indexed[c] < Len(ledger[c])
    /\ \E n \in indexed[c] + 1 .. Len(ledger[c]) : indexed' = [indexed EXCEPT ![c] = n]
    /\ UNCHANGED <<ledger, pending>>

-----------------------------------------------------------------------------
(* The specification *)

\* A session that starts, its bounds' counters aside.
Session ==
    /\ ledger \in [Chains -> Ledgers]
    /\ indexed = [c \in Chains |-> Len(ledger[c])]
    /\ saved \in [Chains -> Disks]
    /\ \A c \in Chains : saved[c] \subseteq SentIn(c, Len(ledger[c]))
    /\ cache = [c \in Chains |-> Absent] /\ pending = [c \in Chains |-> {}]
    /\ exhausted = {} /\ inFlight = {} /\ fetchHold = {} /\ checking = {} /\ checkHold = {}
    /\ workers = {} /\ count = [c \in Chains |-> 0] /\ renderedFor = None
    /\ rows = <<>> /\ note = None
    /\ chain \in Chains /\ selected = FALSE /\ active \in BOOLEAN

HistoryInit == Session /\ fails = 0 /\ moves = 0

User ==
    \/ SelectAccount \/ NoAccount \/ OpenTab \/ LeaveTab \/ Scroll
    \/ \E c \in Chains : SwitchChain(c) \/ InsertPending(c)

Answers ==
    \/ \E w \in workers : (\E top \in 0 .. MaxBlocks : PageFetched(w, top)) \/ PageFails(w)
    \/ \E c \in Chains : Checked(c) \/ CheckFails(c)
    \/ PollNonce \/ HoldsElapse

Chain == \E c \in Chains : Mine(c) \/ Index(c) \/ \E k \in {"sent", "received"} : Elsewhere(c, k)

HistoryNext == User \/ Answers \/ Chain

HistorySpec == HistoryInit /\ [][HistoryNext]_historyVars

\* Requests return, timers fire, the explorer catches up.
HistoryFairness ==
    /\ WF_historyVars(\E w \in workers : \E top \in 0 .. MaxBlocks : PageFetched(w, top))
    /\ WF_historyVars(HoldsElapse) /\ WF_historyVars(PollNonce)
    /\ WF_historyVars(\E c \in Chains : Checked(c)) /\ WF_historyVars(\E c \in Chains : Index(c))

FairHistory == HistorySpec /\ HistoryFairness

-----------------------------------------------------------------------------
(* Properties *)

HistoryTypeOK ==
    /\ \A c \in Chains : /\ cache[c] = Absent \/ cache[c] \subseteq 0 .. MaxBlocks
                         /\ pending[c] \subseteq cache[c]
                         /\ count[c] \in Nat
    /\ exhausted \cup inFlight \cup fetchHold \cup checking \cup checkHold \subseteq Chains
    /\ rows \in Seq(0 .. MaxBlocks) /\ note \in {None, "loading", "empty", "error"}
    /\ renderedFor \in Chains \cup {None}

\* The rows on screen are the newest of the history, in its order.
IsHead(shown, S) == Len(shown) <= Cardinality(S) /\ shown = SubSeq(Newest(S), 1, Len(shown))

\* The table shows the head of the view it was rendered for, a window of it or
\* all there is, and the cursor of its scrolling is where the rows end.
HeadShown ==
    renderedFor # None =>
        LET all == Cached(renderedFor)
        IN  /\ IsHead(rows, all)
            /\ Len(rows) = count[renderedFor]
            /\ Len(rows) = Cardinality(all) \/ Len(rows) >= Window

\* Another view is selected than the one in the table: its history was neither
\* held nor asked for, the tab being closed.
Astray == renderedFor \notin {None, chain}

\* A hole among the nonces held.
Gap(S) == S # {} /\ S # Least(S) .. Top(S)

\* The open tab shows the view that is selected.  A table begins as the head of
\* its history and stays it, no row twice, none of another chain, none left out,
\* however pages, sends, scrolling and moves between views follow each other:
\* only a page that fills a hole, or one that comes back to a closed tab whose
\* table is of another view, may break it. (_refresh, _on_page_fetched,
\* _insert_pending, _on_scroll_bottom)
TableStaysHead ==
    [][/\ selected' /\ active' => renderedFor' = chain'
       /\ \/ HeadShown'
          \/ /\ renderedFor' = renderedFor
             /\ ~HeadShown \/ Astray \/ Gap(Cached(chain))]_historyVars

\* The same of every table: a page that fills a hole above rows already shown
\* takes its rows for older ones, and one that comes back while another view is
\* in the table of the closed tab lands there.
TableIsHead == selected /\ active => IsHead(rows, Cached(chain))

\* No walk went on for a chain that is no longer shown.
Straight == \A w \in workers : w.for = w.chain

\* The walk whose answer this was is given up for good without the account's
\* first transaction, though there is one among the first n blocks.
EndsShort(w, n) ==
    w.chain \in exhausted' \ exhausted /\ Sent(w.chain, n) # {} /\ 0 \notin Cached(w.chain)'

\* Paging is given up for good only at the account's first transaction, as far
\* as the explorer showed it when the walk began: unless the walk was carried to
\* another chain. (_on_page_fetched, _oldest_mined_block)
PagingEndsAtFirst ==
    [][\A w \in workers \ workers' : ~EndsShort(w, w.begun)]_historyVars

\* The same of every walk: one that goes on while another chain is shown asks
\* that chain below a block of its own.
CarriedEndsAtFirst ==
    [][\A w \in workers \ workers' : ~EndsShort(w, w.since)]_historyVars

\* The same, without holes.
ExhaustedIsComplete ==
    \A c \in exhausted : ~Gap(Cached(c))

\* Its newest transaction is held, or one of the wallet's own after it, or it
\* lies under a whole page of what was received since.
Noticed(c) ==
    \/ \E n \in Cached(c) \cup {0} : n >= SentCount(c) - 1
    \/ SentOf(c, Raw(c, Len(ledger[c]), NoBound)) = {}

\* Once the user stays on an account, what another client sent is noticed in
\* the end, however far the explorer trails and whatever fails: unless a walk
\* was carried to another chain. (_poll_external_nonce, _on_external_nonce)
SendsAreNoticed == []Straight => []<>(selected => Noticed(chain))

\* The same, whatever chain a walk was carried to.
StrayOrNot == []<>(selected => Noticed(chain))

\* A tab that says it loads does not say so for ever.
LoadingEnds == []<>(note # "loading")
=============================================================================
