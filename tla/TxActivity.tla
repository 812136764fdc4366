---------------------------- MODULE TxActivity ----------------------------
(***************************************************************************)
(* The Activity column of the Transactions tab: per row the method's name  *)
(* and the coins that moved (tx_activity.py, activity_cache.py,            *)
(* abi_cache.py and the Activity parts of plugins/transactions).  Workers  *)
(* build the activities of the rows shown, in batches; what a simulation   *)
(* or a receipt says of a transaction is folded in; the result is kept on  *)
(* disk and in the panel.                                                  *)
(*                                                                         *)
(* One account on one chain; the view is rendered or another one is.  An   *)
(* activity is the verb, the coins out and in, those of them without a     *)
(* ticker, and whether it is muted.  Approvals, whose coin is the token    *)
(* approved, are left out.                                                 *)
(***************************************************************************)
EXTENDS Naturals, FiniteSets

CONSTANTS
    Hashes,      \* transactions
    Coins,       \* tokens, by contract; the native coin is Native
    Native,
    Moves,       \* Moves[h]: [out, inn], what h moves when it succeeds
    Predictions, \* what a simulation may say of a transaction: [out, inn]
    Calls,       \* those that call a contract
    Callee,      \* Callee[h]: the contract
    Named,       \* contracts with a verified ABI
    Recent,      \* those of the last _ACTIVITY_RECHECK_S
    Tickers,     \* coins with a ticker in the token lists
    Families,    \* "evm", "tron"
    MaxShows,    \* bound: times the view is rendered
    MaxScans,    \* 30: receipts of one scan
    MaxStarts    \* bound: starts of the program

ASSUME ActivityAssumption ==
    /\ Native \notin Coins /\ Calls \subseteq Hashes /\ Recent \subseteq Hashes
    /\ Tickers \subseteq Coins
    /\ Predictions \subseteq [out : SUBSET Coins, inn : SUBSET Coins]
    /\ \A h \in Hashes : Moves[h].out \cup Moves[h].inn \subseteq Coins \cup {Native}
    /\ MaxScans \in Nat \ {0}

VARIABLES
    family,      \* of the chain
    status,      \* status[h]: "absent", "pending", "ok", "reverted"
    fetched,     \* contracts whose ABI is in the ABI cache
    saved,       \* ActivityCache: saved[h], on disk
    activities,  \* TransactionListPanel._activities
    rendered,    \* _rendered_for is this view
    knownLegs,   \* _known_legs
    builders,    \* TxActivityWorkers: [txs, muted, stage, coins, cold, bare]
    checked,     \* _receipt_checked
    scans,       \* hashes ReceiptScanWorkers are yet to read
    tickers,     \* coins whose ticker is known: _symbol_cache, _token_meta
    asking,      \* _meta_inflight
    metas,       \* the coins MetadataWorkers ask for
    shows, starts \* counters of the bounds

viewVars == <<activities, rendered>>
legVars == <<knownLegs, checked, scans>>
tickerVars == <<tickers, asking, metas>>
countVars == <<shows, starts>>
activityVars == <<family, status, fetched, saved, viewVars, legVars, builders, tickerVars,
                  countVars>>

NoLegs == [out |-> {}, inn |-> {}]
NoActivity == [verb |-> "none", out |-> {}, inn |-> {}, odd |-> {}, muted |-> FALSE]
Unbuilt == [h \in Hashes |-> NoActivity]

Has(a) == a.verb # "none"
Bare(a) == a.out = {} /\ a.inn = {}
Built(m) == {h \in Hashes : Has(m[h])}
Merged(new, old) == [h \in Hashes |-> IF Has(new[h]) THEN new[h] ELSE old[h]]

-----------------------------------------------------------------------------
(* Coins and names that are learned apart from the activity. *)

\* _fill_symbols
Filled(a, S) == [a EXCEPT !.odd = @ \ S]

\* Slip: what is known of the transaction is not folded in.
Unfolded(h, a, S) == a

\* _with_known_legs: coins the activity does not list yet.
WithKnownLegs(h, a, S) ==
    LET new == (knownLegs'[h].out \cup knownLegs'[h].inn) \ (a.out \cup a.inn)
    IN  [a EXCEPT !.out = @ \cup (knownLegs'[h].out \cap new),
                  !.inn = @ \cup (knownLegs'[h].inn \cap new),
                  !.odd = @ \cup (new \ S)]

\* _fill_verb
FillVerb(h, a) ==
    IF a.verb = "selector" /\ Callee[h] \in fetched THEN [a EXCEPT !.verb = "name"] ELSE a

\* _unknown_symbol_contracts, _kick_token_meta
AskTickers(acts, S) ==
    LET todo == (UNION {acts[h].odd : h \in Hashes}) \ (S \cup asking)
    IN  /\ asking' = asking \cup todo
        /\ metas' = IF todo = {} THEN metas ELSE metas \cup {todo}

\* _scan_coinless
ScanCoinless(acts) ==
    LET bare == {h \in Built(acts) : Bare(acts[h]) /\ ~acts[h].muted /\ h \notin checked}
    IN  \E some \in SUBSET bare :
          /\ Cardinality(some) = IF Cardinality(bare) < MaxScans
                                 THEN Cardinality(bare) ELSE MaxScans
          /\ checked' = checked \cup some /\ scans' = scans \cup some

\* Slip: a row that is shown is not kept.
PanelOnly(acts) == /\ saved' = IF rendered THEN saved ELSE Merged(acts, saved)
                   /\ activities' = IF rendered THEN Merged(acts, activities) ELSE activities

\* The activities are kept, and painted where their view is shown.
Keep(acts) == /\ saved' = Merged(acts, saved)
              /\ activities' = IF rendered THEN Merged(acts, activities) ELSE activities

-----------------------------------------------------------------------------
(* The worker: fetch_activities, _tron_activities. *)

\* _activity_needs_fetch
NeedsFetch(h, p) ==
    \/ ~Has(p[h])
    \/ (p[h].out = {}) # (p[h].inn = {}) /\ h \in Recent

Builder(hs, st) ==
    [txs |-> hs, muted |-> {h \in hs : st[h] = "reverted"},
     stage |-> IF family = "tron" THEN "whole" ELSE "early", coins |-> [h \in Hashes |-> NoLegs],
     cold |-> {}, bare |-> {}]

\* _request_activities, _kick_activities, of the rows hs of a panel p.
Request(hs, st, p) ==
    LET wanted == {h \in hs : NeedsFetch(h, p)}
    IN  builders' = IF wanted = {} THEN builders ELSE builders \cup {Builder(wanted, st)}

\* _on_activities: tickers are learned, what is known is folded in, receipts
\* and tickers are asked for.
OnActivities(acts) ==
    LET S == tickers \cup UNION {((acts[h].out \cup acts[h].inn) \ acts[h].odd) \ {Native} :
                                    h \in Hashes}
        merged == [h \in Hashes |->
                     IF Has(acts[h]) THEN Filled(WithKnownLegs(h, acts[h], S), S) ELSE NoActivity]
    IN  /\ UNCHANGED <<knownLegs, rendered, family, status, countVars>> /\ tickers' = S
        /\ Keep(merged) /\ ScanCoinless(merged) /\ AskTickers(merged, S)

\* No batch: nothing is emitted.
Silent == UNCHANGED <<knownLegs, checked, scans, tickerVars, saved, viewVars, family, status, countVars>>

Emit(acts) == IF Built(acts) = {} THEN Silent ELSE OnActivities(acts)

\* quick_verb
IsCold(h) == h \in Calls /\ Callee[h] \notin fetched

Activity(b, h, verb, legs) ==
    [verb |-> verb, out |-> legs.out, inn |-> legs.inn, odd |-> {}, muted |-> h \in b.muted]

\* What the indices of transfers and of internal calls list of h: no tokens
\* when they fail or lag.  The value of the transaction itself is always there.
Listed(h, level) ==
    LET ok == status[h] = "ok"
        tokens == IF ok /\ level # "none" THEN Coins ELSE {}
    IN  [out |-> Moves[h].out \cap (tokens \cup {Native}),
         inn |-> Moves[h].inn \cap (tokens \cup (IF ok /\ level = "all" THEN {Native} ELSE {}))]

Becomes(b, n) == builders' = (builders \ {b}) \cup {n}

\* Pass 0: names that need no network, before any coin is known.
EarlyVerbs(b) ==
    /\ b.stage = "early"
    /\ Becomes(b, [b EXCEPT !.stage = "coins"])
    /\ Emit([h \in Hashes |-> IF h \in b.txs /\ ~IsCold(h)
                              THEN Activity(b, h, "name", NoLegs) ELSE NoActivity])
    /\ UNCHANGED fetched

\* Pass 1: one reading of the indices, then the rows whose name is known.
ReadCoins(b) ==
    /\ b.stage = "coins"
    /\ \E level \in {"none", "tokens", "all"} :
          LET coins == [h \in Hashes |-> IF h \in b.txs THEN Listed(h, level) ELSE NoLegs]
              cold == {h \in b.txs : IsCold(h)}
          IN  /\ Becomes(b, [b EXCEPT !.coins = coins, !.cold = cold,
                                    !.stage = IF cold = {} THEN "trace" ELSE "cold"])
              /\ Emit([h \in Hashes |-> IF h \in b.txs \ cold
                                        THEN Activity(b, h, "name", coins[h]) ELSE NoActivity])
    /\ UNCHANGED fetched

\* Pass 2: the ABI of a contract is fetched, and its rows are named; or it has
\* none, or the fetch fails, and they keep the selector.
Resolve(b, c) ==
    /\ b.stage = "cold" /\ \E h \in b.cold : Callee[h] = c
    /\ \E named \in {TRUE, FALSE} :
          LET hs == {h \in b.cold : Callee[h] = c}
              verb == IF named THEN "name" ELSE "selector"
          IN  /\ named => c \in Named \cup fetched
              /\ ~named => c \notin fetched
              /\ fetched' = IF named THEN fetched \cup {c} ELSE fetched
              /\ Becomes(b, [b EXCEPT !.cold = @ \ hs, !.bare = @ \cup (IF named THEN {} ELSE hs),
                                    !.stage = IF b.cold = hs THEN "trace" ELSE "cold"])
              /\ Emit([h \in Hashes |-> IF h \in hs THEN Activity(b, h, verb, b.coins[h])
                                        ELSE NoActivity])

\* _wants_native_trace
WantsTrace(b, h) ==
    h \in Calls \ b.muted /\ b.coins[h].inn = {} /\ b.coins[h].out \cap Coins # {}

\* Pass 3: what the node's tracer says of native coins received, as far as it
\* answers.
Trace(b) ==
    /\ b.stage = "trace" /\ builders' = builders \ {b}
    /\ \E hs \in SUBSET {h \in b.txs : WantsTrace(b, h) /\ status[h] = "ok"
                                        /\ Native \in Moves[h].inn} :
          Emit([h \in Hashes |->
                  IF h \in hs
                  THEN Activity(b, h, IF h \in b.bare THEN "selector" ELSE "name",
                                [b.coins[h] EXCEPT !.inn = @ \cup {Native}])
                  ELSE NoActivity])
    /\ UNCHANGED fetched

\* _tron_activities: one batch, a name that is not found is the selector.
BuildTron(b) ==
    /\ b.stage = "whole" /\ builders' = builders \ {b}
    /\ \E level \in {"none", "tokens"}, got \in SUBSET (Named \ fetched) :
          /\ got \subseteq {Callee[h] : h \in b.txs \cap Calls}
          /\ fetched' = fetched \cup got
          /\ Emit([h \in Hashes |->
                     IF h \in b.txs
                     THEN Activity(b, h, IF h \in Calls /\ Callee[h] \notin fetched'
                                         THEN "selector" ELSE "name", Listed(h, level))
                     ELSE NoActivity])

-----------------------------------------------------------------------------
(* Receipts and simulations. *)

\* note_transfer_legs, of the tokens a log moved: the base is what the panel
\* shows, else what is kept.
NoteLegs(h, legs) ==
    LET base == IF rendered /\ Has(activities[h]) THEN activities[h] ELSE saved[h]
        acts == [Unbuilt EXCEPT ![h] = Filled(WithKnownLegs(h, base, tickers), tickers)]
    IN  IF legs = NoLegs THEN UNCHANGED <<knownLegs, saved, activities, asking, metas>>
        ELSE /\ knownLegs' = [knownLegs EXCEPT ![h] = legs]
             /\ IF ~Has(base) THEN UNCHANGED <<saved, activities, asking, metas>>
                ELSE Keep(acts) /\ AskTickers(acts, tickers)

TokenLegs(m) == [out |-> m.out \cap Coins, inn |-> m.inn \cap Coins]

\* add_pending, and the legs the dialog's simulation saw.
Broadcast(h) ==
    /\ status[h] = "absent" /\ status' = [status EXCEPT ![h] = "pending"]
    /\ \E legs \in Predictions : NoteLegs(h, legs)
    /\ IF rendered THEN Request({h}, status', activities) ELSE UNCHANGED builders
    /\ UNCHANGED <<family, fetched, rendered, checked, scans, tickers, countVars>>

\* _on_receipt_confirmed; or an explorer's page brings the row without a
\* receipt.
Confirm(h) ==
    /\ status[h] = "pending"
    /\ \E end \in {"ok", "reverted"}, receipt \in BOOLEAN :
          /\ status' = [status EXCEPT ![h] = end]
          /\ NoteLegs(h, IF receipt /\ end = "ok" THEN TokenLegs(Moves[h]) ELSE NoLegs)
    /\ UNCHANGED <<family, fetched, rendered, checked, scans, tickers, builders, countVars>>

\* ReceiptScanWorker: no receipt yet, and a call that fails, find nothing.
ScanReceipt(h) ==
    /\ h \in scans /\ scans' = scans \ {h}
    /\ \E found \in BOOLEAN :
          NoteLegs(h, IF found /\ status[h] = "ok" THEN TokenLegs(Moves[h]) ELSE NoLegs)
    /\ UNCHANGED <<family, status, fetched, rendered, checked, tickers, builders, countVars>>

-----------------------------------------------------------------------------
(* Tickers. *)

\* _on_token_meta: coins without a symbol are left out of the answer.
TickersArrive(cs) ==
    /\ cs \in metas /\ metas' = metas \ {cs}
    /\ \E got \in SUBSET cs :
          LET hit == {h \in Built(saved) : (saved[h].out \cup saved[h].inn) \cap got # {}}
              acts == [h \in Hashes |-> IF h \in hit THEN Filled(saved[h], tickers \cup got)
                                        ELSE NoActivity]
          IN  /\ tickers' = tickers \cup got /\ asking' = asking \ got
              /\ IF rendered THEN Keep(acts) ELSE UNCHANGED <<saved, activities>>
    /\ UNCHANGED <<family, status, fetched, rendered, legVars, builders, countVars>>

TickersFail(cs) ==
    /\ cs \in metas /\ metas' = metas \ {cs} /\ asking' = asking \ cs
    /\ UNCHANGED <<family, status, fetched, saved, viewVars, legVars, builders, tickers,
                   countVars>>

-----------------------------------------------------------------------------
(* The view. *)

\* _refresh, show_transactions: the panel is primed with what is kept.
Show ==
    /\ ~rendered /\ rendered' = TRUE
    /\ shows < MaxShows /\ shows' = shows + 1
    /\ LET primed == [h \in Hashes |-> FillVerb(h, Filled(saved[h], tickers))]
       IN  /\ activities' = Merged(primed, activities)
           /\ ScanCoinless(primed) /\ AskTickers(primed, tickers)
           /\ Request({h \in Hashes : status[h] # "absent"}, status, activities')
    /\ UNCHANGED <<family, status, fetched, saved, knownLegs, tickers, starts>>

\* Another view is rendered; or no account is selected, and the panel cleared.
Leave ==
    /\ rendered /\ rendered' = FALSE
    /\ activities' \in {activities, Unbuilt}
    /\ UNCHANGED <<family, status, fetched, saved, legVars, builders, tickerVars, countVars>>

Restart ==
    /\ starts < MaxStarts /\ starts' = starts + 1
    /\ activities' = Unbuilt /\ rendered' = FALSE
    /\ knownLegs' = [h \in Hashes |-> NoLegs] /\ checked' = {} /\ scans' = {}
    /\ builders' = {} /\ tickers' = Tickers /\ asking' = {} /\ metas' = {}
    /\ UNCHANGED <<family, status, fetched, saved, shows>>

-----------------------------------------------------------------------------
(* The specification. *)

ActivityInit ==
    /\ family \in Families
    /\ status \in [Hashes -> {"absent", "ok"}]
    /\ fetched = {} /\ saved = Unbuilt /\ activities = Unbuilt /\ rendered = FALSE
    /\ knownLegs = [h \in Hashes |-> NoLegs] /\ checked = {} /\ scans = {}
    /\ builders = {} /\ tickers = Tickers /\ asking = {} /\ metas = {}
    /\ shows = 0 /\ starts = 0

Build ==
    \E b \in builders :
        \/ EarlyVerbs(b) \/ ReadCoins(b) \/ Trace(b) \/ BuildTron(b)
        \/ \E c \in {Callee[h] : h \in b.cold} : Resolve(b, c)

ActivityNext ==
    \/ Build
    \/ \E h \in Hashes : Broadcast(h) \/ Confirm(h) \/ ScanReceipt(h)
    \/ \E cs \in metas : TickersArrive(cs) \/ TickersFail(cs)
    \/ Show \/ Leave \/ Restart

ActivitySpec == ActivityInit /\ [][ActivityNext]_activityVars

-----------------------------------------------------------------------------
(* Properties *)

\* While its view is rendered, a row shows the coins that are kept for it,
\* whoever brought them while the view was shown or away. (_on_activities,
\* note_transfer_legs, _on_token_meta, prime_activities)
ShownIsKept ==
    rendered => \A h \in Hashes :
        Has(saved[h]) => activities[h].out = saved[h].out /\ activities[h].inn = saved[h].inn

\* The coins a receipt told of are among those kept, once there is an activity,
\* however many workers of older readings come after it. (_with_known_legs)
KnownLegsStay ==
    \A h \in Hashes : Has(saved[h]) =>
        (knownLegs[h].out \cup knownLegs[h].inn) \subseteq (saved[h].out \cup saved[h].inn)

\* The coins of a transaction are kept: those a receipt told of, and those kept
\* are those shown.
ActivityIsKept == ShownIsKept /\ KnownLegsStay

\* Coins that are kept are never fewer later.
CoinsStay ==
    [][\A h \in Hashes : Has(saved[h]) =>
          saved[h].out \subseteq saved'[h].out /\ saved[h].inn \subseteq saved'[h].inn]_activityVars

\* A row that was named is not shown by its selector again.
NamesStay ==
    [][rendered /\ rendered' => \A h \in Hashes :
          activities[h].verb = "name" => activities'[h].verb # "selector"]_activityVars

\* The coins kept of a settled transaction are of those it moved.
CoinsAreTrue ==
    \A h \in Hashes : status[h] \in {"ok", "reverted"} =>
        LET true == IF status[h] = "ok" THEN Moves[h] ELSE NoLegs
        IN  (saved[h].out \cup saved[h].inn) \cap Coins \subseteq true.out \cup true.inn

\* A coin in _meta_inflight is being asked for.
AskingIsAsked == asking \subseteq UNION metas
=============================================================================
