---------------------------- MODULE PendingWatch ----------------------------
(***************************************************************************)
(* The life of the transactions the wallet has broadcast, from the pending *)
(* row add_pending inserts to its terminal state, in the history of one    *)
(* (chain, account) (qeth/plugins/transactions/__init__.py).  Two watchers *)
(* probe a pending transaction: the poll (PendingTxWatcher, one worker per *)
(* hash at a time) and the ws live watcher (live_watcher.py, once a block).*)
(* Their results reach the GUI thread later and in any order, together     *)
(* with explorer pages, off-thread saves and restarts.  Each slot of the   *)
(* GUI thread is one action.                                               *)
(*                                                                         *)
(* Behind a load balancer a backend may not have a block yet: for Lag      *)
(* units of time after a nonce is spent, a read may miss the receipt, or   *)
(* the nonce.  A probe lasts at most Delay units from its receipt read to  *)
(* the delivery of its result.                                             *)
(***************************************************************************)
EXTENDS Integers

CONSTANTS
    Txs,            \* the hashes of the account's transactions
    NonceOf,        \* NonceOf[t]: the nonce t was signed with
    LastNonce,      \* bound on the nonces, for model checking
    Poll,           \* the probe slot of PendingTxWatcher (_in_flight_hashes)
    WsProbes,       \* the ws probes that may be under way; {} when it is off
    Readings,       \* DROP_CONFIRM_READINGS
    Spacing,        \* DROP_READING_MIN_SPACING_S, in units of time
    Lag, Delay,     \* see above, in the same units
    WsErrors,       \* TRUE: the ws endpoint may answer with JSON-RPC errors
    MaxRestarts     \* bound on restarts, for model checking

Nonces == 0..LastNonce
Probes == {Poll} \cup WsProbes

ASSUME PendingAssumption ==
    /\ LastNonce \in Nat
    /\ NonceOf \in [Txs -> Nonces]
    /\ Poll \notin WsProbes
    /\ Readings \in Nat \ {0}
    /\ Spacing \in Nat
    /\ Lag \in Nat \ {0}
    /\ Delay \in Nat
    /\ WsErrors \in BOOLEAN
    /\ MaxRestarts \in Nat

VARIABLES
    (* the chain *)
    latest,         \* the account's mined nonce count
    mined,          \* the transactions that are in the chain
    spentFor,       \* spentFor[n]: time since nonce n was spent, capped
    (* the wallet *)
    push,           \* push[t]: "unsent", "unrecorded" (broadcast) or "over"
    row,            \* row[t]: t in the history in memory, _cache[key]
    loaded,         \* key in _cache
    queued,         \* AsyncTransactionSaver holds a list to write
    disk,           \* disk[t]: t in the history file
    probe,          \* probe[s][t]: how far the probe of slot s is with t
    watched,        \* _live_snapshot, what the ws probes
    seen, since,    \* _drop_readings: count, time since the last one counted
    confirmed_seen, \* _confirmed_seen
    told,           \* told[t]: what the listener of _call_on_confirm knows
    noted,          \* noted[t]: how often the receipt went to note_receipt_logs
    restarts

chainVars == <<latest, mined, spentFor>>
storeVars == <<row, loaded, queued, disk>>
dropVars == <<seen, since>>
outcomeVars == <<confirmed_seen, told, noted>>
vars == <<chainVars, push, storeVars, probe, watched, dropVars, outcomeVars, restarts>>

Spent(t) == NonceOf[t] < latest

\* The time after which nothing tells the readings of a nonce apart.
Settled == Lag + Delay

Capped(n, cap) == IF n >= cap THEN cap ELSE n

Idle == [stage |-> "idle", age |-> 0]
Stages == {"idle", "asked", "unmined", "confirmed", "dropped", "open"}
HasRead(p) == p.stage \notin {"idle", "asked"}

----------------------------------------------------------------------------
(* The chain and the clock. *)

\* The account's next nonce is spent: by one of the wallet's transactions, or
\* by one sent from elsewhere.
TakeNonce ==
    /\ latest <= LastNonce
    /\ latest' = latest + 1
    /\ \/ mined' = mined
       \/ \E t \in Txs : /\ push[t] # "unsent" /\ NonceOf[t] = latest
                         /\ mined' = mined \cup {t}
    /\ UNCHANGED <<spentFor, push, storeVars, probe, watched, dropVars,
                   outcomeVars, restarts>>

TimePasses ==
    /\ \A s \in Probes, t \in Txs : HasRead(probe[s][t]) => probe[s][t].age < Delay
    /\ probe' = [s \in Probes |-> [t \in Txs |->
                   IF HasRead(probe[s][t]) THEN [probe[s][t] EXCEPT !.age = @ + 1]
                   ELSE probe[s][t]]]
    /\ spentFor' = [n \in Nonces |->
                      IF n < latest THEN Capped(spentFor[n] + 1, Settled) ELSE 0]
    /\ since' = [t \in Txs |->
                   IF seen[t] > 0 THEN Capped(since[t] + 1, Spacing) ELSE 0]
    /\ UNCHANGED <<latest, mined, push, storeVars, watched, seen, outcomeVars, restarts>>

----------------------------------------------------------------------------
(* What the slots share. *)

\* _rebuild_live_snapshot over the rows r: nothing while the watcher is off.
Snapshot(r) == IF WsProbes = {} THEN {} ELSE {t \in Txs : r[t] = "pending"}

\* Slip: the file is read again over what is in memory.
SeedFromDisk == disk

\* Slip: a view that was never opened is taken to be empty.
SeedFromMemory == row

\* The history a slot merges into: the one in memory, or else the file's.
Seed == IF loaded THEN row ELSE disk

\* A change of one row, saved and taken out of the ws watch.
Settle(t, state) ==
    /\ row' = [row EXCEPT ![t] = state]
    /\ queued' = TRUE
    /\ watched' = Snapshot(row')
    /\ UNCHANGED <<loaded, disk>>

\* The probe of slot s goes on to the next stage.
Enter(s, t, stage) == probe' = [probe EXCEPT ![s][t].stage = stage]

ForgetReadings(t) ==
    /\ seen' = [seen EXCEPT ![t] = 0]
    /\ since' = [since EXCEPT ![t] = 0]

----------------------------------------------------------------------------
(* Sending. *)

\* The signing worker hands the raw transaction to the node.
Broadcast(t) ==
    /\ push[t] = "unsent"
    /\ push' = [push EXCEPT ![t] = "unrecorded"]
    /\ UNCHANGED <<chainVars, storeVars, probe, watched, dropVars, outcomeVars, restarts>>

\* _on_tx_broadcast: add_pending, then the sender's listener is connected.
AddPending(t) ==
    /\ push[t] = "unrecorded"
    /\ push' = [push EXCEPT ![t] = "over"]
    /\ row' = [Seed EXCEPT ![t] = "pending"]
    /\ loaded' = TRUE
    /\ queued' = TRUE
    /\ watched' = Snapshot(row')
    /\ told' = [told EXCEPT ![t] = "waiting"]
    /\ UNCHANGED <<chainVars, disk, probe, dropVars, confirmed_seen, noted, restarts>>

----------------------------------------------------------------------------
(* The two watchers. *)

\* PendingTxWatcher._tick: the snapshot is rebuilt, and every pending row in
\* memory without a probe under way gets one.
Tick ==
    /\ watched' = Snapshot(row)
    /\ probe' = [probe EXCEPT ![Poll] = [t \in Txs |->
                   IF row[t] = "pending" /\ probe[Poll][t] = Idle
                   THEN [stage |-> "asked", age |-> 0] ELSE probe[Poll][t]]]
    /\ UNCHANGED <<chainVars, push, storeVars, dropVars, outcomeVars, restarts>>

\* _probe_pending, at a new block.
WsAsks(s, t) ==
    /\ s \in WsProbes /\ t \in watched
    /\ probe[s][t] = Idle
    /\ Enter(s, t, "asked")
    /\ UNCHANGED <<chainVars, push, storeVars, watched, dropVars, outcomeVars, restarts>>

WsError(s) == WsErrors /\ s \in WsProbes

\* eth_getTransactionReceipt: no receipt while the backend lags.
ReadReceipt(s, t) ==
    /\ probe[s][t].stage = "asked"
    /\ \/ /\ t \in mined
          /\ Enter(s, t, "confirmed")
       \/ /\ t \notin mined \/ spentFor[NonceOf[t]] < Lag \/ WsError(s)
          /\ Enter(s, t, "unmined")
    /\ UNCHANGED <<chainVars, push, storeVars, watched, dropVars, outcomeVars, restarts>>

\* eth_getTransactionCount at latest: the nonce is spent, or still open.
ReadNonce(s, t) ==
    /\ probe[s][t].stage = "unmined"
    /\ \/ /\ Spent(t)
          /\ Enter(s, t, "dropped")
       \/ /\ ~Spent(t) \/ spentFor[NonceOf[t]] < Lag \/ WsError(s)
          /\ Enter(s, t, "open")
    /\ UNCHANGED <<chainVars, push, storeVars, watched, dropVars, outcomeVars, restarts>>

\* Slip: the hash stays in _in_flight_hashes.
ProbeFailsLeaks(s, t) ==
    /\ probe[s][t].stage \in {"asked", "unmined"}
    /\ probe' = [probe EXCEPT ![s][t] = [stage |-> "idle", age |-> 1]]
    /\ UNCHANGED <<chainVars, push, storeVars, watched, dropVars, outcomeVars, restarts>>

\* A transport error: the poll's `failed`, swallowed by the ws.
ProbeFails(s, t) ==
    /\ probe[s][t].stage \in {"asked", "unmined"}
    /\ probe' = [probe EXCEPT ![s][t] = Idle]
    /\ UNCHANGED <<chainVars, push, storeVars, watched, dropVars, outcomeVars, restarts>>

\* The result of kind `stage` reaches the GUI thread.
Delivered(s, t, stage) ==
    /\ probe[s][t].stage = stage
    /\ probe' = [probe EXCEPT ![s][t] = Idle]
    /\ UNCHANGED <<chainVars, push, restarts>>

AlreadyConfirmed(t) == t \in confirmed_seen

\* _on_receipt_confirmed: once per transaction the listeners are told and the
\* receipt is noted; a row that is no longer pending is left as it is.
OnReceiptConfirmed(s, t) ==
    /\ Delivered(s, t, "confirmed")
    /\ IF AlreadyConfirmed(t)
       THEN UNCHANGED <<storeVars, watched, dropVars, outcomeVars>>
       ELSE /\ confirmed_seen' = confirmed_seen \cup {t}
            /\ ForgetReadings(t)
            /\ told' = [told EXCEPT ![t] = IF @ = "waiting" THEN "confirmed" ELSE @]
            /\ noted' = [noted EXCEPT ![t] = Capped(@ + 1, 2)]
            /\ IF row[t] = "pending" THEN Settle(t, "confirmed")
               ELSE UNCHANGED <<storeVars, watched>>

\* _on_tx_still_pending
OnTxStillPending(s, t) ==
    /\ Delivered(s, t, "open")
    /\ ForgetReadings(t)
    /\ UNCHANGED <<storeVars, watched, outcomeVars>>

\* Slip: readings count however close they are.
TooSoonNever(t) == FALSE

TooSoon(t) == seen[t] > 0 /\ since[t] < Spacing

Believed(t) == seen[t] + 1 >= Readings

\* _on_tx_dropped: a reading too close to the last one counted, a reading that
\* is counted, and the one that is believed.
DropTooSoon(s, t) ==
    /\ TooSoon(t)
    /\ Delivered(s, t, "dropped")
    /\ UNCHANGED <<storeVars, watched, dropVars, outcomeVars>>

DropCounted(s, t) ==
    /\ ~TooSoon(t) /\ ~Believed(t)
    /\ Delivered(s, t, "dropped")
    /\ seen' = [seen EXCEPT ![t] = @ + 1]
    /\ since' = [since EXCEPT ![t] = 0]
    /\ UNCHANGED <<storeVars, watched, outcomeVars>>

DropBelieved(s, t) ==
    /\ ~TooSoon(t) /\ Believed(t)
    /\ Delivered(s, t, "dropped")
    /\ ForgetReadings(t)
    /\ IF row[t] = "pending"
       THEN /\ Settle(t, "dropped")
            /\ told' = [told EXCEPT ![t] = IF @ = "waiting" THEN "dropped" ELSE @]
       ELSE UNCHANGED <<storeVars, watched, told>>
    /\ UNCHANGED <<confirmed_seen, noted>>

OnTxDropped(s, t) == DropTooSoon(s, t) \/ DropCounted(s, t) \/ DropBelieved(s, t)

\* The next step of a probe that has started.
ProbeStep(s, t) ==
    \/ ReadReceipt(s, t) \/ ReadNonce(s, t) \/ ProbeFails(s, t)
    \/ OnReceiptConfirmed(s, t) \/ OnTxStillPending(s, t) \/ OnTxDropped(s, t)

----------------------------------------------------------------------------
(* The history: explorer pages, the file, the session. *)

\* _on_page_fetched: the explorer has indexed the transactions of page; its
\* rows win over the cached ones.
OnPageFetched(page) ==
    /\ row' = [t \in Txs |-> IF t \in page THEN "confirmed" ELSE Seed[t]]
    /\ loaded' = TRUE
    /\ queued' = (queued \/ row' # Seed)
    /\ UNCHANGED <<chainVars, push, disk, probe, watched, dropVars, outcomeVars, restarts>>

\* _hydrated: the view is opened; an empty file leaves the key absent.
Visit ==
    /\ ~loaded
    /\ \E t \in Txs : disk[t] # "absent"
    /\ row' = disk
    /\ loaded' = TRUE
    /\ UNCHANGED <<chainVars, push, queued, disk, probe, watched, dropVars,
                   outcomeVars, restarts>>

\* AsyncTransactionSaver._drain: the list is written, or the write fails and
\* is forgotten.  Every change of the list in memory submits it again, so what
\* a drain finds is what is in memory.
Drain ==
    /\ queued
    /\ queued' = FALSE
    /\ disk' \in {row, disk}
    /\ UNCHANGED <<chainVars, push, row, loaded, probe, watched, dropVars,
                   outcomeVars, restarts>>

\* The app ends, with the saver drained (shutdown) or not (a crash), and is
\* started again.
Restart ==
    /\ restarts < MaxRestarts
    /\ restarts' = restarts + 1
    /\ disk' \in {disk, IF queued THEN row ELSE disk}
    /\ push' = [t \in Txs |-> IF push[t] = "unrecorded" THEN "over" ELSE push[t]]
    /\ row' = [t \in Txs |-> "absent"]
    /\ loaded' = FALSE
    /\ queued' = FALSE
    /\ probe' = [s \in Probes |-> [t \in Txs |-> Idle]]
    /\ watched' = {}
    /\ seen' = [t \in Txs |-> 0]
    /\ since' = [t \in Txs |-> 0]
    /\ confirmed_seen' = {}
    /\ told' = [t \in Txs |-> "nobody"]
    /\ noted' = [t \in Txs |-> 0]
    /\ UNCHANGED chainVars

----------------------------------------------------------------------------
\* A session starts with transactions of the past, in the file or not.
Init ==
    /\ latest \in 0..(LastNonce + 1)
    /\ mined \in SUBSET {t \in Txs : Spent(t)}
    /\ spentFor = [n \in Nonces |-> IF n < latest THEN Settled ELSE 0]
    /\ push = [t \in Txs |-> IF t \in mined THEN "over" ELSE "unsent"]
    /\ row = [t \in Txs |-> "absent"]
    /\ loaded = FALSE
    /\ queued = FALSE
    /\ disk \in [Txs -> {"absent", "confirmed"}]
    /\ \A t \in Txs : disk[t] = "confirmed" => t \in mined
    /\ probe = [s \in Probes |-> [t \in Txs |-> Idle]]
    /\ watched = {}
    /\ seen = [t \in Txs |-> 0]
    /\ since = [t \in Txs |-> 0]
    /\ confirmed_seen = {}
    /\ told = [t \in Txs |-> "nobody"]
    /\ noted = [t \in Txs |-> 0]
    /\ restarts = 0

Next ==
    \/ TakeNonce \/ TimePasses \/ Tick \/ Visit \/ Drain \/ Restart
    \/ \E t \in Txs : Broadcast(t) \/ AddPending(t)
    \/ \E s \in Probes, t \in Txs : WsAsks(s, t) \/ ProbeStep(s, t)
    \/ \E page \in SUBSET mined : OnPageFetched(page)

Spec == Init /\ [][Next]_vars

\* The timer keeps firing, every probe ends and is delivered, time passes, and
\* a poll whose reads fail is in the end answered.
Fairness ==
    /\ WF_vars(Tick) /\ WF_vars(TimePasses)
    /\ \A s \in Probes, t \in Txs : WF_vars(ProbeStep(s, t))
    /\ \A t \in Txs : SF_vars(ReadReceipt(Poll, t)) /\ SF_vars(ReadNonce(Poll, t))

FairSpec == Spec /\ Fairness

----------------------------------------------------------------------------
(* Properties *)

RowStates == {"absent", "pending", "confirmed", "dropped"}

\* Every map keeps its type; nothing is queued or shown of a history that is
\* not loaded, and less readings are kept than it takes to believe one.
TypeOK ==
    /\ latest \in 0..(LastNonce + 1)
    /\ mined \subseteq Txs
    /\ spentFor \in [Nonces -> 0..Settled]
    /\ push \in [Txs -> {"unsent", "unrecorded", "over"}]
    /\ row \in [Txs -> RowStates]
    /\ loaded \in BOOLEAN
    /\ queued \in BOOLEAN
    /\ ~loaded => ~queued /\ \A t \in Txs : row[t] = "absent"
    /\ disk \in [Txs -> RowStates]
    /\ probe \in [Probes -> [Txs -> [stage: Stages, age: 0..Delay]]]
    /\ watched \subseteq Txs
    /\ seen \in [Txs -> 0..(Readings - 1)]
    /\ since \in [Txs -> 0..Spacing]
    /\ confirmed_seen \subseteq Txs
    /\ told \in [Txs -> {"nobody", "waiting", "confirmed", "dropped"}]
    /\ noted \in [Txs -> 0..2]
    /\ restarts \in 0..MaxRestarts

\* A transaction shown (or saved) as dropped is never one that was mined, then
\* or later: its nonce went to another one (_on_tx_dropped, "by then a mined
\* tx's receipt has propagated and confirmed instead").
DroppedIsReplaced ==
    \A t \in Txs : "dropped" \in {row[t], disk[t]} => t \notin mined /\ Spent(t)

\* The receipt of a transaction is handed to the balance ledger, whose credit
\* is a delta, once in a session however often the watchers deliver it
\* (_confirmed_seen).
NotedOnce == \A t \in Txs : noted[t] <= 1

\* A terminal row stays terminal: a stale file, a late probe or a page never
\* turns it back into a pending one, and only an explorer that has the
\* transaction overrides a drop.  (The session may end, which forgets what is
\* in memory; and add_pending of the transaction itself may find that a page
\* has already brought it, and puts the pending row first, _insert_pending.)
TerminalIsFinal ==
    [][\A t \in Txs : row[t] \in {"confirmed", "dropped"} =>
         \/ row'[t] \in {row[t], "confirmed"}
         \/ ~loaded'
         \/ push'[t] # push[t]]_vars

\* What was once saved is never lost: a pending row or a page that lands before
\* the view was opened is merged with the file, not written over it
\* (_insert_pending, _on_page_fetched).
HistoryIsKept == [][\A t \in Txs : disk[t] # "absent" => disk'[t] # "absent"]_vars

\* A row is only dropped once its nonce has been spent for as long as the
\* readings span, however fast two watchers report.  So the drop of a mined
\* transaction takes a receipt that is missing for longer than that when it is
\* last read, or a ws endpoint that answers with an error
\* (DROP_CONFIRM_READINGS, DROP_READING_MIN_SPACING_S).
DropsTakeTime ==
    [][\A s \in Probes, t \in Txs : DropBelieved(s, t) =>
          /\ Spent(t)
          /\ spentFor[NonceOf[t]] >= Capped((Readings - 1) * Spacing, Settled)
          /\ t \in mined =>
                WsError(s) \/ spentFor[NonceOf[t]] < Lag + probe[s][t].age]_vars

\* The history only moves on: no row is lost, none is reopened, and none is
\* dropped before its time.
HistoryMovesOn == TerminalIsFinal /\ HistoryIsKept /\ DropsTakeTime

\* A pending row whose nonce is spent does not stay pending: the poll confirms
\* it or drops it in the end, whatever the ws and the load balancer say on the
\* way (_on_tx_still_pending, DROP_READING_MIN_SPACING_S).
PendingSettles ==
    \A t \in Txs : (row[t] = "pending" /\ Spent(t)) ~> row[t] # "pending"

\* A pending row in the file is watched again after a restart: "Restarts are
\* safe - pending entries survive in the disk cache, so the next launch picks
\* them up on the first tick" (transactions/__init__.py:418-421).
RestartResumes ==
    \A t \in Txs : disk[t] = "pending" ~> (row[t] # "absent" \/ disk[t] # "pending")

\* A listener hears of the transaction it waits for: "a one-shot tx_confirmed
\* listener never misses it" (transactions/__init__.py:1953-1955).
ListenerIsTold ==
    \A t \in Txs : (told[t] = "waiting" /\ t \in mined) ~> told[t] # "waiting"
=============================================================================
