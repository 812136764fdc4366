----------------------------- MODULE Approvals ------------------------------
(***************************************************************************)
(* The approvals tab (plugins/approvals): which (token, spender) pairs an  *)
(* account has an allowance for.  A scan worker walks the Approval logs    *)
(* from the cached cursor, patches the recent tail, and reads every        *)
(* candidate's allowance; a reconcile worker re-reads single pairs after a *)
(* confirmed transaction; both report to the main thread by queued         *)
(* signals, while accounts are switched, scans restarted and stopped, and  *)
(* approvals given and revoked on chain.  A batch of revokes opens one     *)
(* dialog after the other.                                                 *)
(***************************************************************************)
EXTENDS Integers, FiniteSets, SequencesExt

CONSTANTS
    Accounts,
    Pairs,              \* account -> the (token, spender) pairs it may approve
    Starts,             \* account -> the logs it may start with
    Page,               \* rows of one logs window (LOG_PAGE)
    MaxEvents,          \* bound on the approvals mined during a behaviour
    MaxEpochs,          \* bound on the scans and switches that move the epoch
    MaxReconciles,      \* bound on the reconcile workers started
    FaultSets           \* the sets of faults a behaviour may meet

\* "read": an allowance read may fail.  "stop": a scan may be stopped or lose
\* its log source.
FaultKinds == {"read", "stop"}

None == "none"

ASSUME ApprovalsAssumption ==
    /\ None \notin Accounts
    /\ \A a \in Accounts : Starts[a] \subseteq Seq(Pairs[a])
    /\ FaultSets \subseteq SUBSET FaultKinds
    /\ Page \in Nat \ {0} /\ MaxEpochs \in Nat

NoScan == [acct |-> None]

VARIABLES
    logs,               \* account -> the pair of each Approval event, by block
    allowed,            \* account -> the pairs with a positive allowance
    mined,              \* approvals mined so far
    indexed,            \* account -> the blocks the explorer's index serves
    confirmed,          \* own approvals mined and not yet reported: <<account, pair>>
    view,               \* the selected account
    shown,              \* the leaves of the panel
    loaded,             \* _loaded_for is the current view
    epoch,              \* _epoch
    lastBlock,          \* _last_block, the cursor in memory
    zeroed,             \* _scan_zeroed
    pending,            \* _reconcile_pending
    cache,              \* account -> the persisted [rows, block]
    scanners,           \* epoch -> the scan worker it started
    reconciles,         \* reconcile workers in flight: [acct, pairs, read, done]
    started,            \* reconcile workers started so far
    queue,              \* the revoke batch: [acct, rows], rows left to open
    dialog,             \* the dialog the batch has open: [owner, acct]
    faults,             \* the faults of this behaviour
    outrun              \* history: <<account, pair>> of the rows that a reconcile
                        \* took away for a zero that was no longer true

onChain == <<logs, allowed, mined, indexed, faults>>
plugin == <<shown, loaded, epoch, lastBlock, zeroed, pending>>
batch == <<queue, dialog>>
vars == <<onChain, confirmed, view, plugin, cache, scanners, reconciles, started,
          batch, outrun>>

-----------------------------------------------------------------------------
(* The two workers                                                         *)

Under(a, p, h) == \* p's latest event is at block h or below
    \A i \in DOMAIN logs[a] : logs[a][i] = p => i <= h

First(pairs) == CHOOSE p \in pairs : TRUE     \* they are sorted

Running(e) == scanners[e].acct # None /\ scanners[e].stage # "ended"
Report(s, kind, what) == [s EXCEPT !.inbox = Append(@, [kind |-> kind, what |-> what])]

\* Slip: the cursor a scan reports is the chain's head.
ChainHead(s) == Len(logs[s.acct])

\* The cursor a scan reports: the highest block the index served it.
Cursor(s) == s.head

Ends(s, complete) ==
    [Report(s, "done", [complete |-> complete, head |-> Cursor(s)])
        EXCEPT !.stage = "ended"]

\* Everything but the scans is left alone by a step of a scan worker.
WorkerStep(e, s) ==
    /\ scanners' = [scanners EXCEPT ![e] = s]
    /\ UNCHANGED <<onChain, confirmed, view, plugin, cache, reconciles, started,
                   batch, outrun>>

\* One window of Approval logs, as far as the index serves them: a short one
\* ends the walk, a full one moves past its highest block.
FetchWindow(e) ==
    LET s == scanners[e]
        first == IF s.from = 0 THEN 1 ELSE s.from
        full == first + Page - 1
        last == IF full <= indexed[s.acct] THEN full ELSE indexed[s.acct]
        found == [s EXCEPT !.pairs = @ \union {logs[s.acct][i] : i \in first .. last},
                           !.head = IF last > @ THEN last ELSE @]
    IN  /\ Running(e) /\ s.stage = "logs"
        /\ WorkerStep(e,
              IF s.interrupted \/ last < full
              THEN [(IF s.interrupted THEN s ELSE found) EXCEPT !.stage = "tail"]
              ELSE [found EXCEPT !.from = last + 1])

\* Three attempts failed: the scan reports how far it got.
LogSourceFails(e) ==
    /\ "stop" \in faults
    /\ Running(e) /\ scanners[e].stage = "logs" /\ ~scanners[e].interrupted
    /\ WorkerStep(e, Ends(scanners[e], FALSE))

\* The account's newest transactions may hold approvals the index does not
\* serve yet; best effort, and only those its own approve calls gave.
PatchTail(e) ==
    LET s == scanners[e]
        newer == {logs[s.acct][i] : i \in {j \in DOMAIN logs[s.acct] : j > s.head}}
    IN  /\ Running(e) /\ s.stage = "tail"
        /\ \E got \in IF s.interrupted THEN {{}} ELSE {{}, newer} :
              WorkerStep(e, [s EXCEPT !.pairs = @ \union got, !.stage = "verify"])

\* _emit_rows on the next chunk (of one pair here): a positive allowance is a
\* row, an exact zero is reported, a failed read is neither.
ReadZero(p, ok) == IF ok THEN {p} ELSE {}

Verify(e) ==
    LET s == scanners[e] IN
    /\ Running(e) /\ s.stage = "verify" /\ s.pairs # {} /\ ~s.interrupted
    /\ \E ok \in IF "read" \in faults THEN BOOLEAN ELSE {TRUE} :
         LET p == First(s.pairs)
             rest == [s EXCEPT !.pairs = @ \ {p}]
         IN  WorkerStep(e,
            IF ok /\ p \in allowed[s.acct] THEN Report(rest, "rows", {p})
            ELSE IF ReadZero(p, ok) # {} THEN Report(rest, "zeroed", ReadZero(p, ok))
            ELSE rest)

ScanEnds(e) ==
    LET s == scanners[e] IN
    /\ Running(e) /\ s.stage = "verify" /\ (s.pairs = {} \/ s.interrupted)
    /\ WorkerStep(e, Ends(s, ~s.interrupted))

\* The reconcile worker's reads; a pair whose read failed is left out.
ReconcileReads(r) ==
    /\ ~r.done
    /\ \E ok \in IF "read" \in faults THEN SUBSET r.pairs ELSE {r.pairs} :
         reconciles' = (reconciles \ {r}) \union
            {[r EXCEPT !.done = TRUE, !.pairs = ok, !.read = ok \intersect allowed[r.acct]]}
    /\ UNCHANGED <<onChain, confirmed, view, plugin, cache, scanners, started, batch, outrun>>

-----------------------------------------------------------------------------
(* The main thread                                                         *)

\* An event on an allowed pair is its revoke, on another one its approval.
AllowedAfter(seq) ==
    {p \in ToSet(seq) : Cardinality({i \in DOMAIN seq : seq[i] = p}) % 2 = 1}

\* What a session that had seen the first blocks of seq left in the cache.
SavedAfter(seq) ==
    {[rows |-> AllowedAfter(SubSeq(seq, 1, n)), block |-> n] : n \in 0 .. Len(seq)}

ApprovalsInit ==
    /\ logs \in [Accounts -> UNION {Starts[a] : a \in Accounts}]
    /\ \A a \in Accounts : logs[a] \in Starts[a]
    /\ allowed = [a \in Accounts |-> AllowedAfter(logs[a])]
    /\ mined = 0
    /\ indexed = [a \in Accounts |-> Len(logs[a])]
    /\ confirmed = {} /\ view \in Accounts /\ shown = {} /\ loaded = FALSE
    /\ epoch = 0 /\ lastBlock = 0 /\ zeroed = {} /\ pending = {}
    /\ cache \in [Accounts -> UNION {SavedAfter(logs[a]) : a \in Accounts}]
    /\ \A a \in Accounts : cache[a] \in SavedAfter(logs[a])
    /\ scanners = [e \in 1 .. MaxEpochs |-> NoScan]
    /\ reconciles = {} /\ started = 0
    /\ queue = [acct |-> None, rows |-> {}] /\ dialog = [owner |-> None]
    /\ faults \in FaultSets
    /\ outrun = {}

CanScan == epoch < MaxEpochs

\* _kick: a scan of the view from the cached cursor; an empty cache is cold.
StartScan ==
    LET c == cache[view]
        warm == c.rows # {}
        from == IF warm THEN c.block ELSE 0
    IN  /\ CanScan
        /\ loaded' = TRUE /\ epoch' = epoch + 1 /\ zeroed' = {}
        /\ shown' = c.rows /\ lastBlock' = from
        /\ scanners' = [scanners EXCEPT ![epoch + 1] =
              [acct |-> view, stage |-> "logs", from |-> from, head |-> from,
               pairs |-> c.rows, interrupted |-> FALSE, inbox |-> <<>>]]

\* The tab is shown: a scan unless the view is loaded, else the shown pairs
\* are read again.
Activate ==
    /\ IF loaded
       THEN /\ shown \ pending # {}
            /\ pending' = pending \union shown
            /\ UNCHANGED <<shown, loaded, epoch, lastBlock, zeroed, scanners>>
       ELSE StartScan /\ UNCHANGED pending
    /\ UNCHANGED <<onChain, confirmed, view, cache, reconciles, started, batch, outrun>>

\* The refresh button.
Refresh ==
    /\ StartScan
    /\ UNCHANGED <<onChain, confirmed, view, pending, cache, reconciles, started,
                   batch, outrun>>

\* The Stop button.
Stop ==
    /\ "stop" \in faults /\ epoch > 0 /\ Running(epoch)
    /\ ~scanners[epoch].interrupted
    /\ scanners' = [scanners EXCEPT ![epoch].interrupted = TRUE]
    /\ UNCHANGED <<onChain, confirmed, view, plugin, cache, reconciles, started,
                   batch, outrun>>

\* Slip: the batch is left running.
LeftRunning == queue

\* _invalidate aborts the batch: its open dialog stays, its callbacks are dead.
Aborted == [acct |-> None, rows |-> {}]

\* Another account is selected: invalidate, clear the panel, and scan if the
\* tab is visible (Activate).
SelectAccount(a) ==
    /\ a # view
    /\ view' = a
    /\ epoch < MaxEpochs /\ epoch' = epoch + 1       \* the epoch moves with no scan
    /\ loaded' = FALSE /\ shown' = {} /\ pending' = {}
    /\ scanners' = IF epoch > 0 /\ Running(epoch)
                THEN [scanners EXCEPT ![epoch].interrupted = TRUE] ELSE scanners
    /\ queue' = Aborted
    /\ UNCHANGED <<onChain, confirmed, lastBlock, zeroed, cache, reconciles,
                   started, dialog, outrun>>

\* Slip: whatever a worker reports counts.
FreshAnyway(e) == TRUE

\* What a scan worker reports counts for the epoch and the view it was of.
Fresh(e) == e = epoch /\ scanners[e].acct = view

Persist(a, rows, block) == cache' = [cache EXCEPT ![a] = [rows |-> rows, block |-> block]]

\* One queued signal of a scan worker reaches the main thread.  A completed
\* scan prunes what it read as zero and saves rows and cursor; an incomplete
\* one moves the cursor in memory and will be resumed.
DeliverScan(e) ==
    LET s == scanners[e]
        m == Head(s.inbox)
        head == IF m.what.head > lastBlock THEN m.what.head ELSE lastBlock
    IN
    /\ s.acct # None /\ s.inbox # <<>>
    /\ scanners' = [scanners EXCEPT ![e] =
          IF m.kind = "done" THEN NoScan ELSE [s EXCEPT !.inbox = Tail(@)]]
    /\ \/ ~Fresh(e) /\ UNCHANGED <<shown, loaded, lastBlock, zeroed, cache>>
       \/ /\ Fresh(e) /\ m.kind = "rows"
          /\ shown' = shown \union m.what
          /\ UNCHANGED <<loaded, lastBlock, zeroed, cache>>
       \/ /\ Fresh(e) /\ m.kind = "zeroed"
          /\ zeroed' = zeroed \union m.what
          /\ UNCHANGED <<shown, loaded, lastBlock, cache>>
       \/ /\ Fresh(e) /\ m.kind = "done" /\ m.what.complete
          /\ shown' = shown \ zeroed
          /\ lastBlock' = head
          /\ Persist(view, shown \ zeroed, head)
          /\ UNCHANGED <<loaded, zeroed>>
       \/ /\ Fresh(e) /\ m.kind = "done" /\ ~m.what.complete
          /\ lastBlock' = head /\ loaded' = FALSE
          /\ UNCHANGED <<shown, zeroed, cache>>
    /\ UNCHANGED <<onChain, confirmed, view, epoch, pending, reconciles, started,
                   batch, outrun>>

\* The debounce timer: the pending pairs are read again for the view.
RunReconcile ==
    /\ pending # {} /\ started < MaxReconciles
    /\ started' = started + 1
    /\ reconciles' = reconciles \union
          {[acct |-> view, pairs |-> pending, read |-> {}, done |-> FALSE, n |-> started]}
    /\ pending' = {}
    /\ UNCHANGED <<onChain, confirmed, view, shown, loaded, epoch, lastBlock, zeroed,
                   cache, scanners, batch, outrun>>

\* A reconcile result counts as long as the view is its own, whatever the
\* epoch: zero pairs leave the panel, and the panel and the cursor are saved.
DeliverReconcile(r) ==
    /\ r.done
    /\ reconciles' = reconciles \ {r}
    /\ IF r.acct = view
       THEN LET left == shown \ (r.pairs \ r.read) IN
            /\ shown' = left
            /\ Persist(view, left, lastBlock)
            /\ outrun' = outrun \union {<<view, p>> : p \in (shown \ left) \intersect allowed[view]}
       ELSE UNCHANGED <<shown, cache, outrun>>
    /\ UNCHANGED <<onChain, confirmed, view, loaded, epoch, lastBlock, zeroed, pending,
                   scanners, started, batch>>

\* The pending watch reports a confirmed approval of the selected account: a
\* shown pair is read again, an unknown one needs a scan.
TxConfirmed(a, p) ==
    /\ confirmed' = confirmed \ {<<a, p>>}
    /\ IF a # view THEN UNCHANGED <<plugin, scanners>>
       ELSE IF p \in shown
       THEN /\ pending' = pending \union {p}
            /\ UNCHANGED <<shown, loaded, epoch, lastBlock, zeroed, scanners>>
       ELSE StartScan /\ UNCHANGED pending
    /\ UNCHANGED <<onChain, view, cache, reconciles, started, batch, outrun>>

-----------------------------------------------------------------------------
(* The revoke batch (revoke_queue.py)                                      *)

\* The next row's dialog: its request is of the account selected now.
OpenNext(q) ==
    /\ queue' = [q EXCEPT !.rows = @ \ {First(q.rows)}]
    /\ dialog' = [owner |-> view, acct |-> q.acct]

\* Several rows are ticked and revoked; a running batch is aborted first.
StartBatch(rows) ==
    /\ dialog.owner = None
    /\ rows \subseteq shown /\ Cardinality(rows) > 1
    /\ OpenNext([acct |-> view, rows |-> rows])
    /\ UNCHANGED <<onChain, confirmed, view, plugin, cache, scanners, reconciles,
                   started, outrun>>

\* The dialog's transaction is broadcast: the batch goes on to the next row,
\* unless it was aborted or is through.
DialogBroadcast ==
    /\ dialog.owner # None
    /\ IF queue.rows = {} THEN dialog' = [owner |-> None] /\ queue' = Aborted
       ELSE OpenNext(queue)
    /\ UNCHANGED <<onChain, confirmed, view, plugin, cache, scanners, reconciles,
                   started, outrun>>

\* It is dismissed: the rest of the batch is dropped.
DialogCancelled ==
    /\ dialog.owner # None
    /\ dialog' = [owner |-> None] /\ queue' = Aborted
    /\ UNCHANGED <<onChain, confirmed, view, plugin, cache, scanners, reconciles,
                   started, outrun>>

-----------------------------------------------------------------------------
(* The chain and the explorer                                              *)

\* An approval is given or taken back; the wallet's own transaction will be
\* reported confirmed, another path's (a permit) will not.
Mine(a, p, own) ==
    /\ mined < MaxEvents /\ mined' = mined + 1
    /\ logs' = [logs EXCEPT ![a] = Append(@, p)]
    /\ allowed' = [allowed EXCEPT ![a] =
                     IF p \in @ THEN @ \ {p} ELSE @ \union {p}]
    /\ confirmed' = IF own THEN confirmed \union {<<a, p>>} ELSE confirmed
    /\ outrun' = outrun \ {<<a, p>>}
    /\ UNCHANGED <<indexed, faults, view, plugin, cache, scanners, reconciles, started,
                   batch>>

IndexAdvances(a) ==
    /\ indexed[a] < Len(logs[a])
    /\ indexed' = [indexed EXCEPT ![a] = @ + 1]
    /\ UNCHANGED <<logs, allowed, mined, faults, confirmed, view, plugin, cache, scanners, reconciles,
                   started, batch, outrun>>

ApprovalsNext ==
    \/ \E e \in 1 .. MaxEpochs :
         FetchWindow(e) \/ LogSourceFails(e) \/ PatchTail(e) \/ Verify(e)
            \/ ScanEnds(e) \/ DeliverScan(e)
    \/ \E r \in reconciles : ReconcileReads(r) \/ DeliverReconcile(r)
    \/ Activate \/ Refresh \/ Stop \/ RunReconcile
    \/ \E a \in Accounts : SelectAccount(a) \/ IndexAdvances(a)
    \/ \E t \in confirmed : TxConfirmed(t[1], t[2])
    \/ \E a \in Accounts : \E p \in Pairs[a], own \in BOOLEAN : Mine(a, p, own)
    \/ \E rows \in SUBSET shown : StartBatch(rows)
    \/ DialogBroadcast \/ DialogCancelled

ApprovalsSpec == ApprovalsInit /\ [][ApprovalsNext]_vars

-----------------------------------------------------------------------------
(* Properties                                                              *)

\* What an account's cache and panel hold are approvals of that account, on
\* whatever switches the workers' results arrive.  (_fresh, _on_reconciled,
\* _persist)
CacheIsOwn ==
    /\ shown \subseteq ToSet(logs[view])
    /\ \A a \in Accounts : cache[a].rows \subseteq ToSet(logs[a])

\* The cursor of a: an allowed pair whose latest event is at block h or below is
\* among rows - the next scan resumes above h and would never look at it again -
\* unless a reconcile's late zero took its row.
Covers(a, h, rows) ==
    \A p \in allowed[a] : Under(a, p, h) /\ <<a, p>> \notin outrun => p \in rows

\* Where no read fails and no scan is cut short the persisted cursor passes no
\* approval, whatever switches, rescans and reconciles fall into a scan.
\* (_on_done, _on_reconciled, _persist, _emit_rows)
CalmCursorPassesNothing ==
    faults = {} =>
        \A a \in Accounts : cache[a].rows # {} => Covers(a, cache[a].block, cache[a].rows)

\* ... in any case.  Refuted: a read that fails, a scan that is stopped before a
\* reconcile saves its cursor, a reconcile's zero that a new approval outran.
CursorPassesNothing ==
    \A a \in Accounts : \A p \in allowed[a] :
        cache[a].rows # {} /\ Under(a, p, cache[a].block) => p \in cache[a].rows

\* Every dialog of a revoke batch acts for the account whose rows were ticked,
\* also when another account is selected while a dialog is open.
\* (_invalidate, RevokeQueue._on_broadcast)
BatchActsForItsAccount == dialog.owner # None => dialog.owner = dialog.acct

\* Approvals are shown, saved and revoked for their own account only.
OwnAccountOnly == CacheIsOwn /\ BatchActsForItsAccount
=============================================================================
