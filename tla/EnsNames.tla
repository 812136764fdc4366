------------------------------ MODULE EnsNames ------------------------------
(***************************************************************************)
(* The ENS tab (plugins/ens): the names of the selected account, who owns  *)
(* each one and one record per name.  A discovery worker unites what       *)
(* several unreliable sources report; an ownership worker reads the names  *)
(* at the execution head and once more with a proof that may lag; a        *)
(* records worker does the same for the records of one name.  All of them  *)
(* report to the main thread by queued signals, while accounts are         *)
(* switched, refreshes supersede each other and the user's own writes are  *)
(* confirmed.  Stale results are held off by a refresh epoch and by the    *)
(* block each shown value is known as of.                                  *)
(*                                                                         *)
(* Registrant, manager and wrapper roles are one owner here; the tree is   *)
(* flat.                                                                   *)
(***************************************************************************)
EXTENDS Naturals, FiniteSets, SequencesExt

CONSTANTS
    Accounts,
    Names,
    FirstBlocks,        \* the chains a behaviour may start with: [owner, rec]
    Disks,              \* the caches it may start with
    Pins,               \* the custom names of the store
    MorePins,           \* it pins others beside Names, more than one aggregate reads
    Addressed,          \* names with an ETH address record
    KeyIsStandard,      \* the record has one of TEXT_KEYS
    Faults,             \* subset of {"gap", "partial", "lagging proof", "lie"}
    Budgets             \* the bounds a behaviour may have: [blocks, refreshes, reads]

None == "none"
Nobody == "nobody"      \* the owner of a name that does not exist
Unknown == "unknown"    \* an ownership read that did not land
NoFile == <<>>          \* no cache file, no answer yet
NoBlock == 0            \* a read whose first aggregate failed
Sources == {"owned", "registrant", "cached", "custom"}
FaultKinds == {"gap", "partial", "lagging proof", "lie"}

\* A block: who owns each name, and the one record of each.
Blocks == [owner : [Names -> Accounts \union {Nobody}], rec : [Names -> {"blank", "set"}]]

ASSUME EnsAssumption ==
    /\ Accounts \intersect {None, Nobody, Unknown} = {}
    /\ FirstBlocks \subseteq Blocks
    /\ Disks \subseteq [Accounts -> {NoFile} \union [Names -> Sources \union {None}]]
    /\ Pins \subseteq Names /\ Addressed \subseteq Names
    /\ Faults \subseteq FaultKinds /\ {KeyIsStandard, MorePins} \subseteq BOOLEAN

VARIABLES
    chain,              \* the blocks: [owner: name -> account, rec: name -> value]
    writes,             \* own writes mined and not yet reported
    view,               \* the selected account (_loaded_for)
    epoch, catchup,     \* _epoch, _verify_catchup
    disk,               \* account -> the cached names with their source, or NoFile
    remembered,         \* _cached_names
    added,              \* _pending_adds
    denied,             \* _denied
    listed,             \* _names_by_l: name -> source
    gates,              \* _controller
    known,              \* the record's text key is in the store
    panel,              \* [drawn, rows, own, badge, stamp]
    recs,               \* _rec_cache and the records cache: name -> [val, block, verified]
    discoveries, verifiers, readers,    \* workers in flight
    left,               \* what is left of the budget
    seen, wrote, proved, apart  \* history: see the properties and Apart

world == <<chain, writes>>
names == <<disk, remembered, added, denied, listed, gates>>
records == <<known, recs>>
workers == <<discoveries, verifiers, readers>>
history == <<seen, wrote, proved, apart>>
vars == <<world, view, epoch, catchup, names, records, panel, workers, left, history>>

Height == Len(chain)
NoOwner == [owner |-> None, at |-> 0, proven |-> FALSE]
NoRecord == [val |-> None, block |-> 0, verified |-> FALSE]
Nothing == [n \in Names |-> None]

Init ==
    /\ chain \in {<<b>> : b \in FirstBlocks}
    /\ disk \in Disks
    /\ left \in Budgets
    /\ view = None /\ epoch = 0 /\ catchup = FALSE /\ known = KeyIsStandard
    /\ writes = {} /\ remembered = {} /\ added = {} /\ denied = {} /\ gates = {}
    /\ listed = Nothing
    /\ panel = [drawn |-> Nothing, rows |-> {}, own |-> [n \in Names |-> NoOwner],
                badge |-> Nothing, stamp |-> [n \in Names |-> 0]]
    /\ recs = [n \in Names |-> NoRecord]
    /\ discoveries = {} /\ verifiers = {} /\ readers = {}
    /\ seen = [n \in Names |-> 0] /\ wrote = [n \in Names |-> 0]
    /\ proved = [n \in Names |-> {}] /\ apart = {}

-----------------------------------------------------------------------------
(* The panel                                                               *)

\* Slip: an update is taken whatever block it was read at.
AcceptsAny(p, n, b) == b >= 0

\* The one ordering rule of a row: no older than the block it is known as of.
Accepts(p, n, b) == b >= p.stamp[n]

\* A listing that is the one drawn keeps the tree; any other rebuilds it.
\* The stamps survive.
Populated(p, list) ==
    IF list = p.drawn /\ (p.rows # {} \/ MorePins) THEN p
    ELSE [p EXCEPT !.drawn = list, !.rows = {n \in Names : list[n] # None},
                   !.own = [n \in Names |-> NoOwner], !.badge = Nothing]

Stamped(p, n, b) == IF Accepts(p, n, b) THEN [p EXCEPT !.stamp[n] = b] ELSE p

\* A confirmed ownership write: shown at once, without the tick.
RoleApplied(p, n, who, b) ==
    IF ~Accepts(p, n, b) THEN p
    ELSE [Stamped(p, n, b) EXCEPT
            !.own[n] = [owner |-> who, at |-> b, proven |-> FALSE]]

RowDropped(p, n) ==
    [p EXCEPT !.rows = @ \ {n}, !.own[n] = NoOwner, !.badge[n] = None]

Disowned(states, n) == states[n] \notin {Unknown, view}

\* The newest block a row has shown an owner of, once those of S are painted as
\* of the blocks `at`.
Seen(S, at) ==
    [n \in Names |-> IF n \in S /\ at[n] > seen[n] THEN at[n] ELSE seen[n]]

\* The rows painted as of another block than b, which they are stamped with; and
\* those not painted since as of a block that is as new as all they have shown.
Apart(S, at, b) ==
    {n \in Names : IF n \in S THEN at[n] # b \/ (n \in apart /\ b < seen[n])
                   ELSE n \in apart}

-----------------------------------------------------------------------------
(* What is listed                                                          *)

\* Slip: the names only the cache remembers are not merged.
ListingOfFound(found, pend, rem, den) ==
    [n \in Names |->
        IF found[n] # None /\ (found[n] = "custom" \/ n \notin den) THEN found[n]
        ELSE IF n \in pend \ den THEN "owned" ELSE None]

\* What was found, without the denied names, with the names just created and
\* the ones the cache remembers.
Listing(found, pend, rem, den) ==
    [n \in Names |->
        IF found[n] # None /\ (found[n] = "custom" \/ n \notin den) THEN found[n]
        ELSE IF n \in den THEN None
        ELSE IF n \in pend THEN "owned"
        ELSE IF n \in rem THEN "cached" ELSE None]

Saved(list, den) == [n \in Names |-> IF n \in den THEN None ELSE list[n]]

\* Leaves the workers of earlier refreshes in flight; their epoch is over.
Refresh(cu, acct) ==
    /\ epoch' = epoch + 1
    /\ catchup' = cu
    /\ left' = [left EXCEPT !.refreshes = @ - 1]
    /\ discoveries' = discoveries \union
          {[epoch |-> epoch + 1, acct |-> acct, found |-> NoFile]}

\* Another account: the cached names are painted, then refreshed.
Load(a) ==
    LET found == disk[a]
        rem == IF found = NoFile THEN {}
               ELSE {n \in Names : found[n] \notin {None, "custom"}}
        list == IF found = NoFile THEN listed ELSE Listing(found, {}, rem, {})
    IN  /\ a # view /\ left.refreshes > 0
        /\ view' = a
        /\ denied' = {} /\ added' = {} /\ gates' = {}
        /\ remembered' = rem
        /\ listed' = list
        /\ panel' = IF found = NoFile THEN panel ELSE Populated(panel, list)
        /\ Refresh(FALSE, a)
        /\ UNCHANGED <<world, disk, records, verifiers, readers, history>>

\* The user adds a pin; the store's set is a constant here.
AddCustom ==
    /\ view # None /\ left.refreshes > 0
    /\ Refresh(FALSE, view)
    /\ UNCHANGED <<world, view, names, records, panel, verifiers, readers, history>>

-----------------------------------------------------------------------------
(* Discovery                                                               *)

\* The indexers: names they never saw, or that somebody else owns.
Indexed(acct) ==
    {S \in SUBSET Names :
        /\ "lie" \notin Faults =>
              \A n \in S : \E b \in 1 .. Height : chain[b].owner[n] = acct
        /\ "gap" \notin Faults => {n \in Names : chain[1].owner[n] = acct} \subseteq S}

\* The NFTs the account holds, read at the head; a source may be down.
Held(acct) == SUBSET {n \in Names : chain[Height].owner[n] = acct}

DiscoveryReads(d) ==
    /\ d.found = NoFile
    /\ \E idx \in Indexed(d.acct), nft \in Held(d.acct) :
          LET found == [n \in Names |-> IF n \in idx THEN "owned"
                                       ELSE IF n \in nft THEN "registrant"
                                       ELSE IF n \in Pins THEN "custom" ELSE None]
          IN  discoveries' = (discoveries \ {d}) \union {[d EXCEPT !.found = found]}
    /\ UNCHANGED <<world, view, epoch, catchup, names, records, panel, verifiers,
                   readers, left, history>>

OfThisRefresh(w) == w.epoch = epoch /\ w.acct = view

NamesReady(d) ==
    LET pend == {n \in added : d.found[n] = None}
        list == Listing(d.found, pend, remembered, denied)
        shown == {n \in Names : list[n] # None}
    IN  /\ d.found # NoFile
        /\ discoveries' = discoveries \ {d}
        /\ IF OfThisRefresh(d)
           THEN /\ added' = pend
                /\ listed' = list
                /\ panel' = Populated(panel, list)
                /\ disk' = [disk EXCEPT ![view] = Saved(list, denied)]
                /\ IF shown = {} THEN UNCHANGED <<verifiers, catchup>>
                   ELSE /\ catchup' = FALSE
                        /\ verifiers' = verifiers \union
                             {[epoch |-> epoch, acct |-> view, names |-> shown,
                               catchup |-> catchup, stage |-> "fast",
                               landed |-> FALSE, fast |-> NoBlock, out |-> <<>>]}
           ELSE UNCHANGED <<added, listed, panel, disk, verifiers, catchup>>
        /\ UNCHANGED <<world, view, epoch, remembered, denied, gates, records,
                       readers, left, history>>

-----------------------------------------------------------------------------
(* Ownership                                                               *)

\* The blocks the execution head and the light client may be at; the head of the
\* light client only moves on.
FastHeads == {Height, IF Height > 1 THEN Height - 1 ELSE Height}
ProofHeads == IF "lagging proof" \in Faults THEN 1 .. Height ELSE {Height}

\* A read goes out in aggregates of a hundred calls, some sixteen names, each an
\* eth_call of its own, and takes the block of the first for all.  The pins may
\* come first; then the names of a later aggregate are as of any of `heads`.  When
\* the first fails there is no block.
Runs(S, b, heads) ==
    LET fails == "partial" \in Faults
    IN  {r \in [at : [S -> heads \union {b}], lost : IF fails THEN SUBSET S ELSE {{}},
                block : IF fails THEN {b, NoBlock} ELSE {b}] :
            \E first \in IF MorePins THEN SUBSET S ELSE {S} :
                /\ \A n \in first \union r.lost : r.at[n] = b
                /\ r.block = NoBlock => first \subseteq r.lost}

Reads(S, b, heads) ==
    {[states |-> [n \in S |-> IF n \in r.lost THEN Unknown ELSE chain[r.at[n]].owner[n]],
      at |-> r.at, block |-> r.block] : r \in Runs(S, b, heads)}

VerifierStep(v, w) ==
    /\ verifiers' = (verifiers \ {v}) \union
          (IF w.stage = "done" /\ w.out = <<>> THEN {} ELSE {w})
    /\ UNCHANGED <<world, view, epoch, catchup, names, records, panel, discoveries,
                   readers, left, history>>

Message(m, verified) ==
    [states |-> m.states, at |-> m.at, block |-> m.block, verified |-> verified]

FastStates(v) ==
    /\ v.stage = "fast"
    /\ \/ VerifierStep(v, [v EXCEPT !.stage = "proof"])         \* the read failed
       \/ \E b \in FastHeads : \E m \in Reads(v.names, b, FastHeads) :
             VerifierStep(v, [v EXCEPT !.stage = "proof", !.landed = TRUE, !.fast = m.block,
                !.out = Append(@, Message(m, FALSE))])

\* After a write the proof has to reach the fast read's block, if both have one;
\* else it is tried again, a few times.
CaughtUp(v, b) == v.catchup => v.landed /\ (NoBlock \in {v.fast, b} \/ b >= v.fast)

ProvenStates(v) ==
    /\ v.stage = "proof"
    /\ \E b \in ProofHeads : \E m \in Reads(v.names, b, {h \in ProofHeads : h >= b}) :
          /\ CaughtUp(v, m.block)
          /\ VerifierStep(v, [v EXCEPT !.stage = "done", !.out = Append(@, Message(m, TRUE))])

\* No sidecar, or the proof never caught up.
VerifierEnds(v) ==
    /\ v.stage = "proof"
    /\ VerifierStep(v, [v EXCEPT !.stage = "done"])

OnVerified(v) ==
    LET m == Head(v.out)
        w == [v EXCEPT !.out = Tail(@)]
        fresh == {n \in DOMAIN m.states : Accepts(panel, n, m.block)}
        mine == {n \in fresh : m.states[n] = view}
        drawn == fresh \intersect panel.rows
        src(n) == panel.drawn[n]
        dropped == {n \in drawn : /\ Disowned(m.states, n)
                                  /\ \/ src(n) = "cached"
                                     \/ src(n) = "owned" /\ m.verified}
        kept == {n \in drawn : /\ m.states[n] # Unknown
                               /\ Disowned(m.states, n) => src(n) = "custom"}
        catchingUp == {n \in drawn : Disowned(m.states, n) /\ src(n) = "registrant"}
        own(n) == [owner |-> m.states[n], at |-> m.at[n], proven |-> m.verified]
    IN  /\ v.out # <<>>
        /\ verifiers' = (verifiers \ {v}) \union
              (IF w.stage = "done" /\ w.out = <<>> THEN {} ELSE {w})
        /\ IF OfThisRefresh(v)
           THEN /\ gates' = (gates \ fresh) \union mine
                /\ denied' = (denied \ mine) \union dropped
                /\ remembered' = remembered \ dropped
                /\ disk' = IF dropped = {} THEN disk
                           ELSE [disk EXCEPT ![view] = Saved(listed, denied')]
                /\ panel' =
                     [panel EXCEPT
                        !.rows = @ \ dropped,
                        !.stamp = [n \in Names |->
                            IF n \in drawn THEN m.block ELSE @[n]],
                        !.own = [n \in Names |->
                            CASE n \in dropped -> NoOwner
                              [] n \in kept -> own(n)
                              [] OTHER -> @[n]],
                        !.badge = [n \in Names |->
                            CASE n \in dropped -> None
                              [] n \in catchingUp /\ m.verified -> None
                              [] n \in mine \intersect drawn /\ m.verified -> view
                              [] OTHER -> @[n]]]
                /\ seen' = Seen(kept, m.at)
                /\ apart' = Apart(kept, m.at, m.block)
           ELSE UNCHANGED <<gates, denied, remembered, disk, panel, seen, apart>>
        /\ UNCHANGED <<world, view, epoch, catchup, added, listed, records,
                       discoveries, readers, left, wrote, proved>>

-----------------------------------------------------------------------------
(* Records                                                                 *)

Reader(n, forced) ==
    [name |-> n, forced |-> forced, knows |-> known \/ recs[n].val = "set",
     stage |-> "fast", out |-> <<>>]

\* A row is expanded, or a recovered key asks for the shown records again.
RecordsRequested(n) ==
    /\ n \in panel.rows /\ left.reads > 0
    /\ left' = [left EXCEPT !.reads = @ - 1]
    /\ readers' = readers \union {Reader(n, FALSE)}
    /\ UNCHANGED <<world, view, epoch, catchup, names, records, panel,
                   discoveries, verifiers, history>>

\* A read only sees the keys it asks for.
RecordAt(r, b) == IF r.knows THEN chain[b].rec[r.name] ELSE "blank"

ReaderStep(r, w) ==
    /\ readers' = (readers \ {r}) \union
          (IF w.stage = "done" /\ w.out = <<>> THEN {} ELSE {w})
    /\ UNCHANGED <<world, view, epoch, catchup, names, records, panel, discoveries,
                   verifiers, left, history>>

FastRecords(r) ==
    /\ r.stage = "fast"
    /\ \/ ReaderStep(r, [r EXCEPT !.stage = "proof"])          \* ok is False
       \/ \E b \in FastHeads :
             ReaderStep(r, [r EXCEPT !.stage = "proof",
                !.out = Append(@, [val |-> RecordAt(r, b), verified |-> FALSE,
                                   block |-> b])])

\* A lagging proof of a forced read is tried again, and sent in the end.
ProvenRecords(r) ==
    /\ r.stage = "proof"
    /\ \E b \in ProofHeads :
          ReaderStep(r, [r EXCEPT !.stage = "done",
             !.out = Append(@, [val |-> RecordAt(r, b), verified |-> TRUE,
                                block |-> b])])

ReaderEnds(r) ==
    /\ r.stage = "proof"
    /\ ReaderStep(r, [r EXCEPT !.stage = "done"])

\* Newer than the shown one, or the proof of the same block.
Supersedes(n, m) ==
    \/ recs[n].val = None
    \/ m.block > recs[n].block
    \/ m.block = recs[n].block /\ m.verified /\ ~recs[n].verified

OnRecordsReady(r) ==
    LET m == Head(r.out)
        w == [r EXCEPT !.out = Tail(@)]
        n == r.name
        ticked == m.verified \/ (recs[n].verified /\ recs[n].val = m.val)
    IN  /\ r.out # <<>>
        /\ readers' = (readers \ {r}) \union
              (IF w.stage = "done" /\ w.out = <<>> THEN {} ELSE {w})
        /\ IF Supersedes(n, m)
           THEN /\ recs' = [recs EXCEPT ![n] =
                      [val |-> m.val, block |-> m.block, verified |-> ticked]]
                /\ panel' = IF n \in Addressed \/ r.forced
                            THEN Stamped(panel, n, m.block) ELSE panel
                /\ proved' = IF m.verified THEN [proved EXCEPT ![n] = @ \union {m.val}]
                             ELSE proved
           ELSE UNCHANGED <<recs, panel, proved>>
        /\ UNCHANGED <<world, view, epoch, catchup, names, known, discoveries,
                       verifiers, left, seen, wrote, apart>>

-----------------------------------------------------------------------------
(* Own writes, and everybody else's                                        *)

Bounded == Height < left.blocks

\* A composer's transaction is mined; it fails when the account lost the name.
WriteMines(kind, n) ==
    LET b == chain[Height]
        ok == IF kind = "add" THEN b.owner[n] = Nobody ELSE b.owner[n] = view
    IN  /\ Bounded /\ view # None
        /\ IF kind = "record" THEN left.reads > 0 ELSE left.refreshes > 0
        /\ kind = "add" \/ (n \in gates /\ listed[n] # None)
        /\ \E to \in Accounts :
              /\ kind # "manager" => to = view
              /\ LET next ==
                      IF ~ok THEN b
                      ELSE CASE kind = "remove" -> [b EXCEPT !.owner[n] = Nobody]
                             [] kind \in {"add", "manager"} -> [b EXCEPT !.owner[n] = to]
                             [] kind = "record" -> [b EXCEPT !.rec[n] = "set"]
                 IN  /\ chain' = Append(chain, next)
                     /\ writes' = writes \union
                           {[kind |-> kind, name |-> n, to |-> to,
                             block |-> Height + 1, ok |-> ok]}
    /\ UNCHANGED <<view, epoch, catchup, names, records, panel, workers, left, history>>

Told(w) == writes' = writes \ {w}

\* The history of a write that RoleApplied paints on p.
OwnWriteShown(p, w) ==
    IF Accepts(p, w.name, w.block)
    THEN LET at == [n \in Names |-> w.block] IN
         seen' = Seen({w.name}, at) /\ apart' = Apart({w.name}, at, w.block)
    ELSE UNCHANGED <<seen, apart>>

Reverted(w) ==
    /\ ~w.ok /\ Told(w)
    /\ UNCHANGED <<chain, view, epoch, catchup, names, records, panel, workers, left,
                   history>>

\* A subname was created: list it, show its manager, open its actions.
MarkAdded(w) ==
    LET n == w.name
        den == denied \ {n}
        found == IF disk[view] = NoFile THEN Nothing ELSE disk[view]
        list == Listing(found, added \union {n}, remembered, den)
        drawn == Populated(panel, list)
    IN  /\ w.ok /\ w.kind = "add" /\ Told(w) /\ left.refreshes > 0
        /\ denied' = den /\ added' = added \union {n} /\ listed' = list
        /\ panel' = RoleApplied(drawn, n, w.to, w.block)
        /\ OwnWriteShown(drawn, w)
        /\ gates' = IF w.to = view THEN gates \union {n} ELSE gates
        /\ Refresh(TRUE, view)
        /\ UNCHANGED <<chain, view, disk, remembered, records, verifiers, readers,
                       wrote, proved>>

\* A subname was deleted: it is denied, and leaves every cache and the tree.
MarkRemoved(w) ==
    LET n == w.name IN
    /\ w.ok /\ w.kind = "remove" /\ Told(w) /\ left.refreshes > 0
    /\ denied' = denied \union {n}
    /\ added' = added \ {n} /\ remembered' = remembered \ {n}
    /\ disk' = [a \in Accounts |->
          IF disk[a] = NoFile THEN NoFile ELSE [disk[a] EXCEPT ![n] = None]]
    /\ panel' = RowDropped(Stamped(panel, n, w.block), n)
    /\ Refresh(TRUE, view)
    /\ UNCHANGED <<chain, view, listed, gates, records, verifiers, readers, history>>

ApplySetManager(w) ==
    /\ w.ok /\ w.kind = "manager" /\ Told(w) /\ left.refreshes > 0
    /\ panel' = RoleApplied(panel, w.name, w.to, w.block)
    /\ OwnWriteShown(panel, w)
    /\ Refresh(TRUE, view)
    /\ UNCHANGED <<chain, view, names, records, verifiers, readers, wrote, proved>>

\* Slip: the tick of the value that was overwritten stays.
PushedTicked(n, b) ==
    [val |-> "set", block |-> IF b > recs[n].block THEN b ELSE recs[n].block,
     verified |-> recs[n].verified]

Pushed(n, b) ==
    [val |-> "set", block |-> IF b > recs[n].block THEN b ELSE recs[n].block,
     verified |-> FALSE]

\* A record was written: shown at once, its key remembered, then re-read.
ApplyRecordChange(w) ==
    LET n == w.name IN
    /\ w.ok /\ w.kind = "record" /\ Told(w) /\ left.reads > 0
    /\ left' = [left EXCEPT !.reads = @ - 1]
    /\ known' = TRUE
    /\ recs' = [recs EXCEPT ![n] = Pushed(n, w.block)]
    /\ panel' = IF n \in Addressed THEN Stamped(panel, n, w.block) ELSE panel
    /\ wrote' = [wrote EXCEPT ![n] = w.block]
    /\ readers' = readers \union
          {[name |-> n, forced |-> TRUE, knows |-> TRUE, stage |-> "fast",
            out |-> <<>>]}
    /\ UNCHANGED <<chain, view, epoch, catchup, names, discoveries, verifiers,
                   seen, proved, apart>>

\* Somebody else's block.
ChainMoves ==
    /\ Bounded
    /\ \E n \in Names :
          \/ \E o \in Accounts \union {Nobody} :
                chain' = Append(chain, [chain[Height] EXCEPT !.owner[n] = o])
          \/ \E v \in {"blank", "set"} :
                /\ left.reads > 0 \/ readers # {}  \* a bound: somebody will look
                /\ chain' = Append(chain, [chain[Height] EXCEPT !.rec[n] = v])
    /\ UNCHANGED <<writes, view, epoch, catchup, names, records, panel, workers, left,
                   history>>

-----------------------------------------------------------------------------
WorkerNext ==
    \/ \E d \in discoveries : DiscoveryReads(d) \/ NamesReady(d)
    \/ \E v \in verifiers : \/ FastStates(v) \/ ProvenStates(v)
                            \/ VerifierEnds(v) \/ OnVerified(v)
    \/ \E r \in readers : \/ FastRecords(r) \/ ProvenRecords(r)
                          \/ ReaderEnds(r) \/ OnRecordsReady(r)

Next ==
    \/ \E a \in Accounts : Load(a)
    \/ AddCustom
    \/ WorkerNext
    \/ \E n \in Names : RecordsRequested(n)
    \/ \E n \in Names, kind \in {"add", "remove", "manager", "record"} :
          WriteMines(kind, n)
    \/ \E w \in writes : \/ Reverted(w) \/ MarkAdded(w) \/ MarkRemoved(w)
                         \/ ApplySetManager(w) \/ ApplyRecordChange(w)
    \/ ChainMoves

Spec == Init /\ [][Next]_vars

-----------------------------------------------------------------------------
(* Properties                                                              *)

\* The owner a row shows is never older than one it showed before, nor than
\* the user's own confirmed write: not after a rebuild of the tree, another
\* account, a refresh or a proof that lags.  The exception are the rows of `apart`:
\* painted from an aggregate that ran at another block than the one its read was
\* stamped with, and not since from one as new as everything they have shown.
NeverPaintedBack ==
    \A n \in Names \ apart : panel.own[n].owner # None => panel.own[n].at >= seen[n]

\* ... without the exception.  Refuted where a read takes several aggregates: the
\* block of the first is the stamp of all, so an owner that a lagging backend
\* answers in a later one is painted over the user's own confirmed write.
RowNeverPaintedBack ==
    \A n \in Names : panel.own[n].owner # None => panel.own[n].at >= seen[n]

\* A record the user's confirmed write set is shown for as long as the chain
\* keeps it, whatever reads were under way when it was confirmed.  Refuted for a
\* key that is none of TEXT_KEYS: a read begun before the write does not ask for
\* it, and supersedes the written value when it is of a later block.
AnyRecordStays ==
    \A n \in Names :
        wrote[n] > 0 /\ (\A b \in wrote[n] .. Height : chain[b].rec[n] = "set")
            => recs[n].val = "set"

\* ... so it stays for the keys that every read asks for.
OwnRecordStays == KeyIsStandard => AnyRecordStays

\* A record's tick is never for a value no proof has shown.
TickIsForProvenValue ==
    \A n \in Names : recs[n].verified => recs[n].val \in proved[n]

\* What the panel shows is what was read, and no older than what it showed: the
\* owners, the user's own records, and the ticks beside them.
ShownIsAsRead == NeverPaintedBack /\ OwnRecordStays /\ TickIsForProvenValue

\* A remembered name the account has owned in every block stays in its cache,
\* however few sources return it and however many reads fail.
RememberedStays ==
    [][\A n \in Names :
          /\ view # None /\ n \in remembered /\ disk[view] # NoFile
          /\ disk[view][n] # None
          /\ \A b \in 1 .. Height : chain[b].owner[n] = view
          => disk'[view][n] # None]_vars

\* The same for every name that was saved.
SavedStays ==
    [][\A n \in Names, a \in Accounts :
          /\ disk[a] # NoFile /\ disk[a][n] # None
          /\ \A b \in 1 .. Height : chain[b].owner[n] = a
          => disk'[a][n] # None]_vars

\* The line's tick is the selected account's.
BadgeIsForSelected ==
    \A n \in Names : panel.badge[n] \in {None, view}

\* The proof of a stable owner lands its tick, however far it lags.
ProofEarnsBadge ==
    [][\A v \in verifiers, n \in Names :
          /\ OnVerified(v) /\ v.epoch = epoch /\ v.acct = view
          /\ Head(v.out).verified /\ n \in v.names \intersect panel.rows
          /\ Head(v.out).states[n] = view
          /\ \A b \in 1 .. Height : chain[b].owner[n] = view
          => panel'.badge[n] = view]_vars

\* A stale denial never hides a real name: an owned name that a discovery
\* returns is listed.
OwnedIsListed ==
    [][\A d \in discoveries, n \in Names :
          /\ NamesReady(d) /\ OfThisRefresh(d) /\ d.found[n] # None
          /\ chain[Height].owner[n] = view
          => listed'[n] # None]_vars
=============================================================================
