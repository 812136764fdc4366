------------------------------ MODULE Accounts ------------------------------
(***************************************************************************)
(* The accounts of the wallet: the records held in memory (store.py), the  *)
(* connected account of each chain family, the keystore files of the hot   *)
(* wallets (hot_wallet.py), the config file, and the flows of the wallets  *)
(* panel that change them.  Two threads save the config: the GUI, and the  *)
(* JSON-RPC thread when it keeps a chain.  A save is a snapshot under one  *)
(* lock and a file write under another, so two saves may reach the disk in *)
(* the other order; the process may end between any two steps.             *)
(***************************************************************************)
EXTENDS Naturals, FiniteSets, SequencesExt

CONSTANTS
    Candidates,     \* records a dialog can offer: [addr, path, source, family]
    Families,       \* the chain families: "evm" and "tron"
    NewChains,      \* chains a dapp may have added
    Failing,        \* threads whose file write may fail (disk full)
    MaxAccounts,    \* bound on the records held
    MaxSaves,       \* bound on the saves of one process
    MaxCrashes      \* bound on the restarts

NoAddr == "no_addr"
NoPath == "no_path"         \* None: the default does not say which record
Pathless == ""              \* the path of a hot or watch-only record
Gui == "gui"
Rpc == "rpc"
Threads == {Gui, Rpc}
Idle == [at |-> "idle"]
NoSnap == [seq |-> 0]

ASSUME CandidatesAssumption ==
    \A r \in Candidates : r.source \in {"hot", "watch_only"} => r.path = Pathless

VARIABLES
    accounts,       \* Store.accounts, in order
    default,        \* family -> [addr, path]: default_account(_path), family_defaults
    chains,         \* the chains kept on top of the shipped ones
    keystores,      \* addresses with a keystore file
    disk,           \* config.json: what it would load
    gui,            \* the flow the GUI thread is in
    saving,         \* thread -> "no" | "snapshot" | "write": where its save is
    snap,           \* thread -> the snapshot waiting for the io lock
    saveSeq,        \* Store._save_seq
    lastWritten,    \* Store._last_written_seq
    failed,         \* history: the last write that was tried failed
    crashes         \* restarts so far

memory == <<accounts, default, chains>>
io == <<saving, snap, saveSeq, lastWritten, disk, failed>>
vars == <<memory, keystores, gui, io, crashes>>

-----------------------------------------------------------------------------
(* Records and defaults                                                    *)

Held == ToSet(accounts)

\* The chain families a record works on: a raw key serves every family.
AccountFamilies(r) == IF r.source = "hot" THEN Families ELSE {r.family}

\* The positions of `seq` with a record usable on family f.
Usable(seq, f) == {i \in DOMAIN seq : f \in AccountFamilies(seq[i])}

\* The record of `seq` that comes first among the positions `at`.
Earliest(seq, at) == seq[CHOOSE i \in at : \A j \in at : i <= j]

\* The first account of `seq` usable on family f, or NoAddr.
FirstOf(seq, f) ==
    IF Usable(seq, f) = {} THEN NoAddr ELSE Earliest(seq, Usable(seq, f)).addr

\* `seq` without the record (a, path): no two records share that pair.
Without(seq, a, path) ==
    LET at == {i \in DOMAIN seq : seq[i].addr = a /\ seq[i].path = path}
    IN  IF at = {} THEN seq ELSE RemoveAt(seq, CHOOSE i \in at : TRUE)

\* The record that signs for address a: the exact (a, path) if there is one,
\* else the connected default's record, else the first one with the address.
AccountForSigning(a, path, f) ==
    LET pool == {i \in Usable(accounts, f) : accounts[i].addr = a}
        At(p) == {accounts[i] : i \in {j \in pool : accounts[j].path = p}}
        d == default[f]
    IN  IF path # NoPath /\ At(path) # {} THEN At(path)
        ELSE IF d.addr = a /\ d.path # NoPath /\ At(d.path) # {} THEN At(d.path)
        ELSE IF pool = {} THEN {} ELSE {Earliest(accounts, pool)}

\* Slip: a default whose record went, but whose address stays, is left alone.
RepointedByAddress(seq, f, a, path) ==
    IF \/ default[f].addr # a
       \/ \E r \in ToSet(seq) : r.addr = a /\ f \in AccountFamilies(r)
    THEN default[f]
    ELSE [addr |-> FirstOf(seq, f), path |-> NoPath]

\* The default of family f after the records became `seq` because the record
\* (a, path) went: kept while another record holds the address, else moved.
Repointed(seq, f, a, path) ==
    LET d == default[f] IN
    IF d.addr # a THEN d
    ELSE IF \E r \in ToSet(seq) : r.addr = a /\ f \in AccountFamilies(r)
         THEN IF d.path = path THEN [d EXCEPT !.path = NoPath] ELSE d
         ELSE [addr |-> FirstOf(seq, f), path |-> NoPath]

Config == [accounts |-> accounts, default |-> default, chains |-> chains]

Fresh == [accounts |-> <<>>,
          default  |-> [f \in Families |-> [addr |-> NoAddr, path |-> NoPath]],
          chains   |-> {}]

Init ==
    /\ accounts = Fresh.accounts /\ default = Fresh.default /\ chains = {}
    /\ keystores = {} /\ disk = Fresh /\ gui = Idle
    /\ saving = [t \in Threads |-> "no"] /\ snap = [t \in Threads |-> NoSnap]
    /\ saveSeq = 0 /\ lastWritten = 0 /\ failed = FALSE /\ crashes = 0

-----------------------------------------------------------------------------
(* Saving                                                                  *)

\* A mutator ends with save(): the thread goes on to take its snapshot.
Saves(t) == saving' = [saving EXCEPT ![t] = "snapshot"]
            /\ UNCHANGED <<snap, saveSeq, lastWritten, disk, failed>>

\* save, first half: the sequence number and the copy, under the lock.
Snapshot(t) ==
    /\ saving[t] = "snapshot"
    /\ saveSeq' = saveSeq + 1
    /\ snap' = [snap EXCEPT ![t] = [seq |-> saveSeq + 1, cfg |-> Config]]
    /\ saving' = [saving EXCEPT ![t] = "write"]
    /\ UNCHANGED <<memory, keystores, gui, lastWritten, disk, failed, crashes>>

\* Slip: the sequence numbers are not compared.
NeverStale(s) == FALSE

\* A snapshot older than the last one tried must not reach the file.
Stale(s) == s.seq < lastWritten

\* save, second half: under the io lock, dropped when stale, else one atomic
\* replacement of the file.  A write that fails leaves the file and raises:
\* the flow that asked for the save ends there.
Write(t) ==
    /\ saving[t] = "write"
    /\ saving' = [saving EXCEPT ![t] = "no"]
    /\ snap' = [snap EXCEPT ![t] = NoSnap]
    /\ \/ Stale(snap[t]) /\ UNCHANGED <<lastWritten, disk, failed, gui>>
       \/ /\ ~Stale(snap[t])
          /\ lastWritten' = snap[t].seq
          /\ \/ disk' = snap[t].cfg /\ failed' = FALSE /\ UNCHANGED gui
             \/ /\ t \in Failing
                /\ failed' = TRUE /\ UNCHANGED disk
                /\ gui' = IF t = Gui THEN Idle ELSE gui
    /\ UNCHANGED <<memory, keystores, saveSeq, crashes>>

\* The GUI thread is free for the next step of its flow.
Free == saving[Gui] = "no"
\* A new operation may start (saveSeq is what bounds the run).
Ready == Free /\ gui = Idle /\ saveSeq < MaxSaves

-----------------------------------------------------------------------------
(* The flows of the wallets panel                                          *)

\* Store.add_account: refused when the (address, path) pair is held; the first
\* account of a family becomes that family's default.
AddAccount(r) ==
    IF \E a \in Held : a.addr = r.addr /\ a.path = r.path
    THEN UNCHANGED <<memory, io>>
    ELSE /\ accounts' = Append(accounts, r)
         /\ default' = [f \in Families |->
                IF f \in AccountFamilies(r) /\ default[f].addr = NoAddr
                THEN [addr |-> r.addr, path |-> NoPath] ELSE default[f]]
         /\ Saves(Gui)
         /\ UNCHANGED chains

\* A device scan offers what its own branch lacks; the watch-only dialog
\* refuses any address already held.
Offered(r) ==
    IF r.source = "watch_only" THEN \A a \in Held : a.addr # r.addr
    ELSE \A a \in Held : ~(a.addr = r.addr /\ a.source = r.source)

AddRecord(r) ==
    /\ Ready /\ Len(accounts) < MaxAccounts
    /\ r.source # "hot" /\ Offered(r)
    /\ AddAccount(r)
    /\ UNCHANGED <<keystores, gui, crashes>>

\* Importing a hot wallet writes the keystore first, and fails if there is one.
ImportKeystore(r) ==
    /\ Ready /\ Len(accounts) < MaxAccounts
    /\ r.source = "hot" /\ Offered(r)
    /\ r.addr \notin keystores
    /\ keystores' = keystores \union {r.addr}
    /\ gui' = [at |-> "imported", rec |-> r]
    /\ UNCHANGED <<memory, io, crashes>>

\* ... and then adds the account record.
ImportRecord ==
    /\ Free /\ gui.at = "imported"
    /\ AddAccount(gui.rec)
    /\ gui' = Idle
    /\ UNCHANGED <<keystores, crashes>>

\* The user confirmed the removal of the selected rows.
RemoveSelected(rows) ==
    /\ Ready /\ rows # {}
    /\ gui' = [at |-> "removing", rows |-> rows, hot |-> {}]
    /\ UNCHANGED <<memory, keystores, io, crashes>>

\* Store.remove_account for one row: the record goes, the defaults it was are
\* repointed, and the config is saved before the next row.
RemoveRow ==
    /\ Free /\ gui.at = "removing"
    /\ \E row \in gui.rows :
         LET rest == Without(accounts, row.addr, row.path)
         IN  /\ accounts' = rest
             /\ default' = [f \in Families |->
                                Repointed(rest, f, row.addr, row.path)]
             /\ gui' = [gui EXCEPT !.rows = @ \ {row},
                            !.hot = IF row.source = "hot"
                                    THEN @ \union {row.addr} ELSE @]
    /\ Saves(Gui)
    /\ UNCHANGED <<chains, keystores, crashes>>

\* The rows are gone and saved: the keystores of the removed hot records that
\* no other hot record needs are deleted, one after the other.
RemovalDone == Free /\ gui.at = "removing" /\ gui.rows = {}

DeleteKeystore ==
    /\ RemovalDone
    /\ \E a \in gui.hot :
         /\ gui' = [gui EXCEPT !.hot = @ \ {a}]
         /\ keystores' = IF \E r \in Held : r.source = "hot" /\ r.addr = a
                         THEN keystores ELSE keystores \ {a}
    /\ UNCHANGED <<memory, io, crashes>>

RemoveEnds ==
    /\ RemovalDone /\ gui.hot = {}
    /\ gui' = Idle
    /\ UNCHANGED <<memory, keystores, io, crashes>>

\* Connect on a row of the family on screen: the row's path is remembered.
Connect(r, f) ==
    /\ Ready
    /\ f \in AccountFamilies(r)
    /\ default' = [default EXCEPT ![f] = [addr |-> r.addr, path |-> r.path]]
    /\ Saves(Gui)
    /\ UNCHANGED <<accounts, chains, keystores, gui, crashes>>

\* A drag in the tree: the rows of the family on screen in their new order,
\* then the records the tree did not show, in their old one.
Reorder(f) ==
    /\ Ready
    /\ \E order \in Bijection(DOMAIN accounts, DOMAIN accounts) :
         /\ \A i, j \in DOMAIN accounts :
              i < j /\ order[i] \notin Usable(accounts, f) =>
                  order[j] \notin Usable(accounts, f) /\ order[i] < order[j]
         /\ accounts' = [i \in DOMAIN accounts |-> accounts[order[i]]]
    /\ accounts' # accounts
    /\ Saves(Gui)
    /\ UNCHANGED <<default, chains, keystores, gui, crashes>>

-----------------------------------------------------------------------------
(* The other thread, and the end of the process                            *)

\* wallet_addEthereumChain, on the JSON-RPC thread.
AddChain(c) ==
    /\ saving[Rpc] = "no" /\ saveSeq < MaxSaves
    /\ c \notin chains
    /\ chains' = chains \union {c}
    /\ Saves(Rpc)
    /\ UNCHANGED <<accounts, default, keystores, gui, crashes>>

\* The process ends, whatever it is doing, and the next one loads the file.
Crash ==
    /\ crashes < MaxCrashes
    /\ crashes' = crashes + 1
    /\ accounts' = disk.accounts /\ default' = disk.default
    /\ chains' = disk.chains
    /\ gui' = Idle
    /\ saving' = [t \in Threads |-> "no"] /\ snap' = [t \in Threads |-> NoSnap]
    /\ saveSeq' = 0 /\ lastWritten' = 0 /\ failed' = FALSE
    /\ UNCHANGED <<keystores, disk>>

Next ==
    \/ \E t \in Threads : Snapshot(t) \/ Write(t)
    \/ \E r \in Candidates : AddRecord(r) \/ ImportKeystore(r)
    \/ ImportRecord
    \/ \E rows \in SUBSET Held : RemoveSelected(rows)
    \/ RemoveRow \/ DeleteKeystore \/ RemoveEnds
    \/ \E r \in Held, f \in Families : Connect(r, f)
    \/ \E f \in Families : Reorder(f)
    \/ \E c \in NewChains : AddChain(c)
    \/ Crash

Spec == Init /\ [][Next]_vars

-----------------------------------------------------------------------------
(* Properties                                                              *)

\* What is in memory or would be loaded.
Configs == {Config, disk}

\* In memory and in what a restart would load, a family has a default exactly
\* when some record works on it, and the default is the address of such a
\* record - of the very record it names when it names a path.  The record that
\* signs for the connected account is then the connected one.
\* (Store.add_account, remove_account, set_default_account, reorder_accounts)
DefaultIsHeld ==
    /\ \A cfg \in Configs, f \in Families :
         LET d == cfg.default[f]
             usable == {r \in ToSet(cfg.accounts) : f \in AccountFamilies(r)}
         IN  IF usable = {} THEN d.addr = NoAddr
             ELSE \E r \in usable :
                    r.addr = d.addr /\ d.path \in {NoPath, r.path}
    /\ \A f \in Families : LET d == default[f] IN
         d.addr # NoAddr /\ d.path # NoPath =>
             \A r \in AccountForSigning(d.addr, NoPath, f) : r.path = d.path

\* No hot record outlives its key: a record the process holds, or would hold
\* after a restart at this very moment, has its keystore file.  (The keystore
\* is written before the record is added and deleted after its removal is
\* saved: _run_import, _remove_selected, hot_wallet.can_sign.)
HotRecordHasKeystore ==
    \A cfg \in Configs : \A r \in ToSet(cfg.accounts) :
        r.source = "hot" => r.addr \in keystores

\* When no save is under way and the last write did not fail, the file holds
\* what memory holds: whatever the order of two threads' saves, the newer one
\* wins.  (Store.save)
QuietMeansSaved ==
    (\A t \in Threads : saving[t] = "no") /\ ~failed => disk = Config

\* An address that is watched, and later imported as a hot wallet, becomes a
\* hot account: no keystore is left without a record when the panel is idle
\* and nothing crashed or failed.  (_addresses_for_source)
ImportedIsUsable ==
    gui = Idle /\ Free /\ crashes = 0 /\ ~failed =>
        \A a \in keystores : \E r \in Held : r.source = "hot" /\ r.addr = a

TypeOK ==
    /\ Held \subseteq Candidates /\ keystores \subseteq {r.addr : r \in Candidates}
    /\ saving \in [Threads -> {"no", "snapshot", "write"}]
=============================================================================
