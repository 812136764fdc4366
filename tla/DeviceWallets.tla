--------------------------- MODULE DeviceWallets ---------------------------
(***************************************************************************)
(* Wallets on USB devices (trezor.py, ledger.py, device_thread.py and the  *)
(* add dialogs of plugins/wallets): one thread per kind of device runs the *)
(* jobs of scans and of signatures in the order they were submitted.  A    *)
(* Trezor's session is kept from job to job, is of the passphrase typed    *)
(* when it was opened, and is opened anew when the device was replugged; a *)
(* Ledger is opened for each job.                                          *)
(*                                                                         *)
(* A wallet is a seed with a passphrase; an address is a wallet and a      *)
(* path.  What a device shows and how an answer is encoded is left out.    *)
(***************************************************************************)
EXTENDS Integers, Sequences, FiniteSets, SequencesExt

CONSTANTS
    Seeds,        \* devices, by their seed
    Phrases,      \* what the user may type for a passphrase
    Direct,       \* schemes whose addresses the host derives from one node
    Stepwise,     \* schemes whose addresses the device is asked for
    Dialogs,      \* 1 .. n: the add dialogs of a session, by their order
    BatchSize,    \* AUTO_DETECT_BATCH_SIZE
    HardCap,      \* AUTO_DETECT_HARD_CAP
    StopAfter,    \* AUTO_STOP_CONSECUTIVE_ZEROS
    Enabled,      \* indices of the accounts that were used
    MaxPlugs,     \* bound: times a device is plugged in or out
    MaxLate       \* bound: calls that time out

Schemes == Direct \cup Stepwise
Wallets == [seed : Seeds, phrase : Phrases]
Nobody == [seed |-> "none", phrase |-> "none"]
NoDialog == 0

ASSUME DevicesAssumption ==
    /\ Direct \cap Stepwise = {} /\ Dialogs \subseteq Nat \ {0}
    /\ {BatchSize, HardCap, StopAfter} \subseteq Nat \ {0}
    /\ Enabled \subseteq Nat /\ MaxPlugs \in Nat /\ MaxLate \in Nat

VARIABLES
    kind,         \* "trezor" or "ledger"
    plugged,      \* the seed of the device that is plugged in, or "none"
    plugs, late,  \* counters of the bounds
    session,      \* the wallet of the open session, or Nobody
    lost,         \* its device was unplugged since
    jobs,         \* the queue of the device thread: [by, what, record, heard]
    at,           \* where the job in front is: [step, again]
    dialog,       \* the add dialog that is open, or NoDialog
    combo,        \* the scheme it shows
    scan,         \* scan[d]: [stage, scheme, auto, next, zeros, xfp, rows]
    attempt,      \* the signature: [stage, record, by]
    records       \* the accounts in the store: [address, path, scheme, xfp, tree]

deviceVars == <<plugged, plugs, session, lost>>
threadVars == <<jobs, at>>
dialogVars == <<dialog, combo>>
devicesVars == <<kind, late, deviceVars, threadVars, dialogVars, scan, attempt, records>>

Path(scheme, i) == [scheme |-> scheme, index |-> i]
Address(w, path) == [wallet |-> w, path |-> path]

Waiting == [step |-> "idle", again |-> FALSE]
FirstStep == [step |-> "open", again |-> FALSE]
Job(by, what, r) == [by |-> by, what |-> what, record |-> r, heard |-> TRUE]

-----------------------------------------------------------------------------
(* The device. *)

Replug(seed) ==
    /\ plugs < MaxPlugs /\ plugs' = plugs + 1
    /\ seed # plugged /\ plugged' = seed
    /\ lost' = (session # Nobody)
    /\ UNCHANGED <<kind, late, session, threadVars, dialogVars, scan, attempt, records>>

-----------------------------------------------------------------------------
(* The thread. *)

\* Job `what` of `by` ends as the caller hears it: the scan or the attempt is
\* told by the actions below.
JobDone ==
    /\ jobs' = Tail(jobs) /\ at' = Waiting

\* _cleanup: a Ledger is closed after each job.
After(s) == IF kind = "ledger" THEN Nobody ELSE s

\* run_trezor_job: a scan's first job ends the session that was open.
Begin ==
    /\ jobs # <<>> /\ at = Waiting
    /\ at' = FirstStep
    /\ session' = IF kind = "trezor" /\ Head(jobs).what = "first" THEN Nobody ELSE session
    /\ lost' = (lost /\ session' # Nobody)
    /\ UNCHANGED <<kind, late, plugged, plugs, jobs, dialogVars, scan, attempt, records>>

\* Slip: the check is not made again after a reconnection.
ChecksOnce(j) == IF j.what = "sign" /\ at.again THEN "confirm" ELSE "talk"

\* The job is run from its start, again after a reconnection.
FromTheStart(j) == "talk"

\* _CONNECTION.get, init_dongle: the user unlocks the device that is plugged in
\* and types a passphrase, unless a session is open.
Open ==
    /\ at.step = "open"
    /\ \/ session # Nobody /\ UNCHANGED <<session, lost>>
       \/ /\ session = Nobody /\ plugged # "none"
          /\ session' \in {w \in Wallets : w.seed = plugged} /\ lost' = FALSE
    /\ at' = [at EXCEPT !.step = FromTheStart(Head(jobs))]
    /\ UNCHANGED <<kind, late, plugged, plugs, jobs, dialogVars, scan, attempt, records>>

\* _is_stale_connection: reconnected, once.
Reconnect ==
    /\ kind = "trezor" /\ lost /\ at.step \in {"talk", "confirm"} /\ ~at.again
    /\ plugged # "none"
    /\ session' = Nobody /\ lost' = FALSE
    /\ at' = [step |-> "open", again |-> TRUE]
    /\ UNCHANGED <<kind, late, plugged, plugs, jobs, dialogVars, scan, attempt, records>>

\* What the caller of a job learns: that it failed.
Failed(j) ==
    /\ scan' = IF j.heard /\ j.by \in Dialogs
               THEN [scan EXCEPT ![j.by].stage = "failed"] ELSE scan
    /\ attempt' = IF j.heard /\ j.by \notin Dialogs
                  THEN [attempt EXCEPT !.stage = "failed"] ELSE attempt

\* No device, or none again; the user cancels on it; the transport is lost.
JobFails ==
    /\ at.step # "idle" /\ JobDone /\ Failed(Head(jobs))
    /\ \/ at.step = "open" /\ session = Nobody /\ session' = Nobody
       \/ at.step # "open" /\ lost /\ (at.again \/ plugged = "none" \/ kind = "ledger")
             /\ session' = Nobody
       \/ at.step = "confirm" /\ ~lost /\ session' = After(session)
    /\ lost' = FALSE
    /\ UNCHANGED <<kind, late, plugged, plugs, dialogVars, records>>

\* DeviceJobService.call: the caller gives up, the job goes on.
CallTimesOut ==
    /\ late < MaxLate /\ late' = late + 1
    /\ \E i \in DOMAIN jobs :
          /\ jobs[i].heard
          /\ jobs' = [jobs EXCEPT ![i].heard = FALSE]
          /\ Failed(jobs[i])
    /\ UNCHANGED <<kind, deviceVars, at, dialogVars, records>>

-----------------------------------------------------------------------------
(* Signing. *)

\* _require_holds: it may be of a mistyped passphrase, so it is ended.
LetGo(s) == Nobody

\* A signer of a record, the attempt before it being over.
Sign(r) ==
    /\ attempt.stage \in {"no", "failed"} /\ r \in records
    /\ attempt' = [stage |-> "queued", record |-> r, by |-> Nobody]
    /\ jobs' = Append(jobs, Job(NoDialog, "sign", r))
    /\ UNCHANGED <<kind, late, deviceVars, at, dialogVars, scan, records>>

Signing == at.step # "idle" /\ Head(jobs).what = "sign" /\ ~lost
Target == Head(jobs).record

\* _require_holds, _verify_device_holds_on_hid
Check ==
    /\ Signing /\ at.step = "talk"
    /\ IF Address(session, Target.path) = Target.address
       THEN at' = [at EXCEPT !.step = "confirm"]
            /\ UNCHANGED <<session, lost, jobs, scan, attempt>>
       ELSE /\ JobDone /\ Failed(Head(jobs))
            /\ session' = After(LetGo(session)) /\ lost' = FALSE
    /\ UNCHANGED <<kind, late, plugged, plugs, dialogVars, records>>

\* The user confirms on the device.
Confirm ==
    /\ Signing /\ at.step = "confirm" /\ JobDone
    /\ attempt' = IF Head(jobs).heard
                  THEN [attempt EXCEPT !.stage = "signed",
                                       !.by = Address(session, Target.path)]
                  ELSE attempt
    /\ session' = After(session) /\ lost' = FALSE
    /\ UNCHANGED <<kind, late, plugged, plugs, dialogVars, scan, records>>

\* The user has something else to sign.
NextRequest ==
    /\ attempt.stage = "signed" /\ attempt' = [attempt EXCEPT !.stage = "no", !.by = Nobody]
    /\ UNCHANGED <<kind, late, deviceVars, threadVars, dialogVars, scan, records>>

-----------------------------------------------------------------------------
(* Scanning. *)

Undisturbed == UNCHANGED <<kind, late, deviceVars, attempt, records>>

OpenDialog(d) ==
    /\ dialog = NoDialog /\ scan[d].stage = "no"
    /\ \A e \in Dialogs : e < d => scan[e].stage # "no"
    /\ dialog' = d /\ combo' \in Schemes
    /\ UNCHANGED <<threadVars, scan>> /\ Undisturbed

PickScheme(c) ==
    /\ dialog # NoDialog /\ c # combo /\ combo' = c
    /\ UNCHANGED <<dialog, threadVars, scan>> /\ Undisturbed

\* _scan: a Trezor is first asked for its fingerprint, and its node.
Scan(d, auto) ==
    /\ dialog = d /\ scan[d].stage = "no"
    /\ scan' = [scan EXCEPT ![d].stage = IF kind = "trezor" THEN "first" ELSE "more",
                            ![d].scheme = combo, ![d].auto = auto]
    /\ jobs' = IF kind = "trezor" THEN Append(jobs, Job(d, "first", Nobody)) ELSE jobs
    /\ UNCHANGED <<at, dialogVars>> /\ Undisturbed

\* Slip: the node is read by a job of its own.
NodeApart(d) == FALSE

\* The job that reads the fingerprint reads the node the addresses are derived
\* from.
NodeRead(d) == scan[d].scheme \in Direct

ReadFirst(d) ==
    /\ at.step = "talk" /\ ~lost /\ Head(jobs).what = "first" /\ Head(jobs).by = d
    /\ JobDone
    /\ scan' = IF ~Head(jobs).heard THEN scan
               ELSE [scan EXCEPT ![d].xfp = session,
                                 ![d].stage = IF NodeRead(d) THEN "derive" ELSE "more"]
    /\ UNCHANGED <<dialogVars>> /\ Undisturbed

\* The next batch is a job of its own.
AskBatch(d) ==
    /\ scan[d].stage = "more"
    /\ scan' = [scan EXCEPT ![d].stage = "batch"]
    /\ jobs' = Append(jobs, Job(d, "batch", Nobody))
    /\ UNCHANGED <<at, dialogVars>> /\ Undisturbed

\* The indices of a batch: a Ledger scan that was told a number is one job.
Batch(d) ==
    LET size == IF kind = "ledger" /\ ~scan[d].auto THEN HardCap ELSE BatchSize
    IN  {i \in scan[d].next .. scan[d].next + size - 1 : i < HardCap}

\* Unused accounts in a row, up to index i; used are those whose lookup worked.
Zeros(d, used, i) ==
    LET before == {k \in used : k <= i}
    IN  IF before = {} THEN scan[d].zeros + i - scan[d].next + 1
        ELSE i - (CHOOSE k \in before : \A x \in before : x <= k)

\* The rows of a batch of wallet w, and whether the scan ends with it.
Listed(d, w, used) ==
    LET stops == {i \in Batch(d) : scan[d].auto /\ Zeros(d, used, i) >= StopAfter}
        shown == {i \in Batch(d) : \A x \in stops : i <= x}
        next == scan[d].next + Cardinality(Batch(d))
        ends == stops # {} \/ next >= HardCap
    IN  [scan[d] EXCEPT
            !.rows = @ \cup {[address |-> Address(w, Path(scan[d].scheme, i)),
                              used |-> i \in used] : i \in shown},
            !.zeros = Zeros(d, used, next - 1),
            !.next = next,
            !.stage = IF ends THEN "done" ELSE IF @ = "derive" THEN "derive" ELSE "more"]

\* _on_found of a batch; a lookup that fails counts as unused.
ReadBatch(d) ==
    /\ at.step = "talk" /\ ~lost /\ Head(jobs).what = "batch" /\ Head(jobs).by = d
    /\ JobDone
    /\ IF Head(jobs).heard
       THEN \E used \in SUBSET (Enabled \cap Batch(d)) :
               scan' = [scan EXCEPT ![d] = Listed(d, session, used)]
       ELSE UNCHANGED scan
    /\ session' = After(session)
    /\ UNCHANGED <<kind, late, plugged, plugs, lost, dialogVars, attempt, records>>

Derive(d) ==
    /\ scan[d].stage = "derive"
    /\ \E used \in SUBSET (Enabled \cap Batch(d)) :
          scan' = [scan EXCEPT ![d] = Listed(d, scan[d].xfp, used)]
    /\ UNCHANGED <<threadVars, dialogVars>> /\ Undisturbed

\* resolve_tree: the trees a scan may belong to.
Resolved(d) ==
    LET same == {r \in records : r.scheme = combo}
        print == {r \in same : scan[d].xfp # Nobody /\ r.xfp = scan[d].xfp}
        overlap == {r \in same : \E x \in scan[d].rows : x.address = r.address}
    IN  {r.tree : r \in IF print # {} THEN print ELSE overlap}

\* _add_trezor, _add_ledger: the rows the user selected, of those not held yet,
\* as soon as there is one.  A new tree is named after the first.
Accept(d, chosen) ==
    /\ dialog = d /\ dialog' = NoDialog
    /\ chosen # {} /\ chosen \subseteq scan[d].rows
    /\ \A x \in chosen : \A r \in records : r.address # x.address
    /\ \E x \in chosen, tree \in {y.address : y \in chosen} \cup Resolved(d) :
          /\ \A y \in chosen : x.address.path.index <= y.address.path.index
          /\ IF Resolved(d) = {} THEN tree = x.address ELSE tree \in Resolved(d)
          /\ records' = records \cup
                {[address |-> y.address, path |-> y.address.path, scheme |-> combo,
                  xfp |-> scan[d].xfp, tree |-> tree] : y \in chosen}
    /\ UNCHANGED <<kind, late, deviceVars, threadVars, combo, scan, attempt>>

Close(d) ==
    /\ dialog = d /\ dialog' = NoDialog
    /\ UNCHANGED <<combo, threadVars, scan>> /\ Undisturbed

-----------------------------------------------------------------------------
(* The specification. *)

NoScan == [stage |-> "no", scheme |-> "none", auto |-> FALSE, next |-> 0, zeros |-> 0,
           xfp |-> Nobody, rows |-> {}]

\* A session of the program, some accounts known from earlier ones.
Known(R) ==
    /\ kind \in {"trezor", "ledger"}
    /\ plugged \in Seeds \cup {"none"} /\ plugs = 0 /\ late = 0
    /\ session = Nobody /\ lost = FALSE
    /\ jobs = <<>> /\ at = Waiting
    /\ dialog = NoDialog /\ combo \in Schemes
    /\ scan = [d \in Dialogs |-> NoScan]
    /\ attempt = [stage |-> "no", record |-> Nobody, by |-> Nobody]
    /\ records = R

DevicesInit == Known({})

Thread ==
    \/ Begin \/ Open \/ Reconnect \/ JobFails \/ CallTimesOut \/ Check \/ Confirm
    \/ \E d \in Dialogs : ReadFirst(d) \/ ReadBatch(d)

Host ==
    \/ \E r \in records : Sign(r)
    \/ NextRequest
    \/ \E d \in Dialogs :
          \/ OpenDialog(d) \/ AskBatch(d) \/ Derive(d) \/ Close(d)
          \/ \E auto \in BOOLEAN : Scan(d, auto)
          \/ \E chosen \in SUBSET scan[d].rows : Accept(d, chosen)
    \/ \E c \in Schemes : PickScheme(c)

DevicesNext == Thread \/ Host \/ \E seed \in Seeds \cup {"none"} : Replug(seed)

DevicesSpec == DevicesInit /\ [][DevicesNext]_devicesVars

-----------------------------------------------------------------------------
(* Properties *)

DevicesTypeOK ==
    /\ session \in Wallets \cup {Nobody} /\ plugged \in Seeds \cup {"none"}
    /\ at.step \in {"idle", "open", "talk", "confirm"}
    /\ \A d \in Dialogs : scan[d].stage \in {"no", "first", "more", "batch", "derive",
                                             "done", "failed"}
    /\ attempt.stage \in {"no", "queued", "failed", "signed"}

\* A signature is of the account it was asked for, whatever device is plugged
\* in meanwhile and whatever passphrase is typed. (_require_holds,
\* _verify_device_holds_on_hid, run_trezor_job)
SignedByOwner == attempt.stage = "signed" => attempt.by = attempt.record.address

\* The accounts of a tree that are all derived from an exported node are of one
\* seed and passphrase.  (One account the device was asked for is enough to
\* lead two wallets into one tree.)  (_address_source, resolve_tree)
NodeTreesAreOneWallet ==
    \A r, s \in records :
        /\ r.tree = s.tree /\ kind = "trezor"
        /\ \A q \in records : q.tree = r.tree => q.path.scheme \in Direct
        => r.address.wallet = s.address.wallet

\* The same of the trees whose accounts the device was asked for.
TreesAreOneWallet ==
    \A r, s \in records : r.tree = s.tree => r.address.wallet = s.address.wallet

\* The scheme on record is the one the account was derived by.
SchemeIsOfPath == \A r \in records : r.scheme = r.path.scheme
=============================================================================
