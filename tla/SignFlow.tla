------------------------------ MODULE SignFlow ------------------------------
(***************************************************************************)
(* From a request to a recorded transaction: the composer dialogs of one   *)
(* account on one chain, and the sign-and-broadcast attempts they start    *)
(* (ui.py, signing.py, device_thread.py, and the base of the composers in  *)
(* plugins/transactions).  A dapp's request crosses from the RPC thread as *)
(* a signal and waits for a future; the GUI thread shows a dialog, which   *)
(* estimates gas and the nonce in a worker; every Confirm starts an        *)
(* attempt: pick the signer, sign in a worker (a USB device through its    *)
(* own thread), push to the node, and come back to the GUI thread as a     *)
(* queued signal.  One slot of the GUI thread is one action.               *)
(***************************************************************************)
EXTENDS Naturals, Sequences, FiniteSets

CONSTANTS
    Dialogs,        \* the dialogs of a behaviour
    Dapps,          \* those a dapp's request opened: a future waits for them
    MayMessage,     \* those that may be about a message
    MayReplace,     \* those that may speed up or cancel a pending transaction
    Editable,       \* those whose recipient is typed: gas is estimated again
    Usb, Qr,        \* those signed by a USB device, by QR; else a hot wallet
    Attempts,       \* <<dialog, n>>: its n-th Confirm; bounded, for model checking
    MaxProbes,      \* bound on its gas estimates, for model checking
    LastNonce       \* bound on the nonces, for model checking

ASSUME SignAssumption ==
    /\ IsFiniteSet(Dialogs)
    /\ Dapps \subseteq Dialogs
    /\ MayMessage \subseteq Dapps
    /\ MayReplace \subseteq Dialogs \ Dapps
    /\ Editable \subseteq Dialogs \ Dapps
    /\ Usb \subseteq Dialogs
    /\ Qr \subseteq Dialogs \ Usb
    /\ Attempts \subseteq Dialogs \X Nat
    /\ {MaxProbes, LastNonce} \subseteq Nat

Probes == 1..MaxProbes
Nonces == 0..LastNonce + 1
Of(d) == {a \in Attempts : a[1] = d}

VARIABLES
    (* the dialogs, on the GUI thread *)
    kind,           \* "tx", "message" (no gas, nonce or push) or "replace"
    shown,          \* "no", "open", or "closed" (accepted, rejected, deleted)
    signing,        \* _signing: dismissal is blocked
    confirm,        \* confirm_btn.isEnabled()
    ready,          \* _gas_ready
    suggested,      \* _suggested_nonce, or the _fixed_nonce of a replacement
    due,            \* the debounce timer of _reestimate_gas runs
    probe,          \* probe[d][k]: the k-th GasSuggestionWorker
    answer,         \* the bridge's future
    (* the attempts, in their workers *)
    stage,          \* how far each attempt is
    nonceOf,        \* the nonce it was finalised with
    jobs,           \* the queue of the device thread
    unlocked,       \* hot_wallet.UNLOCKED holds the account's key
    (* outside *)
    mempool,        \* the attempts whose transaction the node has
    mined,          \* the account's mined nonce count
    rows,           \* the attempts add_pending recorded
    met             \* for the properties: the attempts under way together

dialogVars == <<kind, shown, signing, confirm>>
gasVars == <<ready, suggested, due, probe>>
attemptVars == <<stage, nonceOf, jobs, unlocked, met>>
chainVars == <<mempool, mined>>
vars == <<dialogVars, gasVars, answer, attemptVars, chainVars, rows>>

NoProbe == [stage |-> "none", floor |-> 0]

\* A worker has the attempt, or its signal is on the way to the GUI thread.
Working == {"sign", "push", "sent", "limbo", "failed"}
Underway(a) == stage[a] \in Working \cup {"unlock"}
Maximum(S) == CHOOSE n \in S : \A k \in S : k <= n

----------------------------------------------------------------------------
(* Nonces and gas. *)

\* pending_nonce_floor; 0 stands for None, which bounds nothing either.
Floor == IF rows = {} THEN 0 ELSE 1 + Maximum({nonceOf[a] : a \in rows})

\* Slip: the nonce of the time the dialog opened.
SuggestedOnly(d) == suggested[d]

\* The nonce of finalised_request.
Finalised(d) == IF kind[d] = "replace" THEN suggested[d] ELSE Maximum({suggested[d], Floor})

\* The estimate of the last probe started is the one that counts.
Latest(d) == Cardinality({k \in Probes : probe[d][k].stage # "none"})

\* _kick_gas: the floor is read now, on the GUI thread.
Kicked(d) == [probe[d] EXCEPT ![Latest(d) + 1] = [stage |-> "asked", floor |-> Floor]]

\* The recipient changes.  The spinner and set_signing_in_progress lock it.
EditRecipient(d) ==
    /\ d \in Editable /\ kind[d] = "tx" /\ shown[d] = "open" /\ ~signing[d]
    /\ Latest(d) < MaxProbes
    /\ due' = [due EXCEPT ![d] = TRUE]
    /\ confirm' = [confirm EXCEPT ![d] = ready[d]]
    /\ UNCHANGED <<kind, shown, signing, ready, suggested, probe, answer, attemptVars,
                   chainVars, rows>>

\* The timer of _reestimate_gas fires.
Reestimate(d) ==
    /\ due[d] /\ shown[d] = "open"
    /\ due' = [due EXCEPT ![d] = FALSE]
    /\ probe' = [probe EXCEPT ![d] = Kicked(d)]
    /\ UNCHANGED <<dialogVars, ready, suggested, answer, attemptVars, chainVars, rows>>

\* GasSuggestionWorker read the mined count m, of a backend that may lag, and
\* _on_gas_suggested gets the result; that of a superseded probe is dropped.
\* The Confirm button follows the gas and the inputs, not _signing.
GasLands(d, k) ==
    /\ probe[d][k].stage = "asked" /\ shown[d] = "open"
    /\ probe' = [probe EXCEPT ![d][k].stage = "over"]
    /\ IF k = Latest(d)
       THEN /\ ready' = [ready EXCEPT ![d] = TRUE]
            /\ confirm' = [confirm EXCEPT ![d] = TRUE]
            /\ \E m \in 0..mined :
                 suggested' = [suggested EXCEPT ![d] =
                     IF kind[d] = "replace" THEN @ ELSE Maximum({m, probe[d][k].floor})]
       ELSE UNCHANGED <<ready, confirm, suggested>>
    /\ UNCHANGED <<kind, shown, signing, due, answer, attemptVars, chainVars, rows>>

\* _on_gas_failed only says so.
GasFails(d, k) ==
    /\ probe[d][k].stage = "asked"
    /\ probe' = [probe EXCEPT ![d][k].stage = "over"]
    /\ UNCHANGED <<dialogVars, ready, suggested, due, answer, attemptVars, chainVars, rows>>

----------------------------------------------------------------------------
(* Requests and dialogs. *)

\* SignerBridge.submit_async, in the RPC thread.
Submit(d) ==
    /\ d \in Dapps /\ answer[d] = "none"
    /\ answer' = [answer EXCEPT ![d] = "pending"]
    /\ UNCHANGED <<dialogVars, gasVars, attemptVars, chainVars, rows>>

\* resolve and reject: the first answer counts.
Answer(d, value) ==
    answer' = [answer EXCEPT ![d] = IF @ = "pending" THEN value ELSE @]

\* The request's chain is unknown, or building the dialog raises.
Refuse(d) ==
    /\ answer[d] = "pending" /\ shown[d] = "no"
    /\ Answer(d, "failed")
    /\ shown' = [shown EXCEPT ![d] = "closed"]
    /\ UNCHANGED <<kind, signing, confirm, gasVars, attemptVars, chainVars, rows>>

\* _launch_signing_dialog, open_send_dialog, open_replace_tx: a dialog with a
\* complete transaction starts its estimate at once.
Open(d) ==
    /\ shown[d] = "no"
    /\ d \in Dapps => answer[d] = "pending"
    /\ shown' = [shown EXCEPT ![d] = "open"]
    /\ \/ /\ probe' = IF d \in Editable THEN probe ELSE [probe EXCEPT ![d] = Kicked(d)]
          /\ UNCHANGED <<kind, confirm, suggested>>
       \/ /\ d \in MayMessage
          /\ kind' = [kind EXCEPT ![d] = "message"]
          /\ confirm' = [confirm EXCEPT ![d] = TRUE]
          /\ UNCHANGED <<probe, suggested>>
       \/ /\ d \in MayReplace
          /\ kind' = [kind EXCEPT ![d] = "replace"]
          /\ \E a \in {a \in rows : nonceOf[a] >= mined} :
               suggested' = [suggested EXCEPT ![d] = nonceOf[a]]
          /\ probe' = [probe EXCEPT ![d] = Kicked(d)]
          /\ UNCHANGED confirm
    /\ UNCHANGED <<signing, ready, due, answer, attemptVars, chainVars, rows>>

\* The passphrase prompt, a warning and the QR window block every dialog.
Prompted == \E a \in Attempts : \/ stage[a] \in {"unlock", "warning"}
                                \/ stage[a] = "sign" /\ a[1] \in Qr

\* The "signing" spinner blocks its own dialog, until interaction.close().  A
\* QR signer has none: its window is gone once the answer is scanned.
Spinning(d) == d \notin Qr /\ \E a \in Of(d) : stage[a] \in Working

Reachable(d) == shown[d] = "open" /\ ~Prompted /\ ~Spinning(d)

\* Slip: reject() asks nothing.
AlwaysDismissable(d) == TRUE

\* Cancel, Esc, closing the window: ignored while signing.
Dismissable(d) == ~signing[d]

Dismiss(d) ==
    /\ shown[d] = "open" /\ ~Prompted /\ Dismissable(d)
    /\ shown' = [shown EXCEPT ![d] = "closed"]
    /\ Answer(d, "cancelled")
    /\ UNCHANGED <<kind, signing, confirm, gasVars, attemptVars, chainVars, rows>>

----------------------------------------------------------------------------
(* An attempt. *)

\* The worker of attempt a starts; a USB signer queues its job.
Begin(a) ==
    /\ signing' = [signing EXCEPT ![a[1]] = TRUE]
    /\ confirm' = [confirm EXCEPT ![a[1]] = FALSE]
    /\ jobs' = IF a[1] \in Usb THEN Append(jobs, a) ELSE jobs

\* _begin_sign (_run_message_sign): the request is finalised, then the signer
\* picked, which asks for the passphrase of a locked hot wallet.
Confirm(a) ==
    LET d == a[1]
        locked == d \notin Usb \cup Qr /\ ~unlocked
    IN
    /\ Reachable(d) /\ confirm[d] /\ stage[a] = "none"
    /\ \A b \in Of(d) : b[2] < a[2] => stage[b] # "none"
    /\ IF kind[d] = "message" THEN UNCHANGED nonceOf
       ELSE /\ Finalised(d) <= LastNonce
            /\ nonceOf' = [nonceOf EXCEPT ![a] = Finalised(d)]
    /\ stage' = [stage EXCEPT ![a] = IF locked THEN "unlock" ELSE "sign"]
    /\ met' = met \cup {{a, b} : b \in {b \in Attempts : Underway(b)}}
    /\ IF locked THEN UNCHANGED <<signing, confirm, jobs>> ELSE Begin(a)
    /\ UNCHANGED <<kind, shown, gasVars, answer, unlocked, chainVars, rows>>

UnlockAnswered(a) ==
    /\ stage[a] = "unlock"
    /\ \/ /\ stage' = [stage EXCEPT ![a] = "sign"]
          /\ Begin(a)
       \/ /\ stage' = [stage EXCEPT ![a] = "dropped"]
          /\ UNCHANGED <<signing, confirm, jobs>>
    /\ UNCHANGED <<kind, shown, gasVars, answer, nonceOf, unlocked, met, chainVars, rows>>

\* A signed message is done; a signed transaction is pushed by the worker.
Signed(a) == IF kind[a[1]] = "message" THEN "sent" ELSE "push"

\* A hot wallet or a QR exchange ends; the key is unlocked for a while.
HotOrQrSigns(a) ==
    /\ stage[a] = "sign" /\ a[1] \notin Usb
    /\ \/ /\ stage' = [stage EXCEPT ![a] = Signed(a)]
          /\ unlocked' = (unlocked \/ a[1] \notin Qr)
       \/ /\ stage' = [stage EXCEPT ![a] = "failed"]
          /\ UNCHANGED unlocked
    /\ UNCHANGED <<dialogVars, gasVars, answer, nonceOf, jobs, met, chainVars, rows>>

\* Slip: the late signature is still used.
DeliveredLate(a, result) == result

\* What the device thread's result does to attempt a: nothing, when its caller
\* has stopped waiting for the future.
Delivered(a, result) == IF stage[a] = "sign" THEN result ELSE stage[a]

\* The first job ends, signed or refused; the thread takes the next.
DeviceEnds ==
    /\ jobs # <<>>
    /\ \E result \in {Signed(Head(jobs)), "failed"} :
         stage' = [stage EXCEPT ![Head(jobs)] = Delivered(Head(jobs), result)]
    /\ jobs' = Tail(jobs)
    /\ UNCHANGED <<dialogVars, gasVars, answer, nonceOf, unlocked, met, chainVars, rows>>

\* The caller's timeout, while its job waits or runs: the job goes on.
DeviceTimesOut(a) ==
    /\ stage[a] = "sign" /\ a[1] \in Usb
    /\ stage' = [stage EXCEPT ![a] = "failed"]
    /\ UNCHANGED <<dialogVars, gasVars, answer, nonceOf, jobs, unlocked, met, chainVars, rows>>

\* Slip: it is reported as a failure.
LimboFails == "failed"

\* A push that failed on the way is recorded, like one that arrived.
Limbo == "limbo"

\* send_raw_transaction: accepted, rejected, or the transport failed and the
\* node may have the transaction or not.
Push(a) ==
    /\ stage[a] = "push"
    /\ \/ /\ nonceOf[a] >= mined
          /\ mempool' = mempool \cup {a}
          /\ stage' \in {[stage EXCEPT ![a] = s] : s \in {"sent", Limbo}}
       \/ /\ stage' \in {[stage EXCEPT ![a] = s] : s \in {"failed", Limbo}}
          /\ UNCHANGED mempool
    /\ UNCHANGED <<dialogVars, gasVars, answer, nonceOf, jobs, unlocked, met, mined, rows>>

\* _on_tx_broadcast (_on_message_signed): accept the dialog, record the
\* transaction, answer.  On a dialog that is deleted accept() raises.
OnBroadcast(a) ==
    LET d == a[1] IN
    /\ stage[a] \in {"sent", "limbo"}
    /\ IF shown[d] = "open"
       THEN /\ shown' = [shown EXCEPT ![d] = "closed"]
            /\ stage' = [stage EXCEPT ![a] = "done"]
            /\ rows' = IF kind[d] = "message" THEN rows ELSE rows \cup {a}
            /\ Answer(d, "result")
       ELSE /\ stage' = [stage EXCEPT ![a] = "lost"]
            /\ UNCHANGED <<shown, rows, answer>>
    /\ UNCHANGED <<kind, signing, confirm, gasVars, nonceOf, jobs, unlocked, met, chainVars>>

\* Slip: it is left to the next attempt.
ReleasedNot(d) == TRUE

\* set_signing_in_progress(False) lets the dialog be dismissed again.
Released(d) == FALSE

\* _on_tx_sign_failed, up to its warning.
OnFailed(a) ==
    LET d == a[1] IN
    /\ stage[a] = "failed"
    /\ IF shown[d] = "open"
       THEN /\ stage' = [stage EXCEPT ![a] = "warning"]
            /\ signing' = [signing EXCEPT ![d] = Released(d)]
            /\ confirm' = [confirm EXCEPT ![d] = ready[d] \/ kind[d] = "message"]
       ELSE /\ stage' = [stage EXCEPT ![a] = "lost"]
            /\ UNCHANGED <<signing, confirm>>
    /\ UNCHANGED <<kind, shown, gasVars, answer, nonceOf, jobs, unlocked, met, chainVars, rows>>

\* The warning is closed: on_fail.
WarningClosed(a) ==
    /\ stage[a] = "warning"
    /\ stage' = [stage EXCEPT ![a] = "reported"]
    /\ Answer(a[1], "failed")
    /\ UNCHANGED <<dialogVars, gasVars, nonceOf, jobs, unlocked, met, chainVars, rows>>

----------------------------------------------------------------------------
(* Around them. *)

\* The unlock expires, or the user moves off the account.
Lock ==
    /\ unlocked
    /\ unlocked' = FALSE
    /\ UNCHANGED <<dialogVars, gasVars, answer, stage, nonceOf, jobs, met, chainVars, rows>>

\* The watchers push a recorded transaction again.
Rebroadcast(a) ==
    /\ a \in rows \ mempool /\ nonceOf[a] >= mined
    /\ mempool' = mempool \cup {a}
    /\ UNCHANGED <<dialogVars, gasVars, answer, attemptVars, mined, rows>>

Mine ==
    /\ \E a \in mempool : nonceOf[a] = mined
    /\ mined' = mined + 1
    /\ UNCHANGED <<dialogVars, gasVars, answer, attemptVars, mempool, rows>>

----------------------------------------------------------------------------
Init ==
    /\ kind = [d \in Dialogs |-> "tx"]
    /\ shown = [d \in Dialogs |-> "no"]
    /\ signing = [d \in Dialogs |-> FALSE]
    /\ confirm = [d \in Dialogs |-> FALSE]
    /\ ready = [d \in Dialogs |-> FALSE]
    /\ suggested = [d \in Dialogs |-> 0]
    /\ due = [d \in Dialogs |-> FALSE]
    /\ probe = [d \in Dialogs |-> [k \in Probes |-> NoProbe]]
    /\ answer = [d \in Dialogs |-> "none"]
    /\ stage = [a \in Attempts |-> "none"]
    /\ nonceOf = [a \in Attempts |-> 0]
    /\ jobs = <<>>
    /\ unlocked = FALSE
    /\ mempool = {} /\ mined = 0 /\ rows = {} /\ met = {}

Handled(a) == OnBroadcast(a) \/ OnFailed(a)
Next ==
    \/ \E d \in Dialogs :
         \/ Submit(d) \/ Refuse(d) \/ Open(d) \/ Dismiss(d)
         \/ EditRecipient(d) \/ Reestimate(d)
         \/ \E k \in Probes : GasLands(d, k) \/ GasFails(d, k)
    \/ \E a \in Attempts :
         \/ Confirm(a) \/ UnlockAnswered(a) \/ HotOrQrSigns(a) \/ DeviceTimesOut(a)
         \/ Push(a) \/ Handled(a) \/ WarningClosed(a) \/ Rebroadcast(a)
    \/ DeviceEnds \/ Lock \/ Mine

\* The device call and the push are bounded by timeouts, key derivation and the
\* queued slots run to completion; nothing is asked of the user or the device.
Fairness ==
    \A a \in Attempts :
      /\ WF_vars(DeviceTimesOut(a)) /\ WF_vars(Push(a)) /\ WF_vars(Handled(a))
      /\ WF_vars(HotOrQrSigns(a) /\ a[1] \notin Qr)

Spec == Init /\ [][Next]_vars /\ Fairness

----------------------------------------------------------------------------
(* Properties. *)

TypeOK ==
    /\ kind \in [Dialogs -> {"tx", "message", "replace"}]
    /\ shown \in [Dialogs -> {"no", "open", "closed"}]
    /\ {signing, confirm, ready, due} \subseteq [Dialogs -> BOOLEAN]
    /\ suggested \in [Dialogs -> Nonces]
    /\ probe \in [Dialogs -> [Probes -> [stage : {"none", "asked", "over"},
                                         floor : Nonces]]]
    /\ answer \in [Dialogs -> {"none", "pending", "failed", "cancelled", "result"}]
    /\ stage \in [Attempts -> Working \cup
                    {"none", "unlock", "dropped", "done", "lost", "warning", "reported"}]
    /\ nonceOf \in [Attempts -> Nonces]
    /\ jobs \in Seq(Attempts)
    /\ unlocked \in BOOLEAN
    /\ mempool \subseteq Attempts /\ rows \subseteq Attempts
    /\ mined \in Nonces
    /\ met \subseteq SUBSET Attempts

\* A dialog has one attempt under way at most: neither a late gas estimate,
\* which enables Confirm again, nor a retry starts a second one beside it.
OneAttemptAtATime ==
    \A d \in Dialogs : Cardinality({a \in Of(d) : Underway(a)}) <= 1

\* A dapp is told "User cancelled" only when nothing of its request can reach
\* the chain any more (Dialog.reject).
CancelledMeansNoTx ==
    \A d \in Dialogs : answer[d] = "cancelled" =>
        \A a \in Of(d) : a \notin mempool /\ ~Underway(a)

\* An attempt that failed never sends, whatever the device does with its job
\* afterwards: what the user then tries again is not a second payment.
ReportedNeverSends ==
    [][\A a \in Attempts : stage[a] \in {"failed", "warning", "reported"} =>
         /\ a \notin mempool'
         /\ stage'[a] \in {"failed", "warning", "reported", "lost"}]_vars

\* What the user or the dapp was told of an attempt stays true: nothing is sent
\* after "User cancelled", nor by an attempt reported as failed.
SettledNeverSends == []CancelledMeansNoTx /\ ReportedNeverSends

\* Dialogs in which a second attempt may start beside the first: an estimate
\* that lands late enables Confirm, and a QR signer has no spinner in its way.
Overlapping == Editable \cap Qr

\* Two transactions have the same nonce only if their attempts were under way
\* together, or one was made to replace the other: what was confirmed, signed
\* and broadcast before is never overwritten by what is confirmed later.  (Of
\* two attempts of one dialog that overlap, one may be sent and not recorded.)
SequentialNoncesDiffer ==
    \A a, b \in {c \in mempool \cup rows : c[1] \notin Overlapping} :
        \/ a = b \/ nonceOf[a] # nonceOf[b]
        \/ {a, b} \in met
        \/ "replace" \in {kind[a[1]], kind[b[1]]}

\* What the comment of finalised_request has in mind: no two dialogs, however
\* they overlap, send with one nonce.
NoncesDiffer ==
    \A a, b \in mempool \cup rows :
        a = b \/ nonceOf[a] # nonceOf[b] \/ "replace" \in {kind[a[1]], kind[b[1]]}

\* What the node has, or may have, gets its row in the history.
SentIsRecorded == \A a \in Attempts : (a \in mempool) ~> (a \in rows)

\* A dialog never stays locked: signing ends with the dialog closed or with
\* Confirm and Cancel enabled again (a QR exchange waits for the user).
SigningEnds ==
    \A d \in Dialogs \ Qr : signing[d] ~> (~signing[d] \/ shown[d] = "closed")
=============================================================================
