------------------------------ MODULE SendForm ------------------------------
(***************************************************************************)
(* The Send dialog: what the user types, what the dialog shows about it,   *)
(* and what Confirm sends (SendTokenDialog over _TxComposerDialog and      *)
(* _EventPreviewMixin, transactions/__init__.py; _TronFeesMixin,           *)
(* tron_send.py).                                                          *)
(*                                                                         *)
(* Every answer comes late: a name is resolved, an address identified, gas *)
(* estimated and the transaction simulated by threads whose signals wait   *)
(* in the queue of the event loop while the user edits on.  Each handler   *)
(* is one step, with every refresh it ends in.  Two texts are one when     *)
(* they parse alike; an amount is a number of units, 0 when it is missing, *)
(* malformed or above the cached balance.  What follows Confirm (signing,  *)
(* nonces) is the subject of SignFlow; here an attempt succeeds or fails.  *)
(***************************************************************************)
EXTENDS Integers, FiniteSets

CONSTANTS
    Addrs,          \* addresses in the chain's own form
    Own,            \* ... of the user's own wallets
    Names,          \* dotted names
    Registry,       \* name -> the address it resolves to
    Amounts,        \* amounts the user may type
    Families,       \* the kinds of chain: "evm", "tron"
    MaxEdits        \* bound: edits of the two fields

None == "none"
Blank == ""
Transfers == Addrs \X Amounts
NoReq == <<None, 0>>
NotSent == [req |-> NoReq, est |-> NoReq, legs |-> NoReq]

ASSUME FormAssumption ==
    /\ Own \subseteq Addrs /\ Registry \in [Names -> Addrs]
    /\ Amounts \subseteq Nat \ {0} /\ 1 \in Amounts
    /\ Addrs \cap Names = {} /\ {None, Blank} \cap (Addrs \cup Names) = {}
    /\ Families \subseteq {"evm", "tron"} /\ MaxEdits \in Nat

VARIABLES
    family,         \* of the dialog's chain
    text, amount,   \* the recipient and amount fields
    edits,          \* edits so far
    ensInput,       \* _ens_input: the name being resolved or resolved
    ensResolved,    \* _ens_resolved
    lookups,        \* names whose EnsResolveWorker has not answered
    identAddr,      \* _identity_last_addr
    identWork,      \* addresses whose ContractIdentityWorker has not answered
    shown,          \* what the rows are about: [ens, ident, hint, call]
    gasDue,         \* _reestimate_timer
    lastEst,        \* _last_estimated_recipient
    probes,         \* fee workers: [to, amt, latest]
    fee,            \* the request the fee fields are about, or None
    failed,         \* the recipient whose latest estimate failed, or None
    gasReady,       \* _gas_ready
    refreshing,     \* _fee_refresh (Tron)
    simDue,         \* _sim_debounce
    simKey,         \* _sim_key
    simDone,        \* _sim_done
    simClock,       \* _sim_timer
    sims,           \* simulation workers: [of, says]
    canSim,         \* simulation_available
    view,           \* the Events tab: [is, of]
    banner,         \* the request the revert warning is about, or None
    logsOf,         \* the request _logs are of, or None
    confirmOn,      \* confirm_btn.isEnabled()
    stage,          \* "open", "signing", "closed"
    sent            \* history: [req, legs] of the transaction sent, or None

inputVars == <<family, text, amount, edits>>
nameVars == <<ensInput, ensResolved, lookups>>
identVars == <<identAddr, identWork>>
feeVars == <<lastEst, probes, fee, failed, gasReady, refreshing>>
runVars == <<simKey, simDone, simClock, sims, canSim, view, banner, logsOf>>
endVars == <<stage, sent>>
vars == <<inputVars, nameVars, identVars, shown, gasDue, feeVars, simDue, runVars,
          confirmOn, endVars>>

Tron == family = "tron"

\* What the recipient field may hold; on Tron a dotted text is no name, and is
\* as good as none.
Texts == Addrs \cup {Blank} \cup (IF Tron THEN {} ELSE Names)

Open == stage = "open"
Alive == stage # "closed"

-----------------------------------------------------------------------------
(* What the fields stand for. *)

\* _parsed_recipient: a name is a recipient only once it has resolved.
Recipient(t, n, r) ==
    IF t \in Addrs THEN t ELSE IF t \in Names /\ t = n THEN r ELSE None

Parsed == Recipient(text, ensInput, ensResolved)

\* _build_request; NoReq where it raises.
Request(r, a) == IF r = None \/ a = 0 THEN NoReq ELSE <<r, a>>
Params == Request(Parsed, amount)

\* _update_ens: [input, resolved, row, lookups] after the text becomes t.
Named(t) ==
    IF t \in Names
    THEN [input |-> t, resolved |-> None, row |-> "resolving", looks |-> lookups \cup {t}]
    ELSE [input |-> Blank, resolved |-> None, row |-> None, looks |-> lookups]

\* _update_recipient_identity: [addr, row, work] for a recipient.
Identified(r) ==
    IF r = None THEN [addr |-> None, row |-> None, work |-> identWork]
    ELSE IF r = identAddr THEN [addr |-> r, row |-> shown.ident, work |-> identWork]
    ELSE IF r \in Own THEN [addr |-> r, row |-> r, work |-> identWork]
    ELSE [addr |-> r, row |-> "looking up", work |-> identWork \cup {r}]

\* _update_state and _refresh_decoded_view, with the gas as given.
UpdateState(ready, r, a) ==
    confirmOn' = (ready /\ Request(r, a) # NoReq)

\* What every change of the recipient refreshes.
Refreshed(r, a, row) ==
    /\ shown' = [ens |-> row, ident |-> Identified(r).row, hint |-> r, call |-> <<r, a>>]
    /\ identAddr' = Identified(r).addr /\ identWork' = Identified(r).work
    /\ UpdateState(gasReady, r, a)

\* What a new dialog shows; set_placeholder, set_busy and set_logs, of which
\* only the last touches _logs.
NothingShown == [ens |-> None, ident |-> None, hint |-> None, call |-> <<None, 0>>]
Placeholder == [is |-> "note", of |-> NoReq]
Busy == [is |-> "busy", of |-> NoReq]
Listed(p) == [is |-> "logs", of |-> p]

-----------------------------------------------------------------------------
(* The user's edits. *)

\* The slots of textChanged, in the order _wire_inputs connects them.
EditRecipient(t) ==
    LET n == Named(t)
        r == Recipient(t, n.input, n.resolved)
    IN  /\ Open /\ edits < MaxEdits /\ t # text
        /\ text' = t /\ edits' = edits + 1
        /\ ensInput' = n.input /\ ensResolved' = n.resolved /\ lookups' = n.looks
        /\ Refreshed(r, amount, n.row)
        /\ simDue' = TRUE /\ gasDue' = TRUE
        /\ UNCHANGED <<family, amount, feeVars, runVars, endVars>>

EditAmount(a) ==
    /\ Open /\ edits < MaxEdits /\ a # amount
    /\ amount' = a /\ edits' = edits + 1
    /\ shown' = [shown EXCEPT !.call = <<Parsed, a>>]
    /\ UpdateState(gasReady, Parsed, a)
    /\ simDue' = TRUE
    /\ UNCHANGED <<family, text, nameVars, identVars, gasDue, feeVars, runVars, endVars>>

-----------------------------------------------------------------------------
(* Names and identities. *)

\* Slip: the answer for a name that was typed before is taken.
ForAnyName(n) == TRUE

\* _on_ens_resolved drops an answer for another name than the one typed.
ForThisName(n) == n = ensInput

\* Slip: the answer restarts no estimate.
ReestimatedNot == gasDue

\* The last call of _on_ens_resolved.
Reestimated == TRUE

\* _on_ens_resolved: the address, or None for a name not found or a failure.
EnsResolved(n) ==
    /\ Alive /\ n \in lookups /\ lookups' = lookups \ {n}
    /\ \E r \in {Registry[n], None} :
         IF ForThisName(n)
         THEN /\ ensResolved' = r
              /\ Refreshed(Recipient(text, ensInput, r), amount,
                           IF r = None THEN "not found" ELSE r)
              /\ gasDue' = Reestimated
         ELSE UNCHANGED <<ensResolved, identVars, shown, confirmOn, gasDue>>
    /\ UNCHANGED <<inputVars, ensInput, feeVars, simDue, runVars, endVars>>

\* _on_identity_ready
IdentityReady(a) ==
    /\ Alive /\ a \in identWork /\ identWork' = identWork \ {a}
    /\ shown' = IF a = identAddr THEN [shown EXCEPT !.ident = a] ELSE shown
    /\ UNCHANGED <<inputVars, nameVars, identAddr, gasDue, feeVars, simDue, runVars,
                   confirmOn, endVars>>

-----------------------------------------------------------------------------
(* Gas and Tron's resources. *)

\* _kick_gas, _kick_tron_fee: the new worker supersedes the others.
Kick(r, a) ==
    probes' = {[p EXCEPT !.latest = FALSE] : p \in probes}
                \cup {[to |-> r, amt |-> a, latest |-> TRUE]}

\* _reestimate_gas, with the amount 1.
ReestimateGas ==
    /\ Alive /\ gasDue /\ gasDue' = FALSE
    /\ IF Parsed \in {None, lastEst}
       THEN UNCHANGED <<lastEst, probes>>
       ELSE lastEst' = Parsed /\ Kick(Parsed, 1)
    /\ UNCHANGED <<inputVars, nameVars, identVars, shown, fee, failed, gasReady,
                   refreshing, simDue, runVars, confirmOn, endVars>>

\* _refresh_tron_fee, with what is to be sent.
RefreshTronFee ==
    /\ Open /\ refreshing /\ Params # NoReq
    /\ Kick(Parsed, amount)
    /\ UNCHANGED <<inputVars, nameVars, identVars, shown, gasDue, lastEst, fee, failed,
                   gasReady, refreshing, simDue, runVars, confirmOn, endVars>>

\* Not _is_stale_gas.
Current(p) == p.latest

\* _on_gas_suggested, _on_tron_estimated
GasSuggested(p) ==
    /\ Alive /\ p \in probes /\ probes' = probes \ {p}
    /\ IF Current(p)
       THEN /\ fee' = <<p.to, p.amt>> /\ failed' = None /\ gasReady' = TRUE
            /\ refreshing' = Tron
            /\ shown' = [shown EXCEPT !.call = <<Parsed, amount>>]
            /\ UpdateState(TRUE, Parsed, amount)
       ELSE UNCHANGED <<fee, failed, gasReady, refreshing, shown, confirmOn>>
    /\ UNCHANGED <<inputVars, nameVars, identVars, gasDue, lastEst, simDue, runVars, endVars>>

\* Slip: a failure stops the periodic estimate.
StoppedByFailure == FALSE

\* What a failure leaves of the periodic estimate.
StillRefreshing == refreshing

\* _on_gas_failed only says so; _on_tron_failed takes the estimate back.
GasFailed(p) ==
    /\ Alive /\ p \in probes /\ probes' = probes \ {p}
    /\ IF ~Current(p)
       THEN UNCHANGED <<fee, failed, gasReady, refreshing, shown, confirmOn>>
       ELSE /\ failed' = p.to
            /\ IF Tron
               THEN /\ fee' = NoReq /\ gasReady' = FALSE /\ refreshing' = StillRefreshing
                    /\ shown' = [shown EXCEPT !.call = <<Parsed, amount>>]
                    /\ UpdateState(FALSE, Parsed, amount)
               ELSE UNCHANGED <<fee, gasReady, refreshing, shown, confirmOn>>
    /\ UNCHANGED <<inputVars, nameVars, identVars, gasDue, lastEst, simDue, runVars, endVars>>

-----------------------------------------------------------------------------
(* The simulated preview. *)

Running == "running"
\* A note stands for no answer too: both leave a line of text.
Answers == {"reverts", "logs", "note", "no simulator"}

\* _detach_sim on these workers: one that runs is cut off; whether an answer
\* already queued is still delivered is up to the toolkit.
CutOff(ws) == {{}, {w \in ws : w.says # Running}}

\* Slip: the clock is started before _detach_sim, which stops it.
StartedTooEarly == FALSE

\* The clock of the wait is started last.
Started == TRUE

\* _maybe_simulate
Simulate ==
    IF Params = NoReq
    THEN /\ simKey' = NoReq /\ banner' = NoReq /\ view' = Placeholder
         /\ UNCHANGED <<simDone, simClock, sims, canSim, logsOf>>
    ELSE IF Params = simKey
    THEN UNCHANGED runVars
    ELSE /\ simKey' = Params /\ banner' = NoReq
         /\ IF canSim
            THEN /\ view' = Busy /\ simDone' = FALSE /\ simClock' = Started
                 /\ \E left \in CutOff(sims) :
                      sims' = left \cup {[of |-> Params, says |-> Running]}
            ELSE view' = Placeholder /\ UNCHANGED <<simDone, simClock, sims>>
         /\ UNCHANGED <<canSim, logsOf>>

\* The debounce of the edits.
SimDebounced ==
    /\ Alive /\ simDue /\ simDue' = FALSE
    /\ Simulate
    /\ UNCHANGED <<inputVars, nameVars, identVars, shown, gasDue, feeVars, confirmOn, endVars>>

\* _on_sim_tab_changed
EventsTabOpened ==
    /\ Alive /\ Simulate
    /\ UNCHANGED <<inputVars, nameVars, identVars, shown, gasDue, feeVars, simDue,
                   confirmOn, endVars>>

\* SimulateWorker.run ends; its signal is queued.
SimAnswers(w) ==
    /\ Alive /\ w \in sims /\ w.says = Running
    /\ \E a \in Answers : sims' = (sims \ {w}) \cup {[w EXCEPT !.says = a]}
    /\ UNCHANGED <<inputVars, nameVars, identVars, shown, gasDue, feeVars, simDue, simKey,
                   simDone, simClock, canSim, view, banner, logsOf, confirmOn, endVars>>

\* Slip: the answer of an earlier simulation is shown.
Unexpected(w) == ~simDone

\* _on_sim_ready: neither superseded nor timed out.
Expected(w) == w.of = simKey /\ ~simDone

\* _on_sim_ready
SimReady(w) ==
    /\ Alive /\ w \in sims /\ w.says # Running
    /\ IF Expected(w)
       THEN /\ simDone' = TRUE /\ simClock' = FALSE
            /\ sims' \in CutOff(sims \ {w})
            /\ banner' = IF w.says = "reverts" THEN w.of ELSE NoReq
            /\ view' = IF w.says = "logs" THEN Listed(w.of) ELSE Placeholder
            /\ logsOf' = IF w.says = "logs" THEN w.of ELSE logsOf
       ELSE sims' = sims \ {w} /\ UNCHANGED <<simDone, simClock, banner, view, logsOf>>
    /\ canSim' = (canSim /\ w.says # "no simulator")
    /\ UNCHANGED <<inputVars, nameVars, identVars, shown, gasDue, feeVars, simDue, simKey,
                   confirmOn, endVars>>

\* _on_sim_timeout
SimTimeout ==
    /\ Alive /\ simClock /\ simClock' = FALSE
    /\ IF simDone THEN UNCHANGED <<simDone, sims, view>>
       ELSE simDone' = TRUE /\ sims' \in CutOff(sims) /\ view' = Placeholder
    /\ UNCHANGED <<inputVars, nameVars, identVars, shown, gasDue, feeVars, simDue, simKey,
                   canSim, banner, logsOf, confirmOn, endVars>>

-----------------------------------------------------------------------------
(* Confirm, and what becomes of it.  A closed dialog is deleted, and with it
   its state and its connections: what still runs reaches nobody.          *)

\* finalised_request, finalised_tron, set_signing_in_progress(True)
Confirm ==
    /\ Open /\ confirmOn /\ gasReady /\ Params # NoReq
    /\ stage' = "signing" /\ sent' = [req |-> Params, est |-> fee, legs |-> NoReq]
    /\ confirmOn' = FALSE
    /\ UNCHANGED <<inputVars, nameVars, identVars, shown, gasDue, feeVars, simDue, runVars>>

\* deleteLater: nothing of the dialog is left.
Deleted ==
    /\ stage' = "closed"
    /\ text' = Blank /\ amount' = 0 /\ edits' = 0
    /\ ensInput' = Blank /\ ensResolved' = None /\ lookups' = {}
    /\ identAddr' = None /\ identWork' = {} /\ shown' = NothingShown
    /\ gasDue' = FALSE /\ lastEst' = None /\ probes' = {} /\ fee' = NoReq /\ failed' = None
    /\ gasReady' = FALSE /\ refreshing' = FALSE
    /\ simDue' = FALSE /\ simKey' = NoReq /\ simDone' = TRUE /\ simClock' = FALSE
    /\ sims' = {} /\ canSim' = TRUE /\ view' = Placeholder /\ banner' = NoReq
    /\ logsOf' = NoReq /\ confirmOn' = FALSE
    /\ UNCHANGED family

\* _on_tx_broadcast, _on_tron_broadcast: note_transfer_legs with _logs
Broadcast ==
    /\ stage = "signing"
    /\ Deleted /\ sent' = [sent EXCEPT !.legs = logsOf]

\* _on_tx_sign_failed: set_signing_in_progress(False)
SignFails ==
    /\ stage = "signing"
    /\ stage' = "open" /\ sent' = NotSent
    /\ UpdateState(gasReady, Parsed, amount)
    /\ UNCHANGED <<inputVars, nameVars, identVars, shown, gasDue, feeVars, simDue, runVars>>

Cancel == Open /\ Deleted /\ UNCHANGED sent

-----------------------------------------------------------------------------
(* The specification *)

\* The dialog is shown; its preview is requested up front.
Init ==
    /\ family \in Families
    /\ text = Blank /\ amount = 0 /\ edits = 0
    /\ ensInput = Blank /\ ensResolved = None /\ lookups = {}
    /\ identAddr = None /\ identWork = {} /\ shown = NothingShown
    /\ gasDue = FALSE /\ lastEst = None /\ probes = {} /\ fee = NoReq /\ failed = None
    /\ gasReady = FALSE /\ refreshing = FALSE
    /\ simDue = TRUE /\ simKey = NoReq /\ simDone = TRUE /\ simClock = FALSE /\ sims = {}
    /\ canSim = TRUE /\ view = Placeholder /\ banner = NoReq /\ logsOf = NoReq
    /\ confirmOn = FALSE /\ stage = "open" /\ sent = NotSent

User ==
    \/ \E t \in Texts : EditRecipient(t)
    \/ \E a \in Amounts \cup {0} : EditAmount(a)
    \/ EventsTabOpened
    \/ Confirm
    \/ Cancel

Answered ==
    \/ \E n \in Names : EnsResolved(n)
    \/ \E a \in Addrs : IdentityReady(a)
    \/ \E p \in probes : GasSuggested(p) \/ GasFailed(p)
    \/ \E w \in sims : SimAnswers(w) \/ SimReady(w)
    \/ Broadcast
    \/ SignFails

Timers == ReestimateGas \/ RefreshTronFee \/ SimDebounced \/ SimTimeout

Next == User \/ Answered \/ Timers

\* The timers fire and the queued signals are delivered; the fee workers and
\* the resolver answer or fail, and a signing attempt ends.  A simulation may
\* never answer: its clock is what ends the wait.
Fairness ==
    /\ WF_vars(ReestimateGas) /\ WF_vars(SimDebounced) /\ WF_vars(SimTimeout)
    /\ \A n \in Names : WF_vars(EnsResolved(n))
    /\ WF_vars(\E p \in probes : GasSuggested(p) \/ GasFailed(p))
    /\ WF_vars(Broadcast \/ SignFails)

Spec == Init /\ [][Next]_vars /\ Fairness

\* ... and an estimate that is tried again and again succeeds once.
RetriesSucceed ==
    /\ WF_vars(RefreshTronFee)
    /\ SF_vars(\E p \in probes : p.latest /\ GasSuggested(p))

-----------------------------------------------------------------------------
(* Properties *)

TypeOK ==
    /\ family \in Families /\ text \in Texts /\ amount \in Amounts \cup {0}
    /\ edits \in 0 .. MaxEdits
    /\ ensInput \in Names \cup {Blank} /\ ensResolved \in Addrs \cup {None}
    /\ lookups \subseteq Names /\ identAddr \in Addrs \cup {None} /\ identWork \subseteq Addrs
    /\ shown \in [ens : Addrs \cup {None, "resolving", "not found"},
                  ident : Addrs \cup {None, "looking up"}, hint : Addrs \cup {None},
                  call : (Addrs \cup {None}) \X (Amounts \cup {0})]
    /\ lastEst \in Addrs \cup {None} /\ failed \in Addrs \cup {None}
    /\ probes \subseteq [to : Addrs, amt : Amounts, latest : BOOLEAN]
    /\ fee \in Transfers \cup {NoReq} /\ simKey \in Transfers \cup {NoReq}
    /\ {gasDue, gasReady, refreshing, simDue, simDone, simClock, canSim, confirmOn}
          \subseteq BOOLEAN
    /\ sims \subseteq [of : Transfers, says : Answers \cup {Running}]
    /\ {view.of, banner, logsOf} \subseteq Transfers \cup {NoReq}
    /\ stage \in {"open", "signing", "closed"}

\* While Confirm can be clicked, every row speaks of the transaction it would
\* send: the address a name resolved to is that name's own, it is the one in
\* its row, in the decoded call and in the tint of the field, and the identity
\* row is that address's or still being looked up.
\* (_on_ens_resolved, _on_identity_ready, _update_recipient_hint)
ConfirmShowsWhatItSends ==
    confirmOn =>
        /\ Parsed = IF text \in Names THEN Registry[text] ELSE text
        /\ text \in Names => shown.ens = Parsed
        /\ shown.call = Params /\ shown.hint = Parsed
        /\ shown.ident \in {Parsed, "looking up"}

\* Once the debounce of the last edit has run, a revert warning and a list of
\* events next to an enabled Confirm are about the transaction it would send.
\* (_maybe_simulate, _detach_sim, _on_sim_ready)
PreviewIsCurrent ==
    confirmOn /\ ~simDue => {banner, view.of} \subseteq {NoReq, Params}

\* A recipient that stays gets its own estimate, or is told why not: no stale
\* or superseded worker and no skipped re-estimate leaves it with neither.
\* (_reestimate_gas, _is_stale_gas)
EstimateComes ==
    (Open /\ Parsed # None) ~> (~Open \/ Parsed \in {None, failed, fee[1]})

\* A request to a typed address is previewed, without the user's opening the
\* Events tab, and the preview's spinner ends. (request_simulation)
AddressIsPreviewed ==
    (Open /\ Params # NoReq /\ text \in Addrs)
        ~> (~Open \/ text \notin Addrs \/ (simKey = Params /\ view # Busy))

\* On Tron, once there was an estimate, a failed one does not lock the dialog:
\* the periodic re-estimate brings Confirm back. (_refresh_tron_fee)
RefreshRecovers ==
    <>(Tron /\ gasReady) => []<>(gasReady \/ Params = NoReq \/ ~Open)

\* The fee becomes known, and known again after a failure.
FeeBecomesKnown == EstimateComes /\ RefreshRecovers

\* What the comments and docstrings say, and the code does not.

\* request_simulation: "so a predicted revert warns before the user opens the
\* Events tab": a name is previewed like an address.
EveryRequestIsPreviewed ==
    (Open /\ Params # NoReq) ~> (~Open \/ simKey = Params)

\* _logs: "so the host's leg-folding can show a swap's coins in the pending
\* row": the coins are those of the transaction that was sent.
LegsAreOfTheRequest ==
    sent.legs \in {NoReq, sent.req}

\* _wire_inputs: "Estimate gas only against the recipient the user has
\* actually typed": the gas sent was estimated for the recipient sent to.
EstimatedForRecipient == sent.est[1] = sent.req[1]

\* tron_send.py: "Re-estimate this often while the dialog is open".
FailedEstimateIsRetried ==
    (Tron /\ ~gasReady /\ Params # NoReq) ~> (gasReady \/ Params = NoReq \/ ~Open)
=============================================================================
