----------------------------- MODULE QrExchange -----------------------------
(***************************************************************************)
(* Signing on an air-gapped device: the signing worker waits in            *)
(* exchange_qr while the GUI thread shows the request as an animated QR    *)
(* and reads the device's signature with the camera (qr_signer.py,         *)
(* qr_exchange_dialog.py, qr_animation.py, qr_scan.py, qr/multipart.py).   *)
(* A request of one fragment is a still code.  A longer one is an endless  *)
(* stream of parts that a preparer thread encodes ahead into a small       *)
(* queue; the GUI thread displays one at every tick.  Camera frames are    *)
(* decoded in a thread of their own.  Requests are signed one after the    *)
(* other; the device may still show the signature of an earlier one.       *)
(***************************************************************************)
EXTENDS Naturals, Sequences, FiniteSets, Functions

CONSTANTS
    LastRequest,     \* bound on the exchanges of a behaviour, for model checking
    MaxFragments,    \* bound on the fragments of a request, for model checking
    PreparedFrames,  \* PREPARED_FRAMES: slots of the preparer's queue
    Masks,           \* the mask shifts a repeated fragment cycles through (8)
    EchoesId         \* the device puts the request's id into its signature

ASSUME QrAssumption ==
    /\ {LastRequest, MaxFragments, PreparedFrames, Masks} \subseteq Nat \ {0}
    /\ EchoesId \in BOOLEAN

Exchanges == 1..LastRequest
\* What a camera image may hold: nothing, a barcode that is no UR, a UR that is
\* no signature (an account export, our own request), or a request's signature.
Nothing == 0
OtherUr == LastRequest + 1
Barcode == LastRequest + 2
Period == 3   \* the device's camera reads one frame in so many

VARIABLES
    (* the signing worker and the dialog *)
    asked,       \* the request of the current exchange, 0 before the first
    dialog,      \* "closed", "open", or "done": exec() is about to return
    scanned,     \* _scanned, Nothing for None
    accepting,   \* the deferred accept is queued
    outcome,     \* what became of each request's exchange
    used,        \* the request whose signature it was given
    closedBy,    \* for the properties: who closed its dialog
    (* frame_source and the preparer thread *)
    size,        \* fragments of each request
    produced,    \* parts of the first pass already produced
    pure, group, \* the next plain retry; the parts left of the shuffled group
    visits,      \* mask shift of the next plain part of each fragment
    prep,        \* the thread: "idle", "encoding" or "over"
    made,        \* the frame it encodes
    slots,       \* the semaphore
    frames,      \* the queue
    broken,      \* the dialog says that the preparation failed
    (* the device *)
    beat, phase, \* frames displayed, and the one in Period it reads
    legible,     \* the mask shift it reads
    reading,     \* the request it assembles, 0 for none
    have,        \* its fragments so far
    signature,   \* the request whose signature it shows, 0 for none
    (* the scanners, one per dialog *)
    permission,  \* of the system: "granted", "denied", "undetermined"
    asking,      \* _permission_request_in_flight
    wanted,      \* _start_requested
    running,     \* whose camera runs
    busy,        \* _busy
    decoding,    \* the image at the decode worker, at most one
    signals      \* its queued found and done (Nothing) signals

exchangeVars == <<asked, dialog, scanned, accepting, outcome, used, closedBy, size>>
sourceVars == <<produced, pure, group, visits>>
prepVars == <<sourceVars, prep, made, slots, frames, broken>>
deviceVars == <<beat, phase, legible, reading, have, signature>>
cameraVars == <<permission, asking, wanted, running>>
scanVars == <<busy, decoding, signals>>
qrVars == <<exchangeVars, prepVars, deviceVars, cameraVars, scanVars>>

Fragments(r) == 0..size[r] - 1
NoFrame == [kind |-> "none", carries |-> {}, mask |-> 0]

-----------------------------------------------------------------------------
(* The request: frame_source and FramePreparer. *)

\* A plain retry carries its fragment under the systematic number or under a
\* fountain number of degree one, whichever the search has found.
PlainRetry(i) == {i}

\* The fragments of a rateless part come from a hash: one or several.
Mixes(r) == {{i} : i \in Fragments(r)} \cup {Fragments(r)}

\* Slip: the group is shown in the order it was made.
Unshuffled(parts) == {parts}

Shuffled(parts) ==
    {[i \in DOMAIN parts |-> parts[p[i]]] : p \in Bijection(DOMAIN parts, DOMAIN parts)}

Retries(r, mix) ==
    Shuffled(<<PlainRetry(pure), PlainRetry((pure + 1) % size[r]), mix>>)

NextPure(r) == (pure + 2) % size[r]

\* frames(): every fragment in order, then shuffled groups of two plain retries
\* and a rateless part.
FirstPass(part) ==
    /\ produced < size[asked]
    /\ part = {produced}
    /\ produced' = produced + 1
    /\ UNCHANGED <<pure, group>>

InGroup(part) ==
    /\ produced = size[asked] /\ group # <<>>
    /\ part = Head(group)
    /\ group' = Tail(group)
    /\ UNCHANGED <<produced, pure>>

NewGroup(order) ==
    /\ produced = size[asked] /\ group = <<>>
    /\ group' = Tail(order)
    /\ pure' = NextPure(asked)
    /\ UNCHANGED produced

\* _run: one more part of the fragment is encoded with the next mask shift.
Encoded(part) ==
    /\ made' = [kind |-> "part", carries |-> part,
                mask |-> IF Cardinality(part) = 1
                         THEN visits[CHOOSE i \in part : TRUE] ELSE 0]
    /\ visits' = [i \in DOMAIN visits |->
                    IF part = {i} THEN (visits[i] + 1) % Masks ELSE visits[i]]

\* The semaphore reserves the slot before the source is asked for a part.
Reserve ==
    /\ dialog = "open" /\ ~broken
    /\ prep = "idle" /\ slots > 0
    /\ slots' = slots - 1
    /\ prep' = "encoding"
    /\ UNCHANGED <<frames, broken, exchangeVars, deviceVars, cameraVars, scanVars>>

PrepareStatic ==
    /\ Reserve /\ size[asked] = 1
    /\ made' = [kind |-> "static", carries |-> {0}, mask |-> 0]
    /\ UNCHANGED sourceVars

PrepareNext ==
    /\ Reserve /\ size[asked] > 1
    /\ \E part \in SUBSET Fragments(asked) :
         /\ FirstPass(part) \/ InGroup(part)
         /\ Encoded(part)

PrepareGroup(order) ==
    /\ Reserve /\ size[asked] > 1
    /\ NewGroup(order)
    /\ Encoded(Head(order))

\* The source or the encoder raises: the exception takes the frame's place.
PrepareFails ==
    /\ Reserve
    /\ made' = [NoFrame EXCEPT !.kind = "error"]
    /\ UNCHANGED sourceVars

\* A cancelled thread drops what it has encoded and ends; so it does after a
\* still frame or an error.
Put ==
    /\ prep = "encoding"
    /\ made' = NoFrame
    /\ IF dialog = "open" /\ ~broken
       THEN /\ frames' = Append(frames, made)
            /\ prep' = IF made.kind = "part" THEN "idle" ELSE "over"
       ELSE prep' = "over" /\ UNCHANGED frames
    /\ UNCHANGED <<sourceVars, slots, broken, exchangeVars, deviceVars, cameraVars, scanVars>>

-----------------------------------------------------------------------------
(* The display and the device. *)

\* The device collects plain parts; it starts again for another request.  Of an
\* animation its camera gets one frame in Period, and only in one mask.
DeviceSees(f) ==
    LET plain == IF beat = phase /\ f.mask = legible /\ Cardinality(f.carries) = 1
                 THEN f.carries ELSE {}
        seen == IF f.kind = "static" THEN f.carries ELSE plain
    IN  IF seen = {} THEN UNCHANGED <<reading, have>>
        ELSE /\ reading' = asked
             /\ have' = seen \cup (IF reading = asked THEN have ELSE {})

\* Slip: a slot is given back at every call of take, frame or not.
SlotsAfterAnyTake == slots + 1

\* take(): a slot is given back with the frame.
SlotsAfterTake == IF frames = <<>> THEN slots ELSE slots + 1

ShowFrame ==
    /\ dialog = "open" /\ ~broken
    /\ slots' = SlotsAfterTake
    /\ frames' = IF frames = <<>> THEN <<>> ELSE Tail(frames)
    /\ IF frames = <<>> THEN UNCHANGED <<broken, beat, reading, have>>
       ELSE IF Head(frames).kind = "error"
       THEN broken' = TRUE /\ UNCHANGED <<beat, reading, have>>
       ELSE /\ beat' = (beat + 1) % Period
            /\ DeviceSees(Head(frames))
            /\ UNCHANGED broken
    /\ UNCHANGED <<sourceVars, prep, made, phase, legible, signature,
                   exchangeVars, cameraVars, scanVars>>

\* The user approves what the device has read.
DeviceSigns ==
    /\ reading # 0 /\ signature # reading
    /\ have = Fragments(reading)
    /\ signature' = reading
    /\ UNCHANGED <<exchangeVars, prepVars, beat, phase, legible, reading, have,
                   cameraVars, scanVars>>

-----------------------------------------------------------------------------
(* The camera and its decode worker. *)

\* start(): a platform that has not decided is asked once, and answers later.
StartCamera(r) ==
    /\ wanted' = wanted \cup {r}
    /\ running' = IF permission = "granted" THEN running \cup {r} ELSE running
    /\ asking' = IF permission = "undetermined" THEN asking \cup {r} ELSE asking
    /\ UNCHANGED permission

UserDecides ==
    /\ permission = "undetermined" /\ asking # {}
    /\ permission' \in {"granted", "denied"}
    /\ UNCHANGED <<exchangeVars, prepVars, deviceVars, asking, wanted, running, scanVars>>

\* Slip: the grant opens the camera whoever asked.
AskedOnce(r) == r \in Exchanges

\* _permission_decided: a grant that lands after the close opens no camera.
StillWanted(r) == r \in wanted

PermissionDecided(r) ==
    /\ r \in asking /\ permission # "undetermined"
    /\ asking' = asking \ {r}
    /\ running' = IF StillWanted(r) /\ permission = "granted"
                  THEN running \cup {r} ELSE running
    /\ UNCHANGED <<exchangeVars, prepVars, deviceVars, permission, wanted, scanVars>>

\* _on_frame: a frame that comes while one is decoded is dropped.
CameraSees(image) ==
    /\ dialog = "open" /\ asked \in running
    /\ ~busy
    /\ image \in {Nothing, Barcode, OtherUr, signature}
    /\ busy' = TRUE
    /\ decoding' = {image}
    /\ UNCHANGED <<exchangeVars, prepVars, deviceVars, cameraVars, signals>>

Found(image) == IF image = Nothing THEN <<Nothing>> ELSE <<image, Nothing>>

Decode ==
    \E image \in decoding :
      /\ decoding' = {}
      /\ signals' = signals \o Found(image)
      /\ UNCHANGED <<exchangeVars, prepVars, deviceVars, cameraVars, busy>>

-----------------------------------------------------------------------------
(* The exchange. *)

\* _request_signature, _run_exchange, showEvent: a fresh dialog with its own
\* preparer and scanner.
OpenExchange ==
    /\ dialog = "closed" /\ asked < LastRequest
    /\ asked' = asked + 1
    /\ dialog' = "open"
    /\ scanned' = Nothing /\ accepting' = FALSE
    /\ produced' = 0 /\ pure' = 0 /\ group' = <<>>
    /\ visits' = [i \in Fragments(asked') |-> 0]
    /\ prep' = "idle" /\ made' = NoFrame
    /\ slots' = PreparedFrames /\ frames' = <<>> /\ broken' = FALSE
    /\ beat' = 0
    /\ StartCamera(asked')
    /\ busy' = FALSE /\ decoding' = {} /\ signals' = <<>>
    /\ UNCHANGED <<outcome, used, closedBy, size, phase, legible, reading, have, signature>>

\* Minimised and restored: showEvent again.
ShownAgain ==
    /\ dialog = "open"
    /\ StartCamera(asked)
    /\ UNCHANGED <<exchangeVars, prepVars, deviceVars, scanVars>>

\* done(): the animation and the scanner stop; the decode under way is waited for.
Done(who) ==
    /\ dialog = "open"
    /\ dialog' = "done"
    /\ accepting' = FALSE
    /\ closedBy' = [closedBy EXCEPT ![asked] = who]
    /\ wanted' = wanted \ {asked} /\ running' = running \ {asked}
    /\ decoding' = {}
    /\ signals' = IF decoding = {} THEN signals
                  ELSE signals \o Found(CHOOSE image \in decoding : TRUE)
    /\ UNCHANGED <<asked, scanned, outcome, used, size, prepVars, deviceVars,
                   permission, asking, busy>>

CancelExchange == Done("user")
Accept == accepting /\ Done("scan")

\* _on_decoded: the first UR is taken, and the close is deferred.  A signal may
\* still be delivered between done() and the return of exec().
Deliver ==
    /\ dialog \in {"open", "done"} /\ signals # <<>>
    /\ LET image == Head(signals)
           takes == scanned = Nothing /\ image \notin {Nothing, Barcode}
       IN  /\ busy' = (busy /\ image # Nothing)
           /\ scanned' = IF takes THEN image ELSE scanned
           /\ accepting' = (accepting \/ (takes /\ dialog = "open"))
    /\ signals' = Tail(signals)
    /\ UNCHANGED <<asked, dialog, outcome, used, closedBy, size, prepVars, deviceVars,
                   cameraVars, decoding>>

\* Slip: any signature will do.
AnySignature(ur) == ur \in Exchanges

\* A signature without an id is taken for an answer to any request.
AnswersIt(ur) == ur \in Exchanges /\ (EchoesId => ur = asked)

\* scanned_ur() goes back to the worker, which parses and checks it; the
\* dialog, its preparer and its scanner are forgotten.
Return ==
    /\ dialog = "done"
    /\ dialog' = "closed"
    /\ outcome' = [outcome EXCEPT ![asked] =
                     IF scanned = Nothing THEN "cancelled"
                     ELSE IF AnswersIt(scanned) THEN "signed" ELSE "refused"]
    /\ used' = [used EXCEPT ![asked] = IF AnswersIt(scanned) THEN scanned ELSE @]
    /\ scanned' = Nothing
    /\ produced' = 0 /\ pure' = 0 /\ group' = <<>> /\ visits' = <<>>
    /\ prep' = "over" /\ made' = NoFrame
    /\ slots' = 0 /\ frames' = <<>> /\ broken' = FALSE
    /\ beat' = 0 /\ busy' = FALSE /\ signals' = <<>>
    /\ UNCHANGED <<asked, accepting, closedBy, size, phase, legible, reading, have,
                   signature, cameraVars, decoding>>

\* No preparer, display, camera or decode is under way.
Idle ==
    /\ produced = 0 /\ pure = 0 /\ group = <<>> /\ visits = <<>>
    /\ prep = "over" /\ made = NoFrame /\ slots = 0 /\ frames = <<>> /\ broken = FALSE
    /\ beat = 0
    /\ asking = {} /\ wanted = {} /\ running = {}
    /\ busy = FALSE /\ decoding = {} /\ signals = <<>>

ExchangeInit ==
    /\ asked = 0 /\ dialog = "closed" /\ scanned = Nothing /\ accepting = FALSE
    /\ outcome = [r \in Exchanges |-> "none"]
    /\ used = [r \in Exchanges |-> 0]
    /\ closedBy = [r \in Exchanges |-> "nobody"]
    /\ size \in [Exchanges -> 1..MaxFragments]
    /\ phase \in 0..Period - 1 /\ legible \in 0..Masks - 1
    /\ reading = 0 /\ have = {} /\ signature = 0
    /\ permission \in {"granted", "denied", "undetermined"}
    /\ Idle

Orders == UNION {Retries(asked, mix) : mix \in Mixes(asked)}

ExchangeNext ==
    \/ OpenExchange \/ ShownAgain \/ CancelExchange \/ Accept \/ Deliver \/ Return
    \/ PrepareStatic \/ PrepareNext \/ PrepareFails \/ Put
    \/ dialog = "open" /\ \E order \in Orders : PrepareGroup(order)
    \/ ShowFrame \/ DeviceSigns
    \/ UserDecides \/ \E r \in Exchanges : PermissionDecided(r)
    \/ \E image \in 0..Barcode : CameraSees(image)
    \/ Decode

-----------------------------------------------------------------------------
(* Fairness.  The threads and the event loop run on.  The shuffle and the     *)
(* mixes are random: a fragment they could again and again put where the      *)
(* device looks, in the mask it reads, gets there in the end.  The camera is  *)
(* held to the device, and the user of the device approves.                   *)

Lucky(i) ==
    /\ dialog = "open" /\ i \in Fragments(asked) /\ size[asked] > 1
    /\ \E order \in Orders :
         /\ \E j \in DOMAIN order :
              /\ order[j] = {i} /\ (size[asked] + j - 1) % Period = phase
              /\ (visits[i] + Cardinality({k \in 1..j - 1 : order[k] = {i}})) % Masks
                   = legible
         /\ PrepareGroup(order)

\* A part of several fragments, which leaves their masks where they are.
Mixed ==
    /\ dialog = "open" /\ size[asked] > 1
    /\ \E order \in Retries(asked, Fragments(asked)) : PrepareGroup(order)

ExchangeFairness ==
    /\ WF_qrVars(PrepareStatic) /\ WF_qrVars(PrepareNext)
    /\ WF_qrVars(dialog = "open" /\ \E order \in Orders : PrepareGroup(order))
    /\ \A i \in 0..MaxFragments - 1 : SF_qrVars(Lucky(i))
    /\ SF_qrVars(Mixed)
    /\ WF_qrVars(Put) /\ WF_qrVars(ShowFrame)
    /\ WF_qrVars(DeviceSigns) /\ SF_qrVars(signature # 0 /\ CameraSees(signature))
    /\ WF_qrVars(Decode) /\ WF_qrVars(Deliver) /\ WF_qrVars(Accept)

ExchangeSpec == ExchangeInit /\ [][ExchangeNext]_qrVars /\ ExchangeFairness

-----------------------------------------------------------------------------
(* Properties. *)

ExchangeTypeOK ==
    /\ asked \in 0..LastRequest
    /\ dialog \in {"closed", "open", "done"}
    /\ scanned \in Exchanges \cup {Nothing, OtherUr}
    /\ {accepting, broken, busy} \subseteq BOOLEAN
    /\ outcome \in [Exchanges -> {"none", "cancelled", "refused", "signed"}]
    /\ used \in [Exchanges -> 0..LastRequest]
    /\ size \in [Exchanges -> 1..MaxFragments]
    /\ produced \in 0..MaxFragments /\ pure \in 0..MaxFragments - 1 /\ Len(group) <= 2
    /\ prep \in {"idle", "encoding", "over"}
    /\ slots \in 0..PreparedFrames
    /\ have \subseteq 0..MaxFragments - 1
    /\ asking \cup wanted \cup running \subseteq Exchanges
    /\ Cardinality(decoding) <= 1

\* The preparer's put_nowait never finds the queue full: outside the try, Full
\* would end the thread and leave the last frame on the screen for ever.
PutFindsRoom == prep = "encoding" => Len(frames) < PreparedFrames

\* No camera runs unless its dialog is on the screen, also when the system's
\* permission comes after the user closed it.
CameraOnlyWhileShown ==
    running \subseteq (IF dialog = "open" THEN {asked} ELSE {})

\* A signature is only put on the request it was made for, although the device
\* may still show that of an earlier one, if it echoes request ids.
SignedForItsRequest ==
    \A r \in Exchanges : outcome[r] = "signed" => used[r] = r

\* An exchange comes to an end or says that it failed, for every device that
\* reads one frame in three in a single mask; without a camera of our own, the
\* device still gets as far as showing its signature.
ExchangeEnds ==
    \A r \in Exchanges :
      (asked = r /\ dialog = "open")
        ~> (asked = r => \/ dialog # "open" \/ broken
                         \/ signature = r /\ r \notin running)

\* What scanned_ur promises: nothing is returned of an exchange the user
\* cancelled.  Refuted: a UR decoded before the click is kept.
CancelReturnsNothing ==
    \A r \in Exchanges :
      closedBy[r] = "user" => outcome[r] \in {"none", "cancelled"}
=============================================================================
