-------------------------- MODULE SignFlowProofs --------------------------
(***************************************************************************)
(* What a user was told of an attempt stays true (SettledNeverSends), and  *)
(* attempts one after the other have different nonces                      *)
(* (SequentialNoncesDiffer): for any number of dialogs, attempts and       *)
(* estimates, and any of the three ways to sign.                           *)
(*                                                                         *)
(* Both come down to who can click Confirm and Cancel when.  A dialog has  *)
(* one attempt under way (Alone), because the spinner or a prompt is in    *)
(* the way, or, for a QR signer, because its only estimate is over before  *)
(* its first Confirm (OneEstimate, ConfirmWaits).  Then the attempt's own  *)
(* dialog is open and cannot be dismissed until it ends (Held), so what is *)
(* sent is recorded (Recorded), and the nonce of a later attempt is above  *)
(* all that is recorded (Distinct).                                        *)
(***************************************************************************)
EXTENDS SignFlow, TLAPS, WellFoundedInduction

-----------------------------------------------------------------------------
(* The invariant. *)

Stages == Working \cup {"none", "unlock", "dropped", "done", "lost", "warning", "reported"}

Types ==
    /\ kind \in [Dialogs -> {"tx", "message", "replace"}]
    /\ shown \in [Dialogs -> {"no", "open", "closed"}]
    /\ signing \in [Dialogs -> BOOLEAN] /\ confirm \in [Dialogs -> BOOLEAN]
    /\ ready \in [Dialogs -> BOOLEAN] /\ due \in [Dialogs -> BOOLEAN]
    /\ suggested \in [Dialogs -> Nat]
    /\ probe \in [Dialogs -> [Probes -> [stage : {"none", "asked", "over"}, floor : Nat]]]
    /\ answer \in [Dialogs -> {"none", "pending", "failed", "cancelled", "result"}]
    /\ stage \in [Attempts -> Stages]
    /\ nonceOf \in [Attempts -> 0..LastNonce]
    /\ jobs \in Seq(Attempts)
    /\ mined \in Nat
    /\ mempool \subseteq Attempts /\ rows \subseteq Attempts

\* Nothing is under way for a dialog before it is shown.
Unopened ==
    \A d \in Dialogs : shown[d] = "no" =>
        /\ ~confirm[d] /\ ~due[d]
        /\ \A k \in Probes : probe[d][k].stage = "none"
        /\ \A a \in Of(d) : stage[a] = "none"

\* A dialog that is not Editable asks for one estimate, before its first Confirm.
OneEstimate ==
    \A d \in Dialogs \ Editable :
        /\ ~due[d]
        /\ \A k, j \in Probes :
             probe[d][k].stage # "none" /\ probe[d][j].stage # "none" => k = j
        /\ (\E k \in Probes : probe[d][k].stage = "asked") =>
             ~confirm[d] /\ \A a \in Of(d) : stage[a] = "none"

\* ... so Confirm stays disabled while an attempt of it is on its way.
ConfirmWaits ==
    \A d \in Dialogs \ Editable : confirm[d] => \A a \in Of(d) : stage[a] \notin Working

Alone ==
    \A a, b \in Attempts :
        a[1] = b[1] /\ a[1] \notin Overlapping /\ Underway(a) /\ Underway(b) => a = b

\* An attempt under way keeps its dialog open and, in its worker, undismissable.
Held ==
    \A a \in Attempts : a[1] \notin Overlapping /\ Underway(a) =>
        shown[a[1]] = "open" /\ (stage[a] \in Working => signing[a[1]])

\* What the node may have and what is recorded, by the attempt's stage.
Recorded ==
    \A a \in Attempts :
        /\ a \in rows => stage[a] = "done"
        /\ a \in mempool => stage[a] \in {"sent", "limbo", "done", "lost"}
        /\ kind[a[1]] = "message" => a \notin mempool \cup rows /\ stage[a] \notin {"push", "limbo"}
        /\ stage[a] = "done" => shown[a[1]] = "closed"
        /\ stage[a] = "done" /\ kind[a[1]] # "message" => a \in rows
        /\ a[1] \notin Overlapping => stage[a] # "lost"

Cancelled ==
    \A d \in Dialogs :
        /\ answer[d] # "none" => d \in Dapps
        /\ answer[d] = "cancelled" =>
             shown[d] = "closed" /\ \A a \in Of(d) : a \notin mempool \cup rows /\ ~Underway(a)

\* An attempt that may be sent yet, or was.
Sendable(a) ==
    /\ kind[a[1]] = "tx" /\ a[1] \notin Overlapping
    /\ Underway(a) \/ stage[a] = "done"

Distinct ==
    \A a, b \in Attempts : Sendable(a) /\ Sendable(b) =>
        a = b \/ nonceOf[a] # nonceOf[b] \/ {a, b} \in met

IInv == /\ Types /\ Unopened /\ OneEstimate /\ ConfirmWaits /\ Alone /\ Held /\ Recorded
        /\ Cancelled /\ Distinct

-----------------------------------------------------------------------------
(* Numbers. *)

LEMMA Least ==
    ASSUME NEW T \in SUBSET Nat, T # {}
    PROVE  \E x \in T : \A y \in T : x <= y
<1>1. PICK x \in T : \A y \in T : <<y, x>> \notin OpToRel(<, Nat)
  BY NatLessThanWellFounded, WFMin
<1>2. \A y \in T : ~(y < x)
  BY <1>1 DEF OpToRel
<1> QED
  BY <1>2

\* Maximum is one, of a bounded set.
LEMMA Greatest ==
    ASSUME NEW N \in Nat, NEW S \in SUBSET (0..N), S # {}
    PROVE  Maximum(S) \in S /\ \A k \in S : k <= Maximum(S)
<1> DEFINE T == {m \in 0..N : N - m \in S}
<1>1. \A n \in S : n \in 0..N /\ N - n \in 0..N /\ N - (N - n) = n
  OBVIOUS
<1>2. T \in SUBSET Nat /\ T # {}
  <2>1. PICK n \in S : TRUE
    OBVIOUS
  <2>2. N - n \in T
    BY <1>1
  <2> QED
    BY <2>2
<1>3. PICK x \in T : \A y \in T : x <= y
  BY <1>2, Least
<1>4. N - x \in S /\ x \in 0..N
  OBVIOUS
<1>5. \A k \in S : k <= N - x
  BY <1>1, <1>3, <1>4
<1> QED
  BY <1>4, <1>5 DEF Maximum

LEMMA Larger ==
    ASSUME NEW m \in Nat, NEW n \in Nat
    PROVE  Maximum({m, n}) \in {m, n} /\ m <= Maximum({m, n}) /\ n <= Maximum({m, n})
<1>1. CASE m <= n
  <2>1. {m, n} \in SUBSET (0..n) /\ {m, n} # {}
    BY <1>1
  <2> QED
    BY <2>1, Greatest
<1>2. CASE n <= m
  <2>1. {m, n} \in SUBSET (0..m) /\ {m, n} # {}
    BY <1>2
  <2> QED
    BY <2>1, Greatest
<1> QED
  BY <1>1, <1>2

\* The floor is above every recorded nonce.
LEMMA FloorAbove ==
    ASSUME Types
    PROVE  Floor \in Nat /\ \A a \in rows : nonceOf[a] < Floor
<1> DEFINE S == {nonceOf[a] : a \in rows}
<1>1. CASE rows = {}
  BY <1>1 DEF Floor
<1>2. CASE rows # {}
  <2>1. LastNonce \in Nat /\ S \in SUBSET (0..LastNonce) /\ S # {}
    BY <1>2, SignAssumption DEF Types
  <2>2. Maximum(S) \in S /\ \A k \in S : k <= Maximum(S)
    BY <2>1, Greatest
  <2>3. Floor = 1 + Maximum(S)
    BY <1>2 DEF Floor
  <2>4. \A a \in rows : nonceOf[a] \in S
    OBVIOUS
  <2> HIDE DEF S
  <2>5. \A n \in S : n \in Nat
    BY <2>1
  <2> QED
    BY <2>2, <2>3, <2>4, <2>5
<1> QED
  BY <1>1, <1>2

-----------------------------------------------------------------------------
(* What a step leaves alone. *)

LEMMA AttemptType == \A a \in Attempts : a[1] \in Dialogs
  BY SignAssumption

\* The estimates stay what they are, no first attempt starts, and Confirm is
\* enabled by the end of one only.
LEMMA EstimateStays ==
    ASSUME IInv, UNCHANGED <<due, probe>>,
           \A a \in Attempts : stage'[a] # stage[a] => stage[a] # "none",
           \A d \in Dialogs : confirm'[d] => confirm[d] \/ (\E a \in Of(d) : stage[a] # "none")
    PROVE  OneEstimate'
<1> SUFFICES ASSUME NEW d \in Dialogs \ Editable
             PROVE  /\ ~due[d]
                    /\ \A k, j \in Probes :
                         probe[d][k].stage # "none" /\ probe[d][j].stage # "none" => k = j
                    /\ (\E k \in Probes : probe[d][k].stage = "asked") =>
                         ~confirm'[d] /\ \A a \in Of(d) : stage'[a] = "none"
  BY DEF OneEstimate
<1> QED
  BY DEF IInv, OneEstimate, Of

\* No attempt starts.
LEMMA AloneStays ==
    ASSUME IInv, \A a \in Attempts : Underway(a)' => Underway(a)
    PROVE  Alone'
  BY DEF IInv, Alone

LEMMA DistinctStays ==
    ASSUME IInv, UNCHANGED <<nonceOf, met>>, \A a \in Attempts : Sendable(a)' => Sendable(a)
    PROVE  Distinct'
  BY DEF IInv, Distinct

\* An attempt moves on to s; the helpers know it by its values.
LEMMA MovesOn ==
    ASSUME Types, NEW a \in Attempts, NEW s \in Stages, stage' = [stage EXCEPT ![a] = s]
    PROVE  /\ stage' \in [Attempts -> Stages] /\ stage'[a] = s
           /\ \A b \in Attempts : b # a => stage'[b] = stage[b]
  BY DEF Types

-----------------------------------------------------------------------------
(* Requests and dialogs. *)

LEMMA SubmitKeeps ==
    ASSUME IInv, NEW d \in Dialogs, Submit(d)
    PROVE  IInv'
<1>1. Types'
  BY DEF Submit, dialogVars, gasVars, attemptVars, chainVars, IInv, Types
<1>2. Cancelled'
  BY DEF Submit, dialogVars, attemptVars, chainVars, IInv, Types, Cancelled, Of, Underway
<1>3. Unopened' /\ OneEstimate' /\ ConfirmWaits' /\ Alone' /\ Held' /\ Recorded' /\ Distinct'
  BY DEF Submit, dialogVars, gasVars, attemptVars, chainVars, IInv, Unopened, OneEstimate,
         ConfirmWaits, Alone, Held, Recorded, Distinct, Of, Underway, Sendable
<1> QED
  BY <1>1, <1>2, <1>3 DEF IInv

\* The dialog was not shown, so it has no attempt.
LEMMA RefuseKeeps ==
    ASSUME IInv, NEW d \in Dialogs, Refuse(d)
    PROVE  IInv'
<1>0. /\ shown' = [shown EXCEPT ![d] = "closed"] /\ shown[d] = "no"
      /\ answer' = [answer EXCEPT ![d] = "failed"] /\ answer[d] = "pending"
      /\ UNCHANGED <<kind, signing, confirm, gasVars, attemptVars, chainVars, rows>>
  BY DEF Refuse, Answer, IInv, Types
<1>1. Types'
  BY <1>0 DEF gasVars, attemptVars, chainVars, IInv, Types
<1>2. Unopened'
  BY <1>0 DEF gasVars, attemptVars, IInv, Types, Unopened, Of
<1>3. Held'
  BY <1>0, AttemptType DEF attemptVars, IInv, Types, Held, Unopened, Of, Underway, Working
<1>4. Recorded'
  BY <1>0, AttemptType DEF attemptVars, chainVars, IInv, Types, Recorded
<1>5. Cancelled'
  BY <1>0 DEF attemptVars, chainVars, IInv, Types, Cancelled, Of, Underway
<1>6. OneEstimate' /\ ConfirmWaits' /\ Alone' /\ Distinct'
  BY <1>0 DEF gasVars, attemptVars, IInv, OneEstimate, ConfirmWaits, Alone, Distinct, Of,
              Underway, Sendable
<1> QED
  BY <1>1, <1>2, <1>3, <1>4, <1>5, <1>6 DEF IInv

\* The first estimate, if it is asked for: no other was, and no attempt is.
LEMMA OpenKeeps ==
    ASSUME IInv, NEW d \in Dialogs, Open(d)
    PROVE  IInv'
<1>0. /\ shown[d] = "no" /\ shown' = [shown EXCEPT ![d] = "open"]
      /\ UNCHANGED <<signing, ready, due, answer, attemptVars, chainVars, rows>>
  BY DEF Open
<1>1. /\ ~confirm[d] /\ ~due[d] /\ \A k \in Probes : probe[d][k].stage = "none"
      /\ \A a \in Of(d) : stage[a] = "none"
  BY <1>0 DEF IInv, Unopened
<1>2. Floor \in Nat
  BY FloorAbove DEF IInv
<1> DEFINE n == Latest(d) + 1
<1>3. /\ Kicked(d) \in [Probes -> [stage : {"none", "asked", "over"}, floor : Nat]]
      /\ \A k \in Probes : Kicked(d)[k].stage # "none" => k = n
  <2> HIDE DEF n
  <2> DEFINE p == probe[d]
             q == [p EXCEPT ![n] = [stage |-> "asked", floor |-> Floor]]
  <2>1. Kicked(d) = q
    BY DEF Kicked, n
  <2>2. p \in [Probes -> [stage : {"none", "asked", "over"}, floor : Nat]]
        /\ \A k \in Probes : p[k].stage = "none"
    BY <1>1 DEF IInv, Types
  <2> HIDE DEF p
  <2>3. q \in [Probes -> [stage : {"none", "asked", "over"}, floor : Nat]]
        /\ \A k \in Probes : q[k].stage # "none" => k = n
    BY <1>2, <2>2
  <2> QED
    BY <2>1, <2>3
<1> HIDE DEF n
<1>4. /\ probe' = probe \/ probe' = [probe EXCEPT ![d] = Kicked(d)]
      /\ confirm' = confirm \/ (confirm' = [confirm EXCEPT ![d] = TRUE] /\ probe' = probe)
      /\ \E t \in {"tx", "message", "replace"} : kind' = kind \/ kind' = [kind EXCEPT ![d] = t]
      /\ suggested' = suggested
         \/ \E a \in rows : suggested' = [suggested EXCEPT ![d] = nonceOf[a]]
  BY DEF Open
<1>a. /\ \A e \in Dialogs : e # d => confirm'[e] = confirm[e] /\ kind'[e] = kind[e]
      /\ kind' \in [Dialogs -> {"tx", "message", "replace"}]
      /\ confirm' \in [Dialogs -> BOOLEAN]
      /\ confirm'[d] => probe' = probe
  <2>1. /\ kind' \in [Dialogs -> {"tx", "message", "replace"}]
        /\ \A e \in Dialogs : e # d => kind'[e] = kind[e]
    BY ZenonT(60), <1>4 DEF IInv, Types
  <2>2. CASE confirm' = confirm
    BY <1>1, <2>1, <2>2 DEF IInv, Types
  <2>3. CASE confirm' = [confirm EXCEPT ![d] = TRUE] /\ probe' = probe
    BY <2>1, <2>3 DEF IInv, Types
  <2> QED
    BY <1>4, <2>2, <2>3
<1>b. suggested' \in [Dialogs -> Nat]
  <2>1. \A a \in rows : nonceOf[a] \in Nat
    BY SignAssumption DEF IInv, Types
  <2> QED
    BY <1>4, <2>1 DEF IInv, Types
<1>5. /\ probe' \in [Dialogs -> [Probes -> [stage : {"none", "asked", "over"}, floor : Nat]]]
      /\ \A e \in Dialogs : e # d => probe'[e] = probe[e]
      /\ \A k \in Probes : probe'[d][k].stage # "none" => k = n
  <2>1. CASE probe' = probe
    BY <1>1, <2>1 DEF IInv, Types
  <2>2. CASE probe' = [probe EXCEPT ![d] = Kicked(d)]
    BY <1>3, <2>2 DEF IInv, Types
  <2> QED
    BY <1>4, <2>1, <2>2
<1>c. confirm'[d] => \A k \in Probes : probe'[d][k].stage = "none"
  BY <1>1, <1>a
<1>6. Types'
  BY <1>0, <1>5, <1>a, <1>b DEF attemptVars, chainVars, IInv, Types
<1>7. Unopened'
  <2> SUFFICES ASSUME NEW e \in Dialogs, shown'[e] = "no"
               PROVE  /\ ~confirm'[e] /\ ~due'[e]
                      /\ \A k \in Probes : probe'[e][k].stage = "none"
                      /\ \A a \in Of(e) : stage'[a] = "none"
    BY DEF Unopened, Of
  <2>1. e # d /\ shown[e] = "no"
    BY <1>0 DEF IInv, Types
  <2>2. confirm'[e] = confirm[e] /\ probe'[e] = probe[e] /\ due' = due /\ stage' = stage
    BY <1>0, <1>5, <1>a, <2>1 DEF attemptVars
  <2> QED
    BY <2>1, <2>2 DEF IInv, Unopened
<1>8. OneEstimate'
  <2> SUFFICES ASSUME NEW e \in Dialogs \ Editable
               PROVE  /\ ~due'[e]
                      /\ \A k, j \in Probes :
                           probe'[e][k].stage # "none" /\ probe'[e][j].stage # "none" => k = j
                      /\ (\E k \in Probes : probe'[e][k].stage = "asked") =>
                           ~confirm'[e] /\ \A a \in Of(e) : stage'[a] = "none"
    BY DEF OneEstimate, Of
  <2>1. CASE e = d
    BY <1>0, <1>1, <1>5, <1>c, <2>1 DEF attemptVars
  <2>2. CASE e # d
    <3>1. confirm'[e] = confirm[e] /\ probe'[e] = probe[e] /\ due' = due /\ stage' = stage
      BY <1>0, <1>5, <1>a, <2>2 DEF attemptVars
    <3> QED
      BY <3>1 DEF IInv, OneEstimate
  <2> QED
    BY <2>1, <2>2
<1>9. ConfirmWaits'
  BY <1>0, <1>1, <1>a DEF attemptVars, IInv, ConfirmWaits, Of, Working
<1>10. Held'
  BY <1>0, <1>1, AttemptType DEF attemptVars, IInv, Types, Held, Of, Underway, Working
<1>11. Recorded'
  BY <1>0, <1>1, <1>a, AttemptType DEF attemptVars, chainVars, IInv, Types, Recorded, Of
<1>12. Cancelled'
  BY <1>0, <1>1 DEF attemptVars, chainVars, IInv, Types, Cancelled, Of, Underway
<1>13. Distinct'
  <2>1. \A a \in Attempts : Sendable(a)' => Sendable(a)
    BY <1>0, <1>1, <1>a, AttemptType DEF attemptVars, Sendable, Underway, Working, Of
  <2> QED
    BY <1>0, <2>1, DistinctStays DEF attemptVars
<1>14. Alone'
  BY <1>0 DEF attemptVars, IInv, Alone, Underway
<1> QED
  BY <1>6, <1>7, <1>8, <1>9, <1>10, <1>11, <1>12, <1>13, <1>14 DEF IInv

\* No attempt of it is under way, and none was sent.
LEMMA DismissKeeps ==
    ASSUME IInv, NEW d \in Dialogs, Dismiss(d)
    PROVE  IInv'
<1>0. /\ shown[d] = "open" /\ ~Prompted /\ ~signing[d]
      /\ shown' = [shown EXCEPT ![d] = "closed"]
      /\ answer' = [answer EXCEPT ![d] = IF @ = "pending" THEN "cancelled" ELSE @]
      /\ UNCHANGED <<kind, signing, confirm, gasVars, attemptVars, chainVars, rows>>
  BY DEF Dismiss, Dismissable, Answer
<1>1. d \notin Overlapping =>
        \A a \in Of(d) : ~Underway(a) /\ stage[a] \notin {"done", "lost"}
  BY <1>0 DEF Prompted, IInv, Held, Recorded, Of, Underway
<1>2. Types'
  BY <1>0 DEF gasVars, attemptVars, chainVars, IInv, Types
<1>3. Unopened'
  BY <1>0 DEF gasVars, attemptVars, IInv, Types, Unopened, Of
<1>4. Held'
  BY <1>0, <1>1, AttemptType DEF attemptVars, IInv, Types, Held, Of, Underway
<1>5. Recorded'
  BY <1>0, AttemptType DEF attemptVars, chainVars, IInv, Types, Recorded
<1>6. Cancelled'
  <2> SUFFICES ASSUME NEW e \in Dialogs
               PROVE  /\ answer'[e] # "none" => e \in Dapps
                      /\ answer'[e] = "cancelled" =>
                           /\ shown'[e] = "closed"
                           /\ \A a \in Of(e) : a \notin mempool \cup rows /\ ~Underway(a)
    BY <1>0 DEF Cancelled, attemptVars, chainVars, Of, Underway
  <2>1. CASE e = d
    <3>1. answer'[d] # "none" => d \in Dapps
      BY <1>0 DEF IInv, Types, Cancelled
    <3>2. d \in Dapps => d \notin Overlapping
      BY SignAssumption DEF Overlapping
    <3>3. d \in Dapps => \A a \in Of(d) : a \notin mempool \cup rows /\ ~Underway(a)
      BY <1>1, <3>2 DEF IInv, Recorded, Of, Underway, Working
    <3> QED
      BY <1>0, <2>1, <3>1, <3>3 DEF IInv, Types
  <2>2. CASE e # d
    BY <1>0, <2>2 DEF IInv, Types, Cancelled
  <2> QED
    BY <2>1, <2>2
<1>7. OneEstimate' /\ ConfirmWaits' /\ Alone' /\ Distinct'
  BY <1>0 DEF gasVars, attemptVars, IInv, OneEstimate, ConfirmWaits, Alone, Distinct, Of,
              Underway, Sendable
<1> QED
  BY <1>2, <1>3, <1>4, <1>5, <1>6, <1>7 DEF IInv

-----------------------------------------------------------------------------
(* Gas. *)

LEMMA EditRecipientKeeps ==
    ASSUME IInv, NEW d \in Dialogs, EditRecipient(d)
    PROVE  IInv'
<1>1. Types'
  BY DEF EditRecipient, attemptVars, chainVars, IInv, Types
<1>2. Unopened'
  BY DEF EditRecipient, attemptVars, IInv, Types, Unopened, Of
<1>3. OneEstimate' /\ ConfirmWaits'
  BY DEF EditRecipient, attemptVars, IInv, Types, OneEstimate, ConfirmWaits, Of
<1>4. Alone' /\ Held' /\ Recorded' /\ Cancelled' /\ Distinct'
  BY DEF EditRecipient, attemptVars, chainVars, IInv, Alone, Held, Recorded, Cancelled,
         Distinct, Of, Underway, Sendable
<1> QED
  BY <1>1, <1>2, <1>3, <1>4 DEF IInv

\* What a kick leaves.
LEMMA KickedType ==
    ASSUME IInv, NEW d \in Dialogs
    PROVE  Kicked(d) \in [Probes -> [stage : {"none", "asked", "over"}, floor : Nat]]
<1> DEFINE p == probe[d]
           n == Latest(d) + 1
<1>1. Floor \in Nat /\ p \in [Probes -> [stage : {"none", "asked", "over"}, floor : Nat]]
  BY FloorAbove DEF IInv, Types
<1> HIDE DEF p, n
<1>2. [p EXCEPT ![n] = [stage |-> "asked", floor |-> Floor]]
        \in [Probes -> [stage : {"none", "asked", "over"}, floor : Nat]]
  BY <1>1
<1> QED
  BY <1>2 DEF Kicked, p, n

LEMMA ReestimateKeeps ==
    ASSUME IInv, NEW d \in Dialogs, Reestimate(d)
    PROVE  IInv'
<1>0. /\ due[d] /\ shown[d] = "open" /\ due' = [due EXCEPT ![d] = FALSE]
      /\ probe' = [probe EXCEPT ![d] = Kicked(d)]
      /\ UNCHANGED <<dialogVars, ready, suggested, answer, attemptVars, chainVars, rows>>
  BY DEF Reestimate
<1>1. Types'
  BY <1>0, KickedType DEF dialogVars, attemptVars, chainVars, IInv, Types
<1>2. Unopened'
  BY <1>0 DEF dialogVars, attemptVars, IInv, Types, Unopened, Of
<1>3. OneEstimate'
  <2>1. d \in Editable
    BY <1>0 DEF IInv, OneEstimate
  <2>2. \A e \in Dialogs \ Editable : due'[e] = due[e] /\ probe'[e] = probe[e]
    BY <1>0, <2>1 DEF IInv, Types
  <2> QED
    BY <1>0, <2>2 DEF dialogVars, attemptVars, IInv, OneEstimate, Of
<1>4. ConfirmWaits' /\ Alone' /\ Held' /\ Recorded' /\ Cancelled' /\ Distinct'
  BY <1>0 DEF dialogVars, attemptVars, chainVars, IInv, ConfirmWaits, Alone, Held, Recorded,
              Cancelled, Distinct, Of, Underway, Sendable
<1> QED
  BY <1>1, <1>2, <1>3, <1>4 DEF IInv

\* A probe ends; the others stay.
LEMMA ProbeEnds ==
    ASSUME IInv, NEW d \in Dialogs, NEW k \in Probes,
           probe' = [probe EXCEPT ![d][k].stage = "over"]
    PROVE  /\ probe' \in [Dialogs -> [Probes -> [stage : {"none", "asked", "over"}, floor : Nat]]]
           /\ \A e \in Dialogs, j \in Probes :
                probe'[e][j].stage = IF e = d /\ j = k THEN "over" ELSE probe[e][j].stage
<1> DEFINE R == [stage : {"none", "asked", "over"}, floor : Nat]
           q == [probe[d][k] EXCEPT !.stage = "over"]
           f == [probe[d] EXCEPT ![k] = q]
<1>1. probe[d] \in [Probes -> R] /\ probe[d][k] \in R
  BY DEF IInv, Types
<1>2. q \in R /\ q.stage = "over"
  BY <1>1
<1>3. probe' = [probe EXCEPT ![d] = f]
  BY DEF IInv, Types
<1> HIDE DEF q, R
<1>4. f \in [Probes -> R] /\ \A j \in Probes : f[j] = IF j = k THEN q ELSE probe[d][j]
  BY <1>1, <1>2
<1> HIDE DEF f
<1>5. \A e \in Dialogs : probe'[e] = IF e = d THEN f ELSE probe[e]
  BY <1>3 DEF IInv, Types
<1>6. probe' \in [Dialogs -> [Probes -> R]]
  BY <1>3, <1>4 DEF IInv, Types, R
<1> QED
  BY <1>2, <1>4, <1>5, <1>6 DEF R

LEMMA GasLandsKeeps ==
    ASSUME IInv, NEW d \in Dialogs, NEW k \in Probes, GasLands(d, k)
    PROVE  IInv'
<1>0. /\ probe[d][k].stage = "asked" /\ shown[d] = "open"
      /\ probe' = [probe EXCEPT ![d][k].stage = "over"]
      /\ confirm' \in {confirm, [confirm EXCEPT ![d] = TRUE]}
      /\ ready' \in {ready, [ready EXCEPT ![d] = TRUE]}
      /\ UNCHANGED <<kind, shown, signing, due, answer, attemptVars, chainVars, rows>>
  BY DEF GasLands
<1>1. suggested' \in [Dialogs -> Nat]
  <2>1. mined \in Nat /\ probe[d][k].floor \in Nat
    BY DEF IInv, Types
  <2>2. \A m \in 0..mined : Maximum({m, probe[d][k].floor}) \in Nat
    BY <2>1, Larger
  <2>3. suggested' = suggested
        \/ \E m \in 0..mined : suggested' = [suggested EXCEPT ![d] =
              IF kind[d] = "replace" THEN @ ELSE Maximum({m, probe[d][k].floor})]
    BY DEF GasLands
  <2> QED
    BY ZenonT(60), <2>2, <2>3 DEF IInv, Types
<1>2. /\ probe' \in [Dialogs -> [Probes -> [stage : {"none", "asked", "over"}, floor : Nat]]]
      /\ \A e \in Dialogs, j \in Probes :
           probe'[e][j].stage = IF e = d /\ j = k THEN "over" ELSE probe[e][j].stage
  <2>1. probe' = [probe EXCEPT ![d][k].stage = "over"]
    BY <1>0
  <2> QED
    BY ZenonT(60), <2>1, ProbeEnds
<1>3. Types'
  BY <1>0, <1>1, <1>2 DEF attemptVars, chainVars, IInv, Types
<1>4. Unopened'
  BY <1>0, <1>2 DEF attemptVars, IInv, Types, Unopened, Of
<1>5. d \notin Editable => \A a \in Of(d) : stage[a] = "none"
  BY <1>0 DEF IInv, OneEstimate
<1>6. OneEstimate'
  <2> SUFFICES ASSUME NEW e \in Dialogs \ Editable
               PROVE  /\ ~due[e]
                      /\ \A i, j \in Probes :
                           probe'[e][i].stage # "none" /\ probe'[e][j].stage # "none" => i = j
                      /\ (\E j \in Probes : probe'[e][j].stage = "asked") =>
                           ~confirm'[e] /\ \A a \in Of(e) : stage[a] = "none"
    BY <1>0 DEF OneEstimate, Of, attemptVars
  <2>1. CASE e = d
    BY <1>0, <1>2, <2>1 DEF IInv, OneEstimate
  <2>2. CASE e # d
    BY <1>0, <1>2, <2>2 DEF IInv, Types, OneEstimate
  <2> QED
    BY <2>1, <2>2
<1>7. ConfirmWaits'
  BY ZenonT(60), <1>0, <1>5 DEF attemptVars, IInv, Types, ConfirmWaits, Of, Working
<1>8. Alone' /\ Held' /\ Recorded' /\ Cancelled' /\ Distinct'
  BY <1>0 DEF attemptVars, chainVars, IInv, Alone, Held, Recorded, Cancelled, Distinct, Of,
              Underway, Sendable
<1> QED
  BY <1>3, <1>4, <1>6, <1>7, <1>8 DEF IInv

LEMMA GasFailsKeeps ==
    ASSUME IInv, NEW d \in Dialogs, NEW k \in Probes, GasFails(d, k)
    PROVE  IInv'
<1>0. /\ probe[d][k].stage = "asked" /\ probe' = [probe EXCEPT ![d][k].stage = "over"]
      /\ UNCHANGED <<dialogVars, ready, suggested, due, answer, attemptVars, chainVars, rows>>
  BY DEF GasFails
<1>1. /\ probe' \in [Dialogs -> [Probes -> [stage : {"none", "asked", "over"}, floor : Nat]]]
      /\ \A e \in Dialogs, j \in Probes :
           probe'[e][j].stage = IF e = d /\ j = k THEN "over" ELSE probe[e][j].stage
  <2>1. probe' = [probe EXCEPT ![d][k].stage = "over"]
    BY <1>0
  <2> QED
    BY ZenonT(60), <2>1, ProbeEnds
<1>2. Types'
  BY <1>0, <1>1 DEF dialogVars, attemptVars, chainVars, IInv, Types
<1>3. Unopened'
  BY <1>0, <1>1 DEF dialogVars, attemptVars, IInv, Types, Unopened, Of
<1>4. OneEstimate'
  <2> SUFFICES ASSUME NEW e \in Dialogs \ Editable
               PROVE  /\ ~due[e]
                      /\ \A i, j \in Probes :
                           probe'[e][i].stage # "none" /\ probe'[e][j].stage # "none" => i = j
                      /\ (\E j \in Probes : probe'[e][j].stage = "asked") =>
                           ~confirm[e] /\ \A a \in Of(e) : stage[a] = "none"
    BY <1>0 DEF OneEstimate, Of, dialogVars, attemptVars
  <2> QED
    BY <1>0, <1>1 DEF IInv, OneEstimate
<1>5. ConfirmWaits' /\ Alone' /\ Held' /\ Recorded' /\ Cancelled' /\ Distinct'
  BY <1>0 DEF dialogVars, attemptVars, chainVars, IInv, ConfirmWaits, Alone, Held, Recorded,
              Cancelled, Distinct, Of, Underway, Sendable
<1> QED
  BY <1>2, <1>3, <1>4, <1>5 DEF IInv

-----------------------------------------------------------------------------
(* An attempt. *)

\* The attempts b of d that are under way when Confirm is clicked: none, except
\* in a dialog whose attempts overlap.
LEMMA ConfirmAlone ==
    ASSUME IInv, NEW d \in Dialogs \ Overlapping, Reachable(d), confirm[d],
           NEW b \in Of(d)
    PROVE  ~Underway(b)
<1>1. stage[b] # "unlock"
  BY DEF Reachable, Prompted, Of
<1>2. CASE d \notin Qr
  BY <1>1, <1>2 DEF Reachable, Spinning, Underway
<1>3. CASE d \in Qr
  <2>1. d \notin Editable
    BY <1>3 DEF Overlapping
  <2> QED
    BY <1>1, <2>1 DEF IInv, ConfirmWaits, Underway
<1> QED
  BY <1>2, <1>3

\* The nonce is above all that is recorded.
LEMMA FinalisedAbove ==
    ASSUME IInv, NEW d \in Dialogs, kind[d] = "tx"
    PROVE  Finalised(d) \in Nat /\ \A a \in rows : nonceOf[a] < Finalised(d)
<1>1. Floor \in Nat /\ \A a \in rows : nonceOf[a] < Floor
  BY FloorAbove DEF IInv
<1>2. suggested[d] \in Nat /\ \A a \in rows : nonceOf[a] \in Nat
  BY SignAssumption DEF IInv, Types
<1>3. Finalised(d) \in Nat /\ Floor <= Finalised(d)
  BY <1>1, <1>2, Larger DEF Finalised
<1> QED
  BY <1>1, <1>2, <1>3

LEMMA ConfirmKeeps ==
    ASSUME IInv, NEW a \in Attempts, Confirm(a)
    PROVE  IInv'
<1> DEFINE d == a[1]
<1>0. /\ d \in Dialogs /\ Reachable(d) /\ shown[d] = "open" /\ confirm[d] /\ stage[a] = "none"
      /\ met' = met \cup {{a, b} : b \in {b \in Attempts : Underway(b)}}
      /\ UNCHANGED <<kind, shown, gasVars, answer, unlocked, chainVars, rows>>
  BY AttemptType DEF Confirm, Reachable
<1>1. PICK s \in {"unlock", "sign"} : stage' = [stage EXCEPT ![a] = s]
  BY DEF Confirm
<1>2. /\ stage' \in [Attempts -> Stages] /\ stage'[a] = s
      /\ \A b \in Attempts : b # a => stage'[b] = stage[b]
  BY <1>1, MovesOn DEF IInv, Stages, Working
<1>3. /\ nonceOf' \in [Attempts -> 0..LastNonce]
      /\ \A b \in Attempts : b # a => nonceOf'[b] = nonceOf[b]
      /\ kind[d] # "message" => nonceOf'[a] = Finalised(d)
  <2>1. CASE kind[d] = "message"
    BY <2>1 DEF Confirm, IInv, Types
  <2>2. CASE kind[d] # "message"
    <3>1. Finalised(d) \in 0..LastNonce
      <4>1. Finalised(d) <= LastNonce
        BY <2>2 DEF Confirm
      <4>2. Finalised(d) \in Nat
        <5>1. CASE kind[d] = "tx"
          BY <1>0, <5>1, FinalisedAbove
        <5>2. CASE kind[d] = "replace"
          BY <1>0, <5>2 DEF Finalised, IInv, Types
        <5> QED
          BY <1>0, <2>2, <5>1, <5>2 DEF IInv, Types
      <4> QED
        BY <4>1, <4>2, SignAssumption
    <3> QED
      BY <2>2, <3>1 DEF Confirm, IInv, Types
  <2> QED
    BY <2>1, <2>2
<1>4. \/ UNCHANGED <<signing, confirm, jobs>> /\ s = "unlock"
      \/ /\ signing' = [signing EXCEPT ![d] = TRUE] /\ confirm' = [confirm EXCEPT ![d] = FALSE]
         /\ jobs' \in {jobs, Append(jobs, a)}
  <2>1. s = "unlock" \/ Begin(a)
    BY <1>1, <1>2 DEF Confirm, IInv, Types
  <2>2. s = "unlock" => UNCHANGED <<signing, confirm, jobs>>
    BY <1>1, <1>2 DEF Confirm, IInv, Types
  <2> QED
    BY <1>1, <2>1, <2>2 DEF Begin
<1>j. jobs' \in Seq(Attempts)
  <2>1. jobs \in Seq(Attempts) /\ Append(jobs, a) \in Seq(Attempts)
    BY DEF IInv, Types
  <2> QED
    BY <1>4, <2>1
<1> HIDE DEF d
<1>5. /\ signing' \in [Dialogs -> BOOLEAN] /\ confirm' \in [Dialogs -> BOOLEAN]
      /\ \A e \in Dialogs : (confirm'[e] => confirm[e]) /\ (signing[e] => signing'[e])
      /\ s = "sign" => signing'[d] /\ ~confirm'[d]
  BY <1>0, <1>4 DEF IInv, Types
<1>6. Types'
  BY <1>0, <1>2, <1>3, <1>5, <1>j DEF gasVars, chainVars, IInv, Types
<1>7. Unopened'
  BY <1>0, <1>2, <1>5 DEF gasVars, IInv, Unopened, Of, d
<1>8. OneEstimate'
  <2> SUFFICES ASSUME NEW e \in Dialogs \ Editable
               PROVE  /\ ~due[e]
                      /\ \A k, j \in Probes :
                           probe[e][k].stage # "none" /\ probe[e][j].stage # "none" => k = j
                      /\ (\E k \in Probes : probe[e][k].stage = "asked") =>
                           ~confirm'[e] /\ \A b \in Of(e) : stage'[b] = "none"
    BY <1>0 DEF OneEstimate, Of, gasVars
  <2>1. CASE e = d
    BY <1>0, <2>1 DEF IInv, OneEstimate
  <2>2. CASE e # d
    BY <1>2, <1>5, <2>2 DEF IInv, OneEstimate, Of, d
  <2> QED
    BY <2>1, <2>2
<1>9. ConfirmWaits'
  BY <1>1, <1>2, <1>5 DEF IInv, ConfirmWaits, Of, Working, d
<1>10. \A b \in Attempts : b # a => (Underway(b)' <=> Underway(b))
  BY <1>2 DEF Underway
<1>11. d \notin Overlapping => \A b \in Of(d) : ~Underway(b)
  BY <1>0, ConfirmAlone
<1>12. Alone'
  BY <1>10, <1>11 DEF IInv, Alone, Of, d
<1>13. Held'
  BY <1>0, <1>1, <1>2, <1>5, <1>10, AttemptType DEF IInv, Held, Working, d
<1>14. Recorded'
  BY <1>0, <1>1, <1>2 DEF chainVars, IInv, Recorded
<1>15. Cancelled'
  BY <1>0, <1>10 DEF chainVars, IInv, Cancelled, Of, d
<1>16. Distinct'
  <2>1. \A b \in Attempts : b # a => (Sendable(b)' <=> Sendable(b))
    BY <1>0, <1>2, <1>10 DEF Sendable
  <2>2. ASSUME NEW b \in Attempts, b # a, Sendable(a)', Sendable(b)
        PROVE  nonceOf'[a] # nonceOf'[b] \/ {a, b} \in met'
    <3>1. CASE Underway(b)
      BY <1>0, <3>1
    <3>2. CASE ~Underway(b)
      <4>1. b \in rows /\ kind[d] = "tx"
        BY <1>0, <2>2, <3>2 DEF Sendable, IInv, Recorded, d
      <4>2. nonceOf[b] < Finalised(d) /\ Finalised(d) \in Nat
        BY <1>0, <4>1, FinalisedAbove
      <4>3. nonceOf[b] \in Nat
        BY SignAssumption DEF IInv, Types
      <4> QED
        BY <1>3, <2>2, <4>1, <4>2, <4>3
    <3> QED
      BY <3>1, <3>2
  <2>3. met \subseteq met' /\ \A b \in Attempts : {a, b} = {b, a}
    BY <1>0
  <2> QED
    BY <1>3, <2>1, <2>2, <2>3 DEF IInv, Distinct
<1> QED
  BY <1>6, <1>7, <1>8, <1>9, <1>12, <1>13, <1>14, <1>15, <1>16 DEF IInv

LEMMA UnlockAnsweredKeeps ==
    ASSUME IInv, NEW a \in Attempts, UnlockAnswered(a)
    PROVE  IInv'
<1> DEFINE d == a[1]
<1>0. /\ stage[a] = "unlock" /\ Underway(a) /\ d \in Dialogs
      /\ UNCHANGED <<kind, shown, gasVars, answer, nonceOf, unlocked, met, chainVars, rows>>
  BY AttemptType DEF UnlockAnswered, Underway
<1>1. PICK s \in {"sign", "dropped"} :
        /\ stage' = [stage EXCEPT ![a] = s]
        /\ IF s = "sign" THEN Begin(a) ELSE UNCHANGED <<signing, confirm, jobs>>
  BY DEF UnlockAnswered
<1>2. /\ stage' \in [Attempts -> Stages] /\ stage'[a] = s
      /\ \A b \in Attempts : b # a => stage'[b] = stage[b]
  BY <1>1, MovesOn DEF IInv, Stages, Working
<1>j. jobs' \in Seq(Attempts)
  <2>1. jobs \in Seq(Attempts) /\ Append(jobs, a) \in Seq(Attempts)
    BY DEF IInv, Types
  <2> QED
    BY <1>1, <2>1 DEF Begin
<1>b. \/ UNCHANGED <<signing, confirm>> /\ s # "sign"
      \/ signing' = [signing EXCEPT ![d] = TRUE] /\ confirm' = [confirm EXCEPT ![d] = FALSE]
  BY <1>1 DEF Begin
<1> HIDE DEF d
<1>3. /\ signing' \in [Dialogs -> BOOLEAN] /\ confirm' \in [Dialogs -> BOOLEAN]
      /\ \A e \in Dialogs : (confirm'[e] => confirm[e]) /\ (signing[e] => signing'[e])
      /\ s = "sign" => signing'[d] /\ ~confirm'[d]
  BY <1>0, <1>b DEF IInv, Types
<1>4. Types'
  BY <1>0, <1>2, <1>3, <1>j DEF gasVars, chainVars, IInv, Types
<1>5. Unopened'
  BY <1>0, <1>2, <1>3 DEF gasVars, IInv, Unopened, Of, d
<1>6. OneEstimate'
  BY <1>0, <1>2, <1>3, EstimateStays DEF gasVars
<1>7. ConfirmWaits'
  BY <1>1, <1>2, <1>3 DEF IInv, ConfirmWaits, Of, Working, d
<1>8. \A b \in Attempts : Underway(b)' => Underway(b)
  BY <1>0, <1>2 DEF Underway
<1>9. Alone'
  BY <1>8, AloneStays
<1>10. Held'
  BY <1>0, <1>1, <1>2, <1>3, <1>8, AttemptType DEF IInv, Held, Working, d
<1>11. Recorded'
  BY <1>0, <1>1, <1>2 DEF chainVars, IInv, Recorded
<1>12. Cancelled'
  BY <1>0, <1>8 DEF chainVars, IInv, Cancelled, Of
<1>13. Distinct'
  <2>1. \A b \in Attempts : Sendable(b)' => Sendable(b)
    BY <1>0, <1>1, <1>2, <1>8 DEF Sendable
  <2> QED
    BY <1>0, <2>1, DistinctStays
<1> QED
  BY <1>4, <1>5, <1>6, <1>7, <1>9, <1>10, <1>11, <1>12, <1>13 DEF IInv

\* A signature or a push ends, one way or another.
LEMMA Advances ==
    ASSUME IInv, NEW a \in Attempts, NEW s \in {"push", "sent", "limbo", "failed"},
           stage[a] \in {"sign", "push"}, stage' = [stage EXCEPT ![a] = s],
           kind[a[1]] = "message" => stage[a] # "push" /\ s \notin {"push", "limbo"},
           mempool' = mempool \/ (stage[a] = "push" /\ mempool' = mempool \cup {a}
                                  /\ s \in {"sent", "limbo"}),
           jobs' \in Seq(Attempts),
           UNCHANGED <<dialogVars, gasVars, answer, nonceOf, met, mined, rows>>
    PROVE  IInv'
<1>1. /\ stage' \in [Attempts -> Stages] /\ stage'[a] = s
      /\ \A b \in Attempts : b # a => stage'[b] = stage[b]
  BY MovesOn DEF IInv, Stages, Working
<1>2. Types'
  BY <1>1 DEF dialogVars, gasVars, IInv, Types
<1>3. Unopened'
  BY <1>1 DEF dialogVars, gasVars, IInv, Unopened, Of
<1>4. OneEstimate'
  BY <1>1, EstimateStays DEF dialogVars, gasVars
<1>5. ConfirmWaits'
  BY <1>1 DEF dialogVars, IInv, ConfirmWaits, Of, Working
<1>6. \A b \in Attempts : (Underway(b)' => Underway(b)) /\ (stage'[b] \in Working => stage[b] \in Working)
  BY <1>1 DEF Underway, Working
<1>7. Alone'
  BY <1>6, AloneStays
<1>8. Held'
  BY <1>6 DEF dialogVars, IInv, Held
<1>9. Recorded'
  BY <1>1 DEF dialogVars, IInv, Recorded
<1>10. Cancelled'
  BY <1>6 DEF dialogVars, IInv, Cancelled, Of, Underway, Working
<1>11. Distinct'
  <2>1. \A b \in Attempts : Sendable(b)' => Sendable(b)
    BY <1>1, <1>6 DEF dialogVars, Sendable
  <2> QED
    BY <2>1, DistinctStays
<1> QED
  BY <1>2, <1>3, <1>4, <1>5, <1>7, <1>8, <1>9, <1>10, <1>11 DEF IInv

LEMMA HotOrQrSignsKeeps ==
    ASSUME IInv, NEW a \in Attempts, HotOrQrSigns(a)
    PROVE  IInv'
<1>1. PICK s \in {Signed(a), "failed"} : stage' = [stage EXCEPT ![a] = s]
  BY DEF HotOrQrSigns
<1>2. s \in {"push", "sent", "limbo", "failed"} /\ (kind[a[1]] = "message" => s \notin {"push", "limbo"})
  BY <1>1 DEF Signed
<1>3. /\ stage[a] = "sign" /\ jobs' \in Seq(Attempts)
      /\ UNCHANGED <<dialogVars, gasVars, answer, nonceOf, met, mempool, mined, rows>>
  BY DEF HotOrQrSigns, chainVars, IInv, Types
<1> QED
  BY <1>1, <1>2, <1>3, Advances

LEMMA DeviceTimesOutKeeps ==
    ASSUME IInv, NEW a \in Attempts, DeviceTimesOut(a)
    PROVE  IInv'
<1>1. /\ stage[a] = "sign" /\ stage' = [stage EXCEPT ![a] = "failed"] /\ jobs' \in Seq(Attempts)
      /\ UNCHANGED <<dialogVars, gasVars, answer, nonceOf, met, mempool, mined, rows>>
  BY DEF DeviceTimesOut, chainVars, IInv, Types
<1> QED
  BY <1>1, Advances

LEMMA PushKeeps ==
    ASSUME IInv, NEW a \in Attempts, Push(a)
    PROVE  IInv'
<1>1. PICK s \in {"sent", "limbo", "failed"} :
        /\ stage' = [stage EXCEPT ![a] = s]
        /\ mempool' = mempool \/ (mempool' = mempool \cup {a} /\ s \in {"sent", "limbo"})
  BY DEF Push, Limbo
<1>2. /\ stage[a] = "push" /\ jobs' \in Seq(Attempts)
      /\ UNCHANGED <<dialogVars, gasVars, answer, nonceOf, met, mined, rows>>
  BY DEF Push, IInv, Types
<1>3. kind[a[1]] # "message"
  BY <1>2 DEF IInv, Recorded
<1> QED
  BY <1>1, <1>2, <1>3, Advances

\* A step of the device that its caller no longer waits for, and the steps
\* below that only change what no invariant is about.
LEMMA Outside ==
    ASSUME IInv, jobs' \in Seq(Attempts), mined' \in Nat,
           UNCHANGED <<dialogVars, gasVars, answer, stage, nonceOf, met, mempool, rows>>
    PROVE  IInv'
<1>1. Types'
  BY DEF dialogVars, gasVars, IInv, Types
<1>2. Unopened' /\ OneEstimate' /\ ConfirmWaits' /\ Alone' /\ Held' /\ Recorded' /\ Cancelled'
      /\ Distinct'
  BY DEF dialogVars, gasVars, IInv, Unopened, OneEstimate, ConfirmWaits, Alone, Held, Recorded,
         Cancelled, Distinct, Of, Underway, Sendable
<1> QED
  BY <1>1, <1>2 DEF IInv

LEMMA DeviceEndsKeeps ==
    ASSUME IInv, DeviceEnds
    PROVE  IInv'
<1> DEFINE a == Head(jobs)
<1>0. /\ jobs # <<>> /\ jobs' = Tail(jobs)
      /\ UNCHANGED <<dialogVars, gasVars, answer, nonceOf, met, mempool, mined, rows>>
  BY DEF DeviceEnds, chainVars
<1>1. a \in Attempts /\ jobs' \in Seq(Attempts) /\ stage[a] \in Stages
  BY <1>0 DEF IInv, Types
<1>2. PICK result \in {Signed(a), "failed"} :
        stage' = [stage EXCEPT ![a] = Delivered(a, result)]
  BY DEF DeviceEnds
<1> HIDE DEF a
<1>3. CASE stage[a] = "sign"
  <2>1. stage' = [stage EXCEPT ![a] = result]
    BY <1>2, <1>3 DEF Delivered
  <2>2. result \in {"push", "sent", "limbo", "failed"}
        /\ (kind[a[1]] = "message" => result \notin {"push", "limbo"})
    BY <1>2 DEF Signed
  <2> QED
    BY <1>0, <1>1, <1>3, <2>1, <2>2, Advances
<1>4. CASE stage[a] # "sign"
  <2>1. UNCHANGED stage
    BY <1>1, <1>2, <1>4 DEF Delivered, IInv, Types
  <2> QED
    BY <1>0, <1>1, <2>1, Outside DEF IInv, Types
<1> QED
  BY <1>3, <1>4

\* The dialog of an attempt that was sent is open, so it is recorded.
LEMMA OnBroadcastKeeps ==
    ASSUME IInv, NEW a \in Attempts, OnBroadcast(a)
    PROVE  IInv'
<1> DEFINE d == a[1]
<1>0. /\ stage[a] \in {"sent", "limbo"} /\ d \in Dialogs /\ Underway(a)
      /\ UNCHANGED <<kind, signing, confirm, gasVars, nonceOf, jobs, unlocked, met, chainVars>>
  BY AttemptType DEF OnBroadcast, Underway, Working
<1>1. CASE shown[d] # "open"
  <2>1. stage' = [stage EXCEPT ![a] = "lost"] /\ UNCHANGED <<shown, rows, answer>>
    BY <1>1 DEF OnBroadcast
  <2>2. /\ stage' \in [Attempts -> Stages] /\ stage'[a] = "lost"
        /\ \A b \in Attempts : b # a => stage'[b] = stage[b]
    BY <2>1, MovesOn DEF IInv, Stages, Working
  <2>3. d \in Overlapping
    BY <1>0, <1>1 DEF IInv, Held
  <2>4. Types' /\ Unopened'
    BY <1>0, <2>1, <2>2 DEF gasVars, chainVars, IInv, Types, Unopened, Of
  <2>5. OneEstimate'
    BY <1>0, <2>2, EstimateStays DEF gasVars
  <2>6. \A b \in Attempts : (Underway(b)' => Underway(b)) /\ (stage'[b] \in Working => stage[b] \in Working)
    BY <2>2 DEF Underway, Working
  <2>7. Alone'
    BY <2>6, AloneStays
  <2>8. ConfirmWaits' /\ Held'
    BY <1>0, <2>1, <2>6 DEF IInv, ConfirmWaits, Held, Of
  <2>9. Recorded'
    BY <1>0, <2>1, <2>2, <2>3 DEF chainVars, IInv, Recorded
  <2>10. Cancelled'
    BY <1>0, <2>1, <2>6 DEF chainVars, IInv, Cancelled, Of
  <2>11. \A b \in Attempts : Sendable(b)' => Sendable(b)
    BY <1>0, <2>2, <2>6 DEF Sendable
  <2>12. Distinct'
    BY <1>0, <2>11, DistinctStays
  <2> QED
    BY <2>4, <2>5, <2>7, <2>8, <2>9, <2>10, <2>12 DEF IInv
<1>2. CASE shown[d] = "open"
  <2>1. /\ stage' = [stage EXCEPT ![a] = "done"] /\ shown' = [shown EXCEPT ![d] = "closed"]
        /\ rows' = IF kind[d] = "message" THEN rows ELSE rows \cup {a}
        /\ answer' = [answer EXCEPT ![d] = IF @ = "pending" THEN "result" ELSE @]
    BY <1>2 DEF OnBroadcast, Answer
  <2>2. /\ stage' \in [Attempts -> Stages] /\ stage'[a] = "done"
        /\ \A b \in Attempts : b # a => stage'[b] = stage[b]
    BY <2>1, MovesOn DEF IInv, Stages, Working
  <2>3. Types'
    BY <1>0, <2>1, <2>2 DEF gasVars, chainVars, IInv, Types
  <2>4. Unopened'
    BY <1>0, <2>1, <2>2 DEF gasVars, IInv, Types, Unopened, Of
  <2>5. OneEstimate'
    BY <1>0, <2>2, EstimateStays DEF gasVars
  <2>6. \A b \in Attempts :
          /\ Underway(b)' => Underway(b) /\ b # a
          /\ stage'[b] \in Working => stage[b] \in Working
    BY <2>2 DEF Underway, Working
  <2>7. Alone'
    BY <2>6, AloneStays
  <2>8. ConfirmWaits'
    BY <1>0, <2>6 DEF IInv, ConfirmWaits, Of
  <2>9. Held'
    <3>1. \A b \in Attempts : b[1] \notin Overlapping /\ Underway(b)' => b[1] # d
      BY <1>0, <2>6 DEF IInv, Alone
    <3> QED
      BY <1>0, <2>1, <2>6, <3>1, AttemptType DEF IInv, Types, Held
  <2>10. Recorded'
    BY <1>0, <2>1, <2>2, AttemptType DEF chainVars, IInv, Types, Recorded
  <2>11. Cancelled'
    BY <1>0, <1>2, <2>1, <2>6 DEF chainVars, IInv, Types, Cancelled, Of
  <2>12. \A b \in Attempts : Sendable(b)' => Sendable(b)
    BY <1>0, <2>2, <2>6 DEF Sendable
  <2>13. Distinct'
    BY <1>0, <2>12, DistinctStays
  <2> QED
    BY <2>3, <2>4, <2>5, <2>7, <2>8, <2>9, <2>10, <2>11, <2>13 DEF IInv
<1> QED
  BY <1>1, <1>2

LEMMA OnFailedKeeps ==
    ASSUME IInv, NEW a \in Attempts, OnFailed(a)
    PROVE  IInv'
<1> DEFINE d == a[1]
<1>0. /\ stage[a] = "failed" /\ d \in Dialogs /\ Underway(a)
      /\ UNCHANGED <<kind, shown, gasVars, answer, nonceOf, jobs, unlocked, met, chainVars, rows>>
  BY AttemptType DEF OnFailed, Underway, Working
<1>1. PICK s \in {"warning", "lost"} :
        /\ stage' = [stage EXCEPT ![a] = s]
        /\ s = "lost" => shown[d] # "open" /\ UNCHANGED <<signing, confirm>>
  BY DEF OnFailed
<1>2. /\ stage' \in [Attempts -> Stages] /\ stage'[a] = s
      /\ \A b \in Attempts : b # a => stage'[b] = stage[b]
  BY <1>1, MovesOn DEF IInv, Stages, Working
<1>3. /\ signing' \in [Dialogs -> BOOLEAN] /\ confirm' \in [Dialogs -> BOOLEAN]
      /\ \A e \in Dialogs : e # d => confirm'[e] = confirm[e] /\ signing'[e] = signing[e]
  BY <1>0 DEF OnFailed, Released, IInv, Types
<1> HIDE DEF d
<1>4. Types'
  BY <1>0, <1>2, <1>3 DEF gasVars, chainVars, IInv, Types
<1>5. Unopened'
  BY <1>0, <1>2, <1>3 DEF gasVars, IInv, Unopened, Of, d
<1>6. OneEstimate'
  BY <1>0, <1>2, <1>3, EstimateStays DEF gasVars, Of, d
<1>7. \A b \in Attempts :
        /\ Underway(b)' => Underway(b) /\ b # a
        /\ stage'[b] \in Working => stage[b] \in Working /\ Underway(b)'
  BY <1>1, <1>2 DEF Underway, Working
<1>8. \A b \in Attempts : b[1] \notin Overlapping /\ Underway(b)' => b[1] # d
  BY <1>0, <1>7 DEF IInv, Alone, d
<1>9. ConfirmWaits'
  <2>1. \A b \in Attempts : b[1] = d /\ d \notin Editable => stage'[b] \notin Working
    BY <1>7, <1>8 DEF Overlapping
  <2> QED
    BY <1>3, <1>7, <2>1 DEF IInv, ConfirmWaits, Of
<1>10. Alone'
  BY <1>7, AloneStays
<1>11. Held'
  BY <1>0, <1>3, <1>7, <1>8, AttemptType DEF IInv, Held
<1>12. Recorded'
  BY <1>0, <1>1, <1>2 DEF chainVars, IInv, Recorded, Held, d
<1>13. Cancelled'
  BY <1>0, <1>7 DEF chainVars, IInv, Cancelled, Of
<1>14. \A b \in Attempts : Sendable(b)' => Sendable(b)
  BY <1>0, <1>1, <1>2, <1>7 DEF Sendable
<1>15. Distinct'
  BY <1>0, <1>14, DistinctStays
<1> QED
  BY <1>4, <1>5, <1>6, <1>9, <1>10, <1>11, <1>12, <1>13, <1>15 DEF IInv

LEMMA WarningClosedKeeps ==
    ASSUME IInv, NEW a \in Attempts, WarningClosed(a)
    PROVE  IInv'
<1>0. /\ stage[a] = "warning" /\ stage' = [stage EXCEPT ![a] = "reported"]
      /\ answer' = [answer EXCEPT ![a[1]] = IF @ = "pending" THEN "failed" ELSE @]
      /\ UNCHANGED <<dialogVars, gasVars, nonceOf, jobs, unlocked, met, chainVars, rows>>
  BY DEF WarningClosed, Answer
<1>1. /\ stage' \in [Attempts -> Stages] /\ stage'[a] = "reported"
      /\ \A b \in Attempts : b # a => stage'[b] = stage[b]
  BY <1>0, MovesOn DEF IInv, Stages, Working
<1>2. Types'
  BY <1>0, <1>1, AttemptType DEF dialogVars, gasVars, chainVars, IInv, Types
<1>3. Unopened'
  BY <1>0, <1>1 DEF dialogVars, gasVars, IInv, Unopened, Of
<1>4. OneEstimate'
  BY <1>0, <1>1, EstimateStays DEF dialogVars, gasVars
<1>5. \A b \in Attempts : (Underway(b)' => Underway(b)) /\ (stage'[b] \in Working => stage[b] \in Working)
  BY <1>0, <1>1 DEF Underway, Working
<1>6. Alone'
  BY <1>5, AloneStays
<1>7. ConfirmWaits' /\ Held'
  BY <1>0, <1>5 DEF dialogVars, IInv, ConfirmWaits, Held, Of
<1>8. Recorded'
  BY <1>0, <1>1 DEF dialogVars, chainVars, IInv, Recorded
<1>9. Cancelled'
  BY <1>0, <1>5, AttemptType DEF dialogVars, chainVars, IInv, Types, Cancelled, Of
<1>10. \A b \in Attempts : Sendable(b)' => Sendable(b)
  BY <1>0, <1>1, <1>5 DEF dialogVars, Sendable
<1>11. Distinct'
  BY <1>0, <1>10, DistinctStays
<1> QED
  BY <1>2, <1>3, <1>4, <1>6, <1>7, <1>8, <1>9, <1>11 DEF IInv

-----------------------------------------------------------------------------
(* Around them, and the invariant. *)

LEMMA RebroadcastKeeps ==
    ASSUME IInv, NEW a \in Attempts, Rebroadcast(a)
    PROVE  IInv'
<1>0. /\ a \in rows /\ mempool' = mempool \cup {a}
      /\ UNCHANGED <<dialogVars, gasVars, answer, attemptVars, mined, rows>>
  BY DEF Rebroadcast
<1>1. Types'
  BY <1>0 DEF dialogVars, gasVars, attemptVars, IInv, Types
<1>2. Recorded' /\ Cancelled'
  BY <1>0 DEF dialogVars, attemptVars, IInv, Recorded, Cancelled, Of, Underway
<1>3. Unopened' /\ OneEstimate' /\ ConfirmWaits' /\ Alone' /\ Held' /\ Distinct'
  BY <1>0 DEF dialogVars, gasVars, attemptVars, IInv, Unopened, OneEstimate, ConfirmWaits, Alone,
              Held, Distinct, Of, Underway, Sendable
<1> QED
  BY <1>1, <1>2, <1>3 DEF IInv

LEMMA InitHolds == Init => IInv
<1> SUFFICES ASSUME Init PROVE IInv
  OBVIOUS
<1>1. Types
  BY SignAssumption DEF Init, Types, Stages, NoProbe
<1>2. Unopened /\ OneEstimate /\ ConfirmWaits
  BY DEF Init, Unopened, OneEstimate, ConfirmWaits, Of, NoProbe, Working
<1>3. Alone /\ Held /\ Recorded /\ Cancelled /\ Distinct
  BY AttemptType DEF Init, Alone, Held, Recorded, Cancelled, Distinct, Of, Underway, Working,
                     Sendable
<1> QED
  BY <1>1, <1>2, <1>3 DEF IInv

LEMMA NextKeeps == IInv /\ [Next]_vars => IInv'
<1> SUFFICES ASSUME IInv, [Next]_vars PROVE IInv'
  OBVIOUS
<1>1. ASSUME NEW d \in Dialogs,
             \/ Submit(d) \/ Refuse(d) \/ Open(d) \/ Dismiss(d) \/ EditRecipient(d)
             \/ Reestimate(d) \/ \E k \in Probes : GasLands(d, k) \/ GasFails(d, k)
      PROVE  IInv'
  BY <1>1, SubmitKeeps, RefuseKeeps, OpenKeeps, DismissKeeps, EditRecipientKeeps,
     ReestimateKeeps, GasLandsKeeps, GasFailsKeeps
<1>2. ASSUME NEW a \in Attempts,
             \/ Confirm(a) \/ UnlockAnswered(a) \/ HotOrQrSigns(a) \/ DeviceTimesOut(a)
             \/ Push(a) \/ Handled(a) \/ WarningClosed(a) \/ Rebroadcast(a)
      PROVE  IInv'
  BY <1>2, ConfirmKeeps, UnlockAnsweredKeeps, HotOrQrSignsKeeps, DeviceTimesOutKeeps, PushKeeps,
     OnBroadcastKeeps, OnFailedKeeps, WarningClosedKeeps, RebroadcastKeeps DEF Handled
<1>3. CASE DeviceEnds
  BY <1>3, DeviceEndsKeeps
<1>4. CASE Lock \/ Mine
  <2>1. UNCHANGED <<dialogVars, gasVars, answer, stage, nonceOf, met, mempool, rows, jobs>>
        /\ mined' \in Nat
    BY <1>4 DEF Lock, Mine, attemptVars, chainVars, IInv, Types
  <2> QED
    BY <2>1, Outside DEF IInv, Types
<1>5. CASE UNCHANGED vars
  <2>1. UNCHANGED <<dialogVars, gasVars, answer, stage, nonceOf, met, mempool, rows, jobs, mined>>
    BY <1>5 DEF vars, attemptVars, chainVars
  <2> QED
    BY <2>1, Outside DEF IInv, Types
<1> QED
  BY <1>1, <1>2, <1>3, <1>4, <1>5 DEF Next

THEOREM Invariance == Spec => []IInv
<1> QED
  BY InitHolds, NextKeeps, PTL DEF Spec

\* A dialog has one attempt under way at most, except one whose recipient is
\* typed and whose signer is a QR code. (_begin_sign, set_signing_in_progress)
THEOREM OneAtATime == Spec => []Alone
<1>1. IInv => Alone
  BY DEF IInv
<1> QED
  BY <1>1, Invariance, PTL

\* Attempts that were not under way together never send with one nonce, unless
\* one replaces the other. (finalised_request, pending_nonce_floor)
THEOREM LaterNoncesDiffer == Spec => []SequentialNoncesDiffer
<1>1. IInv => SequentialNoncesDiffer
  <2> SUFFICES ASSUME IInv, NEW a \in mempool \cup rows, NEW b \in mempool \cup rows,
                      a[1] \notin Overlapping, b[1] \notin Overlapping,
                      "replace" \notin {kind[a[1]], kind[b[1]]}
               PROVE  a = b \/ nonceOf[a] # nonceOf[b] \/ {a, b} \in met
    BY DEF SequentialNoncesDiffer
  <2>1. a \in Attempts /\ b \in Attempts
    BY DEF IInv, Types
  <2>2. Sendable(a) /\ Sendable(b)
    BY <2>1, AttemptType DEF IInv, Types, Recorded, Sendable, Underway, Working
  <2> QED
    BY <2>1, <2>2 DEF IInv, Distinct
<1> QED
  BY <1>1, Invariance, PTL

\* The step of an attempt that was reported as failed.
LEMMA ReportedStep ==
    ASSUME IInv, [Next]_vars, NEW a \in Attempts,
           stage[a] \in {"failed", "warning", "reported"}
    PROVE  /\ a \notin mempool'
           /\ stage'[a] \in {"failed", "warning", "reported", "lost"}
<1>1. a \notin mempool \cup rows
  BY DEF IInv, Recorded
<1>2. /\ stage'[a] = stage[a] \/ stage'[a] \in {"warning", "reported", "lost"}
      /\ mempool' = mempool
         \/ \E b \in Attempts : (stage[b] = "push" \/ b \in rows) /\ mempool' = mempool \cup {b}
  <2>1. ASSUME NEW d \in Dialogs,
               \/ Submit(d) \/ Refuse(d) \/ Open(d) \/ Dismiss(d) \/ EditRecipient(d)
               \/ Reestimate(d) \/ \E k \in Probes : GasLands(d, k) \/ GasFails(d, k)
        PROVE  UNCHANGED <<stage, mempool>>
    BY <2>1 DEF Submit, Refuse, Open, Dismiss, EditRecipient, Reestimate, GasLands, GasFails,
                attemptVars, chainVars
  <2>2. ASSUME NEW b \in Attempts,
               Confirm(b) \/ UnlockAnswered(b) \/ HotOrQrSigns(b) \/ DeviceTimesOut(b)
        PROVE  stage'[a] = stage[a] /\ mempool' = mempool
    BY <2>2 DEF Confirm, UnlockAnswered, HotOrQrSigns, DeviceTimesOut, chainVars, IInv, Types
  <2>3. ASSUME NEW b \in Attempts, Handled(b) \/ WarningClosed(b)
        PROVE  /\ stage'[a] = stage[a] \/ stage'[a] \in {"warning", "reported", "lost"}
               /\ mempool' = mempool
    BY <2>3 DEF Handled, OnBroadcast, OnFailed, WarningClosed, chainVars, IInv, Types
  <2>4. ASSUME NEW b \in Attempts, Push(b) \/ Rebroadcast(b)
        PROVE  /\ stage'[a] = stage[a]
               /\ mempool' = mempool
                  \/ ((stage[b] = "push" \/ b \in rows) /\ mempool' = mempool \cup {b})
    <3>1. CASE Push(b)
      <4>1. PICK s : stage' = [stage EXCEPT ![b] = s]
        BY <3>1 DEF Push
      <4>2. stage[b] = "push" /\ (mempool' = mempool \/ mempool' = mempool \cup {b})
        BY <3>1 DEF Push
      <4> QED
        BY <4>1, <4>2 DEF IInv, Types
    <3>2. CASE Rebroadcast(b)
      BY <3>2 DEF Rebroadcast, attemptVars
    <3> QED
      BY <2>4, <3>1, <3>2
  <2>5. CASE DeviceEnds
    BY <2>5 DEF DeviceEnds, Delivered, chainVars, IInv, Types
  <2>6. CASE Lock \/ Mine \/ UNCHANGED vars
    BY <2>6 DEF Lock, Mine, vars, attemptVars, chainVars
  <2> QED
    BY <2>1, <2>2, <2>3, <2>4, <2>5, <2>6 DEF Next
<1> QED
  BY <1>1, <1>2

\* What the user or the dapp was told stays true: nothing is sent after "User
\* cancelled", nor by an attempt that was reported as failed, whatever the
\* device does with its job. (reject, _on_tx_sign_failed, DeviceThread.submit)
THEOREM ToldStaysTrue == Spec => SettledNeverSends
<1>1. IInv => CancelledMeansNoTx
  BY DEF IInv, Cancelled, CancelledMeansNoTx
<1>2. IInv /\ [Next]_vars =>
        [\A a \in Attempts : stage[a] \in {"failed", "warning", "reported"} =>
           /\ a \notin mempool'
           /\ stage'[a] \in {"failed", "warning", "reported", "lost"}]_vars
  BY ReportedStep
<1> QED
  BY <1>1, <1>2, Invariance, PTL DEF Spec, SettledNeverSends, ReportedNeverSends
=============================================================================
