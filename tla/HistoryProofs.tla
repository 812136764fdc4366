--------------------------- MODULE HistoryProofs ---------------------------
(***************************************************************************)
(* Proofs about the Transactions tab, for any transactions, nonces,        *)
(* watchers, chains, pages and bounds.                                     *)
(*                                                                         *)
(* PendingWatch (DropsAreSpaced, HistoryOnlyMovesOn): the readings of a    *)
(* drop are related to the chain by time: what has been counted bounds     *)
(* from below how long the nonce has been spent, and a reading that missed *)
(* the receipt of a mined transaction bounds it from above.                *)
(*                                                                         *)
(* TxHistory (HistoryInvariance, TableStays): a history lists its nonces   *)
(* by rank, so what is above all of it goes on top and what is below all   *)
(* of it goes to the end; a page leaves out no nonce between two of its    *)
(* own, so one that reaches above and below a history without holes holds  *)
(* all of it, and is no longer than the window that is shown.              *)
(*                                                                         *)
(* TxHistory (PagingEnds): a walk's cursor never passes below the first    *)
(* sent block it could see, and a page that is not full is all there is    *)
(* below the cursor.                                                       *)
(***************************************************************************)
EXTENDS PendingWatch, TxHistory, TLAPS, FiniteSetTheorems, SequenceTheorems,
        WellFoundedInduction

----------------------------------------------------------------------------
(* The invariant. *)

\* What is in the file is in the history in memory, once it is loaded.
Kept == loaded => \A t \in Txs : disk[t] # "absent" => row[t] # "absent"

\* A receipt that was noted is one whose confirmation was seen.
NotedAreSeen ==
    \A t \in Txs : noted[t] <= 1 /\ (noted[t] = 1 => t \in confirmed_seen)

\* Time only counts for spent nonces, and what is mined spent its own.
SpentInOrder ==
    /\ \A n \in Nonces : n >= latest => spentFor[n] = 0
    /\ \A t \in mined : Spent(t)

IInv == TypeOK /\ Kept /\ NotedAreSeen /\ SpentInOrder

\* A reading in flight that missed the receipt of a mined transaction was made
\* less than Lag after its nonce was spent, or is a ws endpoint's error.
ReadingsAreYoung ==
    \A s \in Probes, t \in Txs :
        /\ (probe[s][t].stage \in {"unmined", "dropped"} /\ t \in mined /\ ~WsError(s)) =>
              spentFor[NonceOf[t]] < Lag + probe[s][t].age
        /\ probe[s][t].stage = "dropped" => Spent(t)

\* The readings that were counted were made over that much time.
CountsTakeTime ==
    \A t \in Txs : seen[t] > 0 =>
        /\ Spent(t)
        /\ \/ spentFor[NonceOf[t]] = Settled
           \/ spentFor[NonceOf[t]] >= (seen[t] - 1) * Spacing + since[t]

DropInv == IInv /\ ReadingsAreYoung /\ CountsTakeTime

----------------------------------------------------------------------------
(* Lemmas about the operators. *)

\* A capped sum stays within its cap.
LEMMA CappedType ==
    ASSUME NEW n \in Nat, NEW cap \in Nat
    PROVE  /\ Capped(n, cap) \in 0..cap
           /\ Capped(n, cap) <= n
           /\ Capped(n, cap) = n \/ Capped(n, cap) = cap
  BY DEF Capped

\* The nonce of a transaction is one of the nonces the model bounds.
LEMMA NonceType == \A t \in Txs : NonceOf[t] \in Nonces /\ NonceOf[t] \in Nat
  BY PendingAssumption DEF Nonces

\* Entering a stage changes the stage of one probe.
LEMMA EnterStage ==
    ASSUME TypeOK, NEW s \in Probes, NEW t \in Txs, NEW stage \in Stages,
           Enter(s, t, stage)
    PROVE  /\ probe' \in [Probes -> [Txs -> [stage: Stages, age: 0..Delay]]]
           /\ probe'[s][t].stage = stage
           /\ probe'[s][t].age = probe[s][t].age
           /\ \A r \in Probes, u \in Txs :
                 (r # s \/ u # t) => probe'[r][u] = probe[r][u]
<1> DEFINE Probing == [stage: Stages, age: 0..Delay]
           moved == [probe[s][t] EXCEPT !.stage = stage]
<1>1. probe \in [Probes -> [Txs -> Probing]]
  BY DEF TypeOK
<1>2. probe[s][t] \in Probing
  BY <1>1
<1>3. moved \in Probing /\ moved.stage = stage /\ moved.age = probe[s][t].age
  BY <1>2
<1>4. probe' = [probe EXCEPT ![s] = [probe[s] EXCEPT ![t] = moved]]
  BY DEF Enter
<1> QED
  <2> HIDE DEF Probing, moved
  <2>1. probe' \in [Probes -> [Txs -> Probing]] /\ probe'[s][t] = moved
        /\ \A r \in Probes, u \in Txs : (r # s \/ u # t) => probe'[r][u] = probe[r][u]
    BY <1>1, <1>3, <1>4
  <2> QED
    BY <1>3, <2>1 DEF Probing

\* A delivered or failed probe is idle, and the others are left alone.
LEMMA BackToIdle ==
    ASSUME TypeOK, NEW s \in Probes, NEW t \in Txs,
           probe' = [probe EXCEPT ![s][t] = Idle]
    PROVE  /\ probe' \in [Probes -> [Txs -> [stage: Stages, age: 0..Delay]]]
           /\ probe'[s][t].stage = "idle"
           /\ \A r \in Probes, u \in Txs :
                 (r # s \/ u # t) => probe'[r][u] = probe[r][u]
  BY PendingAssumption DEF Idle, Stages, TypeOK

\* The history a slot merges into holds what is in the file.
LEMMA SeedType ==
    ASSUME TypeOK, Kept
    PROVE  /\ Seed \in [Txs -> RowStates]
           /\ \A t \in Txs : disk[t] # "absent" => Seed[t] # "absent"
           /\ \A t \in Txs : Seed[t] \in {row[t], disk[t]}
  BY DEF Seed, TypeOK, Kept

\* The watched transactions are transactions.
LEMMA SnapshotType == \A r : Snapshot(r) \subseteq Txs
  BY DEF Snapshot

----------------------------------------------------------------------------
(* The slots keep the types. *)

\* One case per action of Next, as the steps below split it.
LEMMA NextCases ==
    ASSUME [Next]_vars, NEW P,
           UNCHANGED vars => P, TakeNonce => P, TimePasses => P, Tick => P,
           Visit => P, Drain => P, Restart => P,
           \A t \in Txs : Broadcast(t) \/ AddPending(t) => P,
           \A s \in Probes, t \in Txs :
               WsAsks(s, t) \/ ReadReceipt(s, t) \/ ReadNonce(s, t) => P,
           \A s \in Probes, t \in Txs :
               ProbeFails(s, t) \/ OnReceiptConfirmed(s, t) \/ OnTxStillPending(s, t) => P,
           \A s \in Probes, t \in Txs :
               DropTooSoon(s, t) \/ DropCounted(s, t) \/ DropBelieved(s, t) => P,
           \A page \in SUBSET mined : OnPageFetched(page) => P
    PROVE  P
  BY DEF Next, ProbeStep, OnTxDropped

\* A clock tick ages what was read and what was spent.
LEMMA TimeType == ASSUME IInv, TimePasses PROVE TypeOK'
<1>1. probe' \in [Probes -> [Txs -> [stage: Stages, age: 0..Delay]]]
  <2> SUFFICES ASSUME NEW s \in Probes, NEW t \in Txs
               PROVE  (IF HasRead(probe[s][t]) THEN [probe[s][t] EXCEPT !.age = @ + 1]
                       ELSE probe[s][t]) \in [stage: Stages, age: 0..Delay]
    BY DEF TimePasses
  <2>1. probe[s][t] \in [stage: Stages, age: 0..Delay]
    BY DEF IInv, TypeOK
  <2>2. HasRead(probe[s][t]) => probe[s][t].age + 1 \in 0..Delay
    BY <2>1, PendingAssumption DEF TimePasses
  <2> QED
    BY <2>1, <2>2
<1>2. spentFor' \in [Nonces -> 0..Settled]
  <2>1. \A n \in Nonces : spentFor[n] + 1 \in Nat /\ Settled \in Nat
    BY PendingAssumption DEF IInv, TypeOK, Settled
  <2> QED
    BY <2>1, CappedType DEF TimePasses
<1>3. since' \in [Txs -> 0..Spacing]
  <2>1. \A t \in Txs : since[t] + 1 \in Nat /\ Spacing \in Nat
    <3>1. Spacing \in Nat /\ since \in [Txs -> 0..Spacing]
      BY PendingAssumption DEF IInv, TypeOK
    <3> QED
      BY <3>1
  <2> QED
    BY <2>1, CappedType DEF TimePasses
<1> QED
  BY <1>1, <1>2, <1>3 DEF TimePasses, IInv, TypeOK, storeVars, outcomeVars

\* The chain, the user and the disk.
LEMMA SessionType ==
    ASSUME IInv,
           TakeNonce \/ Tick \/ Visit \/ Drain \/ Restart \/ UNCHANGED vars
    PROVE  TypeOK'
<1>1. CASE TakeNonce
  BY <1>1, PendingAssumption
  DEF TakeNonce, IInv, TypeOK, storeVars, dropVars, outcomeVars
<1>2. CASE Tick
  <2>1. probe' \in [Probes -> [Txs -> [stage: Stages, age: 0..Delay]]]
    BY <1>2, PendingAssumption DEF Tick, IInv, TypeOK, Probes, Stages
  <2> QED
    BY <1>2, <2>1, SnapshotType DEF Tick, IInv, TypeOK, chainVars, storeVars, dropVars, outcomeVars
<1>3. CASE Visit
  BY <1>3 DEF Visit, IInv, TypeOK, chainVars, dropVars, outcomeVars
<1>4. CASE Drain
  BY <1>4 DEF Drain, IInv, TypeOK, chainVars, dropVars, outcomeVars
<1>5. CASE Restart
  <2>1. restarts' \in 0..MaxRestarts /\ disk' \in [Txs -> RowStates]
    BY <1>5, PendingAssumption DEF Restart, IInv, TypeOK
  <2>2. probe' \in [Probes -> [Txs -> [stage: Stages, age: 0..Delay]]]
    BY <1>5, PendingAssumption DEF Restart, Idle, Stages
  <2>3. push' \in [Txs -> {"unsent", "unrecorded", "over"}]
    BY <1>5 DEF Restart, IInv, TypeOK
  <2>4. seen' \in [Txs -> 0..(Readings - 1)] /\ since' \in [Txs -> 0..Spacing]
    BY <1>5, PendingAssumption DEF Restart
  <2>5. /\ row' \in [Txs -> RowStates] /\ noted' \in [Txs -> 0..2]
        /\ told' \in [Txs -> {"nobody", "waiting", "confirmed", "dropped"}]
    BY <1>5 DEF Restart, RowStates
  <2>6. /\ ~loaded' /\ ~queued' /\ loaded' \in BOOLEAN /\ queued' \in BOOLEAN
        /\ watched' = {} /\ confirmed_seen' = {} /\ UNCHANGED chainVars
        /\ \A t \in Txs : row'[t] = "absent"
    BY <1>5 DEF Restart
  <2> QED
    BY <2>1, <2>2, <2>3, <2>4, <2>5, <2>6 DEF IInv, TypeOK, chainVars
<1>6. CASE UNCHANGED vars
  BY <1>6 DEF vars, IInv, TypeOK, chainVars, storeVars, dropVars, outcomeVars
<1> QED
  BY <1>1, <1>2, <1>3, <1>4, <1>5, <1>6

\* Sending, and the explorer.
LEMMA HistoryType ==
    ASSUME IInv,
           \/ \E t \in Txs : Broadcast(t) \/ AddPending(t)
           \/ \E page \in SUBSET mined : OnPageFetched(page)
    PROVE  TypeOK'
<1>1. CASE \E t \in Txs : Broadcast(t)
  BY <1>1 DEF Broadcast, IInv, TypeOK, chainVars, storeVars, dropVars, outcomeVars
<1>2. CASE \E t \in Txs : AddPending(t)
  BY <1>2, SeedType, SnapshotType
  DEF AddPending, IInv, TypeOK, RowStates, chainVars, dropVars
<1>3. CASE \E page \in SUBSET mined : OnPageFetched(page)
  BY <1>3, SeedType DEF OnPageFetched, IInv, TypeOK, RowStates, chainVars, dropVars, outcomeVars
<1> QED
  BY <1>1, <1>2, <1>3

\* The reads of a probe.
LEMMA ReadType ==
    ASSUME IInv, NEW s \in Probes, NEW t \in Txs,
           WsAsks(s, t) \/ ReadReceipt(s, t) \/ ReadNonce(s, t)
    PROVE  TypeOK'
<1>1. /\ \E stage \in Stages : Enter(s, t, stage)
      /\ UNCHANGED <<chainVars, push, storeVars, watched, dropVars, outcomeVars, restarts>>
  BY DEF WsAsks, ReadReceipt, ReadNonce, Stages
<1>2. probe' \in [Probes -> [Txs -> [stage: Stages, age: 0..Delay]]]
  BY <1>1, EnterStage DEF IInv
<1> QED
  BY <1>1, <1>2 DEF IInv, TypeOK, chainVars, storeVars, dropVars, outcomeVars

\* The end of a probe.
LEMMA ResultType ==
    ASSUME IInv, NEW s \in Probes, NEW t \in Txs,
           \/ ProbeFails(s, t) \/ OnReceiptConfirmed(s, t) \/ OnTxStillPending(s, t)
           \/ DropTooSoon(s, t) \/ DropCounted(s, t) \/ DropBelieved(s, t)
    PROVE  TypeOK'
<1>1. probe' = [probe EXCEPT ![s][t] = Idle] /\ UNCHANGED <<chainVars, push, restarts>>
  BY DEF ProbeFails, OnReceiptConfirmed, OnTxStillPending, DropTooSoon, DropCounted,
         DropBelieved, Delivered
<1>2. probe' \in [Probes -> [Txs -> [stage: Stages, age: 0..Delay]]]
  BY <1>1, BackToIdle DEF IInv
<1>3. CASE ProbeFails(s, t)
  BY <1>1, <1>2, <1>3 DEF ProbeFails, IInv, TypeOK, chainVars, storeVars, dropVars, outcomeVars
<1>4. ForgetReadings(t) => seen' \in [Txs -> 0..(Readings - 1)] /\ since' \in [Txs -> 0..Spacing]
  BY PendingAssumption DEF ForgetReadings, IInv, TypeOK
<1>5. ASSUME NEW state \in {"confirmed", "dropped"}, row[t] = "pending", Settle(t, state)
      PROVE  /\ row' \in [Txs -> RowStates] /\ disk' = disk /\ loaded' = loaded /\ loaded
             /\ queued' \in BOOLEAN /\ watched' \subseteq Txs
  BY <1>5, SnapshotType DEF Settle, RowStates, IInv, TypeOK
<1>6. CASE OnReceiptConfirmed(s, t)
  <2>1. CASE AlreadyConfirmed(t)
    BY <1>1, <1>2, <1>6, <2>1
    DEF OnReceiptConfirmed, IInv, TypeOK, chainVars, storeVars, dropVars, outcomeVars
  <2>2. CASE ~AlreadyConfirmed(t)
    <3>1. /\ confirmed_seen' \subseteq Txs /\ ForgetReadings(t)
          /\ told' \in [Txs -> {"nobody", "waiting", "confirmed", "dropped"}]
      <4>1. /\ confirmed_seen' = confirmed_seen \cup {t} /\ ForgetReadings(t)
            /\ told' = [told EXCEPT ![t] = IF @ = "waiting" THEN "confirmed" ELSE @]
        BY <1>6, <2>2 DEF OnReceiptConfirmed
      <4> QED
        BY <4>1 DEF IInv, TypeOK
    <3>2. noted' \in [Txs -> 0..2]
      <4>1. noted' = [noted EXCEPT ![t] = Capped(@ + 1, 2)]
        BY <1>6, <2>2 DEF OnReceiptConfirmed
      <4>2. noted \in [Txs -> 0..2] /\ noted[t] + 1 \in Nat
        <5>1. noted \in [Txs -> 0..2]
          BY DEF IInv, TypeOK
        <5> QED
          BY <5>1
      <4>3. Capped(noted[t] + 1, 2) \in 0..2
        BY <4>2, CappedType
      <4> QED
        BY <4>1, <4>2, <4>3
    <3>3. IF row[t] = "pending" THEN Settle(t, "confirmed") ELSE UNCHANGED <<storeVars, watched>>
      BY <1>6, <2>2 DEF OnReceiptConfirmed
    <3> QED
      BY <1>1, <1>2, <1>4, <1>5, <3>1, <3>2, <3>3 DEF IInv, TypeOK, chainVars, storeVars
  <2> QED
    BY <2>1, <2>2
<1>7. CASE OnTxStillPending(s, t)
  BY <1>1, <1>2, <1>4, <1>7 DEF OnTxStillPending, IInv, TypeOK, chainVars, storeVars, outcomeVars
<1>8. CASE DropTooSoon(s, t)
  BY <1>1, <1>2, <1>8 DEF DropTooSoon, IInv, TypeOK, chainVars, storeVars, dropVars, outcomeVars
<1>9. CASE DropCounted(s, t)
  <2>1. seen' \in [Txs -> 0..(Readings - 1)] /\ since' \in [Txs -> 0..Spacing]
    BY <1>9, PendingAssumption DEF DropCounted, Believed, IInv, TypeOK
  <2> QED
    BY <1>1, <1>2, <1>9, <2>1 DEF DropCounted, IInv, TypeOK, chainVars, storeVars, outcomeVars
<1>10. CASE DropBelieved(s, t)
  <2>1. /\ told' \in [Txs -> {"nobody", "waiting", "confirmed", "dropped"}]
        /\ UNCHANGED <<confirmed_seen, noted>> /\ ForgetReadings(t)
        /\ IF row[t] = "pending" THEN Settle(t, "dropped") ELSE UNCHANGED <<storeVars, watched>>
    BY <1>10 DEF DropBelieved, IInv, TypeOK
  <2> QED
    BY <1>1, <1>2, <1>4, <1>5, <2>1 DEF IInv, TypeOK, chainVars, storeVars
<1> QED
  BY <1>3, <1>6, <1>7, <1>8, <1>9, <1>10

\* Every step keeps the types.
LEMMA TypeStep == ASSUME IInv, [Next]_vars PROVE TypeOK'
  BY NextCases, TimeType, SessionType, HistoryType, ReadType, ResultType

----------------------------------------------------------------------------
(* The other parts of the invariant, and the theorems that need no time. *)

\* The probes and their results touch the history by settling a pending row.
LEMMA ProbesSettle ==
    ASSUME NEW s \in Probes, NEW t \in Txs,
           \/ WsAsks(s, t) \/ ReadReceipt(s, t) \/ ReadNonce(s, t) \/ ProbeFails(s, t)
           \/ OnReceiptConfirmed(s, t) \/ OnTxStillPending(s, t)
           \/ DropTooSoon(s, t) \/ DropCounted(s, t) \/ DropBelieved(s, t)
    PROVE  /\ UNCHANGED <<chainVars, push, loaded, disk, restarts>>
           /\ \/ UNCHANGED row
              \/ /\ row[t] = "pending"
                 /\ \/ row' = [row EXCEPT ![t] = "confirmed"]
                    \/ row' = [row EXCEPT ![t] = "dropped"] /\ DropBelieved(s, t)
  BY DEF WsAsks, ReadReceipt, ReadNonce, ProbeFails, OnReceiptConfirmed,
         OnTxStillPending, DropTooSoon, DropCounted, DropBelieved, Delivered, Settle,
         storeVars

\* A step leaves the histories as they are, or merges, hydrates, saves, forgets.
LEMMA HistoryMoves ==
    ASSUME IInv, [Next]_vars
    PROVE  \/ UNCHANGED <<row, loaded, disk>>
           \/ UNCHANGED <<loaded, disk, push>>
              /\ \E t \in Txs, state \in {"confirmed", "dropped"} :
                    row[t] = "pending" /\ row' = [row EXCEPT ![t] = state]
           \/ \E t \in Txs : AddPending(t)
           \/ \E page \in SUBSET mined : OnPageFetched(page)
           \/ Visit \/ Drain \/ Restart
<1> DEFINE P == \/ UNCHANGED <<row, loaded, disk>>
                \/ UNCHANGED <<loaded, disk, push>>
                   /\ \E t \in Txs, state \in {"confirmed", "dropped"} :
                         row[t] = "pending" /\ row' = [row EXCEPT ![t] = state]
                \/ \E t \in Txs : AddPending(t)
                \/ \E page \in SUBSET mined : OnPageFetched(page)
                \/ Visit \/ Drain \/ Restart
<1>1. UNCHANGED vars \/ TakeNonce \/ TimePasses \/ Tick => P
  BY DEF vars, TakeNonce, TimePasses, Tick, storeVars
<1>2. \A t \in Txs : Broadcast(t) \/ AddPending(t) => P
  BY DEF Broadcast, storeVars
<1>3. ASSUME NEW s \in Probes, NEW t \in Txs,
             \/ WsAsks(s, t) \/ ReadReceipt(s, t) \/ ReadNonce(s, t) \/ ProbeFails(s, t)
             \/ OnReceiptConfirmed(s, t) \/ OnTxStillPending(s, t)
             \/ DropTooSoon(s, t) \/ DropCounted(s, t) \/ DropBelieved(s, t)
      PROVE  P
  BY <1>3, ProbesSettle
<1> QED
  <2> HIDE DEF P
  <2>1. Visit \/ Drain \/ Restart \/ (\E page \in SUBSET mined : OnPageFetched(page)) => P
    BY DEF P
  <2>2. P
    BY <1>1, <1>2, <1>3, <2>1 DEF Next, ProbeStep, OnTxDropped
  <2> QED
    BY <2>2 DEF P

\* What is in the file stays in the history in memory, and in the file.
LEMMA KeptStep ==
    ASSUME IInv, [Next]_vars
    PROVE  /\ Kept'
           /\ \A t \in Txs : disk[t] # "absent" => disk'[t] # "absent"
<1>0. /\ row \in [Txs -> RowStates] /\ disk \in [Txs -> RowStates]
      /\ queued => loaded
  BY DEF IInv, TypeOK
<1>1. CASE UNCHANGED <<row, loaded, disk>>
  BY <1>1 DEF IInv, Kept
<1>2. CASE UNCHANGED <<loaded, disk, push>>
           /\ \E t \in Txs, state \in {"confirmed", "dropped"} :
                 row[t] = "pending" /\ row' = [row EXCEPT ![t] = state]
  BY <1>0, <1>2 DEF IInv, Kept
<1>3. CASE \E t \in Txs : AddPending(t)
  BY <1>0, <1>3, SeedType DEF AddPending, IInv, Kept
<1>4. CASE \E page \in SUBSET mined : OnPageFetched(page)
  BY <1>0, <1>4, SeedType DEF OnPageFetched, IInv, Kept
<1>5. CASE Visit
  BY <1>0, <1>5 DEF Visit, IInv, Kept
<1>6. CASE Drain
  BY <1>0, <1>6 DEF Drain, IInv, Kept
<1>7. CASE Restart
  BY <1>0, <1>7 DEF Restart, IInv, Kept
<1> QED
  BY <1>1, <1>2, <1>3, <1>4, <1>5, <1>6, <1>7, HistoryMoves

\* Terminal rows only change as the property allows.
LEMMA TerminalStep ==
    ASSUME IInv, [Next]_vars, NEW t \in Txs, row[t] \in {"confirmed", "dropped"}
    PROVE  \/ row'[t] \in {row[t], "confirmed"}
           \/ ~loaded'
           \/ push'[t] # push[t]
<1>0. loaded /\ row \in [Txs -> RowStates] /\ push \in [Txs -> {"unsent", "unrecorded", "over"}]
  BY DEF IInv, TypeOK
<1>1. CASE \E u \in Txs : AddPending(u)
  BY <1>0, <1>1 DEF AddPending, Seed
<1>2. CASE \E page \in SUBSET mined : OnPageFetched(page)
  BY <1>0, <1>2 DEF OnPageFetched, Seed
<1> QED
  BY <1>0, <1>1, <1>2, HistoryMoves DEF Visit, Drain, Restart

\* Only the first delivery of a confirmation is noted.
LEMMA NotedStep == ASSUME IInv, [Next]_vars PROVE NotedAreSeen'
<1>0. noted \in [Txs -> 0..2] /\ NotedAreSeen
  BY DEF IInv, TypeOK
<1>1. CASE UNCHANGED <<noted, confirmed_seen>>
  BY <1>0, <1>1 DEF NotedAreSeen
<1>2. ASSUME NEW s \in Probes, NEW t \in Txs, OnReceiptConfirmed(s, t)
      PROVE  NotedAreSeen'
  <2>1. CASE AlreadyConfirmed(t)
    BY <1>1, <1>2, <2>1 DEF OnReceiptConfirmed, outcomeVars
  <2>2. CASE ~AlreadyConfirmed(t)
    <3>1. /\ confirmed_seen' = confirmed_seen \cup {t}
          /\ noted' = [noted EXCEPT ![t] = Capped(@ + 1, 2)]
      BY <1>2, <2>2 DEF OnReceiptConfirmed
    <3>2. noted[t] = 0
      BY <1>0, <2>2 DEF NotedAreSeen, AlreadyConfirmed
    <3> QED
      BY <1>0, <3>1, <3>2 DEF NotedAreSeen, Capped
  <2> QED
    BY <2>1, <2>2
<1>3. Restart => NotedAreSeen'
  BY DEF Restart, NotedAreSeen
<1>4. \A s \in Probes, t \in Txs :
         \/ WsAsks(s, t) \/ ReadReceipt(s, t) \/ ReadNonce(s, t) \/ ProbeFails(s, t)
         \/ OnTxStillPending(s, t)
         \/ DropTooSoon(s, t) \/ DropCounted(s, t) \/ DropBelieved(s, t)
         => UNCHANGED <<noted, confirmed_seen>>
  BY DEF WsAsks, ReadReceipt, ReadNonce, ProbeFails, OnTxStillPending, DropTooSoon,
         DropCounted, DropBelieved, outcomeVars
<1>5. \/ UNCHANGED vars \/ TakeNonce \/ TimePasses \/ Tick \/ Visit \/ Drain
      \/ (\E t \in Txs : Broadcast(t) \/ AddPending(t))
      \/ (\E page \in SUBSET mined : OnPageFetched(page))
      => UNCHANGED <<noted, confirmed_seen>>
  BY DEF vars, TakeNonce, TimePasses, Tick, Visit, Drain, Broadcast, AddPending,
         OnPageFetched, outcomeVars
<1> QED
  BY <1>1, <1>2, <1>3, <1>4, <1>5 DEF Next, ProbeStep, OnTxDropped

\* Nonces are spent in order, and no time counts before.
LEMMA SpentStep ==
    ASSUME IInv, [Next]_vars
    PROVE  SpentInOrder' /\ latest' >= latest
<1>0. /\ latest \in Nat /\ spentFor \in [Nonces -> 0..Settled]
      /\ Nonces \subseteq Nat /\ SpentInOrder
  BY PendingAssumption DEF IInv, TypeOK, Nonces
<1>1. CASE UNCHANGED chainVars
  BY <1>0, <1>1 DEF SpentInOrder, Spent, chainVars
<1>2. CASE TakeNonce
  <2>1. latest' = latest + 1 /\ spentFor' = spentFor
        /\ \A t \in mined' : t \in mined \/ NonceOf[t] = latest
    BY <1>2 DEF TakeNonce
  <2>2. \A t \in mined' : t \in Txs
    BY <1>2 DEF TakeNonce, IInv, TypeOK
  <2> QED
    BY <1>0, <2>1, <2>2, NonceType DEF SpentInOrder, Spent
<1>3. CASE TimePasses
  BY <1>0, <1>3 DEF TimePasses, SpentInOrder, Spent
<1>4. \/ UNCHANGED vars \/ Tick \/ Visit \/ Drain \/ Restart
      \/ (\E t \in Txs : Broadcast(t) \/ AddPending(t))
      \/ (\E page \in SUBSET mined : OnPageFetched(page))
      => UNCHANGED chainVars
  BY DEF vars, Tick, Visit, Drain, Restart, Broadcast, AddPending, OnPageFetched
<1>5. \A s \in Probes, t \in Txs : WsAsks(s, t) \/ ProbeStep(s, t) => UNCHANGED chainVars
  BY ProbesSettle DEF ProbeStep, OnTxDropped
<1> QED
  BY <1>1, <1>2, <1>3, <1>4, <1>5 DEF Next

\* What holds when a session starts.
LEMMA InitInv == ASSUME Init PROVE IInv
<1>1. /\ spentFor \in [Nonces -> 0..Settled]
      /\ \A n \in Nonces : n >= latest => spentFor[n] = 0
  <2>1. Settled \in Nat /\ latest \in Nat /\ Nonces \subseteq Nat
    BY PendingAssumption DEF Init, Settled, Nonces
  <2> QED
    BY <2>1 DEF Init
<1>2. probe \in [Probes -> [Txs -> [stage: Stages, age: 0..Delay]]]
  BY PendingAssumption DEF Init, Idle, Stages
<1>3. seen \in [Txs -> 0..(Readings - 1)] /\ since \in [Txs -> 0..Spacing]
      /\ restarts \in 0..MaxRestarts
  BY PendingAssumption DEF Init
<1>4. /\ row \in [Txs -> RowStates] /\ disk \in [Txs -> RowStates]
      /\ push \in [Txs -> {"unsent", "unrecorded", "over"}]
      /\ told \in [Txs -> {"nobody", "waiting", "confirmed", "dropped"}]
      /\ noted \in [Txs -> 0..2]
  BY DEF Init, RowStates
<1>5. TypeOK
  BY <1>1, <1>2, <1>3, <1>4 DEF Init, TypeOK
<1>6. Kept /\ NotedAreSeen
  BY DEF Init, Kept, NotedAreSeen
<1>7. \A t \in mined : Spent(t)
  BY DEF Init
<1> QED
  BY <1>1, <1>5, <1>6, <1>7 DEF IInv, SpentInOrder

\* IInv is inductive.
THEOREM Invariance == Spec => []IInv
<1>1. IInv /\ [Next]_vars => IInv'
  BY TypeStep, KeptStep, NotedStep, SpentStep DEF IInv
<1> QED
  BY <1>1, InitInv, PTL DEF Spec

\* Every map of the watchers and of the history keeps its type.
THEOREM TypeCorrect == Spec => []TypeOK
<1>1. IInv => TypeOK
  BY DEF IInv
<1> QED
  BY <1>1, Invariance, PTL

\* A receipt is noted once in a session, however many watchers deliver it.
THEOREM ReceiptsNotedOnce == Spec => []NotedOnce
<1>1. IInv => NotedOnce
  BY DEF IInv, NotedAreSeen, NotedOnce
<1> QED
  BY <1>1, Invariance, PTL

\* No interleaving of pages, saves, probes and restarts reopens a terminal row.
THEOREM TerminalRowsStay == Spec => TerminalIsFinal
<1>1. IInv /\ [Next]_vars =>
        [\A t \in Txs : row[t] \in {"confirmed", "dropped"} =>
             \/ row'[t] \in {row[t], "confirmed"}
             \/ ~loaded'
             \/ push'[t] # push[t]]_vars
  BY TerminalStep
<1> QED
  BY <1>1, Invariance, PTL DEF Spec, TerminalIsFinal

\* No interleaving of them loses a saved row.
THEOREM SavedRowsStay == Spec => HistoryIsKept
<1>1. IInv /\ [Next]_vars =>
        [\A t \in Txs : disk[t] # "absent" => disk'[t] # "absent"]_vars
  BY KeptStep
<1> QED
  BY <1>1, Invariance, PTL DEF Spec, HistoryIsKept

----------------------------------------------------------------------------
(* The drop of a transaction: the part of the invariant about time. *)

\* The steps that leave the chain and the probes alone.
LEMMA QuietSteps ==
    \/ Visit \/ Drain \/ UNCHANGED vars
    \/ (\E t \in Txs : Broadcast(t) \/ AddPending(t))
    \/ (\E page \in SUBSET mined : OnPageFetched(page))
    => UNCHANGED <<chainVars, probe, dropVars>>
  BY DEF vars, Visit, Drain, Broadcast, AddPending, OnPageFetched

\* A probe that goes on, or ends, leaves the chain alone.
LEMMA ProbeMoves ==
    ASSUME TypeOK, NEW s \in Probes, NEW t \in Txs, WsAsks(s, t) \/ ProbeStep(s, t)
    PROVE  /\ UNCHANGED chainVars
           /\ \A r \in Probes, u \in Txs :
                 (r # s \/ u # t) => probe'[r][u] = probe[r][u]
           /\ \/ probe'[s][t].stage \in {"idle", "asked", "confirmed", "open"}
              \/ probe'[s][t].age = probe[s][t].age
                 /\ \/ probe'[s][t].stage = "unmined" /\ ReadReceipt(s, t)
                    \/ probe'[s][t].stage = "dropped" /\ ReadNonce(s, t)
<1>1. UNCHANGED chainVars
  BY ProbesSettle DEF ProbeStep, OnTxDropped
<1>2. CASE probe' = [probe EXCEPT ![s][t] = Idle]
  BY <1>1, <1>2, BackToIdle
<1>3. CASE WsAsks(s, t)
  BY <1>1, <1>3, EnterStage DEF WsAsks, Stages
<1>4. CASE ReadReceipt(s, t)
  BY <1>1, <1>4, EnterStage DEF ReadReceipt, Stages
<1>5. CASE ReadNonce(s, t)
  <2>1. CASE Enter(s, t, "dropped")
    BY <1>1, <1>5, <2>1, EnterStage DEF Stages
  <2>2. CASE Enter(s, t, "open")
    BY <1>1, <2>2, EnterStage DEF Stages
  <2> QED
    BY <1>5, <2>1, <2>2 DEF ReadNonce
<1>6. \/ ProbeFails(s, t) \/ OnReceiptConfirmed(s, t) \/ OnTxStillPending(s, t)
      \/ OnTxDropped(s, t)
      => probe' = [probe EXCEPT ![s][t] = Idle]
  BY DEF ProbeFails, OnReceiptConfirmed, OnTxStillPending, OnTxDropped, DropTooSoon,
         DropCounted, DropBelieved, Delivered
<1> QED
  BY <1>2, <1>3, <1>4, <1>5, <1>6 DEF ProbeStep

\* A reading ages as fast as the nonce it missed.
LEMMA YoungStep ==
    ASSUME DropInv, [Next]_vars
    PROVE  ReadingsAreYoung'
<1>0. /\ TypeOK /\ ReadingsAreYoung /\ SpentInOrder /\ Lag \in Nat /\ Lag > 0
      /\ latest \in Nat /\ spentFor \in [Nonces -> 0..Settled] /\ Settled \in Nat
      /\ \A s \in Probes, t \in Txs : probe[s][t].age \in Nat
  BY PendingAssumption DEF DropInv, IInv, TypeOK, Settled
<1>1. CASE UNCHANGED <<chainVars, probe, dropVars>>
  BY <1>0, <1>1 DEF ReadingsAreYoung, Spent, chainVars
<1>2. CASE TakeNonce
  <2>1. latest' = latest + 1 /\ UNCHANGED <<spentFor, probe>>
        /\ \A t \in mined' : t \in mined \/ NonceOf[t] = latest
    BY <1>2 DEF TakeNonce
  <2> SUFFICES ASSUME NEW s \in Probes, NEW t \in Txs
      PROVE  /\ (probe[s][t].stage \in {"unmined", "dropped"} /\ t \in mined' /\ ~WsError(s)) =>
                    spentFor[NonceOf[t]] < Lag + probe[s][t].age
             /\ probe[s][t].stage = "dropped" => NonceOf[t] < latest + 1
    BY <2>1 DEF ReadingsAreYoung, Spent, WsError
  <2>2. NonceOf[t] = latest => spentFor[NonceOf[t]] = 0
    BY <1>0, NonceType DEF SpentInOrder
  <2> QED
    BY <1>0, <2>1, <2>2, NonceType DEF ReadingsAreYoung, Spent
<1>3. CASE TimePasses
  <2> SUFFICES ASSUME NEW s \in Probes, NEW t \in Txs
      PROVE  /\ (probe'[s][t].stage \in {"unmined", "dropped"} /\ t \in mined /\ ~WsError(s)) =>
                    spentFor'[NonceOf[t]] < Lag + probe'[s][t].age
             /\ probe'[s][t].stage = "dropped" => Spent(t)
    BY <1>3 DEF ReadingsAreYoung, Spent, TimePasses, WsError
  <2>1. probe'[s][t] = IF HasRead(probe[s][t]) THEN [probe[s][t] EXCEPT !.age = @ + 1]
                       ELSE probe[s][t]
    BY <1>3 DEF TimePasses
  <2>2. probe[s][t] \in [stage: Stages, age: 0..Delay]
    BY <1>0 DEF TypeOK
  <2>3. /\ probe'[s][t].stage = probe[s][t].stage
        /\ HasRead(probe[s][t]) => probe'[s][t].age = probe[s][t].age + 1
    BY <2>1, <2>2
  <2>4. spentFor'[NonceOf[t]] <= spentFor[NonceOf[t]] + 1
    <3>1. spentFor[NonceOf[t]] \in Nat /\ spentFor[NonceOf[t]] + 1 \in Nat
      BY <1>0, NonceType
    <3>2. \/ spentFor'[NonceOf[t]] = Capped(spentFor[NonceOf[t]] + 1, Settled)
          \/ spentFor'[NonceOf[t]] = 0
      BY <1>3, NonceType DEF TimePasses
    <3>3. Capped(spentFor[NonceOf[t]] + 1, Settled) <= spentFor[NonceOf[t]] + 1
      BY <1>0, <3>1, CappedType
    <3> QED
      BY <3>1, <3>2, <3>3
  <2>5. probe[s][t].stage \in {"unmined", "dropped"} => HasRead(probe[s][t])
    BY DEF HasRead
  <2>6. spentFor'[NonceOf[t]] \in Nat /\ spentFor[NonceOf[t]] \in Nat
    BY <1>0, <1>3, NonceType, TypeStep DEF DropInv, TypeOK, Next
  <2> QED
    BY <1>0, <2>3, <2>4, <2>5, <2>6 DEF ReadingsAreYoung
<1>4. CASE Tick
  <2>1. UNCHANGED chainVars /\ \A s \in Probes, t \in Txs :
           probe'[s][t] = probe[s][t] \/ probe'[s][t].stage = "asked"
    BY <1>0, <1>4 DEF Tick, TypeOK, Probes
  <2> QED
    BY <1>0, <2>1 DEF ReadingsAreYoung, Spent, chainVars
<1>5. CASE Restart
  BY <1>5 DEF Restart, ReadingsAreYoung, Idle
<1>6. ASSUME NEW s \in Probes, NEW t \in Txs, WsAsks(s, t) \/ ProbeStep(s, t)
      PROVE  ReadingsAreYoung'
  <2>0. UNCHANGED <<latest, mined, spentFor>>
    BY <1>0, <1>6, ProbeMoves DEF chainVars
  <2>1. CASE probe'[s][t].stage \in {"idle", "asked", "confirmed", "open"}
    BY <1>0, <1>6, <2>0, <2>1, ProbeMoves DEF ReadingsAreYoung, Spent
  <2>2. CASE probe'[s][t].stage = "unmined" /\ ReadReceipt(s, t)
             /\ probe'[s][t].age = probe[s][t].age
    <3>1. t \in mined /\ ~WsError(s) => spentFor[NonceOf[t]] < Lag
      <4>1. \/ t \in mined /\ Enter(s, t, "confirmed")
            \/ t \notin mined \/ spentFor[NonceOf[t]] < Lag \/ WsError(s)
        BY <2>2 DEF ReadReceipt
      <4>2. ~Enter(s, t, "confirmed")
        BY <1>0, <2>2, EnterStage DEF Stages
      <4> QED
        BY <4>1, <4>2
    <3>2. spentFor[NonceOf[t]] \in Nat
      BY <1>0, NonceType
    <3> QED
      BY <1>0, <1>6, <2>0, <2>2, <3>1, <3>2, ProbeMoves DEF ReadingsAreYoung, Spent
  <2>3. CASE probe'[s][t].stage = "dropped" /\ ReadNonce(s, t)
             /\ probe'[s][t].age = probe[s][t].age
    <3>1. Spent(t) /\ probe[s][t].stage = "unmined"
      <4>1. ~Enter(s, t, "open")
        BY <1>0, <2>3, EnterStage DEF Stages
      <4> QED
        BY <2>3, <4>1 DEF ReadNonce
    <3> QED
      BY <1>0, <1>6, <2>0, <2>3, <3>1, ProbeMoves DEF ReadingsAreYoung, Spent
  <2> QED
    BY <1>0, <1>6, <2>1, <2>2, <2>3, ProbeMoves
<1> QED
  BY <1>1, <1>2, <1>3, <1>4, <1>5, <1>6, QuietSteps DEF Next

\* Readings are only counted a spacing apart.
LEMMA CountStep ==
    ASSUME DropInv, [Next]_vars
    PROVE  CountsTakeTime'
<1>0. /\ TypeOK /\ CountsTakeTime /\ SpentInOrder /\ Spacing \in Nat /\ Readings \in Nat
      /\ latest \in Nat /\ spentFor \in [Nonces -> 0..Settled] /\ Settled \in Nat
      /\ seen \in [Txs -> 0..(Readings - 1)] /\ since \in [Txs -> 0..Spacing]
  BY PendingAssumption DEF DropInv, IInv, TypeOK, Settled
<1>1. CASE UNCHANGED <<chainVars, dropVars>>
  BY <1>0, <1>1 DEF CountsTakeTime, Spent, chainVars, dropVars
<1>2. CASE TakeNonce
  BY <1>0, <1>2, NonceType DEF TakeNonce, CountsTakeTime, Spent, dropVars
<1>3. CASE TimePasses
  <2> SUFFICES ASSUME NEW t \in Txs, seen[t] > 0
      PROVE  /\ Spent(t)
             /\ \/ spentFor'[NonceOf[t]] = Settled
                \/ spentFor'[NonceOf[t]] >= (seen[t] - 1) * Spacing + since'[t]
    BY <1>3 DEF CountsTakeTime, Spent, TimePasses
  <2> DEFINE old == spentFor[NonceOf[t]]
             due == (seen[t] - 1) * Spacing
  <2>1. Spent(t) /\ (old = Settled \/ old >= due + since[t])
    BY <1>0 DEF CountsTakeTime
  <2>2. /\ spentFor'[NonceOf[t]] = Capped(old + 1, Settled)
        /\ since'[t] = Capped(since[t] + 1, Spacing)
    BY <1>3, <2>1, NonceType DEF TimePasses, Spent
  <2>3. /\ old \in 0..Settled /\ since[t] \in Nat /\ due \in Int
        /\ old + 1 \in Nat /\ since[t] + 1 \in Nat
    BY <1>0, NonceType
  <2>4. /\ Capped(old + 1, Settled) = old + 1 \/ Capped(old + 1, Settled) = Settled
        /\ old = Settled => Capped(old + 1, Settled) = Settled
        /\ Capped(since[t] + 1, Spacing) <= since[t] + 1
        /\ Capped(since[t] + 1, Spacing) \in Nat
    BY <1>0, <2>3 DEF Capped
  <2> HIDE DEF due, old
  <2> QED
    BY <2>1, <2>2, <2>3, <2>4 DEF due
<1>4. ASSUME NEW t \in Txs, ForgetReadings(t), UNCHANGED chainVars
      PROVE  CountsTakeTime'
  BY <1>0, <1>4 DEF ForgetReadings, CountsTakeTime, Spent, chainVars
<1>5. ASSUME NEW s \in Probes, NEW t \in Txs, DropCounted(s, t)
      PROVE  CountsTakeTime'
  <2>1. /\ Spent(t) /\ UNCHANGED <<latest, spentFor>> /\ ~TooSoon(t)
        /\ seen' = [seen EXCEPT ![t] = @ + 1] /\ since' = [since EXCEPT ![t] = 0]
    BY <1>5 DEF DropCounted, Delivered, DropInv, ReadingsAreYoung, chainVars
  <2>2. \/ spentFor[NonceOf[t]] = Settled
        \/ spentFor[NonceOf[t]] >= seen[t] * Spacing
    <3>1. CASE seen[t] = 0
      <4>1. seen[t] * Spacing = 0
        BY <1>0, <3>1
      <4>2. spentFor[NonceOf[t]] \in Nat
        BY <1>0, NonceType
      <4> QED
        BY <4>1, <4>2
    <3>2. CASE seen[t] > 0
      <4>1. since[t] = Spacing
        BY <1>0, <2>1, <3>2 DEF TooSoon
      <4>2. (seen[t] - 1) * Spacing + Spacing = seen[t] * Spacing
        BY <1>0
      <4> QED
        BY <1>0, <3>2, <4>1, <4>2 DEF CountsTakeTime
    <3> QED
      BY <1>0, <3>1, <3>2
  <2>3. seen'[t] - 1 = seen[t] /\ since'[t] = 0
    BY <1>0, <2>1
  <2>4. (seen'[t] - 1) * Spacing + since'[t] = seen[t] * Spacing
    BY <1>0, <2>3
  <2>5. \A u \in Txs : u # t => seen'[u] = seen[u] /\ since'[u] = since[u]
    BY <1>0, <2>1
  <2> QED
    BY <1>0, <2>1, <2>2, <2>4, <2>5 DEF CountsTakeTime, Spent
<1>6. CASE Restart
  BY <1>6 DEF Restart, CountsTakeTime
<1>7. Tick => UNCHANGED <<chainVars, dropVars>>
  BY DEF Tick
<1>8. ASSUME NEW s \in Probes, NEW t \in Txs, WsAsks(s, t) \/ ProbeStep(s, t)
      PROVE  CountsTakeTime'
  <2>1. UNCHANGED chainVars
    BY <1>0, <1>8, ProbeMoves
  <2>2. UNCHANGED dropVars \/ ForgetReadings(t) \/ DropCounted(s, t)
    BY <1>8 DEF WsAsks, ProbeStep, ReadReceipt, ReadNonce, ProbeFails, OnReceiptConfirmed,
                OnTxStillPending, OnTxDropped, DropTooSoon, DropBelieved
  <2> QED
    BY <1>1, <1>4, <1>5, <2>1, <2>2
<1> QED
  BY <1>1, <1>2, <1>3, <1>6, <1>7, <1>8, QuietSteps DEF Next

\* The reading that is believed comes when the counted ones have taken their time.
LEMMA BelievedTakesTime ==
    ASSUME DropInv, NEW s \in Probes, NEW t \in Txs, DropBelieved(s, t)
    PROVE  /\ Spent(t)
           /\ spentFor[NonceOf[t]] >= Capped((Readings - 1) * Spacing, Settled)
           /\ t \in mined =>
                 WsError(s) \/ spentFor[NonceOf[t]] < Lag + probe[s][t].age
<1>0. /\ Spacing \in Nat /\ Readings \in Nat /\ Readings > 0 /\ Settled \in Nat
      /\ seen[t] \in 0..(Readings - 1) /\ since[t] \in 0..Spacing
      /\ spentFor[NonceOf[t]] \in 0..Settled
  BY PendingAssumption, NonceType DEF DropInv, IInv, TypeOK, Settled
<1>1. probe[s][t].stage = "dropped" /\ ~TooSoon(t) /\ Believed(t)
  BY DEF DropBelieved, Delivered
<1>2. /\ Spent(t)
      /\ t \in mined => WsError(s) \/ spentFor[NonceOf[t]] < Lag + probe[s][t].age
  BY <1>1 DEF DropInv, ReadingsAreYoung
<1>3. seen[t] = Readings - 1
  BY <1>0, <1>1 DEF Believed
<1>4. \/ spentFor[NonceOf[t]] = Settled
      \/ spentFor[NonceOf[t]] >= (Readings - 1) * Spacing
  <2>1. CASE seen[t] = 0
    <3>1. (Readings - 1) * Spacing = 0
      BY <1>0, <1>3, <2>1
    <3> QED
      BY <1>0, <3>1
  <2>2. CASE seen[t] > 0
    <3>1. since[t] = Spacing
      BY <1>0, <1>1, <2>2 DEF TooSoon
    <3>2. (seen[t] - 1) * Spacing + Spacing = (Readings - 1) * Spacing
      BY <1>0, <1>3
    <3> QED
      BY <2>2, <3>1, <3>2 DEF DropInv, CountsTakeTime
  <2> QED
    BY <1>0, <2>1, <2>2
<1>5. (Readings - 1) * Spacing \in Nat
  BY <1>0
<1>6. /\ Capped((Readings - 1) * Spacing, Settled) <= (Readings - 1) * Spacing
      /\ Capped((Readings - 1) * Spacing, Settled) \in 0..Settled
  BY <1>0, <1>5, CappedType
<1>7. spentFor[NonceOf[t]] >= Capped((Readings - 1) * Spacing, Settled)
  <2> DEFINE span == (Readings - 1) * Spacing
             cap == Capped(span, Settled)
  <2>1. span \in Nat /\ cap \in 0..Settled /\ cap <= span
    BY <1>5, <1>6
  <2>2. spentFor[NonceOf[t]] = Settled \/ spentFor[NonceOf[t]] >= span
    BY <1>4
  <2> HIDE DEF span, cap
  <2>3. spentFor[NonceOf[t]] >= cap
    BY <1>0, <2>1, <2>2
  <2> QED
    BY <2>3 DEF cap, span
<1> QED
  BY <1>2, <1>7

\* However the readings of both watchers interleave, a drop is believed no sooner
\* than the readings span, whatever the receipts' lag, the probes' delay and the
\* errors of the ws: a mined transaction is only dropped when its receipt stays
\* missing for longer, or on a ws error (_on_tx_dropped).
THEOREM DropsAreSpaced == Spec => DropsTakeTime
<1>1. Init => DropInv
  <2> SUFFICES ASSUME Init PROVE DropInv
    OBVIOUS
  <2>1. ReadingsAreYoung /\ CountsTakeTime
    BY DEF Init, Idle, ReadingsAreYoung, CountsTakeTime
  <2> QED
    BY <2>1, InitInv DEF DropInv
<1>2. DropInv /\ [Next]_vars => DropInv'
  BY TypeStep, KeptStep, NotedStep, SpentStep, YoungStep, CountStep DEF DropInv, IInv
<1>3. DropInv /\ [Next]_vars =>
        [\A s \in Probes, t \in Txs : DropBelieved(s, t) =>
           /\ Spent(t)
           /\ spentFor[NonceOf[t]] >= Capped((Readings - 1) * Spacing, Settled)
           /\ t \in mined =>
                 WsError(s) \/ spentFor[NonceOf[t]] < Lag + probe[s][t].age]_vars
  BY BelievedTakesTime
<1> QED
  BY <1>1, <1>2, <1>3, PTL DEF Spec, DropsTakeTime

\* The history only moves on, as the runs check it.
THEOREM HistoryOnlyMovesOn == Spec => HistoryMovesOn
  BY TerminalRowsStay, SavedRowsStay, DropsAreSpaced DEF HistoryMovesOn

-----------------------------------------------------------------------------
(* Sets of nonces and their order. *)

\* The rank of a member: how many are above it.
LEMMA RankBounds ==
    ASSUME NEW S \in SUBSET Nat, IsFiniteSet(S), NEW n \in S
    PROVE  /\ IsFiniteSet(Above(S, n)) /\ Cardinality(S) \in Nat
           /\ Cardinality(Above(S, n)) \in 0 .. Cardinality(S) - 1
<1>1. IsFiniteSet(S \ {n}) /\ Cardinality(S \ {n}) = Cardinality(S) - 1
  BY FS_RemoveElement
<1>2. Above(S, n) \in SUBSET (S \ {n})
  BY DEF Above
<1>3. IsFiniteSet(Above(S, n)) /\ Cardinality(Above(S, n)) <= Cardinality(S \ {n})
  BY <1>1, <1>2, FS_Subset
<1> QED
  BY <1>1, <1>3, FS_CardinalityType

LEMMA RankFalls ==
    ASSUME NEW S \in SUBSET Nat, IsFiniteSet(S), NEW n \in S, NEW m \in S, n < m
    PROVE  Cardinality(Above(S, m)) < Cardinality(Above(S, n))
<1>1. IsFiniteSet(Above(S, n)) /\ Cardinality(Above(S, n)) \in Nat
  BY RankBounds
<1>2. Cardinality(Above(S, n) \ {m}) = Cardinality(Above(S, n)) - 1 /\ IsFiniteSet(Above(S, n) \ {m})
  BY <1>1, FS_RemoveElement DEF Above
<1>3. Above(S, m) \in SUBSET (Above(S, n) \ {m})
  <2> SUFFICES ASSUME NEW x \in Above(S, m) PROVE x \in Above(S, n) /\ x # m
    OBVIOUS
  <2>1. x \in S /\ x \in Nat /\ x > m
    BY DEF Above
  <2> QED
    BY <2>1 DEF Above
<1>4. Cardinality(Above(S, m)) <= Cardinality(Above(S, n) \ {m})
  BY <1>2, <1>3, FS_Subset
<1> QED
  BY <1>1, <1>2, <1>4, RankBounds

\* Two members of one rank are one.
LEMMA RankIsOne ==
    ASSUME NEW S \in SUBSET Nat, IsFiniteSet(S), NEW n \in S, NEW m \in S,
           Cardinality(Above(S, m)) = Cardinality(Above(S, n))
    PROVE  n = m
<1>1. Cardinality(Above(S, m)) \in Nat /\ Cardinality(Above(S, n)) \in Nat
  BY RankBounds
<1>2. ~(n < m) /\ ~(m < n)
  BY <1>1, RankFalls
<1> QED
  BY <1>2

\* There is one of every rank.
LEMMA RankIsMet ==
    ASSUME NEW S \in SUBSET Nat, IsFiniteSet(S), NEW k \in 0 .. Cardinality(S) - 1
    PROVE  \E n \in S : Cardinality(Above(S, n)) = k
<1> DEFINE T == 0 .. Cardinality(S) - 1
           f == [n \in S |-> Cardinality(Above(S, n))]
<1>1. Cardinality(S) \in Nat
  BY FS_CardinalityType
<1>2. IsFiniteSet(T) /\ Cardinality(T) = Cardinality(S)
  BY <1>1, FS_Interval
<1>3. f \in [S -> T]
  BY RankBounds
<1>4. \A n, m \in S : f[n] = f[m] => n = m
  BY RankIsOne
<1>5. f \in Injection(S, T)
  BY <1>3, <1>4 DEF Injection, IsInjective
<1>6. f \in Surjection(S, T)
  <2> HIDE DEF f, T
  <2> QED
    BY <1>2, <1>5, FS_Injection
<1>7. \E n \in S : f[n] = k
  BY <1>6 DEF Surjection
<1> QED
  BY <1>7

\* Newest lists a set, each member at its rank.
LEMMA NewestRanks ==
    ASSUME NEW S \in SUBSET Nat, IsFiniteSet(S)
    PROVE  /\ Newest(S) \in Seq(Nat) /\ Len(Newest(S)) = Cardinality(S) /\ Cardinality(S) \in Nat
           /\ \A i \in 1 .. Cardinality(S) :
                 Newest(S)[i] \in S /\ Cardinality(Above(S, Newest(S)[i])) = i - 1
<1>1. Cardinality(S) \in Nat
  BY FS_CardinalityType
<1>2. ASSUME NEW i \in 1 .. Cardinality(S)
      PROVE  Newest(S)[i] \in S /\ Cardinality(Above(S, Newest(S)[i])) = i - 1
  <2>1. \E n \in S : Cardinality(Above(S, n)) = i - 1
    BY <1>1, RankIsMet
  <2>2. Newest(S)[i] = CHOOSE n \in S : Cardinality(Above(S, n)) = i - 1
    BY DEF Newest
  <2> QED
    BY <2>1, <2>2
<1>3. Newest(S) \in [1 .. Cardinality(S) -> Nat]
  <2>1. DOMAIN Newest(S) = 1 .. Cardinality(S) /\ Newest(S) = [i \in 1 .. Cardinality(S) |-> Newest(S)[i]]
    BY DEF Newest
  <2> QED
    BY <1>2, <2>1
<1> QED
  BY <1>1, <1>2, <1>3

\* A member is where its rank says.
LEMMA NewestAt ==
    ASSUME NEW S \in SUBSET Nat, IsFiniteSet(S), NEW n \in S, NEW i \in Nat,
           Cardinality(Above(S, n)) = i - 1, i # 0
    PROVE  i \in 1 .. Cardinality(S) /\ Newest(S)[i] = n
<1>1. i \in 1 .. Cardinality(S)
  BY RankBounds
<1> QED
  BY <1>1, NewestRanks, RankIsOne

\* Where all of A is above all of B, their union lists A first.
LEMMA NewestUnion ==
    ASSUME NEW A \in SUBSET Nat, NEW B \in SUBSET Nat, IsFiniteSet(A), IsFiniteSet(B),
           \A a \in A, b \in B : a > b
    PROVE  /\ Newest(A \cup B) = Newest(A) \o Newest(B)
           /\ IsFiniteSet(A \cup B) /\ Cardinality(A \cup B) = Cardinality(A) + Cardinality(B)
<1> DEFINE q == Newest(A) \o Newest(B)
<1>0. A \cup B \in SUBSET Nat
  OBVIOUS
<1>1. A \cap B = {}
  <2> SUFFICES ASSUME NEW x \in A \cap B PROVE FALSE
    OBVIOUS
  <2>1. x > x
    OBVIOUS
  <2> QED
    BY <2>1
<1>2. IsFiniteSet(A \cup B) /\ Cardinality(A \cup B) = Cardinality(A) + Cardinality(B)
  <2>1. Cardinality(A) \in Nat /\ Cardinality(B) \in Nat
    BY FS_CardinalityType
  <2>2. Cardinality(A \cap B) = 0
    BY <1>1, FS_EmptySet
  <2>3. Cardinality(A \cup B) = Cardinality(A) + Cardinality(B) - Cardinality(A \cap B)
    BY FS_Union
  <2> QED
    BY <2>1, <2>2, <2>3, FS_Union
<1>3. /\ Newest(A) \in Seq(Nat) /\ Len(Newest(A)) = Cardinality(A) /\ Cardinality(A) \in Nat
      /\ Newest(B) \in Seq(Nat) /\ Len(Newest(B)) = Cardinality(B) /\ Cardinality(B) \in Nat
  BY NewestRanks
<1>4. q \in Seq(Nat) /\ Len(q) = Cardinality(A) + Cardinality(B)
  BY <1>3, ConcatProperties
<1>5. \A i \in 1 .. Cardinality(A) + Cardinality(B) :
         q[i] = IF i <= Cardinality(A) THEN Newest(A)[i] ELSE Newest(B)[i - Cardinality(A)]
  <2>1. \A i \in 1 .. Len(Newest(A)) + Len(Newest(B)) :
           q[i] = IF i <= Len(Newest(A)) THEN Newest(A)[i] ELSE Newest(B)[i - Len(Newest(A))]
    BY <1>3, ConcatProperties
  <2> QED
    BY <1>3, <2>1
<1> HIDE DEF q
<1>6. ASSUME NEW i \in 1 .. Cardinality(A) + Cardinality(B)
      PROVE  Newest(A \cup B)[i] = q[i]
  <2>1. CASE i <= Cardinality(A)
    <3>1. q[i] \in A /\ Cardinality(Above(A, q[i])) = i - 1
      <4>1. q[i] = Newest(A)[i] /\ i \in 1 .. Cardinality(A)
        BY <1>3, <1>5, <2>1
      <4> QED
        BY <4>1, NewestRanks
    <3>2. ASSUME NEW b \in B PROVE ~(b > q[i])
      <4>1. q[i] > b /\ q[i] \in Nat /\ b \in Nat
        BY <3>1
      <4> QED
        BY <4>1
    <3>3. Above(A \cup B, q[i]) = Above(A, q[i])
      BY <3>2 DEF Above
    <3>4. q[i] \in A \cup B /\ i \in Nat /\ i # 0 /\ Cardinality(Above(A \cup B, q[i])) = i - 1
      BY <1>3, <3>1, <3>3
    <3> QED
      BY <1>0, <1>2, <3>4, NewestAt
  <2>2. CASE i > Cardinality(A)
    <3>1. PICK j \in 1 .. Cardinality(B) : i = Cardinality(A) + j /\ q[i] = Newest(B)[j]
      <4>1. i - Cardinality(A) \in 1 .. Cardinality(B)
        BY <1>3, <2>2
      <4>2. q[i] = Newest(B)[i - Cardinality(A)] /\ i = Cardinality(A) + (i - Cardinality(A))
        BY <1>3, <1>5, <2>2
      <4> QED
        BY <4>1, <4>2
    <3>2. q[i] \in B /\ Cardinality(Above(B, q[i])) = j - 1
      BY <3>1, NewestRanks
    <3>3. Above(A \cup B, q[i]) = A \cup Above(B, q[i]) /\ A \cap Above(B, q[i]) = {}
      BY <1>1, <3>2 DEF Above
    <3>4. IsFiniteSet(Above(B, q[i]))
      BY <3>2, RankBounds
    <3>5. Cardinality(A \cup Above(B, q[i])) = Cardinality(A) + (j - 1) - Cardinality({})
      BY <3>2, <3>3, <3>4, FS_Union
    <3>6. Cardinality({}) = 0
      BY FS_EmptySet
    <3>7. Cardinality(Above(A \cup B, q[i])) = i - 1
      <4>1. Cardinality(A) + (j - 1) - Cardinality({}) = i - 1
        BY <1>3, <3>1, <3>6
      <4> QED
        BY <3>3, <3>5, <4>1
    <3>8. q[i] \in A \cup B /\ i \in Nat /\ i # 0
      BY <1>3, <3>2
    <3> QED
      BY <1>0, <1>2, <3>7, <3>8, NewestAt
  <2> QED
    BY <1>3, <2>1, <2>2
<1>7. Newest(A \cup B) \in Seq(Nat) /\ Len(Newest(A \cup B)) = Cardinality(A) + Cardinality(B)
  BY <1>2, NewestRanks
<1>8. Newest(A \cup B) = q
  <2>1. /\ Len(Newest(A \cup B)) = Len(q)
        /\ \A i \in 1 .. Len(Newest(A \cup B)) : Newest(A \cup B)[i] = q[i]
    BY <1>4, <1>6, <1>7
  <2> QED
    BY <1>4, <1>7, <2>1, SeqEqual
<1> QED
  BY <1>2, <1>8 DEF q

LEMMA NewestOne == ASSUME NEW n \in Nat PROVE Newest({n}) = <<n>>
<1>1. IsFiniteSet({n}) /\ Cardinality({n}) = 1
  BY FS_Singleton
<1>2. /\ Newest({n}) \in Seq(Nat) /\ Len(Newest({n})) = 1
      /\ \A i \in 1 .. 1 : Newest({n})[i] \in {n}
  BY <1>1, NewestRanks
<1>3. Newest({n})[1] = n
  BY <1>2
<1> QED
  BY <1>2

\* The first elements of a concatenation.
LEMMA FirstOfConcat ==
    ASSUME NEW s \in Seq(Nat), NEW t \in Seq(Nat), NEW m \in 0 .. Len(t)
    PROVE  SubSeq(s \o t, 1, Len(s) + m) = s \o SubSeq(t, 1, m)
<1>1. Len(s) \in Nat /\ Len(t) \in Nat
  BY LenProperties
<1>2. /\ s \o t \in Seq(Nat) /\ Len(s \o t) = Len(s) + Len(t)
      /\ \A i \in 1 .. Len(s) + Len(t) : (s \o t)[i] = IF i <= Len(s) THEN s[i] ELSE t[i - Len(s)]
  BY ConcatProperties
<1>3. \A i \in 1 .. Len(s) + m : (s \o t)[i] \in Nat
  BY <1>1, <1>2, LenProperties
<1>4. \A i \in 1 .. m : t[i] \in Nat
  BY <1>1, LenProperties
<1> DEFINE x == SubSeq(t, 1, m)
           y == SubSeq(s \o t, 1, Len(s) + m)
<1>5. /\ y \in Seq(Nat) /\ Len(y) = Len(s) + m
      /\ \A i \in 1 .. Len(s) + m : y[i] = (s \o t)[i]
  <2>1. /\ y \in Seq(Nat) /\ Len(y) = IF 1 <= Len(s) + m THEN Len(s) + m - 1 + 1 ELSE 0
        /\ \A i \in 1 .. Len(s) + m - 1 + 1 : y[i] = (s \o t)[1 + i - 1]
    BY <1>1, <1>3, SubSeqProperties
  <2> QED
    BY <1>1, <2>1
<1>6. /\ x \in Seq(Nat) /\ Len(x) = m
      /\ \A i \in 1 .. m : x[i] = t[i]
  <2>1. /\ x \in Seq(Nat) /\ Len(x) = IF 1 <= m THEN m - 1 + 1 ELSE 0
        /\ \A i \in 1 .. m - 1 + 1 : x[i] = t[1 + i - 1]
    BY <1>1, <1>4, SubSeqProperties
  <2> QED
    BY <1>1, <2>1
<1> HIDE DEF x, y
<1>7. /\ s \o x \in Seq(Nat) /\ Len(s \o x) = Len(s) + m
      /\ \A i \in 1 .. Len(s) + m : (s \o x)[i] = IF i <= Len(s) THEN s[i] ELSE x[i - Len(s)]
  <2>1. \A i \in 1 .. Len(s) + Len(x) : (s \o x)[i] = IF i <= Len(s) THEN s[i] ELSE x[i - Len(s)]
    BY <1>6, ConcatProperties
  <2> QED
    BY <1>6, <2>1, ConcatProperties
<1>8. ASSUME NEW i \in 1 .. Len(s) + m PROVE (s \o x)[i] = y[i]
  <2>1. CASE i <= Len(s)
    BY <1>1, <1>2, <1>5, <1>7, <2>1
  <2>2. CASE i > Len(s)
    <3>1. i - Len(s) \in 1 .. m /\ i \in 1 .. Len(s) + Len(t) /\ ~(i <= Len(s))
      BY <1>1, <2>2
    <3>2. x[i - Len(s)] = t[i - Len(s)]
      BY <1>6, <3>1
    <3>3. (s \o t)[i] = t[i - Len(s)]
      BY <1>2, <3>1
    <3>4. (s \o x)[i] = x[i - Len(s)]
      BY <1>7, <3>1
    <3>5. y[i] = (s \o t)[i]
      BY <1>5
    <3> QED
      BY <3>2, <3>3, <3>4, <3>5
  <2>3. i <= Len(s) \/ i > Len(s)
    BY <1>1
  <2> QED
    BY <2>1, <2>2, <2>3
<1>9. s \o x = y
  <2>1. Len(s \o x) = Len(y) /\ \A i \in 1 .. Len(s \o x) : (s \o x)[i] = y[i]
    BY <1>5, <1>7, <1>8
  <2> QED
    BY <1>5, <1>7, <2>1, SeqEqual
<1> QED
  BY <1>9 DEF x, y

-----------------------------------------------------------------------------
(* Heads of a history. *)

Finite(S) == S \in SUBSET Nat /\ IsFiniteSet(S)

\* A window of the newest rows is a head.
LEMMA WindowIsHead ==
    ASSUME NEW S, Finite(S), NEW cap \in 0 .. Cardinality(S)
    PROVE  /\ SubSeq(Newest(S), 1, cap) \in Seq(Nat) /\ Len(SubSeq(Newest(S), 1, cap)) = cap
           /\ IsHead(SubSeq(Newest(S), 1, cap), S)
<1>1. Newest(S) \in Seq(Nat) /\ Len(Newest(S)) = Cardinality(S) /\ Cardinality(S) \in Nat
  BY NewestRanks DEF Finite
<1>2. \A i \in 1 .. cap : Newest(S)[i] \in Nat
  BY <1>1, LenProperties
<1>3. SubSeq(Newest(S), 1, cap) \in Seq(Nat) /\ Len(SubSeq(Newest(S), 1, cap)) = cap
  <2>1. /\ SubSeq(Newest(S), 1, cap) \in Seq(Nat)
        /\ Len(SubSeq(Newest(S), 1, cap)) = IF 1 <= cap THEN cap - 1 + 1 ELSE 0
    BY <1>1, <1>2, SubSeqProperties
  <2> QED
    BY <1>1, <2>1
<1> QED
  BY <1>1, <1>3 DEF IsHead

\* The whole history is a head, and the only one of its length.
LEMMA WholeIsHead ==
    ASSUME NEW S, Finite(S), NEW q \in Seq(Nat), IsHead(q, S), Len(q) = Cardinality(S)
    PROVE  q = Newest(S)
<1>1. Newest(S) \in Seq(Nat) /\ Len(Newest(S)) = Cardinality(S)
  BY NewestRanks DEF Finite
<1> QED
  BY <1>1, SubSeqFull DEF IsHead

\* Rows above all of a history go on top of its head.
LEMMA HeadGrows ==
    ASSUME NEW S, Finite(S), NEW N, Finite(N), NEW q \in Seq(Nat), IsHead(q, S),
           \A n \in N, s \in S : n > s
    PROVE  /\ Finite(S \cup N) /\ Cardinality(S \cup N) = Cardinality(S) + Cardinality(N)
           /\ Newest(N) \o q \in Seq(Nat) /\ Len(Newest(N) \o q) = Len(q) + Cardinality(N)
           /\ IsHead(Newest(N) \o q, S \cup N)
<1>1. /\ Newest(S) \in Seq(Nat) /\ Len(Newest(S)) = Cardinality(S) /\ Cardinality(S) \in Nat
      /\ Newest(N) \in Seq(Nat) /\ Len(Newest(N)) = Cardinality(N) /\ Cardinality(N) \in Nat
  BY NewestRanks DEF Finite
<1>2. Len(q) \in 0 .. Cardinality(S) /\ q = SubSeq(Newest(S), 1, Len(q))
  BY <1>1, LenProperties DEF IsHead
<1>3. S \cup N = N \cup S
  OBVIOUS
<1>4. /\ Newest(S \cup N) = Newest(N) \o Newest(S)
      /\ IsFiniteSet(S \cup N) /\ Cardinality(S \cup N) = Cardinality(N) + Cardinality(S)
  BY <1>3, NewestUnion DEF Finite
<1>5. Newest(N) \o q \in Seq(Nat) /\ Len(Newest(N) \o q) = Cardinality(N) + Len(q)
  BY <1>1, ConcatProperties
<1>6. Newest(N) \o q = SubSeq(Newest(S \cup N), 1, Cardinality(N) + Len(q))
  <2>1. SubSeq(Newest(N) \o Newest(S), 1, Len(Newest(N)) + Len(q)) = Newest(N) \o SubSeq(Newest(S), 1, Len(q))
    BY <1>1, <1>2, FirstOfConcat
  <2> QED
    BY <1>1, <1>2, <1>4, <2>1
<1>7. Finite(S \cup N)
  BY <1>4 DEF Finite
<1>8. /\ Cardinality(S \cup N) = Cardinality(S) + Cardinality(N)
      /\ Len(Newest(N) \o q) = Len(q) + Cardinality(N)
      /\ Len(Newest(N) \o q) <= Cardinality(S \cup N)
      /\ Cardinality(N) + Len(q) = Len(Newest(N) \o q)
  BY <1>1, <1>2, <1>4, <1>5
<1>9. IsHead(Newest(N) \o q, S \cup N)
  BY <1>6, <1>8 DEF IsHead
<1> QED
  BY <1>5, <1>7, <1>8, <1>9

\* Rows below all of a history leave its head one.
LEMMA HeadStays ==
    ASSUME NEW S, Finite(S), NEW O, Finite(O), NEW q \in Seq(Nat), IsHead(q, S),
           \A s \in S, o \in O : s > o
    PROVE  /\ Finite(S \cup O) /\ Cardinality(S \cup O) = Cardinality(S) + Cardinality(O)
           /\ IsHead(q, S \cup O)
<1>1. /\ Newest(S) \in Seq(Nat) /\ Len(Newest(S)) = Cardinality(S) /\ Cardinality(S) \in Nat
      /\ Newest(O) \in Seq(Nat) /\ Len(Newest(O)) = Cardinality(O) /\ Cardinality(O) \in Nat
  BY NewestRanks DEF Finite
<1>2. Len(q) \in 0 .. Cardinality(S) /\ q = SubSeq(Newest(S), 1, Len(q))
  BY <1>1, LenProperties DEF IsHead
<1>3. /\ Newest(S \cup O) = Newest(S) \o Newest(O)
      /\ IsFiniteSet(S \cup O) /\ Cardinality(S \cup O) = Cardinality(S) + Cardinality(O)
  BY NewestUnion DEF Finite
<1>4. SubSeq(Newest(S) \o Newest(O), 1, Len(q)) = SubSeq(Newest(S), 1, Len(q))
  <2>1. CASE Len(q) = 0
    BY <2>1, SubSeqEmpty
  <2>2. CASE Len(q) # 0
    <3>1. 1 \in 1 .. Len(Newest(S)) /\ Len(q) \in 1 .. Len(Newest(S))
      BY <1>1, <1>2, <2>2
    <3> QED
      BY <1>1, <3>1, SubSeqOfConcat1
  <2> QED
    BY <2>1, <2>2
<1>5. Finite(S \cup O)
  BY <1>3 DEF Finite
<1>6. Len(q) <= Cardinality(S \cup O) /\ Cardinality(S \cup O) = Cardinality(S) + Cardinality(O)
  BY <1>1, <1>2, <1>3
<1>7. q = SubSeq(Newest(S \cup O), 1, Len(q))
  BY <1>2, <1>3, <1>4
<1>8. IsHead(q, S \cup O)
  BY <1>6, <1>7 DEF IsHead
<1> QED
  BY <1>5, <1>6, <1>8

\* Where the whole history is shown they may be put below it.
LEMMA HeadAppends ==
    ASSUME NEW S, Finite(S), NEW O, Finite(O), NEW q \in Seq(Nat), IsHead(q, S),
           Len(q) = Cardinality(S), \A s \in S, o \in O : s > o
    PROVE  /\ q \o Newest(O) \in Seq(Nat) /\ Len(q \o Newest(O)) = Cardinality(S \cup O)
           /\ IsHead(q \o Newest(O), S \cup O)
<1>1. /\ q = Newest(S) /\ Newest(O) \in Seq(Nat) /\ Len(Newest(O)) = Cardinality(O)
  BY NewestRanks, WholeIsHead DEF Finite
<1>2. /\ Newest(S \cup O) = q \o Newest(O)
      /\ Cardinality(S \cup O) = Cardinality(S) + Cardinality(O)
  BY <1>1, NewestUnion DEF Finite
<1>3. q \o Newest(O) \in Seq(Nat) /\ Len(q \o Newest(O)) = Cardinality(S \cup O)
  <2>1. Len(q) + Len(Newest(O)) = Cardinality(S \cup O)
    BY <1>1, <1>2
  <2> QED
    BY <1>1, <2>1, ConcatProperties
<1>4. Cardinality(S \cup O) \in Nat
  BY <1>3, LenProperties
<1>5. SubSeq(q \o Newest(O), 1, Len(q \o Newest(O))) = q \o Newest(O)
  BY <1>3, SubSeqFull
<1>6. IsHead(q \o Newest(O), S \cup O)
  <2>1. Len(q \o Newest(O)) <= Cardinality(S \cup O)
    BY <1>3, <1>4
  <2> QED
    BY <1>2, <1>5, <2>1 DEF IsHead
<1> QED
  BY <1>3, <1>6

\* Scrolling reveals the rows that follow.
LEMMA HeadReveals ==
    ASSUME NEW S, Finite(S), NEW q \in Seq(Nat), IsHead(q, S), NEW n \in Len(q) .. Cardinality(S)
    PROVE  /\ q \o SubSeq(Newest(S), Len(q) + 1, n) \in Seq(Nat)
           /\ Len(q \o SubSeq(Newest(S), Len(q) + 1, n)) = n
           /\ IsHead(q \o SubSeq(Newest(S), Len(q) + 1, n), S)
<1>1. Newest(S) \in Seq(Nat) /\ Len(Newest(S)) = Cardinality(S) /\ Cardinality(S) \in Nat
  BY NewestRanks DEF Finite
<1>2. Len(q) \in 0 .. Cardinality(S) /\ q = SubSeq(Newest(S), 1, Len(q)) /\ n \in 0 .. Cardinality(S)
  BY <1>1, LenProperties DEF IsHead
<1>3. SubSeq(Newest(S), 1, Len(q)) \o SubSeq(Newest(S), Len(q) + 1, n) = SubSeq(Newest(S), 1, n)
  <2>1. /\ 1 \in 1 .. Len(Newest(S)) + 1 /\ Len(q) \in 1 - 1 .. Len(Newest(S))
        /\ n \in Len(q) .. Len(Newest(S))
    BY <1>1, <1>2
  <2> QED
    BY <1>1, <2>1, ConcatAdjacentSubSeq
<1> QED
  BY <1>2, <1>3, WindowIsHead

-----------------------------------------------------------------------------
(* Blocks and nonces. *)

LEMMA SentType ==
    ASSUME NEW c, NEW n \in Nat
    PROVE  Sent(c, n) \subseteq 1 .. n /\ Sent(c, n) \in SUBSET Nat
           /\ IsFiniteSet(Sent(c, n)) /\ Cardinality(Sent(c, n)) \in Nat
<1>1. Sent(c, n) \subseteq 1 .. n
  BY DEF Sent
<1>2. IsFiniteSet(1 .. n)
  BY FS_Interval
<1> QED
  BY <1>1, <1>2, FS_Subset, FS_CardinalityType

\* A block's nonce counts the sent blocks before it.
LEMMA NonceBounds ==
    ASSUME NEW c, NEW n \in Nat, NEW b \in Sent(c, n)
    PROVE  NonceAt(c, b) \in Nat /\ NonceAt(c, b) < Cardinality(Sent(c, n))
<1>1. b \in 1 .. n /\ b - 1 \in Nat
  BY SentType
<1>2. IsFiniteSet(Sent(c, n)) /\ Cardinality(Sent(c, n)) \in Nat
  BY SentType
<1>3. IsFiniteSet(Sent(c, n) \ {b}) /\ Cardinality(Sent(c, n) \ {b}) = Cardinality(Sent(c, n)) - 1
  BY <1>2, FS_RemoveElement
<1>4. Sent(c, b - 1) \in SUBSET (Sent(c, n) \ {b})
  BY <1>1 DEF Sent
<1>5. Cardinality(Sent(c, b - 1)) <= Cardinality(Sent(c, n) \ {b})
  BY <1>3, <1>4, FS_Subset
<1>6. Cardinality(Sent(c, b - 1)) \in Nat
  BY <1>1, SentType
<1> QED
  BY <1>2, <1>3, <1>5, <1>6 DEF NonceAt

\* Nonces go up with the blocks.
LEMMA NoncesRise ==
    ASSUME NEW c, NEW n \in Nat, NEW a \in Sent(c, n), NEW b \in Sent(c, n), a < b
    PROVE  NonceAt(c, a) < NonceAt(c, b)
<1>1. a \in 1 .. n /\ b \in 1 .. n /\ b - 1 \in Nat
  BY SentType
<1>2. a \in Sent(c, b - 1)
  BY <1>1 DEF Sent
<1>3. NonceAt(c, a) < Cardinality(Sent(c, b - 1))
  BY <1>1, <1>2, NonceBounds
<1> QED
  BY <1>3 DEF NonceAt

\* Every nonce below the count of the sent blocks is in one of them.
LEMMA NonceIsMet ==
    ASSUME NEW c, NEW n \in Nat, NEW k \in 0 .. Cardinality(Sent(c, n)) - 1
    PROVE  \E b \in Sent(c, n) : NonceAt(c, b) = k
<1> DEFINE S == Sent(c, n)
           T == 0 .. Cardinality(S) - 1
           f == [b \in S |-> NonceAt(c, b)]
<1>1. IsFiniteSet(S) /\ Cardinality(S) \in Nat /\ S \in SUBSET Nat
  BY SentType
<1>2. IsFiniteSet(T) /\ Cardinality(T) = Cardinality(S)
  BY <1>1, FS_Interval
<1>3. f \in [S -> T]
  BY <1>1, NonceBounds
<1>4. \A a, b \in S : f[a] = f[b] => a = b
  <2> SUFFICES ASSUME NEW a \in S, NEW b \in S, f[a] = f[b] PROVE a = b
    OBVIOUS
  <2>1. NonceAt(c, a) = NonceAt(c, b) /\ NonceAt(c, a) \in Nat /\ NonceAt(c, b) \in Nat
    BY NonceBounds
  <2>2. ~(a < b) /\ ~(b < a)
    BY <2>1, NoncesRise
  <2> QED
    BY <1>1, <2>2
<1>5. f \in Injection(S, T)
  BY <1>3, <1>4 DEF Injection, IsInjective
<1>6. f \in Surjection(S, T)
  <2> HIDE DEF f, T, S
  <2> QED
    BY <1>1, <1>2, <1>5, FS_Injection
<1>7. \E b \in S : f[b] = k
  BY <1>6 DEF Surjection
<1> QED
  BY <1>7

\* A nonempty set of naturals has a least member.
LEMMA LeastIs ==
    ASSUME NEW S \in SUBSET Nat, S # {}
    PROVE  Least(S) \in S /\ \A x \in S : x >= Least(S)
<1>1. \E n \in S : \A x \in S : x >= n
  <2>1. PICK n \in S : \A x \in S : ~(<<x, n>> \in OpToRel(<, Nat))
    BY NatLessThanWellFounded, WFMin
  <2>2. ASSUME NEW x \in S PROVE x >= n
    <3>1. ~(x < n)
      BY <2>1 DEF OpToRel
    <3> QED
      BY <3>1
  <2> QED
    BY <2>2
<1> QED
  BY <1>1 DEF Least

\* A nonempty finite set of naturals has a greatest.
LEMMA TopIs ==
    ASSUME NEW S, Finite(S), S # {}
    PROVE  Top(S) \in S /\ \A x \in S : x <= Top(S)
<1>1. Cardinality(S) \in Nat /\ Cardinality(S) # 0
  BY FS_CardinalityType, FS_EmptySet DEF Finite
<1>2. PICK n \in S : Cardinality(Above(S, n)) = 0
  BY <1>1, RankIsMet DEF Finite
<1>3. IsFiniteSet(Above(S, n))
  BY RankBounds DEF Finite
<1>4. Above(S, n) = {}
  BY <1>2, <1>3, FS_EmptySet
<1>5. \A x \in S : x <= n
  <2> SUFFICES ASSUME NEW x \in S PROVE x <= n
    OBVIOUS
  <2>1. ~(x > n) /\ x \in Nat /\ n \in Nat
    BY <1>4 DEF Above, Finite
  <2> QED
    BY <2>1
<1> QED
  BY <1>5 DEF Top

-----------------------------------------------------------------------------
(* What the histories are made of. *)

Bounds == Nat \cup {NoBound}

\* Held of a chain: nonces that are mined, and the wallet's own next.
HistoryTypes ==
    /\ ledger \in [Chains -> Seq({"sent", "received"})]
    /\ saved \in [Chains -> SUBSET Nat] /\ \A c \in Chains : saved[c] \subseteq 0 .. SentCount(c) - 1
    /\ cache \in [Chains -> SUBSET Int]
    /\ \A c \in Chains :
          cache[c] = Absent \/ cache[c] \subseteq (0 .. SentCount(c) - 1) \cup pending[c]
    /\ pending \in [Chains -> SUBSET Nat] /\ \A c \in Chains : pending[c] \subseteq {SentCount(c)}
    /\ count \in [Chains -> Nat] /\ rows \in Seq(Nat)
    /\ \A w \in workers : w.chain \in Chains /\ w.before \in Bounds
    /\ chain \in Chains /\ selected \in BOOLEAN /\ active \in BOOLEAN
    /\ renderedFor \in Chains \cup {None}

\* The table is of the selected view while the tab is open, of none without an
\* account, and never of a history that is on disk and not in memory.
ViewRendered ==
    /\ selected /\ active => renderedFor = chain
    /\ ~selected => renderedFor = None
    /\ renderedFor # None => Cached(renderedFor) = Hydrated(renderedFor)

HistoryInv == HistoryTypes /\ ViewRendered

LEMMA SentCountType ==
    ASSUME HistoryTypes, NEW c \in Chains
    PROVE  SentCount(c) \in Nat /\ Len(ledger[c]) \in Nat
<1>1. ledger[c] \in Seq({"sent", "received"})
  BY DEF HistoryTypes
<1>2. Len(ledger[c]) \in Nat
  BY <1>1, LenProperties
<1> QED
  BY <1>2, SentType DEF SentCount

\* One more block.
LEMMA SentAppended ==
    ASSUME HistoryTypes, NEW c \in Chains, NEW kind \in {"sent", "received"},
           ledger' = [ledger EXCEPT ![c] = Append(@, kind)]
    PROVE  /\ ledger' \in [Chains -> Seq({"sent", "received"})]
           /\ \A d \in Chains : SentCount(d)' =
                 IF d = c /\ kind = "sent" THEN SentCount(d) + 1 ELSE SentCount(d)
<1> DEFINE s == ledger[c]
           t == Append(s, kind)
<1>1. s \in Seq({"sent", "received"}) /\ Len(s) \in Nat
  BY LenProperties DEF HistoryTypes
<1>2. /\ t \in Seq({"sent", "received"}) /\ Len(t) = Len(s) + 1
      /\ \A i \in 1 .. Len(s) : t[i] = s[i]
      /\ t[Len(s) + 1] = kind
  BY <1>1, AppendProperties
<1>3. ledger' = [ledger EXCEPT ![c] = t] /\ ledger'[c] = t /\ \A d \in Chains \ {c} : ledger'[d] = ledger[d]
  BY DEF HistoryTypes
<1> HIDE DEF t
<1>4. ledger' \in [Chains -> Seq({"sent", "received"})]
  BY <1>2, <1>3 DEF HistoryTypes
<1>5. ASSUME NEW d \in Chains, d # c PROVE SentCount(d)' = SentCount(d)
  BY <1>3, <1>5 DEF SentCount, Sent
<1>6. CASE kind = "sent"
  <2>1. Sent(c, Len(ledger[c]))' = Sent(c, Len(ledger[c])) \cup {Len(s) + 1}
    BY <1>1, <1>2, <1>3, <1>6 DEF Sent
  <2>2. Len(s) + 1 \notin Sent(c, Len(ledger[c]))
    BY <1>1, SentType
  <2>3. IsFiniteSet(Sent(c, Len(ledger[c])))
    BY <1>1, SentType
  <2>4. SentCount(c)' = SentCount(c) + 1
    BY <2>1, <2>2, <2>3, FS_AddElement DEF SentCount
  <2> QED
    BY <1>4, <1>5, <1>6, <2>4
<1>7. CASE kind = "received"
  <2>1. Sent(c, Len(ledger[c]))' = Sent(c, Len(ledger[c]))
    BY <1>1, <1>2, <1>3, <1>7 DEF Sent
  <2>2. SentCount(c)' = SentCount(c)
    BY <2>1 DEF SentCount
  <2> QED
    BY <1>4, <1>5, <1>7, <2>2
<1> QED
  BY <1>6, <1>7

\* The block of a mined nonce.
LEMMA BlockIsThere ==
    ASSUME HistoryTypes, NEW c \in Chains, NEW n \in 0 .. SentCount(c) - 1
    PROVE  /\ BlockOf(c, n) \in Sent(c, Len(ledger[c])) /\ BlockOf(c, n) \in Nat
           /\ NonceAt(c, BlockOf(c, n)) = n
<1>1. \E b \in Sent(c, Len(ledger[c])) : NonceAt(c, b) = n
  BY SentCountType, NonceIsMet DEF SentCount
<1>2. Sent(c, Len(ledger[c])) \in SUBSET Nat
  BY SentCountType, SentType
<1> QED
  BY <1>1, <1>2 DEF BlockOf

LEMMA HeldIsFinite ==
    ASSUME HistoryTypes, NEW c \in Chains,
           NEW S, S \subseteq (0 .. SentCount(c) - 1) \cup pending[c]
    PROVE  Finite(S) /\ S # Absent /\ OldestMined(c, S) \in Bounds
<1>1. SentCount(c) \in Nat /\ pending[c] \subseteq {SentCount(c)}
  BY SentCountType DEF HistoryTypes
<1>2. S \subseteq 0 .. SentCount(c)
  BY <1>1
<1>3. IsFiniteSet(0 .. SentCount(c))
  BY <1>1, FS_Interval
<1>4. Finite(S)
  <2>1. IsFiniteSet(S)
    BY <1>2, <1>3, FS_Subset
  <2>2. S \in SUBSET Nat
    BY <1>1, <1>2
  <2> QED
    BY <2>1, <2>2 DEF Finite
<1>5. S # Absent
  BY <1>2 DEF Absent
<1>6. OldestMined(c, S) \in Bounds
  <2> DEFINE blocks == {BlockOf(c, n) : n \in S \ pending[c]}
  <2>1. blocks \in SUBSET Nat
    BY BlockIsThere
  <2>2. NoBound \in Bounds
    BY DEF Bounds
  <2>3. OldestMined(c, S) = IF blocks = {} THEN NoBound ELSE Least(blocks)
    BY DEF OldestMined
  <2> QED
    <3> HIDE DEF blocks
    <3> QED
      BY <2>1, <2>2, <2>3, LeastIs DEF Bounds
<1> QED
  BY <1>4, <1>5, <1>6

\* What is held in memory, or was on disk.
LEMMA HydratedType ==
    ASSUME HistoryTypes, NEW c \in Chains
    PROVE  /\ Hydrated(c) \subseteq (0 .. SentCount(c) - 1) \cup pending[c]
           /\ Finite(Hydrated(c)) /\ Finite(Cached(c)) /\ Cached(c) \subseteq Hydrated(c)
           /\ OldestMined(c, Hydrated(c)) \in Bounds /\ OldestMined(c, Cached(c)) \in Bounds
<1>1. Hydrated(c) \subseteq (0 .. SentCount(c) - 1) \cup pending[c] /\ Cached(c) \subseteq Hydrated(c)
  BY DEF HistoryTypes, Hydrated, Cached
<1>2. Cached(c) \subseteq (0 .. SentCount(c) - 1) \cup pending[c]
  BY <1>1
<1> QED
  BY <1>1, <1>2, HeldIsFinite

-----------------------------------------------------------------------------
(* Pages. *)

LEMMA RawType ==
    ASSUME NEW c, NEW top \in Nat, NEW before \in Bounds
    PROVE  /\ Finite(Raw(c, top, before)) /\ Cardinality(Raw(c, top, before)) \in Nat
           /\ Cardinality(Raw(c, top, before)) <= PageSize
<1> DEFINE listed == {b \in 1 .. top : (before = NoBound \/ b <= before) /\ (c \in SentOnly => ledger[c][b] = "sent")}
           raw == {b \in listed : Cardinality(Above(listed, b)) < PageSize}
<1>1. Finite(listed)
  <2>1. IsFiniteSet(1 .. top) /\ listed \subseteq 1 .. top
    BY FS_Interval
  <2> QED
    BY <2>1, FS_Subset DEF Finite
<1>2. raw \subseteq listed /\ Raw(c, top, before) = raw
  BY DEF Raw
<1>3. \A b \in raw : Cardinality(Above(listed, b)) < PageSize
  OBVIOUS
<1> HIDE DEF raw, listed
<1>4. Finite(raw)
  BY <1>1, <1>2, FS_Subset DEF Finite
<1>5. Cardinality(raw) \in Nat /\ PageSize \in Nat
  BY <1>4, FS_CardinalityType, HistoryAssumption DEF Finite
<1>6. Cardinality(raw) <= PageSize
  <2> SUFFICES ASSUME raw # {} PROVE Cardinality(raw) <= PageSize
    BY <1>5, FS_EmptySet
  <2> DEFINE b == Least(raw)
             up == Above(listed, b)
  <2>1. b \in raw /\ b \in listed /\ \A x \in raw : x >= b
    BY <1>2, <1>4, LeastIs DEF Finite
  <2>2. IsFiniteSet(up) /\ Cardinality(up) \in Nat /\ Cardinality(up) < PageSize
    BY <1>1, <1>3, <2>1, RankBounds, FS_CardinalityType DEF Finite
  <2>3. raw \ {b} \subseteq up
    <3> SUFFICES ASSUME NEW x \in raw, x # b PROVE x \in up
      OBVIOUS
    <3>1. x \in listed /\ x \in Nat /\ b \in Nat /\ x >= b
      BY <1>2, <1>4, <2>1 DEF Finite
    <3>2. x > b
      BY <3>1
    <3> QED
      BY <3>1, <3>2 DEF Above
  <2> HIDE DEF b, up
  <2>4. Cardinality(raw \ {b}) <= Cardinality(up)
    BY <2>2, <2>3, FS_Subset
  <2>5. Cardinality(raw \ {b}) = Cardinality(raw) - 1
    BY <1>4, <2>1, FS_RemoveElement DEF Finite
  <2> QED
    BY <1>5, <2>2, <2>4, <2>5
<1> QED
  BY <1>2, <1>4, <1>5, <1>6

\* A page holds mined nonces, no more of them than its rows.
LEMMA PageType ==
    ASSUME HistoryTypes, NEW c \in Chains, NEW top \in Nat, NEW before \in Bounds
    PROVE  /\ SentOf(c, Raw(c, top, before)) \subseteq 0 .. SentCount(c) - 1
           /\ Finite(SentOf(c, Raw(c, top, before)))
           /\ Cardinality(SentOf(c, Raw(c, top, before))) <= PageSize
<1> DEFINE raw == Raw(c, top, before)
           sent == Sent(c, Len(ledger[c]))
           blocks == raw \cap sent
           page == {NonceAt(c, b) : b \in blocks}
           f == [b \in blocks |-> NonceAt(c, b)]
<1>1. Finite(raw) /\ Cardinality(raw) \in Nat /\ Cardinality(raw) <= PageSize /\ PageSize \in Nat
  BY RawType, HistoryAssumption
<1>2. IsFiniteSet(blocks) /\ Cardinality(blocks) <= Cardinality(raw) /\ Cardinality(blocks) \in Nat
  BY <1>1, FS_Subset, FS_CardinalityType DEF Finite
<1>3. page \subseteq 0 .. SentCount(c) - 1
  <2> SUFFICES ASSUME NEW b \in blocks PROVE NonceAt(c, b) \in 0 .. SentCount(c) - 1
    OBVIOUS
  <2>1. NonceAt(c, b) \in Nat /\ NonceAt(c, b) < Cardinality(sent)
    BY SentCountType, NonceBounds
  <2> QED
    BY <2>1, SentCountType DEF SentCount
<1>4. f \in Surjection(blocks, page)
  BY DEF Surjection
<1>5. IsFiniteSet(page) /\ Cardinality(page) <= Cardinality(blocks)
  <2> HIDE DEF f, page, blocks
  <2> QED
    BY <1>2, <1>4, FS_Surjection
<1>6. Cardinality(page) \in Nat
  BY <1>5, FS_CardinalityType
<1>7. SentOf(c, raw) = page
  BY DEF SentOf
<1>8. Cardinality(page) <= PageSize
  <2> HIDE DEF page, raw, blocks
  <2> QED
    BY <1>1, <1>2, <1>5, <1>6
<1>9. Finite(page)
  BY <1>3, <1>5 DEF Finite
<1> QED
  BY <1>3, <1>7, <1>8, <1>9

\* It leaves out no nonce between two of its own.
LEMMA PageIsWhole ==
    ASSUME HistoryTypes, NEW c \in Chains, NEW top \in Nat, NEW before \in Bounds,
           NEW o \in SentOf(c, Raw(c, top, before)), NEW n \in SentOf(c, Raw(c, top, before)),
           NEW k \in Nat, o < k, k < n
    PROVE  k \in SentOf(c, Raw(c, top, before))
<1> DEFINE listed == {b \in 1 .. top : (before = NoBound \/ b <= before) /\ (c \in SentOnly => ledger[c][b] = "sent")}
           raw == {b \in listed : Cardinality(Above(listed, b)) < PageSize}
           sent == Sent(c, Len(ledger[c]))
<1>1. Raw(c, top, before) = raw /\ SentOf(c, raw) = {NonceAt(c, b) : b \in raw \cap sent}
  BY DEF Raw, SentOf
<1>2. PICK bo \in raw \cap sent : NonceAt(c, bo) = o
  BY <1>1
<1>3. PICK bn \in raw \cap sent : NonceAt(c, bn) = n
  BY <1>1
<1>4. k \in 0 .. SentCount(c) - 1
  <2>1. n < SentCount(c) /\ n \in Nat
    BY <1>3, SentCountType, NonceBounds DEF SentCount
  <2> QED
    BY <2>1, SentCountType
<1>5. PICK b \in sent : NonceAt(c, b) = k
  BY <1>4, BlockIsThere
<1>6. bo \in Nat /\ b \in Nat /\ bn \in Nat /\ b \in 1 .. Len(ledger[c]) /\ ledger[c][b] = "sent"
  BY SentCountType, SentType DEF Sent
<1>7. bo < b /\ b < bn
  <2>1. o \in Nat /\ n \in Nat
    BY <1>2, <1>3, SentCountType, NonceBounds
  <2>2. bo # b /\ bn # b
    BY <1>2, <1>3, <1>5, <2>1
  <2>3. ~(b < bo) /\ ~(bn < b)
    <3>1. b < bo => k < o
      BY <1>2, <1>5, SentCountType, NoncesRise
    <3>2. bn < b => n < k
      BY <1>3, <1>5, SentCountType, NoncesRise
    <3> QED
      BY <2>1, <3>1, <3>2
  <2> QED
    BY <1>6, <2>2, <2>3
<1>8. b \in listed
  <2>1. before \in Int
    BY DEF Bounds, NoBound
  <2> QED
    BY <1>6, <1>7, <2>1
<1>9. Cardinality(Above(listed, b)) < PageSize
  <2>1. listed \in SUBSET Nat /\ IsFiniteSet(listed) /\ bo \in listed
    <3>1. IsFiniteSet(1 .. top) /\ listed \subseteq 1 .. top
      BY FS_Interval
    <3> QED
      BY <3>1, FS_Subset
  <2>2. Cardinality(Above(listed, bo)) < PageSize
    BY <1>2
  <2> HIDE DEF listed
  <2>3. Cardinality(Above(listed, b)) < Cardinality(Above(listed, bo))
    BY <1>7, <1>8, <2>1, RankFalls
  <2>4. Cardinality(Above(listed, b)) \in Nat /\ Cardinality(Above(listed, bo)) \in Nat /\ PageSize \in Nat
    BY <1>8, <2>1, RankBounds, FS_CardinalityType, HistoryAssumption
  <2> QED
    BY <2>2, <2>3, <2>4
<1>10. b \in raw \cap sent
  BY <1>8, <1>9
<1> QED
  BY <1>1, <1>5, <1>10

-----------------------------------------------------------------------------
(* Where a page lands. *)

\* Its rows above all of a history, the others, and those put below the table.
Newer(page, E) == {n \in page \ E : n > (IF E = {} THEN -1 ELSE Top(E))}
Older(page, E) == (page \ E) \ Newer(page, E)
Appended(E, O, shown) == IF O # {} /\ shown >= Cardinality(E) THEN Newest(O) ELSE <<>>

\* Newer rows go on top, and older ones below where the whole history is shown.
LEMMA HeadLands ==
    ASSUME NEW E, Finite(E), NEW N, Finite(N), NEW O, Finite(O), NEW q \in Seq(Nat), IsHead(q, E),
           \A n \in N, e \in E : n > e, \A e \in E \cup N, o \in O : e > o,
           Len(q) = Cardinality(E) \/ Len(q) >= Window,
           N # {} /\ O # {} => Cardinality(E) <= Window
    PROVE  LET a == Appended(E, O, Len(q) + Cardinality(N))
               l == (Newest(N) \o q) \o a
           IN  /\ l \in Seq(Nat) /\ Len(a) \in Nat /\ Len(l) = Len(q) + Cardinality(N) + Len(a)
               /\ IsHead(l, (E \cup N) \cup O)
               /\ Len(l) = Cardinality((E \cup N) \cup O) \/ Len(l) >= Window
<1> DEFINE S == E \cup N
           p == Newest(N) \o q
           a == Appended(E, O, Len(q) + Cardinality(N))
<1>0. a = IF O # {} /\ Len(q) + Cardinality(N) >= Cardinality(E) THEN Newest(O) ELSE <<>>
  BY DEF Appended
<1> HIDE DEF a
<1>1. /\ Finite(S) /\ Cardinality(S) = Cardinality(E) + Cardinality(N)
      /\ p \in Seq(Nat) /\ Len(p) = Len(q) + Cardinality(N)
      /\ IsHead(p, S)
  BY HeadGrows
<1>2. /\ Cardinality(E) \in Nat /\ Cardinality(N) \in Nat /\ Cardinality(O) \in Nat /\ Len(q) \in Nat
      /\ Window \in Nat /\ Len(p) \in Nat
  BY <1>1, FS_CardinalityType, LenProperties, HistoryAssumption DEF Finite
<1>3. \A s \in S, o \in O : s > o
  OBVIOUS
<1>4. /\ Finite(S \cup O) /\ Cardinality(S \cup O) = Cardinality(S) + Cardinality(O)
      /\ IsHead(p, S \cup O)
  <2> HIDE DEF S, p
  <2> QED
    BY <1>1, <1>3, HeadStays
<1>5. Len(q) <= Cardinality(E)
  BY DEF IsHead
<1>6. N = {} => Cardinality(N) = 0
  BY FS_EmptySet DEF Finite
<1> SUFFICES /\ p \o a \in Seq(Nat) /\ Len(a) \in Nat /\ Len(p \o a) = Len(q) + Cardinality(N) + Len(a)
             /\ IsHead(p \o a, S \cup O)
             /\ Len(p \o a) = Cardinality(S \cup O) \/ Len(p \o a) >= Window
  BY DEF a
<1>7. CASE O # {} /\ Len(q) + Cardinality(N) >= Cardinality(E)
  <2>1. a = Newest(O) /\ a \in Seq(Nat) /\ Len(a) \in Nat
    BY <1>0, <1>7, NewestRanks DEF Finite
  <2>2. Len(q) = Cardinality(E)
    <3>1. CASE N = {}
      BY <1>2, <1>5, <1>6, <1>7, <3>1
    <3>2. CASE N # {}
      BY <1>2, <1>5, <1>7, <3>2
    <3> QED
      BY <3>1, <3>2
  <2>3. Len(p) = Cardinality(S)
    BY <1>1, <2>2
  <2>4. /\ p \o Newest(O) \in Seq(Nat) /\ Len(p \o Newest(O)) = Cardinality(S \cup O)
        /\ IsHead(p \o Newest(O), S \cup O)
    <3> HIDE DEF S, p
    <3> QED
      BY <1>1, <1>3, <2>3, HeadAppends
  <2>5. Len(p \o a) = Len(p) + Len(a)
    <3> HIDE DEF S, p
    <3> QED
      BY <1>1, <2>1, ConcatProperties
  <2> QED
    <3> HIDE DEF S, p
    <3>1. Len(p \o a) = Len(q) + Cardinality(N) + Len(a)
      BY <1>1, <2>5
    <3> QED
      BY <2>1, <2>4, <3>1 DEF S, p
<1>8. CASE ~(O # {} /\ Len(q) + Cardinality(N) >= Cardinality(E))
  <2>1. a = <<>> /\ Len(a) = 0
    BY <1>0, <1>8
  <2>2. p \o a = p
    BY <1>1, <2>1, ConcatEmptySeq
  <2>3. Len(p) = Cardinality(S \cup O) \/ Len(p) >= Window
    <3>1. CASE O = {}
      <4>1. Cardinality(O) = 0
        BY <3>1, FS_EmptySet
      <4> HIDE DEF S, p
      <4> QED
        BY <1>1, <1>2, <1>4, <4>1
    <3>2. CASE O # {}
      <4>1. Len(q) >= Window
        BY <1>2, <1>8, <3>2
      <4> HIDE DEF S, p
      <4> QED
        BY <1>1, <1>2, <4>1
    <3> QED
      BY <3>1, <3>2
  <2>4. Len(p) = Len(q) + Cardinality(N) + Len(a)
    BY <1>1, <1>2, <2>1
  <2> QED
    <3> HIDE DEF S, p
    <3>1. Len(a) \in Nat
      BY <2>1
    <3> QED
      BY <1>1, <1>4, <2>2, <2>3, <2>4, <3>1 DEF S, p
<1> QED
  BY <1>7, <1>8

\* A history without a hole, and a page above and below it: it is shorter than
\* the page.
LEMMA PageCovers ==
    ASSUME HistoryTypes, NEW c \in Chains, NEW top \in Nat, NEW before \in Bounds,
           NEW E, Finite(E), ~Gap(E),
           NEW n \in SentOf(c, Raw(c, top, before)), \A e \in E : n > e,
           NEW o \in SentOf(c, Raw(c, top, before)), \A e \in E : e > o
    PROVE  Cardinality(E) <= Window
<1> DEFINE page == SentOf(c, Raw(c, top, before))
<1>1. Finite(page) /\ Cardinality(page) <= PageSize /\ PageSize \in Nat /\ Window \in Nat /\ PageSize <= Window
  BY PageType, HistoryAssumption
<1>2. E \subseteq page
  <2> SUFFICES ASSUME NEW e \in E PROVE e \in page
    OBVIOUS
  <2>1. e \in Nat /\ n > e /\ e > o /\ n \in Nat /\ o \in Nat
    BY <1>1 DEF Finite
  <2>2. o < e /\ e < n
    BY <2>1
  <2> QED
    BY <2>1, <2>2, PageIsWhole
<1>3. Cardinality(E) <= Cardinality(page) /\ Cardinality(E) \in Nat /\ Cardinality(page) \in Nat
  BY <1>1, <1>2, FS_Subset, FS_CardinalityType DEF Finite
<1> HIDE DEF page
<1> QED
  BY <1>1, <1>3

-----------------------------------------------------------------------------
(* The steps. *)

TableStep ==
    /\ selected' /\ active' => renderedFor' = chain'
    /\ \/ HeadShown'
       \/ renderedFor' = renderedFor /\ (~HeadShown \/ Astray \/ Gap(Cached(chain)))

LEMMA HistoryStarts == ASSUME HistoryInit PROVE HistoryInv
<1> USE DEF HistoryInit, Session
<1>1. ledger \in [Chains -> Seq({"sent", "received"})]
  BY HistoryAssumption
<1>2. \A c \in Chains : Len(ledger[c]) \in Nat
  BY <1>1, LenProperties
<1>3. \A c \in Chains : saved[c] \subseteq 0 .. SentCount(c) - 1 /\ saved[c] \in SUBSET Nat
  <2> SUFFICES ASSUME NEW c \in Chains PROVE SentIn(c, Len(ledger[c])) \subseteq 0 .. SentCount(c) - 1
    OBVIOUS
  <2>1. \A b \in Sent(c, Len(ledger[c])) : NonceAt(c, b) \in 0 .. SentCount(c) - 1
    BY <1>2, NonceBounds, SentType DEF SentCount
  <2> QED
    BY <2>1 DEF SentIn
<1>4. saved \in [Chains -> SUBSET Nat]
  BY <1>3
<1>5. rows \in Seq(Nat) /\ cache \in [Chains -> SUBSET Int] /\ pending \in [Chains -> SUBSET Nat]
      /\ count \in [Chains -> Nat] /\ workers = {} /\ \A c \in Chains : cache[c] = Absent /\ pending[c] = {}
  BY DEF Absent
<1>6. HistoryTypes
  BY <1>1, <1>3, <1>4, <1>5 DEF HistoryTypes
<1>7. ViewRendered
  BY DEF ViewRendered
<1> QED
  BY <1>6, <1>7 DEF HistoryInv

\* The table and the history under it are left alone.
LEMMA TableAlone ==
    ASSUME UNCHANGED <<renderedFor, rows, count>>,
           renderedFor # None => cache'[renderedFor] = cache[renderedFor]
    PROVE  HeadShown' <=> HeadShown
<1>1. CASE renderedFor = None
  BY <1>1 DEF HeadShown
<1>2. CASE renderedFor # None
  <2>1. Cached(renderedFor)' = Cached(renderedFor)
    BY <1>2 DEF Cached
  <2>2. IsHead(rows, Cached(renderedFor))' <=> IsHead(rows, Cached(renderedFor))
    BY <2>1 DEF IsHead, Newest, Above
  <2> QED
    BY <1>2, <2>1, <2>2 DEF HeadShown
<1> QED
  BY <1>1, <1>2

\* The history, the table and the view are left alone.
LEMMA ViewAlone ==
    ASSUME HistoryInv, UNCHANGED <<saved, cache, count, renderedFor, rows, chain, selected, active>>,
           ledger' \in [Chains -> Seq({"sent", "received"})],
           \A c \in Chains : SentCount(c)' \in Nat /\ SentCount(c)' >= SentCount(c),
           pending' \in [Chains -> SUBSET Nat],
           \A c \in Chains : pending'[c] \subseteq {SentCount(c)'},
           \A c \in Chains : pending[c] \subseteq (0 .. SentCount(c)' - 1) \cup pending'[c],
           \A w \in workers' : w.chain \in Chains /\ w.before \in Bounds
    PROVE  HistoryInv' /\ TableStep
<1>1. \A c \in Chains : SentCount(c) \in Nat
  BY SentCountType DEF HistoryInv
<1>2. ASSUME NEW c \in Chains
      PROVE  /\ saved[c] \subseteq 0 .. SentCount(c)' - 1
             /\ cache[c] = Absent \/ cache[c] \subseteq (0 .. SentCount(c)' - 1) \cup pending'[c]
  <2>1. 0 .. SentCount(c) - 1 \subseteq 0 .. SentCount(c)' - 1
    BY <1>1
  <2>2. pending[c] \subseteq (0 .. SentCount(c)' - 1) \cup pending'[c]
    OBVIOUS
  <2> QED
    BY <2>1, <2>2 DEF HistoryInv, HistoryTypes
<1>3. HistoryTypes'
  BY <1>2 DEF HistoryInv, HistoryTypes
<1>4. ViewRendered'
  BY DEF HistoryInv, ViewRendered, Cached, Hydrated
<1>5. HeadShown' <=> HeadShown
  BY TableAlone
<1> QED
  BY <1>3, <1>4, <1>5 DEF HistoryInv, TableStep, ViewRendered

\* ... and the chain too.
LEMMA AllAlone ==
    ASSUME HistoryInv,
           UNCHANGED <<ledger, saved, cache, pending, count, renderedFor, rows, chain, selected, active>>,
           \A w \in workers' : w.chain \in Chains /\ w.before \in Bounds
    PROVE  HistoryInv' /\ TableStep
<1>1. \A c \in Chains : SentCount(c) \in Nat /\ SentCount(c)' = SentCount(c)
  BY SentCountType DEF HistoryInv, SentCount, Sent
<1>2. /\ ledger' \in [Chains -> Seq({"sent", "received"})] /\ pending' \in [Chains -> SUBSET Nat]
      /\ \A c \in Chains : SentCount(c)' \in Nat /\ SentCount(c)' >= SentCount(c)
      /\ \A c \in Chains : pending'[c] \subseteq {SentCount(c)'}
      /\ \A c \in Chains : pending[c] \subseteq (0 .. SentCount(c)' - 1) \cup pending'[c]
  BY <1>1 DEF HistoryInv, HistoryTypes
<1> QED
  BY <1>2, ViewAlone

LEMMA StepsElsewhere ==
    ASSUME HistoryInv,
           \/ LeaveTab \/ PollNonce \/ HoldsElapse \/ UNCHANGED historyVars
           \/ \E c \in Chains : CheckFails(c) \/ Index(c)
    PROVE  HistoryInv' /\ TableStep
<1>1. CASE LeaveTab
  <2>1. UNCHANGED <<worldVars, cache, pending, bookVars, panelVars, chain, selected>> /\ active' = FALSE
    BY <1>1 DEF LeaveTab, Move
  <2>2. \A c \in Chains : SentCount(c)' = SentCount(c)
    BY <2>1 DEF SentCount, Sent, worldVars
  <2>3. HistoryTypes'
    BY <2>1, <2>2 DEF HistoryInv, HistoryTypes, worldVars, bookVars, panelVars
  <2>4. ViewRendered'
    BY <2>1 DEF HistoryInv, ViewRendered, Cached, Hydrated, worldVars, panelVars
  <2>5. HeadShown' <=> HeadShown
    BY <2>1, TableAlone DEF panelVars
  <2>6. renderedFor' = renderedFor /\ ~active'
    BY <2>1 DEF panelVars
  <2> QED
    BY <2>3, <2>4, <2>5, <2>6 DEF HistoryInv, TableStep
<1>2. CASE \/ PollNonce \/ HoldsElapse \/ UNCHANGED historyVars
           \/ \E c \in Chains : CheckFails(c) \/ Index(c)
  <2>1. UNCHANGED <<ledger, saved, cache, pending, count, renderedFor, rows, chain, selected, active, workers>>
    BY <1>2 DEF PollNonce, HoldsElapse, CheckFails, Index, World, historyVars, worldVars, bookVars,
                panelVars, viewVars
  <2>2. \A w \in workers' : w.chain \in Chains /\ w.before \in Bounds
    BY <2>1 DEF HistoryInv, HistoryTypes
  <2> QED
    BY <2>1, <2>2, AllAlone
<1> QED
  BY <1>1, <1>2

LEMMA StepChain ==
    ASSUME HistoryInv, NEW c \in Chains,
           Mine(c) \/ \E k \in {"sent", "received"} : Elsewhere(c, k)
    PROVE  HistoryInv' /\ TableStep
<1>1. PICK k \in {"sent", "received"} :
         /\ ledger' = [ledger EXCEPT ![c] = Append(@, k)]
         /\ \/ k = "sent" /\ pending' = [pending EXCEPT ![c] = {}]
            \/ pending' = pending /\ (k = "sent" => pending[c] = {})
         /\ UNCHANGED <<saved, cache, count, renderedFor, rows, chain, selected, active, workers>>
  BY DEF Mine, Elsewhere, World, panelVars, bookVars, viewVars
<1>2. /\ ledger' \in [Chains -> Seq({"sent", "received"})]
      /\ \A d \in Chains : SentCount(d)' =
            IF d = c /\ k = "sent" THEN SentCount(d) + 1 ELSE SentCount(d)
  BY <1>1, SentAppended DEF HistoryInv
<1>3. \A d \in Chains : SentCount(d) \in Nat
  BY SentCountType DEF HistoryInv
<1>4. /\ pending \in [Chains -> SUBSET Nat] /\ pending' \in [Chains -> SUBSET Nat]
      /\ \A d \in Chains : pending[d] \subseteq {SentCount(d)}
  BY <1>1 DEF HistoryInv, HistoryTypes
<1>5. \A d \in Chains : pending'[d] \subseteq {SentCount(d)'}
                        /\ pending[d] \subseteq (0 .. SentCount(d)' - 1) \cup pending'[d]
  <2> SUFFICES ASSUME NEW d \in Chains
               PROVE  pending'[d] \subseteq {SentCount(d)'}
                      /\ pending[d] \subseteq (0 .. SentCount(d)' - 1) \cup pending'[d]
    OBVIOUS
  <2>1. CASE d = c /\ k = "sent"
    <3>1. pending'[d] = {}
      BY <1>1, <1>4, <2>1
    <3> QED
      BY <1>2, <1>3, <1>4, <2>1, <3>1
  <2>2. CASE ~(d = c /\ k = "sent")
    <3>1. pending'[d] = pending[d] /\ SentCount(d)' = SentCount(d)
      BY <1>1, <1>2, <1>4, <2>2
    <3> QED
      BY <1>4, <3>1
  <2> QED
    BY <2>1, <2>2
<1>6. \A w \in workers' : w.chain \in Chains /\ w.before \in Bounds
  BY <1>1 DEF HistoryInv, HistoryTypes
<1>7. \A d \in Chains : SentCount(d)' \in Nat /\ SentCount(d)' >= SentCount(d)
  BY <1>2, <1>3
<1> QED
  BY <1>1, <1>2, <1>4, <1>5, <1>6, <1>7, ViewAlone

\* What pinning a history in memory changes.
LEMMA PinnedIs ==
    ASSUME HistoryInv, NEW c \in Chains
    PROVE  /\ Pinned(c) \in [Chains -> SUBSET Int]
           /\ \A d \in Chains :
                 Pinned(c)[d] = Absent \/ Pinned(c)[d] \subseteq (0 .. SentCount(d) - 1) \cup pending[d]
           /\ \A d \in Chains \ {c} : Pinned(c)[d] = cache[d]
           /\ renderedFor = c => Pinned(c) = cache
           /\ Pinned(c)[c] = Absent => Hydrated(c) = {} /\ saved[c] = {}
           /\ Pinned(c)[c] # Absent => Pinned(c)[c] = Hydrated(c)
<1>1. cache \in [Chains -> SUBSET Int] /\ saved[c] \in SUBSET Nat /\ saved[c] \subseteq 0 .. SentCount(c) - 1
  BY DEF HistoryInv, HistoryTypes
<1>2. Absent \in SUBSET Int /\ saved[c] # Absent
  BY <1>1 DEF Absent
<1>3. CASE cache[c] = Absent /\ saved[c] # {}
  <2>1. Pinned(c) = [cache EXCEPT ![c] = saved[c]] /\ Hydrated(c) = saved[c]
    BY <1>3 DEF Pinned, Hydrated
  <2>2. Pinned(c)[c] = saved[c] /\ Pinned(c) \in [Chains -> SUBSET Int]
        /\ \A d \in Chains \ {c} : Pinned(c)[d] = cache[d]
    BY <1>1, <2>1
  <2>3. renderedFor # c
    BY <1>3, HistoryAssumption DEF HistoryInv, ViewRendered, Cached, Hydrated
  <2> QED
    BY <1>1, <1>2, <2>1, <2>2, <2>3 DEF HistoryInv, HistoryTypes
<1>4. CASE ~(cache[c] = Absent /\ saved[c] # {})
  <2>1. Pinned(c) = cache
    BY <1>4 DEF Pinned
  <2> QED
    BY <1>1, <1>4, <2>1 DEF HistoryInv, HistoryTypes, Hydrated
<1> QED
  BY <1>3, <1>4

\* The rows of the next state are a head of its history.
LEMMA HeadNext ==
    ASSUME NEW q, NEW S, rows' = q, Cached(renderedFor)' = S, IsHead(q, S)
    PROVE  IsHead(rows, Cached(renderedFor))'
  OBVIOUS

\* What of a view _refresh renders.
LEMMA RefreshIs ==
    ASSUME HistoryInv, NEW c \in Chains, NEW opened \in BOOLEAN, Refresh(c, opened),
           NEW cap, cap = IF Cardinality(Hydrated(c)) < Window THEN Cardinality(Hydrated(c)) ELSE Window
    PROVE  /\ cache' = Pinned(c)
           /\ \/ /\ renderedFor = c \/ (~opened /\ Pinned(c)[c] = Absent)
                 /\ UNCHANGED <<count, renderedFor, rows>>
              \/ /\ Pinned(c)[c] # Absent /\ renderedFor' = c
                 /\ count' = [count EXCEPT ![c] = cap]
                 /\ rows' = SubSeq(Newest(Hydrated(c)), 1, cap)
              \/ /\ Pinned(c)[c] = Absent /\ renderedFor' = c
                 /\ count' = [count EXCEPT ![c] = 0] /\ rows' = <<>>
           /\ \A w \in workers' : w.chain \in Chains /\ w.before \in Bounds
<1>1. cache' = Pinned(c) /\ count' = Rendered(c, opened).count /\ renderedFor' = Rendered(c, opened).for
      /\ rows' = Rendered(c, opened).rows
  BY DEF Refresh
<1>2. Pinned(c)[c] # Absent => Pinned(c)[c] = Hydrated(c)
  BY PinnedIs
<1>3. \A w \in workers' : w.chain \in Chains /\ w.before \in Bounds
  <2>1. OldestMined(c, Hydrated(c)) \in Bounds
    BY HydratedType DEF HistoryInv
  <2>2. \A w \in workers : w.chain \in Chains /\ w.before \in Bounds
    BY DEF HistoryInv, HistoryTypes
  <2>3. \A w \in workers' : w \in workers \/ (w.chain = c /\ w.before = OldestMined(c, Hydrated(c)))
    BY DEF Refresh
  <2> QED
    BY <2>1, <2>2, <2>3
<1>4. CASE renderedFor = c \/ (~opened /\ Pinned(c)[c] = Absent)
  <2>1. Rendered(c, opened) = [count |-> count, for |-> renderedFor, rows |-> rows, note |-> note]
    BY <1>4 DEF Rendered
  <2>2. UNCHANGED <<count, renderedFor, rows>>
    BY <1>1, <2>1
  <2> QED
    BY <1>1, <1>3, <1>4, <2>2
<1>5. CASE renderedFor # c /\ Pinned(c)[c] # Absent
  <2>1. Rendered(c, opened) =
          [count |-> [count EXCEPT ![c] = cap], for |-> c,
           rows |-> SubSeq(Newest(Hydrated(c)), 1, cap),
           note |-> IF cap = 0 THEN "empty" ELSE None]
    BY <1>2, <1>5 DEF Rendered
  <2> QED
    <3>1. /\ renderedFor' = c /\ count' = [count EXCEPT ![c] = cap]
          /\ rows' = SubSeq(Newest(Hydrated(c)), 1, cap)
      <4> DEFINE z == SubSeq(Newest(Hydrated(c)), 1, cap)
                 k == [count EXCEPT ![c] = cap]
      <4>1. Rendered(c, opened) = [count |-> k, for |-> c, rows |-> z,
                                   note |-> IF cap = 0 THEN "empty" ELSE None]
        BY <2>1
      <4> HIDE DEF z, k
      <4>2. renderedFor' = c /\ count' = k /\ rows' = z
        BY <1>1, <4>1
      <4> QED
        BY <4>2 DEF z, k
    <3> QED
      BY <1>1, <1>3, <1>5, <3>1
<1>6. CASE renderedFor # c /\ Pinned(c)[c] = Absent /\ opened
  <2>1. Rendered(c, opened) =
          [count |-> [count EXCEPT ![c] = 0], for |-> c, rows |-> <<>>, note |-> "loading"]
    BY <1>6 DEF Rendered
  <2> QED
    <3>1. renderedFor' = c /\ count' = [count EXCEPT ![c] = 0] /\ rows' = <<>>
      BY <1>1, <2>1
    <3> QED
      BY <1>1, <1>3, <1>6, <3>1
<1> QED
  BY <1>4, <1>5, <1>6

\* Of a table that begins, the rows are a window of the newest.
LEMMA TableBegins ==
    ASSUME HistoryInv, NEW c \in Chains,
           NEW cap, cap = IF Cardinality(Hydrated(c)) < Window THEN Cardinality(Hydrated(c)) ELSE Window,
           NEW q, q = SubSeq(Newest(Hydrated(c)), 1, cap)
    PROVE  /\ cap \in Nat /\ q \in Seq(Nat) /\ Len(q) = cap /\ IsHead(q, Hydrated(c))
           /\ Len(q) = Cardinality(Hydrated(c)) \/ Len(q) >= Window
<1>1. Finite(Hydrated(c))
  BY HydratedType DEF HistoryInv
<1>2. Cardinality(Hydrated(c)) \in Nat /\ Window \in Nat
  BY <1>1, FS_CardinalityType, HistoryAssumption DEF Finite
<1>3. cap \in 0 .. Cardinality(Hydrated(c)) /\ cap \in Nat
  BY <1>2
<1> QED
  BY <1>1, <1>2, <1>3, WindowIsHead

\* A history without rows is shown whole by an empty table.
LEMMA EmptyIsHead == Finite({}) /\ Cardinality({}) = 0 /\ <<>> \in Seq(Nat) /\ IsHead(<<>>, {})
<1>1. Finite({}) /\ Cardinality({}) = 0
  BY FS_EmptySet DEF Finite
<1>2. SubSeq(Newest({}), 1, 0) = <<>>
  <2>1. Newest({}) \in Seq(Nat)
    BY <1>1, NewestRanks DEF Finite
  <2> QED
    BY <2>1, SubSeqEmpty
<1> QED
  BY <1>1, <1>2 DEF IsHead

LEMMA RefreshStep ==
    ASSUME HistoryInv, NEW c \in Chains, NEW opened \in BOOLEAN, Refresh(c, opened),
           UNCHANGED <<ledger, saved, pending>>, chain' = c, selected' = TRUE, active' = opened
    PROVE  HistoryInv' /\ TableStep
<1> DEFINE cap == IF Cardinality(Hydrated(c)) < Window THEN Cardinality(Hydrated(c)) ELSE Window
           q == SubSeq(Newest(Hydrated(c)), 1, cap)
<1>1. /\ cache' = Pinned(c)
      /\ \/ /\ renderedFor = c \/ (~opened /\ Pinned(c)[c] = Absent)
            /\ UNCHANGED <<count, renderedFor, rows>>
         \/ /\ Pinned(c)[c] # Absent /\ renderedFor' = c
            /\ count' = [count EXCEPT ![c] = cap]
            /\ rows' = q
         \/ /\ Pinned(c)[c] = Absent /\ renderedFor' = c
            /\ count' = [count EXCEPT ![c] = 0] /\ rows' = <<>>
      /\ \A w \in workers' : w.chain \in Chains /\ w.before \in Bounds
  BY RefreshIs
<1>2. /\ cap \in Nat /\ q \in Seq(Nat) /\ Len(q) = cap /\ IsHead(q, Hydrated(c))
      /\ Len(q) = Cardinality(Hydrated(c)) \/ Len(q) >= Window
  BY TableBegins
<1> HIDE DEF cap, q
<1>3. /\ Pinned(c) \in [Chains -> SUBSET Int]
      /\ \A d \in Chains :
            Pinned(c)[d] = Absent \/ Pinned(c)[d] \subseteq (0 .. SentCount(d) - 1) \cup pending[d]
      /\ \A d \in Chains \ {c} : Pinned(c)[d] = cache[d]
      /\ renderedFor = c => Pinned(c) = cache
      /\ Pinned(c)[c] = Absent => Hydrated(c) = {} /\ saved[c] = {}
      /\ Pinned(c)[c] # Absent => Pinned(c)[c] = Hydrated(c)
  BY PinnedIs
<1>4. \A d \in Chains : SentCount(d)' = SentCount(d)
  BY DEF SentCount, Sent
<1>5. /\ count \in [Chains -> Nat] /\ rows \in Seq(Nat) /\ renderedFor \in Chains \cup {None}
      /\ None \notin Chains
  BY HistoryAssumption DEF HistoryInv, HistoryTypes
<1>6. count' \in [Chains -> Nat] /\ rows' \in Seq(Nat) /\ renderedFor' \in Chains \cup {None}
  <2>1. [count EXCEPT ![c] = cap] \in [Chains -> Nat] /\ [count EXCEPT ![c] = 0] \in [Chains -> Nat]
    BY <1>2, <1>5
  <2>2. count' \in [Chains -> Nat]
    BY <1>1, <1>5, <2>1
  <2>3. rows' \in Seq(Nat)
    BY <1>1, <1>2, <1>5, EmptyIsHead
  <2>4. renderedFor' \in Chains \cup {None}
    BY <1>1, <1>5
  <2> QED
    BY <2>2, <2>3, <2>4
<1>7. HistoryTypes'
  <2>1. cache' \in [Chains -> SUBSET Int]
        /\ \A d \in Chains : cache'[d] = Absent \/ cache'[d] \subseteq (0 .. SentCount(d)' - 1) \cup pending'[d]
    BY <1>1, <1>3, <1>4
  <2>2. \A d \in Chains : saved'[d] \subseteq 0 .. SentCount(d)' - 1 /\ pending'[d] \subseteq {SentCount(d)'}
    BY <1>4 DEF HistoryInv, HistoryTypes
  <2> QED
    BY <1>1, <1>6, <2>1, <2>2 DEF HistoryInv, HistoryTypes
<1>8. opened => renderedFor' = c
  BY <1>1
<1>9. renderedFor' # None => Cached(renderedFor)' = Hydrated(renderedFor)'
  <2>1. CASE renderedFor' = c
    BY <1>1, <1>3, <2>1 DEF Cached, Hydrated
  <2>2. CASE renderedFor' # c /\ renderedFor' # None
    <3>1. renderedFor' = renderedFor /\ renderedFor \in Chains \ {c}
      BY <1>1, <1>5, <2>2
    <3>2. cache'[renderedFor] = cache[renderedFor]
      BY <1>1, <1>3, <3>1
    <3> QED
      BY <2>2, <3>1, <3>2 DEF HistoryInv, ViewRendered, Cached, Hydrated
  <2> QED
    BY <2>1, <2>2
<1>10. ViewRendered'
  BY <1>8, <1>9 DEF ViewRendered
<1>11. TableStep
  <2>1. CASE UNCHANGED <<count, renderedFor, rows>>
    <3>1. renderedFor # None => cache'[renderedFor] = cache[renderedFor]
      BY <1>1, <1>3, <1>5
    <3>2. HeadShown' <=> HeadShown
      BY <2>1, <3>1, TableAlone
    <3> QED
      BY <1>8, <2>1, <3>2 DEF TableStep
  <2>2. CASE /\ Pinned(c)[c] # Absent /\ renderedFor' = c
             /\ count' = [count EXCEPT ![c] = cap]
             /\ rows' = q
    <3>1. Cached(renderedFor)' = Hydrated(c) /\ count'[c] = cap
      BY <1>1, <1>3, <1>5, <2>2 DEF Cached
    <3>2. IsHead(rows, Cached(renderedFor))'
      <4>1. IsHead(q, Hydrated(c))
        BY <1>2
      <4>2. rows' = q /\ Cached(renderedFor)' = Hydrated(c)
        BY <2>2, <3>1
      <4> QED
        BY <4>1, <4>2, HeadNext
    <3>3. HeadShown'
      BY <1>2, <2>2, <3>1, <3>2 DEF HeadShown
    <3> QED
      BY <1>8, <3>3 DEF TableStep
  <2>3. CASE /\ Pinned(c)[c] = Absent /\ renderedFor' = c
             /\ count' = [count EXCEPT ![c] = 0] /\ rows' = <<>>
    <3>1. Cached(renderedFor)' = {} /\ count'[c] = 0 /\ Len(<<>>) = 0
      BY <1>1, <1>5, <2>3 DEF Cached
    <3>2. IsHead(rows, Cached(renderedFor))'
      BY <2>3, <3>1, EmptyIsHead DEF IsHead, Newest, Above
    <3>3. HeadShown'
      BY <2>3, <3>1, <3>2, EmptyIsHead DEF HeadShown
    <3> QED
      BY <1>8, <3>3 DEF TableStep
  <2> QED
    BY <1>1, <2>1, <2>2, <2>3
<1> QED
  BY <1>7, <1>10, <1>11 DEF HistoryInv

LEMMA StepOfView ==
    ASSUME HistoryInv,
           SelectAccount \/ NoAccount \/ OpenTab \/ \E c \in Chains : SwitchChain(c)
    PROVE  HistoryInv' /\ TableStep
<1>1. UNCHANGED <<ledger, saved, pending>>
  BY DEF SelectAccount, NoAccount, OpenTab, SwitchChain, Move, worldVars
<1>2. chain \in Chains /\ selected \in BOOLEAN /\ active \in BOOLEAN
  BY DEF HistoryInv, HistoryTypes
<1>3. CASE SelectAccount
  <2>1. Refresh(chain, active) /\ selected' = TRUE /\ chain' = chain /\ active' = active
    BY <1>3 DEF SelectAccount
  <2> QED
    BY <1>1, <1>2, <2>1, RefreshStep
<1>4. CASE OpenTab /\ selected
  <2>1. Refresh(chain, TRUE) /\ selected' = TRUE /\ chain' = chain /\ active' = TRUE
    BY <1>2, <1>4 DEF OpenTab
  <2> QED
    BY <1>1, <1>2, <2>1, RefreshStep
<1>5. ASSUME NEW c \in Chains, SwitchChain(c), selected PROVE HistoryInv' /\ TableStep
  <2>1. Refresh(c, active) /\ selected' = TRUE /\ chain' = c /\ active' = active
    BY <1>2, <1>5 DEF SwitchChain
  <2> QED
    BY <1>1, <1>2, <2>1, RefreshStep
<1>6. ASSUME ~selected', renderedFor' = None, UNCHANGED <<cache, count>>, rows' \in Seq(Nat),
             chain' \in Chains, selected' \in BOOLEAN, active' \in BOOLEAN, workers' = workers
      PROVE  HistoryInv' /\ TableStep
  <2>1. \A d \in Chains : SentCount(d)' = SentCount(d)
    BY <1>1 DEF SentCount, Sent
  <2>2. HistoryTypes'
    BY <1>1, <1>6, <2>1 DEF HistoryInv, HistoryTypes
  <2> QED
    BY <1>6, <2>2 DEF HistoryInv, ViewRendered, TableStep, HeadShown
<1>7. CASE NoAccount
  <2>1. rows' = <<>> /\ rows' \in Seq(Nat)
    BY <1>7, EmptyIsHead DEF NoAccount
  <2>2. ~selected' /\ selected' \in BOOLEAN /\ renderedFor' = None
        /\ UNCHANGED <<cache, count, chain, active, workers>>
    BY <1>7 DEF NoAccount, bookVars
  <2> QED
    BY <1>2, <1>6, <2>1, <2>2
<1>8. CASE (OpenTab \/ \E c \in Chains : SwitchChain(c)) /\ ~selected
  <2>1. UNCHANGED <<cache, count, rows, renderedFor, workers, selected>>
    BY <1>8 DEF OpenTab, SwitchChain, bookVars, panelVars
  <2>2. chain' \in Chains /\ active' \in BOOLEAN
    BY <1>2, <1>8 DEF OpenTab, SwitchChain
  <2>3. renderedFor = None /\ rows \in Seq(Nat)
    BY <1>8 DEF HistoryInv, HistoryTypes, ViewRendered
  <2> QED
    BY <1>2, <1>6, <1>8, <2>1, <2>2, <2>3
<1> QED
  BY <1>2, <1>3, <1>4, <1>5, <1>7, <1>8

LEMMA StepScroll == ASSUME HistoryInv, Scroll PROVE HistoryInv' /\ TableStep
<1> DEFINE S == Cached(chain)
           to == IF count[chain] + Window < Len(Newest(S)) THEN count[chain] + Window ELSE Len(Newest(S))
           more == SubSeq(Newest(S), count[chain] + 1, to)
<1>1. selected /\ active /\ UNCHANGED <<ledger, saved, cache, pending, chain, selected, active, renderedFor>>
  BY DEF Scroll, worldVars, viewVars, panelVars
<1>2. renderedFor = chain /\ chain \in Chains /\ renderedFor # None
  BY <1>1, HistoryAssumption DEF HistoryInv, HistoryTypes, ViewRendered
<1>3. Finite(S) /\ OldestMined(chain, S) \in Bounds
  BY <1>2, HydratedType DEF HistoryInv
<1>4. Newest(S) \in Seq(Nat) /\ Len(Newest(S)) = Cardinality(S) /\ Cardinality(S) \in Nat
  BY <1>3, NewestRanks DEF Finite
<1>5. count \in [Chains -> Nat] /\ rows \in Seq(Nat) /\ Window \in Nat
  BY HistoryAssumption DEF HistoryInv, HistoryTypes
<1>6. CASE count[chain] < Len(Newest(S))
  <2>1. rows' = rows \o more /\ count' = [count EXCEPT ![chain] = to] /\ workers' = workers
    BY <1>6 DEF Scroll, bookVars
  <2>2. count[chain] \in Nat /\ to \in Nat /\ to <= Cardinality(S) /\ to >= count[chain] /\ (to = Cardinality(S) \/ to >= Window)
    BY <1>2, <1>4, <1>5, <1>6
  <2> HIDE DEF S, to
  <2>3. more \in Seq(Nat)
    <3>1. \A i \in count[chain] + 1 .. to : Newest(S)[i] \in Nat
      BY <1>4, <2>2, LenProperties
    <3> QED
      BY <1>4, <2>2, <3>1, SubSeqProperties
  <2>4. rows' \in Seq(Nat) /\ count' \in [Chains -> Nat] /\ count'[chain] = to
    BY <1>2, <1>5, <2>1, <2>2, <2>3, ConcatProperties
  <2>5. HistoryInv'
    <3>1. \A d \in Chains : SentCount(d)' = SentCount(d)
      BY <1>1 DEF SentCount, Sent
    <3>2. HistoryTypes'
      BY <1>1, <2>1, <2>4, <3>1 DEF HistoryInv, HistoryTypes
    <3>3. ViewRendered'
      BY <1>1 DEF HistoryInv, ViewRendered, Cached, Hydrated
    <3> QED
      BY <3>2, <3>3 DEF HistoryInv
  <2>6. ASSUME HeadShown PROVE HeadShown'
    <3>1. IsHead(rows, S) /\ Len(rows) = count[chain]
      BY <1>2, <2>6 DEF HeadShown, S
    <3>2. Len(rows) \in Nat /\ to \in Len(rows) .. Cardinality(S)
      BY <1>4, <2>2, <3>1
    <3>3. rows' = rows \o SubSeq(Newest(S), Len(rows) + 1, to)
      BY <2>1, <3>1
    <3>4. Len(rows') = to /\ IsHead(rows', S)
      <4>1. /\ Len(rows \o SubSeq(Newest(S), Len(rows) + 1, to)) = to
            /\ IsHead(rows \o SubSeq(Newest(S), Len(rows) + 1, to), S)
        BY <1>3, <1>5, <3>1, <3>2, HeadReveals
      <4> QED
        BY <3>3, <4>1
    <3>5. Cached(renderedFor)' = S
      BY <1>1, <1>2 DEF Cached, S
    <3>6. IsHead(rows, Cached(renderedFor))'
      BY <3>4, <3>5, HeadNext
    <3> QED
      BY <1>1, <1>2, <2>2, <2>4, <3>4, <3>5, <3>6 DEF HeadShown
  <2> QED
    BY <1>1, <1>2, <2>5, <2>6 DEF TableStep
<1>7. CASE ~(count[chain] < Len(Newest(S)))
  <2>1. UNCHANGED panelVars /\ workers' = workers \cup {Worker(chain, TRUE, OldestMined(chain, S), indexed[chain])}
    BY <1>7 DEF Scroll
  <2>2. \A w \in workers' : w.chain \in Chains /\ w.before \in Bounds
    BY <1>2, <1>3, <2>1 DEF HistoryInv, HistoryTypes, Worker
  <2> QED
    BY <1>1, <2>1, <2>2, AllAlone DEF panelVars
<1> QED
  BY <1>6, <1>7

LEMMA StepInsertPending ==
    ASSUME HistoryInv, NEW c \in Chains, InsertPending(c)
    PROVE  HistoryInv' /\ TableStep
<1> DEFINE n == SentCount(c)
           S == Hydrated(c)
           N == {n}
<1>1. /\ pending[c] = {} /\ cache' = [cache EXCEPT ![c] = S \cup N] /\ pending' = [pending EXCEPT ![c] = N]
      /\ IF renderedFor = c
         THEN rows' = <<n>> \o rows /\ count' = [count EXCEPT ![c] = @ + 1]
         ELSE UNCHANGED <<rows, count>>
      /\ UNCHANGED <<ledger, saved, workers, renderedFor, chain, selected, active>>
  BY DEF InsertPending, worldVars, bookVars, viewVars
<1>2. n \in Nat /\ Finite(N) /\ Cardinality(N) = 1
  BY SentCountType, FS_Singleton DEF HistoryInv, Finite
<1>3. S \subseteq 0 .. n - 1 /\ Finite(S)
  BY <1>1, HydratedType DEF HistoryInv
<1>4. \A d \in Chains : SentCount(d)' = SentCount(d)
  BY <1>1 DEF SentCount, Sent
<1>5. /\ count \in [Chains -> Nat] /\ rows \in Seq(Nat) /\ cache \in [Chains -> SUBSET Int]
      /\ pending \in [Chains -> SUBSET Nat] /\ None \notin Chains /\ renderedFor \in Chains \cup {None}
  BY HistoryAssumption DEF HistoryInv, HistoryTypes
<1>6. S \cup N \subseteq 0 .. n /\ S \cup N \in SUBSET Int /\ S \cup N # Absent /\ N \in SUBSET Nat
      /\ N \subseteq {n}
  BY <1>2, <1>3 DEF Absent
<1>7. Newest(N) = <<n>>
  BY <1>2, NewestOne
<1>8. <<n>> \o rows \in Seq(Nat)
  BY <1>2, <1>5, ConcatProperties
<1>9. rows' \in Seq(Nat) /\ count' \in [Chains -> Nat]
  <2>1. CASE renderedFor = c
    <3>1. rows' = <<n>> \o rows /\ count' = [count EXCEPT ![c] = count[c] + 1] /\ count[c] + 1 \in Nat
      BY <1>1, <1>5, <2>1
    <3> HIDE DEF n
    <3> QED
      BY <1>5, <1>8, <3>1
  <2>2. CASE renderedFor # c
    BY <1>1, <1>5, <2>2
  <2> QED
    BY <2>1, <2>2
<1>10. \A s \in S, m \in N : m > s
  BY <1>2, <1>3
<1>11. (0 .. n - 1) \cup N = 0 .. n
  BY <1>2
<1>12. n = SentCount(c)
  OBVIOUS
<1> HIDE DEF n, S, N
<1>13. HistoryTypes'
  <2>1. cache' \in [Chains -> SUBSET Int] /\ pending' \in [Chains -> SUBSET Nat]
        /\ cache'[c] = S \cup N /\ pending'[c] = N
        /\ \A d \in Chains \ {c} : cache'[d] = cache[d] /\ pending'[d] = pending[d]
    BY <1>1, <1>5, <1>6
  <2>2. ASSUME NEW d \in Chains
        PROVE  /\ pending'[d] \subseteq {SentCount(d)'}
               /\ cache'[d] = Absent \/ cache'[d] \subseteq (0 .. SentCount(d)' - 1) \cup pending'[d]
    <3>1. CASE d = c
      BY <1>4, <1>6, <1>11, <1>12, <2>1, <3>1
    <3>2. CASE d # c
      BY <1>4, <2>1, <3>2 DEF HistoryInv, HistoryTypes
    <3> QED
      BY <3>1, <3>2
  <2> QED
    BY <1>1, <1>4, <1>9, <2>1, <2>2 DEF HistoryInv, HistoryTypes
<1>14. renderedFor # c /\ renderedFor # None => cache'[renderedFor] = cache[renderedFor]
  BY <1>1, <1>5
<1>15. cache'[c] = S \cup N
  BY <1>1, <1>5
<1>16. ViewRendered'
  <2>1. renderedFor' # None => Cached(renderedFor)' = Hydrated(renderedFor)'
    <3>1. CASE renderedFor = c
      BY <1>1, <1>6, <1>15, <3>1 DEF Cached, Hydrated
    <3>2. CASE renderedFor # c
      BY <1>1, <1>14, <3>2 DEF HistoryInv, ViewRendered, Cached, Hydrated
    <3> QED
      BY <3>1, <3>2
  <2> QED
    BY <1>1, <2>1 DEF HistoryInv, ViewRendered
<1>17. ASSUME HeadShown PROVE HeadShown'
  <2>1. CASE renderedFor = c
    <3>1. Cached(c) = S
      BY <1>5, <2>1 DEF HistoryInv, ViewRendered, S
    <3>2. /\ IsHead(rows, S) /\ Len(rows) = count[c]
          /\ Len(rows) = Cardinality(S) \/ Len(rows) >= Window
      BY <1>5, <1>17, <2>1, <3>1 DEF HeadShown
    <3>3. rows' = Newest(N) \o rows /\ count'[c] = count[c] + 1
      BY <1>1, <1>5, <1>7, <2>1
    <3>4. /\ Cardinality(S \cup N) = Cardinality(S) + Cardinality(N)
          /\ Len(rows') = Len(rows) + Cardinality(N)
          /\ IsHead(rows', S \cup N)
      <4>1. /\ Cardinality(S \cup N) = Cardinality(S) + Cardinality(N)
            /\ Len(Newest(N) \o rows) = Len(rows) + Cardinality(N)
            /\ IsHead(Newest(N) \o rows, S \cup N)
        BY <1>2, <1>3, <1>5, <1>10, <3>2, HeadGrows
      <4> QED
        BY <3>3, <4>1
    <3>5. Cached(renderedFor)' = S \cup N
      BY <1>1, <1>6, <1>15, <2>1 DEF Cached
    <3>6. IsHead(rows, Cached(renderedFor))'
      BY <3>4, <3>5
    <3>7. Len(rows') = count'[c] /\ (Len(rows') = Cardinality(S \cup N) \/ Len(rows') >= Window)
      <4>1. Len(rows) \in Nat /\ Cardinality(S) \in Nat /\ Window \in Nat
        BY <1>3, <1>5, FS_CardinalityType, LenProperties, HistoryAssumption DEF Finite
      <4> QED
        BY <1>2, <3>2, <3>3, <3>4, <4>1
    <3> QED
      BY <1>1, <2>1, <3>5, <3>6, <3>7 DEF HeadShown
  <2>2. CASE renderedFor # c
    BY <1>1, <1>14, <1>17, <2>2, TableAlone
  <2> QED
    BY <2>1, <2>2
<1>18. TableStep
  BY <1>1, <1>17 DEF HistoryInv, ViewRendered, TableStep
<1> QED
  BY <1>13, <1>16, <1>18 DEF HistoryInv

\* What of the histories and of the walk a page changes.
LEMMA PageIs ==
    ASSUME HistoryInv, NEW w \in workers, NEW top \in Nat, PageFetched(w, top),
           NEW c, c = w.chain,
           NEW page, page = SentOf(c, Raw(c, top, w.before))
    PROVE  /\ c \in Chains
           /\ cache' = [cache EXCEPT ![c] = Hydrated(c) \cup page]
           /\ pending' = [pending EXCEPT ![c] = pending[c] \ page]
           /\ page \subseteq 0 .. SentCount(c) - 1 /\ Finite(page)
           /\ Finite(Hydrated(c) \cup page) /\ Hydrated(c) \cup page # Absent
           /\ Hydrated(c) \cup page \subseteq (0 .. SentCount(c) - 1) \cup (pending[c] \ page)
           /\ \A x \in workers' : x.chain \in Chains /\ x.before \in Bounds
           /\ UNCHANGED <<ledger, saved, renderedFor, chain, selected, active>>
<1>1. c \in Chains /\ w.before \in Bounds /\ chain \in Chains
  BY DEF HistoryInv, HistoryTypes
<1>2. page \subseteq 0 .. SentCount(c) - 1 /\ Finite(page)
  BY <1>1, PageType DEF HistoryInv
<1>3. Hydrated(c) \subseteq (0 .. SentCount(c) - 1) \cup pending[c]
  BY <1>1, HydratedType DEF HistoryInv
<1>4. Hydrated(c) \cup page \subseteq (0 .. SentCount(c) - 1) \cup pending[c]
  BY <1>2, <1>3
<1>5. Finite(Hydrated(c) \cup page) /\ Hydrated(c) \cup page # Absent
      /\ OldestMined(c, Hydrated(c) \cup page) \in Bounds
  BY <1>1, <1>4, HeldIsFinite DEF HistoryInv
<1>6. Hydrated(c) \cup page \subseteq (0 .. SentCount(c) - 1) \cup (pending[c] \ page)
  BY <1>2, <1>4
<1> DEFINE raw == Raw(c, top, w.before)
           merged == Hydrated(c) \cup page
           fresh == page \ Hydrated(c)
           next == Paging(w, raw, merged, fresh).next
<1>7. /\ cache' = [cache EXCEPT ![c] = merged] /\ pending' = [pending EXCEPT ![c] = pending[c] \ page]
      /\ workers' = (workers \ {w}) \cup next
      /\ UNCHANGED <<ledger, saved, renderedFor, chain, selected, active>>
  BY DEF PageFetched, worldVars, viewVars
<1>8. Finite(raw)
  BY <1>1, RawType
<1>9. \A x \in next : x.chain \in Chains /\ x.before \in Bounds
  <2>1. raw # {} => Least(raw) \in Nat
    BY <1>8, LeastIs DEF Finite
  <2>2. \A x \in next : \/ x = Worker(c, TRUE, OldestMined(c, merged), w.begun)
                        \/ raw # {} /\ x = Worker(c, TRUE, Least(raw), w.begun)
    <3> HIDE DEF raw, merged, fresh
    <3> QED
      BY DEF Paging
  <2> HIDE DEF raw, merged, next
  <2>3. ASSUME NEW x \in next PROVE x.chain \in Chains /\ x.before \in Bounds
    <3>1. PICK b \in Bounds : x = Worker(c, TRUE, b, w.begun)
      BY <1>5, <2>1, <2>2 DEF merged, Bounds
    <3> QED
      BY <1>1, <3>1 DEF Worker
  <2> QED
    BY <2>3
<1>10. \A x \in workers' : x.chain \in Chains /\ x.before \in Bounds
  <2>1. \A x \in workers : x.chain \in Chains /\ x.before \in Bounds
    BY DEF HistoryInv, HistoryTypes
  <2> HIDE DEF next
  <2> QED
    BY <1>7, <1>9, <2>1
<1> QED
  BY <1>1, <1>2, <1>5, <1>6, <1>7, <1>10

\* Its rows divide into the newer ones and the older ones.
LEMMA PageDivides ==
    ASSUME NEW page, Finite(page), NEW E, Finite(E)
    PROVE  /\ Finite(Newer(page, E)) /\ Finite(Older(page, E))
           /\ (E \cup Newer(page, E)) \cup Older(page, E) = E \cup page
           /\ \A n \in Newer(page, E), e \in E : n > e
           /\ ~Gap(E) => \A e \in E \cup Newer(page, E), o \in Older(page, E) : e > o
           /\ Newer(page, E) \subseteq page /\ Older(page, E) \subseteq page
<1> DEFINE above == IF E = {} THEN -1 ELSE Top(E)
           N == {n \in page \ E : n > above}
           O == (page \ E) \ N
<1>1. N = Newer(page, E) /\ O = Older(page, E)
  BY DEF Newer, Older
<1>2. N \in SUBSET page /\ O \in SUBSET page /\ (E \cup N) \cup O = E \cup page
  OBVIOUS
<1>3. Finite(N) /\ Finite(O)
  BY <1>2, FS_Subset DEF Finite
<1>4. E # {} => Top(E) \in E /\ \A e \in E : e <= Top(E)
  BY TopIs
<1>5. \A n \in N, e \in E : n > e
  <2> SUFFICES ASSUME NEW n \in N, NEW e \in E PROVE n > e
    OBVIOUS
  <2>1. n > Top(E) /\ e <= Top(E) /\ n \in Nat /\ e \in Nat /\ Top(E) \in Nat
    BY <1>3, <1>4 DEF Finite
  <2> QED
    BY <2>1
<1>6. E = {} => O = {}
  <2> SUFFICES ASSUME E = {}, NEW o \in O PROVE FALSE
    OBVIOUS
  <2>1. o \in page \ E /\ o \in Nat /\ above = -1
    BY <1>3 DEF Finite
  <2>2. o > above
    BY <2>1
  <2> QED
    BY <2>1, <2>2
<1>7. ASSUME ~Gap(E), NEW e \in E \cup N, NEW o \in O PROVE e > o
  <2>1. E # {}
    BY <1>6
  <2>2. E = Least(E) .. Top(E) /\ Top(E) \in E /\ Least(E) \in E /\ E \in SUBSET Nat
    BY <1>4, <1>7, <2>1, LeastIs DEF Gap, Finite
  <2>3. o \in Nat /\ o \notin E /\ ~(o > Top(E)) /\ Top(E) \in Nat /\ Least(E) \in Nat
    BY <1>3, <2>1, <2>2 DEF Finite
  <2>4. o < Least(E) /\ Least(E) <= Top(E)
    BY <2>2, <2>3
  <2>5. CASE e \in E
    BY <2>2, <2>3, <2>4, <2>5
  <2>6. CASE e \in N
    <3>1. e > Top(E) /\ e \in Nat
      BY <1>3, <2>1, <2>6 DEF Finite
    <3> QED
      BY <2>3, <2>4, <3>1
  <2> QED
    BY <2>5, <2>6
<1> HIDE DEF N, O
<1> QED
  BY <1>1, <1>2, <1>3, <1>5, <1>7

\* On the table of its view.
LEMMA LandedIs ==
    ASSUME HistoryInv, NEW c \in Chains, NEW page, Finite(page),
           NEW E, Finite(E), Landed(c, E, E \cup page, page \ E)
    PROVE  LET N == Newer(page, E)
               a == Appended(E, Older(page, E), count[c] + Cardinality(N))
           IN  /\ rows' \in Seq(Nat) /\ count' \in [Chains -> Nat]
               /\ page \ E = {} /\ E = {} => rows' = <<>> /\ count'[c] = 0
               /\ page \ E = {} /\ E # {} => rows' = rows /\ count' = count
               /\ page \ E # {} => /\ rows' = (Newest(N) \o rows) \o a
                                   /\ count'[c] = count[c] + Cardinality(N) + Len(a)
<1> DEFINE N == Newer(page, E)
           O == Older(page, E)
           a == Appended(E, O, count[c] + Cardinality(N))
<1>1. Finite(N) /\ Finite(O)
  BY PageDivides
<1>2. /\ Newest(N) \in Seq(Nat) /\ Newest(O) \in Seq(Nat) /\ Cardinality(N) \in Nat
  BY <1>1, NewestRanks DEF Finite
<1>3. <<>> \in Seq(Nat)
  BY EmptyIsHead
<1>4. a \in Seq(Nat)
  BY <1>2, <1>3 DEF Appended
<1>5. Len(a) \in Nat
  BY <1>4, LenProperties
<1>6. rows \in Seq(Nat) /\ count \in [Chains -> Nat]
  BY DEF HistoryInv, HistoryTypes
<1>7. CASE page \ E = {}
  <2>1. E \cup page = {} <=> E = {}
    BY <1>7
  <2>2. /\ rows' = (IF E = {} THEN <<>> ELSE rows)
        /\ count' = (IF E = {} THEN [count EXCEPT ![c] = 0] ELSE count)
    BY <1>7, <2>1 DEF Landed
  <2> QED
    BY <1>3, <1>6, <1>7, <2>2
<1>8. CASE page \ E # {}
  <2> DEFINE k == count[c] + Cardinality(N) + Len(a)
  <2>1. rows' = (Newest(N) \o rows) \o a /\ count' = [count EXCEPT ![c] = k]
    BY <1>8 DEF Landed, Newer, Older, Appended
  <2>2. Newest(N) \o rows \in Seq(Nat)
    BY <1>2, <1>6, ConcatProperties
  <2>3. (Newest(N) \o rows) \o a \in Seq(Nat)
    BY <1>4, <2>2, ConcatProperties
  <2>4. k \in Nat
    BY <1>2, <1>5, <1>6
  <2>5. k = count[c] + Cardinality(N) + Len(a)
    OBVIOUS
  <2> HIDE DEF k
  <2>6. count' \in [Chains -> Nat] /\ count'[c] = k
    BY <1>6, <2>1, <2>4
  <2> QED
    BY <1>8, <2>1, <2>3, <2>5, <2>6
<1> QED
  BY <1>7, <1>8

\* A head stays one where a page lands on it and fills no hole.
LEMMA LandedHead ==
    ASSUME HistoryInv, HeadShown, NEW c \in Chains, renderedFor = c,
           NEW top \in Nat, NEW before \in Bounds,
           NEW page, page = SentOf(c, Raw(c, top, before)),
           NEW E, E = Hydrated(c), ~Gap(E),
           Landed(c, E, E \cup page, page \ E)
    PROVE  /\ IsHead(rows', E \cup page) /\ Len(rows') = count'[c]
           /\ Len(rows') = Cardinality(E \cup page) \/ Len(rows') >= Window
<1> DEFINE N == Newer(page, E)
           O == Older(page, E)
           a == Appended(E, O, count[c] + Cardinality(N))
<1>1. Finite(page) /\ Finite(E) /\ c # None
  BY PageType, HydratedType, HistoryAssumption DEF HistoryInv
<1>2. /\ Finite(N) /\ Finite(O) /\ (E \cup N) \cup O = E \cup page
      /\ \A n \in N, e \in E : n > e
      /\ \A e \in E \cup N, o \in O : e > o
      /\ N \subseteq page /\ O \subseteq page
  BY <1>1, PageDivides
<1>3. /\ page \ E = {} /\ E = {} => rows' = <<>> /\ count'[c] = 0
      /\ page \ E = {} /\ E # {} => rows' = rows /\ count' = count
      /\ page \ E # {} => /\ rows' = (Newest(N) \o rows) \o a
                          /\ count'[c] = count[c] + Cardinality(N) + Len(a)
  BY <1>1, LandedIs
<1>4. Cached(c) = E /\ rows \in Seq(Nat)
  BY <1>1 DEF HistoryInv, HistoryTypes, ViewRendered
<1>5. /\ IsHead(rows, E) /\ Len(rows) = count[c]
      /\ Len(rows) = Cardinality(E) \/ Len(rows) >= Window
  BY <1>1, <1>4 DEF HeadShown
<1>6. N # {} /\ O # {} => Cardinality(E) <= Window
  <2> SUFFICES ASSUME NEW n \in N, NEW o \in O PROVE Cardinality(E) <= Window
    OBVIOUS
  <2>1. n \in page /\ o \in page /\ \A e \in E : n > e /\ e > o
    BY <1>2
  <2> HIDE DEF N, O
  <2> QED
    BY <1>1, <2>1, PageCovers DEF HistoryInv
<1> HIDE DEF N, O
<1>7. CASE page \ E = {} /\ E = {}
  <2>1. E \cup page = {} /\ Len(<<>>) = 0
    BY <1>7
  <2> QED
    BY <1>3, <1>7, <2>1, EmptyIsHead
<1>8. CASE page \ E = {} /\ E # {}
  <2>1. E \cup page = E
    BY <1>8
  <2> QED
    BY <1>3, <1>5, <1>8, <2>1
<1>9. CASE page \ E # {}
  <2>1. a = Appended(E, O, Len(rows) + Cardinality(N))
    BY <1>5
  <2> HIDE DEF a
  <2> DEFINE q == (Newest(N) \o rows) \o a
             S == (E \cup N) \cup O
  <2>2. /\ Len(q) = Len(rows) + Cardinality(N) + Len(a)
        /\ IsHead(q, S)
        /\ Len(q) = Cardinality(S) \/ Len(q) >= Window
    BY <1>1, <1>2, <1>4, <1>5, <1>6, <2>1, HeadLands
  <2>3. rows' = q /\ count'[c] = Len(rows) + Cardinality(N) + Len(a) /\ E \cup page = S
    BY <1>2, <1>3, <1>5, <1>9
  <2> HIDE DEF q, S
  <2> QED
    BY <2>2, <2>3
<1> QED
  BY <1>7, <1>8, <1>9

LEMMA StepPageFetched ==
    ASSUME HistoryInv, NEW w \in workers, NEW top \in Nat, PageFetched(w, top)
    PROVE  HistoryInv' /\ TableStep
<1> DEFINE c == w.chain
           page == SentOf(c, Raw(c, top, w.before))
           E == Hydrated(c)
           on == selected /\ chain = c
<1>1. /\ c \in Chains
      /\ cache' = [cache EXCEPT ![c] = E \cup page]
      /\ pending' = [pending EXCEPT ![c] = pending[c] \ page]
      /\ page \subseteq 0 .. SentCount(c) - 1 /\ Finite(page)
      /\ Finite(E \cup page) /\ E \cup page # Absent
      /\ E \cup page \subseteq (0 .. SentCount(c) - 1) \cup (pending[c] \ page)
      /\ \A x \in workers' : x.chain \in Chains /\ x.before \in Bounds
      /\ UNCHANGED <<ledger, saved, renderedFor, chain, selected, active>>
  BY PageIs
<1>2. w.before \in Bounds
  BY DEF HistoryInv, HistoryTypes
<1>3. IF on THEN Landed(c, E, E \cup page, page \ E) ELSE UNCHANGED <<rows, note, count>>
  BY DEF PageFetched
<1>4. \A d \in Chains : SentCount(d)' = SentCount(d)
  BY <1>1 DEF SentCount, Sent
<1>5. /\ count \in [Chains -> Nat] /\ rows \in Seq(Nat) /\ cache \in [Chains -> SUBSET Int]
      /\ pending \in [Chains -> SUBSET Nat] /\ None \notin Chains /\ renderedFor \in Chains \cup {None}
  BY HistoryAssumption DEF HistoryInv, HistoryTypes
<1>6. rows' \in Seq(Nat) /\ count' \in [Chains -> Nat]
  <2>1. CASE on
    <3>1. Landed(c, E, E \cup page, page \ E)
      BY <1>3, <2>1
    <3>2. Finite(E)
      BY <1>1, HydratedType DEF HistoryInv
    <3> HIDE DEF c, page, E
    <3> QED
      BY <1>1, <3>1, <3>2, LandedIs
  <2>2. CASE ~on
    BY <1>3, <1>5, <2>2
  <2> QED
    BY <2>1, <2>2
<1>7. page = SentOf(c, Raw(c, top, w.before)) /\ E = Hydrated(c)
  OBVIOUS
<1>8. E = Hydrated(c) /\ (on <=> selected /\ chain = c)
  OBVIOUS
<1> HIDE DEF c, page, E, on
<1>9. /\ cache' \in [Chains -> SUBSET Int] /\ cache'[c] = E \cup page
      /\ \A d \in Chains \ {c} : cache'[d] = cache[d]
  <2>1. E \cup page \in SUBSET Int
    BY <1>1 DEF Finite
  <2> QED
    BY <1>1, <1>5, <2>1
<1>10. /\ pending' \in [Chains -> SUBSET Nat] /\ pending'[c] = pending[c] \ page
       /\ \A d \in Chains \ {c} : pending'[d] = pending[d]
  BY <1>1, <1>5
<1>11. HistoryTypes'
  <2>1. ASSUME NEW d \in Chains
        PROVE  /\ pending'[d] \subseteq {SentCount(d)'}
               /\ cache'[d] = Absent \/ cache'[d] \subseteq (0 .. SentCount(d)' - 1) \cup pending'[d]
    <3>0. pending[d] \subseteq {SentCount(d)}
      BY DEF HistoryInv, HistoryTypes
    <3>1. CASE d = c
      BY <1>1, <1>4, <1>9, <1>10, <3>0, <3>1
    <3>2. CASE d # c
      BY <1>4, <1>9, <1>10, <3>0, <3>2 DEF HistoryInv, HistoryTypes
    <3> QED
      BY <3>1, <3>2
  <2> QED
    BY <1>1, <1>4, <1>6, <1>9, <1>10, <2>1 DEF HistoryInv, HistoryTypes
<1>12. renderedFor # c /\ renderedFor # None => cache'[renderedFor] = cache[renderedFor]
  BY <1>5, <1>9
<1>13. renderedFor = c => Cached(renderedFor)' = E \cup page
  BY <1>1, <1>9 DEF Cached
<1>14. ViewRendered'
  <2>1. renderedFor' # None => Cached(renderedFor)' = Hydrated(renderedFor)'
    <3>1. CASE renderedFor = c
      BY <1>1, <1>9, <3>1 DEF Cached, Hydrated
    <3>2. CASE renderedFor # c
      BY <1>1, <1>12, <3>2 DEF HistoryInv, ViewRendered, Cached, Hydrated
    <3> QED
      BY <3>1, <3>2
  <2> QED
    BY <1>1, <2>1 DEF HistoryInv, ViewRendered
<1>15. ASSUME HeadShown, ~Astray, ~Gap(Cached(chain)) PROVE HeadShown'
  <2>1. CASE renderedFor = None
    BY <1>1, <2>1 DEF HeadShown
  <2>2. CASE renderedFor = c
    <3>1. chain = c /\ on /\ c # None
      BY <1>1, <1>5, <1>8, <1>15, <2>2 DEF Astray, HistoryInv, ViewRendered, HistoryTypes
    <3>2. Cached(c) = E
      BY <1>8, <2>2, <3>1 DEF HistoryInv, ViewRendered
    <3>3. ~Gap(E)
      BY <1>15, <3>1, <3>2
    <3>4. Landed(c, E, E \cup page, page \ E)
      BY <1>3, <3>1
    <3>5. /\ IsHead(rows', E \cup page) /\ Len(rows') = count'[c]
          /\ Len(rows') = Cardinality(E \cup page) \/ Len(rows') >= Window
      BY <1>1, <1>2, <1>7, <1>15, <2>2, <3>3, <3>4, LandedHead
    <3>6. IsHead(rows, Cached(renderedFor))'
      BY <1>13, <2>2, <3>5
    <3> QED
      BY <1>1, <1>13, <2>2, <3>5, <3>6 DEF HeadShown
  <2>3. CASE renderedFor \notin {None, c}
    <3>1. ~on
      BY <1>8, <1>15, <2>3 DEF Astray
    <3> QED
      BY <1>1, <1>3, <1>12, <1>15, <2>3, <3>1, TableAlone
  <2> QED
    BY <2>1, <2>2, <2>3
<1>16. TableStep
  BY <1>1, <1>15 DEF HistoryInv, ViewRendered, TableStep
<1> QED
  BY <1>11, <1>14, <1>16 DEF HistoryInv

\* An error is put in place of an empty table only.
LEMMA StepPageFails ==
    ASSUME HistoryInv, NEW w \in workers, PageFails(w)
    PROVE  HistoryInv' /\ TableStep
<1>1. UNCHANGED <<ledger, saved, cache, pending, count, renderedFor, chain, selected, active>>
      /\ workers' \subseteq workers
  BY DEF PageFails, worldVars, viewVars
<1>2. rows' = rows
  BY DEF PageFails, Blanked, HistoryInv, ViewRendered
<1>3. \A x \in workers' : x.chain \in Chains /\ x.before \in Bounds
  BY <1>1 DEF HistoryInv, HistoryTypes
<1> QED
  BY <1>1, <1>2, <1>3, AllAlone

LEMMA StepChecked ==
    ASSUME HistoryInv, NEW c \in Chains, Checked(c)
    PROVE  HistoryInv' /\ TableStep
<1>1. /\ UNCHANGED <<ledger, saved, pending, count, renderedFor, rows, chain, selected, active>>
      /\ cache' = cache \/ cache' = Pinned(c)
      /\ workers' = workers \/ workers' = workers \cup {Worker(c, FALSE, NoBound, indexed[c])}
  BY DEF Checked, worldVars, panelVars, viewVars
<1>2. /\ Pinned(c) \in [Chains -> SUBSET Int]
      /\ \A d \in Chains :
            Pinned(c)[d] = Absent \/ Pinned(c)[d] \subseteq (0 .. SentCount(d) - 1) \cup pending[d]
      /\ \A d \in Chains \ {c} : Pinned(c)[d] = cache[d]
      /\ renderedFor = c => Pinned(c) = cache
  BY PinnedIs
<1>3. \A d \in Chains : SentCount(d)' = SentCount(d)
  BY <1>1 DEF SentCount, Sent
<1>4. NoBound \in Bounds /\ chain \in Chains /\ None \notin Chains
  BY HistoryAssumption DEF Bounds, HistoryInv, HistoryTypes
<1>5. \A x \in workers' : x.chain \in Chains /\ x.before \in Bounds
  BY <1>1, <1>4 DEF HistoryInv, HistoryTypes, Worker
<1>6. HistoryTypes'
  <2>1. cache' \in [Chains -> SUBSET Int]
        /\ \A d \in Chains : cache'[d] = Absent \/ cache'[d] \subseteq (0 .. SentCount(d)' - 1) \cup pending'[d]
    BY <1>1, <1>2, <1>3 DEF HistoryInv, HistoryTypes
  <2> QED
    BY <1>1, <1>3, <1>5, <2>1 DEF HistoryInv, HistoryTypes
<1>7. renderedFor # None => cache'[renderedFor] = cache[renderedFor]
  <2>1. renderedFor \in Chains \cup {None}
    BY DEF HistoryInv, HistoryTypes
  <2> QED
    BY <1>1, <1>2, <2>1
<1>8. ViewRendered'
  BY <1>1, <1>7 DEF HistoryInv, ViewRendered, Cached, Hydrated
<1>9. HeadShown' <=> HeadShown
  BY <1>1, <1>7, TableAlone
<1> QED
  BY <1>1, <1>6, <1>8, <1>9 DEF HistoryInv, ViewRendered, TableStep

LEMMA HistoryStep ==
    ASSUME HistoryInv, [HistoryNext]_historyVars
    PROVE  HistoryInv' /\ TableStep
<1>1. CASE UNCHANGED historyVars
  BY <1>1, StepsElsewhere
<1>2. CASE User
  BY <1>2, StepOfView, StepsElsewhere, StepScroll, StepInsertPending DEF User
<1>3. CASE Answers
  <2>1. ASSUME NEW w \in workers, NEW top \in 0 .. MaxBlocks, PageFetched(w, top)
        PROVE  HistoryInv' /\ TableStep
    <3>1. top \in Nat
      BY HistoryAssumption
    <3> QED
      BY <2>1, <3>1, StepPageFetched
  <2> QED
    BY <1>3, <2>1, StepPageFails, StepChecked, StepsElsewhere DEF Answers
<1>4. CASE Chain
  BY <1>4, StepChain, StepsElsewhere DEF Chain
<1> QED
  BY <1>1, <1>2, <1>3, <1>4 DEF HistoryNext

\* Every history holds what is mined and the wallet's own next transaction, and
\* the open tab shows the selected view.
THEOREM HistoryInvariance == HistorySpec => []HistoryInv
<1>1. HistoryInit => HistoryInv
  BY HistoryStarts
<1>2. HistoryInv /\ [HistoryNext]_historyVars => HistoryInv'
  BY HistoryStep
<1> QED
  BY <1>1, <1>2, PTL DEF HistorySpec

\* A table begins as the head of its history and stays it.
THEOREM TableStays == HistorySpec => TableStaysHead
<1>1. HistoryInv /\ [HistoryNext]_historyVars
      => [/\ selected' /\ active' => renderedFor' = chain'
          /\ \/ HeadShown'
             \/ /\ renderedFor' = renderedFor
                /\ ~HeadShown \/ Astray \/ Gap(Cached(chain))]_historyVars
  BY HistoryStep DEF TableStep
<1> QED
  BY <1>1, HistoryInvariance, PTL DEF HistorySpec, TableStaysHead

-----------------------------------------------------------------------------
(* Where a walk is. *)

\* The account's first transaction lies at or below the walk's next page, if it
\* is not held.
Reaches(w) ==
    \/ w.before = NoBound \/ 0 \in Cached(w.chain)
    \/ Sent(w.chain, w.begun) = {} \/ Least(Sent(w.chain, w.begun)) <= w.before

WalksReach ==
    /\ indexed \in [Chains -> Nat] /\ \A c \in Chains : indexed[c] <= Len(ledger[c])
    /\ \A w \in workers : /\ w.begun \in Nat /\ w.since \in Nat
                          /\ w.begun <= w.since /\ w.since <= indexed[w.chain]
                          /\ Reaches(w)

\* The first sent block holds nonce 0.
LEMMA FirstSent ==
    ASSUME NEW c, NEW n \in Nat, Sent(c, n) # {}
    PROVE  /\ Least(Sent(c, n)) \in Sent(c, n)
           /\ Sent(c, Least(Sent(c, n)) - 1) = {} /\ NonceAt(c, Least(Sent(c, n))) = 0
<1> DEFINE b == Least(Sent(c, n))
<1>1. Sent(c, n) \in SUBSET Nat /\ Sent(c, n) \subseteq 1 .. n
  BY SentType
<1>2. b \in Sent(c, n) /\ \A x \in Sent(c, n) : x >= b
  BY <1>1, LeastIs
<1>3. Sent(c, b - 1) = {}
  <2> SUFFICES ASSUME NEW x \in Sent(c, b - 1) PROVE FALSE
    OBVIOUS
  <2>1. b \in 1 .. n /\ b - 1 \in Nat
    BY <1>1, <1>2
  <2>2. x \in 1 .. b - 1
    BY <2>1, SentType
  <2>3. x \in Sent(c, n)
    BY <2>1, <2>2 DEF Sent
  <2> QED
    BY <1>2, <2>1, <2>2, <2>3
<1>4. NonceAt(c, b) = 0
  BY <1>3, FS_EmptySet DEF NonceAt
<1> QED
  BY <1>2, <1>3, <1>4

\* No mined row is older than the first sent block.
LEMMA OldestReaches ==
    ASSUME HistoryTypes, NEW c \in Chains,
           NEW S, S \subseteq (0 .. SentCount(c) - 1) \cup pending[c],
           NEW b \in Nat \ {0}, Sent(c, b - 1) = {}
    PROVE  OldestMined(c, S) = NoBound \/ b <= OldestMined(c, S)
<1> DEFINE blocks == {BlockOf(c, n) : n \in S \ pending[c]}
           sent == Sent(c, Len(ledger[c]))
<1>1. ASSUME NEW x \in sent PROVE x \in Nat /\ b <= x
  <2>1. x \in 1 .. Len(ledger[c]) /\ ledger[c][x] = "sent" /\ Len(ledger[c]) \in Nat
    BY SentCountType DEF Sent
  <2>2. x < b => x \in Sent(c, b - 1)
    BY <2>1 DEF Sent
  <2> QED
    BY <2>1, <2>2
<1>2. ASSUME NEW n \in S \ pending[c] PROVE BlockOf(c, n) \in sent
  BY BlockIsThere
<1>3. blocks \subseteq sent /\ blocks \in SUBSET Nat
  BY <1>1, <1>2
<1>4. OldestMined(c, S) = IF blocks = {} THEN NoBound ELSE Least(blocks)
  BY DEF OldestMined
<1> HIDE DEF blocks, sent
<1> QED
  BY <1>1, <1>3, <1>4, LeastIs

\* A block in reach is on the page, or below all of a full one.
LEMMA PageReaches ==
    ASSUME NEW c, NEW top \in Nat, NEW before \in Bounds,
           NEW b \in Sent(c, top), before = NoBound \/ b <= before
    PROVE  \/ b \in Raw(c, top, before)
           \/ /\ Cardinality(Raw(c, top, before)) >= PageSize
              /\ \A x \in Raw(c, top, before) : b < x
<1> DEFINE listed == {x \in 1 .. top : (before = NoBound \/ x <= before) /\ (c \in SentOnly => ledger[c][x] = "sent")}
           raw == {x \in listed : Cardinality(Above(listed, x)) < PageSize}
<1>1. Raw(c, top, before) = raw
  BY DEF Raw
<1>2. b \in listed
  BY DEF Sent
<1>3. listed \in SUBSET Nat /\ IsFiniteSet(listed)
  <2>1. IsFiniteSet(1 .. top) /\ listed \subseteq 1 .. top
    BY FS_Interval
  <2> QED
    BY <2>1, FS_Subset
<1>4. raw = {x \in listed : Cardinality(Above(listed, x)) < PageSize}
  OBVIOUS
<1> HIDE DEF listed, raw
<1>5. \A x \in listed : IsFiniteSet(Above(listed, x)) /\ Cardinality(Above(listed, x)) \in Nat
  BY <1>3, RankBounds, FS_CardinalityType
<1>6. PageSize \in Nat /\ PageSize >= 2
  BY HistoryAssumption
<1>7. ASSUME b \notin raw, NEW x \in raw PROVE b < x
  <2>1. x \in listed /\ Cardinality(Above(listed, x)) < PageSize /\ x # b /\ x \in Nat /\ b \in Nat
    BY <1>2, <1>3, <1>4, <1>7
  <2>2. ~(Cardinality(Above(listed, b)) < PageSize)
    BY <1>2, <1>4, <1>7
  <2>3. ASSUME x < b PROVE FALSE
    <3>1. Cardinality(Above(listed, b)) < Cardinality(Above(listed, x))
      BY <1>2, <1>3, <2>1, <2>3, RankFalls
    <3> QED
      BY <1>2, <1>5, <1>6, <2>1, <2>2, <3>1
  <2> QED
    BY <2>1, <2>3
<1>8. ASSUME b \notin raw PROVE Cardinality(raw) >= PageSize
  <2>1. ~(Cardinality(Above(listed, b)) < PageSize)
    BY <1>2, <1>4, <1>8
  <2>2. Cardinality(listed) \in Nat /\ Cardinality(Above(listed, b)) < Cardinality(listed)
    BY <1>2, <1>3, RankBounds, FS_CardinalityType
  <2>3. PageSize - 1 \in 0 .. Cardinality(listed) - 1
    BY <1>2, <1>5, <1>6, <2>1, <2>2
  <2>4. PICK x \in listed : Cardinality(Above(listed, x)) = PageSize - 1
    BY <1>3, <2>2, <2>3, RankIsMet
  <2>5. \A y \in Above(listed, x) : y \in raw
    <3> SUFFICES ASSUME NEW y \in Above(listed, x) PROVE y \in raw
      OBVIOUS
    <3>1. y \in listed /\ x < y
      BY <1>3 DEF Above
    <3>2. Cardinality(Above(listed, y)) < Cardinality(Above(listed, x))
      BY <1>3, <3>1, RankFalls
    <3>3. Cardinality(Above(listed, y)) \in Nat
      BY <1>5, <3>1
    <3> QED
      BY <1>4, <1>6, <2>4, <3>1, <3>2, <3>3
  <2>6. x \in raw /\ x \notin Above(listed, x)
    BY <1>3, <1>4, <1>6, <2>4 DEF Above
  <2>7. Above(listed, x) \cup {x} \subseteq raw
    BY <2>5, <2>6
  <2>8. Cardinality(Above(listed, x) \cup {x}) = PageSize
    <3>1. IsFiniteSet(Above(listed, x))
      BY <1>5
    <3>2. Cardinality(Above(listed, x) \cup {x}) = Cardinality(Above(listed, x)) + 1
      BY <2>6, <3>1, FS_AddElement
    <3> QED
      BY <1>6, <2>4, <3>2
  <2>9. IsFiniteSet(raw)
    <3>1. raw \subseteq listed
      BY <1>4
    <3> QED
      BY <1>3, <3>1, FS_Subset
  <2>10. Cardinality(Above(listed, x) \cup {x}) <= Cardinality(raw)
    BY <2>7, <2>9, FS_Subset
  <2>11. Cardinality(raw) \in Nat
    BY <2>9, FS_CardinalityType
  <2> QED
    BY <1>6, <2>8, <2>10, <2>11
<1> QED
  BY <1>1, <1>7, <1>8

\* A page that does not show the account's first transaction ends no walk, and
\* the walk goes on above it.
LEMMA WalkGoesOn ==
    ASSUME HistoryInv, WalksReach, NEW w \in workers, NEW top \in Nat,
           NEW c, c = w.chain, w.since <= top, top <= indexed[c],
           NEW raw, raw = Raw(c, top, w.before),
           NEW merged, merged = Hydrated(c) \cup SentOf(c, raw), NEW fresh,
           Sent(c, w.begun) # {}, NEW b, b = Least(Sent(c, w.begun)), 0 \notin merged
    PROVE  /\ Paging(w, raw, merged, fresh).exh = {}
           /\ \A x \in Paging(w, raw, merged, fresh).next : x.before = NoBound \/ b <= x.before
<1>1. c \in Chains /\ w.before \in Bounds
  BY DEF HistoryInv, HistoryTypes
<1>2. /\ w.begun \in Nat /\ w.since \in Nat /\ w.begun <= w.since /\ Reaches(w)
      /\ indexed[c] \in Nat /\ indexed[c] <= Len(ledger[c]) /\ Len(ledger[c]) \in Nat
  BY <1>1, SentCountType DEF WalksReach, HistoryInv
<1>3. b \in Sent(c, top) /\ b \in Sent(c, Len(ledger[c])) /\ b \in Nat \ {0}
      /\ Sent(c, b - 1) = {} /\ NonceAt(c, b) = 0
  <2>0. b \in Sent(c, w.begun) /\ Sent(c, b - 1) = {} /\ NonceAt(c, b) = 0
    BY <1>2, FirstSent
  <2>1. b \in 1 .. w.begun /\ ledger[c][b] = "sent"
    BY <1>2, <2>0, SentType DEF Sent
  <2>2. b \in Sent(c, top) /\ b \in Sent(c, Len(ledger[c])) /\ b \in Nat \ {0}
    BY <1>2, <2>1 DEF Sent
  <2> QED
    BY <2>0, <2>2
<1>4. w.before = NoBound \/ b <= w.before
  <2>1. 0 \notin Cached(c)
    BY <1>1, HydratedType DEF HistoryInv
  <2> QED
    BY <1>2, <2>1 DEF Reaches
<1>5. Finite(raw) /\ Cardinality(raw) \in Nat
  BY <1>1, RawType
<1>6. b \notin raw
  <2>1. b \in raw => 0 \in SentOf(c, raw)
    BY <1>3 DEF SentOf
  <2> QED
    BY <2>1
<1>7. Cardinality(raw) >= PageSize /\ \A x \in raw : b < x
  BY <1>1, <1>3, <1>4, <1>6, PageReaches
<1>8. PageSize \in Nat /\ PageSize >= 2
  BY HistoryAssumption
<1>9. merged \subseteq (0 .. SentCount(c) - 1) \cup pending[c] /\ Finite(merged)
  <2>1. Hydrated(c) \subseteq (0 .. SentCount(c) - 1) \cup pending[c]
    BY <1>1, HydratedType DEF HistoryInv
  <2>2. SentOf(c, raw) \subseteq 0 .. SentCount(c) - 1
    BY <1>1, PageType DEF HistoryInv
  <2>3. merged \subseteq (0 .. SentCount(c) - 1) \cup pending[c]
    BY <2>1, <2>2
  <2> QED
    BY <1>1, <2>3, HeldIsFinite DEF HistoryInv
<1>10. ~IsFull(c, merged)
  <2> SUFFICES ASSUME merged # {}, merged = 0 .. Top(merged) PROVE FALSE
    BY DEF IsFull
  <2>1. Top(merged) \in merged /\ Top(merged) \in Nat
    BY <1>9, TopIs DEF Finite
  <2>2. 0 \in 0 .. Top(merged)
    BY <2>1
  <2> QED
    BY <2>2
<1>11. raw # {}
  <2>1. raw = {} => Cardinality(raw) = 0
    BY FS_EmptySet
  <2> QED
    BY <1>7, <1>8, <2>1
<1>12. Least(raw) \in raw /\ Least(raw) \in Nat /\ \A x \in raw : x >= Least(raw)
  BY <1>5, <1>11, LeastIs DEF Finite
<1>13. w.before = NoBound \/ Least(raw) < w.before
  <2> SUFFICES ASSUME w.before # NoBound, ~(Least(raw) < w.before) PROVE FALSE
    OBVIOUS
  <2>1. w.before \in Nat
    BY <1>1 DEF Bounds
  <2>2. \A x \in raw : x <= w.before
    BY DEF Raw
  <2>3. \A x \in raw : x = w.before
    <3> SUFFICES ASSUME NEW x \in raw PROVE x = w.before
      OBVIOUS
    <3>1. x \in Nat /\ x <= w.before /\ x >= Least(raw)
      BY <1>5, <1>12, <2>2 DEF Finite
    <3> QED
      BY <1>12, <2>1, <3>1
  <2>4. raw = {w.before}
    BY <1>11, <2>3
  <2>5. Cardinality(raw) = 1
    BY <2>4, FS_Singleton
  <2> QED
    BY <1>7, <1>8, <2>5
<1>14. ~(Cardinality(raw) < PageSize \/ IsFull(c, merged)) /\ ~Bottomed(w, raw, fresh)
  BY <1>5, <1>7, <1>8, <1>10, <1>11, <1>13 DEF Bottomed
<1> DEFINE p == Paging(w, raw, merged, fresh)
<1>15. /\ p.exh = {}
       /\ \A x \in p.next : \/ x = Worker(c, TRUE, OldestMined(c, merged), w.begun)
                            \/ x = Worker(c, TRUE, Least(raw), w.begun)
  BY <1>11, <1>14 DEF Paging
<1> HIDE DEF p
<1>16. OldestMined(c, merged) = NoBound \/ b <= OldestMined(c, merged)
  BY <1>1, <1>3, <1>9, OldestReaches DEF HistoryInv
<1>17. b <= Least(raw)
  BY <1>3, <1>7, <1>12
<1>18. ASSUME NEW x \in p.next PROVE x.before = NoBound \/ b <= x.before
  <2>1. CASE x = Worker(c, TRUE, OldestMined(c, merged), w.begun)
    <3>1. x.before = OldestMined(c, merged)
      BY <2>1 DEF Worker
    <3> QED
      BY <1>16, <3>1
  <2>2. CASE x = Worker(c, TRUE, Least(raw), w.begun)
    <3>1. x.before = Least(raw)
      BY <2>2 DEF Worker
    <3> QED
      BY <1>17, <3>1
  <2> QED
    BY <1>15, <1>18, <2>1, <2>2
<1>19. p.exh = {} /\ \A x \in p.next : x.before = NoBound \/ b <= x.before
  BY <1>15, <1>18
<1> QED
  BY <1>19 DEF p

\* Walks are where they were, or begin above the first transaction.
LEMMA WalksStay ==
    ASSUME HistoryInv, WalksReach,
           indexed' \in [Chains -> Nat],
           \A c \in Chains : indexed[c] <= indexed'[c] /\ indexed'[c] <= Len(ledger'[c]),
           \A c \in Chains : \A n \in 0 .. Len(ledger[c]) : Sent(c, n)' = Sent(c, n),
           \A c \in Chains : Cached(c) \subseteq Cached(c)',
           \A w \in workers' :
              \/ w \in workers
              \/ /\ w.chain \in Chains /\ w.begun \in Nat /\ w.since \in Nat
                 /\ w.begun <= w.since /\ w.since <= indexed[w.chain] /\ Reaches(w)'
    PROVE  WalksReach'
<1>1. indexed \in [Chains -> Nat] /\ \A c \in Chains : indexed[c] <= Len(ledger[c]) /\ Len(ledger[c]) \in Nat
  BY SentCountType DEF WalksReach, HistoryInv
<1>2. ASSUME NEW w \in workers
      PROVE  /\ w.chain \in Chains /\ w.begun \in Nat /\ w.since \in Nat
             /\ w.begun <= w.since /\ w.since <= indexed[w.chain] /\ Reaches(w)'
  <2>1. /\ w.chain \in Chains /\ w.begun \in Nat /\ w.since \in Nat
        /\ w.begun <= w.since /\ w.since <= indexed[w.chain] /\ Reaches(w)
    BY DEF WalksReach, HistoryInv, HistoryTypes
  <2>2. CASE w.before = NoBound \/ 0 \in Cached(w.chain)
    BY <2>1, <2>2 DEF Reaches
  <2>3. CASE Sent(w.chain, w.begun) = {} \/ Least(Sent(w.chain, w.begun)) <= w.before
    <3>1. w.begun \in 0 .. Len(ledger[w.chain])
      BY <1>1, <2>1
    <3>2. Sent(w.chain, w.begun)' = Sent(w.chain, w.begun)
      BY <2>1, <3>1
    <3>3. Least(Sent(w.chain, w.begun))' = Least(Sent(w.chain, w.begun))
      BY <3>2 DEF Least
    <3> QED
      BY <2>1, <2>3, <3>2, <3>3 DEF Reaches
  <2> QED
    BY <2>1, <2>2, <2>3 DEF Reaches
<1>3. \A w \in workers' :
         /\ w.chain \in Chains /\ w.begun \in Nat /\ w.since \in Nat
         /\ w.begun <= w.since /\ w.since <= indexed[w.chain] /\ Reaches(w)'
  BY <1>2
<1>4. \A w \in workers' : w.since <= indexed'[w.chain]
  <2> SUFFICES ASSUME NEW w \in workers' PROVE w.since <= indexed'[w.chain]
    OBVIOUS
  <2>1. w.chain \in Chains /\ w.since \in Nat /\ w.since <= indexed[w.chain]
    BY <1>3
  <2>2. indexed[w.chain] <= indexed'[w.chain] /\ indexed[w.chain] \in Nat /\ indexed'[w.chain] \in Nat
    BY <1>1, <2>1
  <2> QED
    BY <2>1, <2>2
<1> QED
  BY <1>3, <1>4 DEF WalksReach

\* A walk that begins asks below the oldest row, or for the newest page.
LEMMA WalkBegins ==
    ASSUME HistoryInv, WalksReach, NEW c \in Chains,
           NEW S, S \subseteq (0 .. SentCount(c) - 1) \cup pending[c],
           NEW w, w.chain = c, w.begun = indexed[c], w.since = indexed[c],
           w.before \in {NoBound, OldestMined(c, S)}
    PROVE  /\ w.chain \in Chains /\ w.begun \in Nat /\ w.since \in Nat
           /\ w.begun <= w.since /\ w.since <= indexed[w.chain]
           /\ ledger' = ledger => Reaches(w)'
<1>1. indexed[c] \in Nat
  BY DEF WalksReach
<1> DEFINE sent == Sent(c, indexed[c])
<1>2. w.before = NoBound \/ sent = {} \/ Least(sent) <= w.before
  <2> SUFFICES ASSUME w.before # NoBound, sent # {} PROVE Least(sent) <= w.before
    OBVIOUS
  <2>1. Least(sent) \in sent /\ Sent(c, Least(sent) - 1) = {}
    BY <1>1, FirstSent
  <2>2. Least(sent) \in Nat \ {0}
    BY <1>1, <2>1, SentType
  <2> DEFINE b == Least(sent)
  <2>3. b \in Nat \ {0} /\ Sent(c, b - 1) = {}
    BY <2>1, <2>2
  <2> HIDE DEF b
  <2>4. HistoryTypes
    BY DEF HistoryInv
  <2>5. OldestMined(c, S) = NoBound \/ b <= OldestMined(c, S)
    BY <2>3, <2>4, OldestReaches
  <2> HIDE DEF sent
  <2> QED
    BY <2>5 DEF b
<1>3. ASSUME ledger' = ledger PROVE Reaches(w)'
  <2>1. Sent(w.chain, w.begun)' = sent
    BY <1>3 DEF Sent
  <2>2. Least(Sent(w.chain, w.begun))' = Least(sent)
    BY <2>1 DEF Least
  <2> HIDE DEF sent
  <2> QED
    BY <1>2, <2>1, <2>2 DEF Reaches
<1> QED
  BY <1>1, <1>3

\* Pinning a history and keeping it shows no row less.
LEMMA PinnedGrows ==
    ASSUME HistoryInv, NEW c \in Chains, cache' = cache \/ cache' = Pinned(c)
    PROVE  \A d \in Chains : Cached(d) \subseteq Cached(d)'
<1>1. /\ \A d \in Chains \ {c} : Pinned(c)[d] = cache[d]
      /\ Pinned(c)[c] = Absent => Hydrated(c) = {}
      /\ Pinned(c)[c] # Absent => Pinned(c)[c] = Hydrated(c)
  BY PinnedIs
<1>2. Cached(c) \subseteq Hydrated(c)
  BY HydratedType DEF HistoryInv
<1>3. CASE cache' = cache
  BY <1>3 DEF Cached
<1>4. CASE cache' = Pinned(c)
  <2>1. ASSUME NEW d \in Chains, d # c PROVE Cached(d) \subseteq Cached(d)'
    BY <1>1, <1>4, <2>1 DEF Cached
  <2>2. Cached(c) \subseteq Cached(c)'
    BY <1>1, <1>2, <1>4 DEF Cached
  <2> QED
    BY <2>1, <2>2
<1> QED
  BY <1>3, <1>4

\* The chain and what the explorer shows of it are left alone.
LEMMA WalksAlone ==
    ASSUME HistoryInv, WalksReach, UNCHANGED <<ledger, indexed>>,
           \A c \in Chains : Cached(c) \subseteq Cached(c)',
           \A w \in workers' :
              \/ w \in workers
              \/ \E c \in Chains :
                    /\ w.chain = c /\ w.begun = indexed[c] /\ w.since = indexed[c]
                    /\ \/ w.before = NoBound
                       \/ w.before = OldestMined(c, Hydrated(c))
                       \/ w.before = OldestMined(c, Cached(c))
    PROVE  WalksReach'
<1>1. ASSUME NEW w \in workers', w \notin workers
      PROVE  /\ w.chain \in Chains /\ w.begun \in Nat /\ w.since \in Nat
             /\ w.begun <= w.since /\ w.since <= indexed[w.chain] /\ Reaches(w)'
  <2>1. PICK c \in Chains :
           /\ w.chain = c /\ w.begun = indexed[c] /\ w.since = indexed[c]
           /\ \/ w.before = NoBound
              \/ w.before = OldestMined(c, Hydrated(c))
              \/ w.before = OldestMined(c, Cached(c))
    BY <1>1
  <2>2. /\ Hydrated(c) \subseteq (0 .. SentCount(c) - 1) \cup pending[c]
        /\ Cached(c) \subseteq (0 .. SentCount(c) - 1) \cup pending[c]
    BY HydratedType DEF HistoryInv
  <2> QED
    BY <2>1, <2>2, WalkBegins
<1>2. \A c \in Chains : \A n \in 0 .. Len(ledger[c]) : Sent(c, n)' = Sent(c, n)
  BY DEF Sent
<1>3. /\ indexed' \in [Chains -> Nat]
      /\ \A c \in Chains : indexed[c] <= indexed'[c] /\ indexed'[c] <= Len(ledger'[c])
  BY DEF WalksReach
<1>4. \A w \in workers' :
         \/ w \in workers
         \/ /\ w.chain \in Chains /\ w.begun \in Nat /\ w.since \in Nat
            /\ w.begun <= w.since /\ w.since <= indexed[w.chain] /\ Reaches(w)'
  BY <1>1
<1> QED
  BY <1>2, <1>3, <1>4, WalksStay

\* _refresh keeps every walk, and may begin one.
LEMMA RefreshWalks ==
    ASSUME HistoryInv, WalksReach, NEW c \in Chains, NEW opened \in BOOLEAN, Refresh(c, opened),
           UNCHANGED <<ledger, indexed>>
    PROVE  WalksReach' /\ workers \subseteq workers'
<1>1. cache' = Pinned(c)
  BY DEF Refresh
<1>2. /\ workers \subseteq workers'
      /\ \A w \in workers' :
            \/ w \in workers
            \/ /\ w.chain = c /\ w.begun = indexed[c] /\ w.since = indexed[c]
               /\ w.before = OldestMined(c, Hydrated(c))
  BY DEF Refresh
<1>3. \A d \in Chains : Cached(d) \subseteq Cached(d)'
  BY <1>1, PinnedGrows
<1> QED
  BY <1>2, <1>3, WalksAlone

\* What a step of the user does to the walks.
LEMMA UserWalks ==
    ASSUME HistoryInv, WalksReach, User
    PROVE  WalksReach' /\ workers \subseteq workers'
<1>1. chain \in Chains /\ active \in BOOLEAN
  BY DEF HistoryInv, HistoryTypes
<1>2. UNCHANGED <<ledger, indexed>>
  BY DEF User, SelectAccount, NoAccount, OpenTab, LeaveTab, Scroll, SwitchChain, InsertPending, Move,
         worldVars
<1>3. ASSUME NEW c \in Chains, NEW opened \in BOOLEAN, Refresh(c, opened)
      PROVE  WalksReach' /\ workers \subseteq workers'
  BY <1>2, <1>3, RefreshWalks
<1>4. ASSUME workers' = workers, UNCHANGED cache PROVE WalksReach' /\ workers \subseteq workers'
  <2>1. \A d \in Chains : Cached(d) \subseteq Cached(d)'
    BY <1>4 DEF Cached
  <2> QED
    BY <1>2, <1>4, <2>1, WalksAlone
<1>5. CASE SelectAccount \/ NoAccount \/ OpenTab \/ LeaveTab \/ \E c \in Chains : SwitchChain(c)
  <2>1. \/ workers' = workers /\ UNCHANGED cache
        \/ \E c \in Chains, opened \in BOOLEAN : Refresh(c, opened)
    BY <1>1, <1>5 DEF SelectAccount, NoAccount, OpenTab, LeaveTab, SwitchChain, bookVars
  <2> QED
    BY <1>3, <1>4, <2>1
<1>6. CASE Scroll
  <2>1. cache' = cache
    BY <1>6 DEF Scroll
  <2>2. \/ workers' = workers
        \/ workers' = workers \cup {Worker(chain, TRUE, OldestMined(chain, Cached(chain)), indexed[chain])}
    BY <1>6 DEF Scroll, bookVars
  <2>3. \A d \in Chains : Cached(d) \subseteq Cached(d)'
    BY <2>1 DEF Cached
  <2>4. LET x == Worker(chain, TRUE, OldestMined(chain, Cached(chain)), indexed[chain])
        IN  /\ x.chain = chain /\ x.begun = indexed[chain] /\ x.since = indexed[chain]
            /\ x.before = OldestMined(chain, Cached(chain))
    BY DEF Worker
  <2>5. \A w \in workers' :
           \/ w \in workers
           \/ /\ w.chain = chain /\ w.begun = indexed[chain] /\ w.since = indexed[chain]
              /\ w.before = OldestMined(chain, Cached(chain))
    BY <2>2, <2>4
  <2> QED
    BY <1>1, <1>2, <2>2, <2>3, <2>5, WalksAlone
<1>7. ASSUME NEW c \in Chains, InsertPending(c) PROVE WalksReach' /\ workers \subseteq workers'
  <2>1. workers' = workers /\ cache' = [cache EXCEPT ![c] = Hydrated(c) \cup {SentCount(c)}]
    BY <1>7 DEF InsertPending, bookVars
  <2>2. SentCount(c) \in Nat /\ Cached(c) \subseteq Hydrated(c) /\ cache \in [Chains -> SUBSET Int]
    BY SentCountType, HydratedType DEF HistoryInv, HistoryTypes
  <2>3. Hydrated(c) \cup {SentCount(c)} # Absent
    BY <2>2 DEF Absent
  <2>4. \A d \in Chains : Cached(d) \subseteq Cached(d)'
    BY <2>1, <2>2, <2>3 DEF Cached
  <2> QED
    BY <1>2, <2>1, <2>4, WalksAlone
<1> QED
  BY <1>5, <1>6, <1>7 DEF User

\* A page is of the first transaction, or leaves the walk below it.
LEMMA PageWalks ==
    ASSUME HistoryInv, WalksReach, NEW w \in workers, NEW top \in Nat, PageFetched(w, top)
    PROVE  /\ WalksReach' /\ workers \ workers' \subseteq {w}
           /\ ~EndsShort(w, w.begun)
<1> DEFINE c == w.chain
           raw == Raw(c, top, w.before)
           page == SentOf(c, Raw(c, top, w.before))
           merged == Hydrated(c) \cup page
           fresh == page \ Hydrated(c)
           p == Paging(w, raw, merged, fresh)
<1>1. /\ c \in Chains /\ cache' = [cache EXCEPT ![c] = merged] /\ merged # Absent
      /\ UNCHANGED <<ledger, chain>>
  <2> HIDE DEF raw, merged, fresh, p
  <2>1. /\ c \in Chains
        /\ cache' = [cache EXCEPT ![c] = Hydrated(c) \cup page]
        /\ pending' = [pending EXCEPT ![c] = pending[c] \ page]
        /\ page \subseteq 0 .. SentCount(c) - 1 /\ Finite(page)
        /\ Finite(Hydrated(c) \cup page) /\ Hydrated(c) \cup page # Absent
        /\ Hydrated(c) \cup page \subseteq (0 .. SentCount(c) - 1) \cup (pending[c] \ page)
        /\ \A x \in workers' : x.chain \in Chains /\ x.before \in Bounds
        /\ UNCHANGED <<ledger, saved, renderedFor, chain, selected, active>>
    BY PageIs
  <2> QED
    <3> HIDE DEF c, page
    <3> QED
      BY <2>1 DEF merged, page, raw
<1>2. /\ w.since <= top /\ top <= indexed[c] /\ UNCHANGED indexed
      /\ exhausted' = exhausted \cup p.exh /\ workers' = (workers \ {w}) \cup p.next
  BY DEF PageFetched, worldVars
<1>3. cache \in [Chains -> SUBSET Int] /\ Cached(c) \subseteq Hydrated(c) /\ chain \in Chains
  BY <1>1, HydratedType DEF HistoryInv, HistoryTypes
<1>4. \A x \in p.next : \E y : x = Worker(c, TRUE, y, w.begun)
  <2>1. \A x \in p.next : \/ x = Worker(c, TRUE, OldestMined(c, merged), w.begun)
                          \/ x = Worker(c, TRUE, Least(raw), w.begun)
    <3> HIDE DEF raw, merged, fresh
    <3> QED
      BY DEF Paging
  <2> HIDE DEF p
  <2> QED
    BY <2>1
<1>5. p.exh \subseteq {c}
  <2> HIDE DEF raw, merged, fresh
  <2> QED
    BY DEF Paging
<1>6. ASSUME Sent(c, w.begun) # {}, 0 \notin merged
      PROVE  /\ p.exh = {}
             /\ \A x \in p.next : x.before = NoBound \/ Least(Sent(c, w.begun)) <= x.before
  BY <1>2, <1>6, WalkGoesOn
<1>7. /\ w.begun \in Nat /\ w.since \in Nat /\ w.begun <= w.since /\ w.since <= indexed[c]
      /\ indexed \in [Chains -> Nat] /\ \A d \in Chains : indexed[d] <= Len(ledger[d])
  BY DEF WalksReach
<1>8. c = w.chain
  OBVIOUS
<1> HIDE DEF c, raw, page, merged, fresh, p
<1>9. Cached(c)' = merged /\ \A d \in Chains : Cached(d) \subseteq Cached(d)'
  <2>1. cache'[c] = merged /\ \A d \in Chains \ {c} : cache'[d] = cache[d]
    BY <1>1, <1>3
  <2>2. Cached(c) \subseteq merged
    BY <1>3 DEF merged
  <2>3. Cached(c)' = merged
    BY <1>1, <2>1 DEF Cached
  <2>4. \A d \in Chains \ {c} : Cached(d)' = Cached(d)
    BY <2>1 DEF Cached
  <2> QED
    BY <2>2, <2>3, <2>4
<1>10. \A d, n : Sent(d, n)' = Sent(d, n)
  BY <1>1 DEF Sent
<1>11. ASSUME NEW x \in p.next
       PROVE  /\ x.chain \in Chains /\ x.begun \in Nat /\ x.since \in Nat
              /\ x.begun <= x.since /\ x.since <= indexed[x.chain] /\ Reaches(x)'
  <2>1. PICK y : x = Worker(c, TRUE, y, w.begun)
    BY <1>4
  <2>2. /\ x.chain = chain /\ x.since = indexed[chain]
        /\ x.begun = IF chain = c THEN w.begun ELSE 0
    BY <2>1 DEF Worker
  <2>3. CASE chain # c
    <3>1. Sent(x.chain, x.begun) = {}
      BY <2>2, <2>3, SentType
    <3>2. Sent(x.chain, x.begun)' = {}
      BY <1>10, <3>1
    <3> QED
      BY <1>3, <1>7, <2>2, <2>3, <3>2 DEF Reaches
  <2>4. CASE chain = c
    <3>1. x.chain = c /\ x.begun = w.begun /\ x.since = indexed[c]
      BY <2>2, <2>4
    <3>2. Sent(x.chain, x.begun)' = Sent(c, w.begun)
      BY <1>10, <3>1
    <3>3. Least(Sent(x.chain, x.begun))' = Least(Sent(c, w.begun))
      BY <3>2 DEF Least
    <3>4. 0 \in merged => 0 \in Cached(x.chain)'
      BY <1>9, <3>1
    <3>5. Reaches(x)'
      BY <1>6, <3>2, <3>3, <3>4 DEF Reaches
    <3>6. indexed[c] \in Nat /\ w.begun <= indexed[c]
      BY <1>1, <1>7
    <3> QED
      BY <1>1, <1>7, <3>1, <3>5, <3>6
  <2> QED
    BY <2>3, <2>4
<1>12. WalksReach'
  <2>1. indexed' \in [Chains -> Nat]
        /\ \A d \in Chains : indexed[d] <= indexed'[d] /\ indexed'[d] <= Len(ledger'[d])
    BY <1>1, <1>2, <1>7
  <2>2. \A x \in workers' :
           \/ x \in workers
           \/ /\ x.chain \in Chains /\ x.begun \in Nat /\ x.since \in Nat
              /\ x.begun <= x.since /\ x.since <= indexed[x.chain] /\ Reaches(x)'
    BY <1>2, <1>11
  <2> QED
    BY <1>9, <1>10, <2>1, <2>2, WalksStay
<1>13. ~EndsShort(w, w.begun)
  <2> SUFFICES ASSUME w.chain \in exhausted' \ exhausted, Sent(w.chain, w.begun) # {},
                      0 \notin Cached(w.chain)'
               PROVE  FALSE
    BY DEF EndsShort
  <2>1. 0 \notin merged /\ Sent(c, w.begun) # {}
    BY <1>8, <1>9
  <2>2. p.exh = {}
    BY <1>6, <2>1
  <2> QED
    BY <1>2, <2>2
<1> QED
  BY <1>2, <1>12, <1>13

\* The other answers keep every walk, or give up none.
LEMMA AnswerWalks ==
    ASSUME HistoryInv, WalksReach,
           \/ PollNonce \/ HoldsElapse
           \/ \E w \in workers : PageFails(w)
           \/ \E c \in Chains : Checked(c) \/ CheckFails(c)
    PROVE  WalksReach' /\ (workers \subseteq workers' \/ exhausted' \subseteq exhausted)
<1>1. UNCHANGED <<ledger, indexed>>
  BY DEF PollNonce, HoldsElapse, PageFails, Checked, CheckFails, worldVars
<1>2. ASSUME NEW c \in Chains, Checked(c)
      PROVE  WalksReach' /\ (workers \subseteq workers' \/ exhausted' \subseteq exhausted)
  <2>1. /\ cache' = cache \/ cache' = Pinned(c)
        /\ \/ workers' = workers
           \/ chain = c /\ workers' = workers \cup {Worker(c, FALSE, NoBound, indexed[c])}
    BY <1>2 DEF Checked
  <2>2. \A d \in Chains : Cached(d) \subseteq Cached(d)'
    BY <2>1, PinnedGrows
  <2>3. LET x == Worker(c, FALSE, NoBound, indexed[c])
        IN  chain = c => /\ x.chain = c /\ x.begun = indexed[c] /\ x.since = indexed[c]
                         /\ x.before = NoBound
    BY DEF Worker
  <2>4. \A w \in workers' :
           \/ w \in workers
           \/ /\ w.chain = c /\ w.begun = indexed[c] /\ w.since = indexed[c] /\ w.before = NoBound
    BY <2>1, <2>3
  <2> QED
    BY <1>1, <2>1, <2>2, <2>4, WalksAlone
<1>3. ASSUME workers' \subseteq workers, UNCHANGED <<cache, exhausted>>
      PROVE  WalksReach' /\ (workers \subseteq workers' \/ exhausted' \subseteq exhausted)
  <2>1. \A d \in Chains : Cached(d) \subseteq Cached(d)'
    BY <1>3 DEF Cached
  <2> QED
    BY <1>1, <1>3, <2>1, WalksAlone
<1>4. ASSUME \/ PollNonce \/ HoldsElapse
             \/ \E w \in workers : PageFails(w)
             \/ \E c \in Chains : CheckFails(c)
      PROVE  workers' \subseteq workers /\ UNCHANGED <<cache, exhausted>>
  BY <1>4 DEF PollNonce, HoldsElapse, PageFails, CheckFails
<1> QED
  BY <1>2, <1>3, <1>4

\* The chain grows above every walk.
LEMMA ChainWalks ==
    ASSUME HistoryInv, WalksReach, Chain
    PROVE  WalksReach' /\ workers \subseteq workers'
<1>1. UNCHANGED <<workers, cache>>
  BY DEF Chain, Mine, Index, Elsewhere, World, bookVars
<1>2. \A d \in Chains : Cached(d) \subseteq Cached(d)'
  BY <1>1 DEF Cached
<1>3. /\ indexed \in [Chains -> Nat] /\ ledger \in [Chains -> Seq({"sent", "received"})]
      /\ \A d \in Chains : indexed[d] <= Len(ledger[d]) /\ Len(ledger[d]) \in Nat
  BY SentCountType DEF WalksReach, HistoryInv, HistoryTypes
<1>4. ASSUME NEW c \in Chains, Index(c) PROVE WalksReach'
  <2>1. ledger' = ledger
    BY <1>4 DEF Index
  <2>2. PICK n \in indexed[c] + 1 .. Len(ledger[c]) : indexed' = [indexed EXCEPT ![c] = n]
    BY <1>4 DEF Index
  <2>3. \A d \in Chains : \A k \in 0 .. Len(ledger[d]) : Sent(d, k)' = Sent(d, k)
    BY <2>1 DEF Sent
  <2>4. n \in Nat /\ indexed[c] <= n /\ n <= Len(ledger[c])
    BY <1>3, <2>2
  <2>5. indexed' \in [Chains -> Nat]
        /\ \A d \in Chains : indexed[d] <= indexed'[d] /\ indexed'[d] <= Len(ledger'[d])
    BY <1>3, <2>1, <2>2, <2>4
  <2> QED
    BY <1>1, <1>2, <2>3, <2>5, WalksStay
<1>5. ASSUME NEW c \in Chains, NEW k \in {"sent", "received"},
             ledger' = [ledger EXCEPT ![c] = Append(@, k)], indexed' = indexed
      PROVE  WalksReach'
  <2>1. \A d \in Chains : /\ Len(ledger'[d]) >= Len(ledger[d]) /\ Len(ledger'[d]) \in Nat
                          /\ \A i \in 1 .. Len(ledger[d]) : ledger'[d][i] = ledger[d][i]
    <3> SUFFICES ASSUME NEW d \in Chains
                 PROVE  /\ Len(ledger'[d]) >= Len(ledger[d]) /\ Len(ledger'[d]) \in Nat
                        /\ \A i \in 1 .. Len(ledger[d]) : ledger'[d][i] = ledger[d][i]
      OBVIOUS
    <3>1. CASE d = c
      <4>1. ledger'[d] = Append(ledger[d], k) /\ ledger[d] \in Seq({"sent", "received"})
        BY <1>3, <1>5, <3>1
      <4>2. /\ Len(Append(ledger[d], k)) = Len(ledger[d]) + 1
            /\ \A i \in 1 .. Len(ledger[d]) : Append(ledger[d], k)[i] = ledger[d][i]
        BY <4>1, AppendProperties
      <4> QED
        BY <1>3, <4>1, <4>2
    <3>2. CASE d # c
      BY <1>3, <1>5, <3>2
    <3> QED
      BY <3>1, <3>2
  <2>2. \A d \in Chains : \A n \in 0 .. Len(ledger[d]) : Sent(d, n)' = Sent(d, n)
    <3> SUFFICES ASSUME NEW d \in Chains, NEW n \in 0 .. Len(ledger[d]) PROVE Sent(d, n)' = Sent(d, n)
      OBVIOUS
    <3>1. \A i \in 1 .. Len(ledger[d]) : ledger'[d][i] = ledger[d][i]
      BY <2>1
    <3>2. Len(ledger[d]) \in Nat
      BY <1>3
    <3>3. \A i \in 1 .. n : i \in 1 .. Len(ledger[d])
      BY <3>2
    <3>4. \A i \in 1 .. n : ledger'[d][i] = ledger[d][i]
      BY <3>1, <3>3
    <3> QED
      BY <3>4 DEF Sent
  <2>3. indexed' \in [Chains -> Nat]
        /\ \A d \in Chains : indexed[d] <= indexed'[d] /\ indexed'[d] <= Len(ledger'[d])
    BY <1>3, <1>5, <2>1
  <2> QED
    BY <1>1, <1>2, <2>2, <2>3, WalksStay
<1>6. Chain => \E c \in Chains :
         \/ Index(c)
         \/ \E k \in {"sent", "received"} : ledger' = [ledger EXCEPT ![c] = Append(@, k)] /\ indexed' = indexed
  BY DEF Chain, Mine, Elsewhere
<1> QED
  BY <1>1, <1>4, <1>5, <1>6

WalkStep == \A w \in workers \ workers' : ~EndsShort(w, w.begun)

LEMMA WalksMove ==
    ASSUME HistoryInv, WalksReach, [HistoryNext]_historyVars
    PROVE  WalksReach' /\ WalkStep
<1>1. ASSUME WalksReach', workers \subseteq workers' \/ exhausted' \subseteq exhausted
      PROVE  WalksReach' /\ WalkStep
  BY <1>1 DEF WalkStep, EndsShort
<1>2. CASE UNCHANGED historyVars
  <2>1. UNCHANGED <<ledger, indexed, cache, workers>>
    BY <1>2 DEF historyVars, worldVars, bookVars
  <2>2. \A d \in Chains : Cached(d) \subseteq Cached(d)'
    BY <2>1 DEF Cached
  <2>3. WalksReach'
    BY <2>1, <2>2, WalksAlone
  <2> QED
    BY <1>1, <2>1, <2>3
<1>3. CASE User
  BY <1>1, <1>3, UserWalks
<1>4. CASE Chain
  BY <1>1, <1>4, ChainWalks
<1>5. CASE Answers
  <2>1. ASSUME NEW w \in workers, NEW top \in 0 .. MaxBlocks, PageFetched(w, top)
        PROVE  WalksReach' /\ WalkStep
    <3>1. top \in Nat
      BY HistoryAssumption
    <3> QED
      BY <2>1, <3>1, PageWalks DEF WalkStep
  <2> QED
    BY <1>1, <1>5, <2>1, AnswerWalks DEF Answers
<1> QED
  BY <1>2, <1>3, <1>4, <1>5 DEF HistoryNext

\* Paging is given up for good only at the account's first transaction.
THEOREM PagingEnds == HistorySpec => PagingEndsAtFirst
<1>1. HistoryInit => WalksReach
  <2> SUFFICES ASSUME HistoryInit PROVE WalksReach
    OBVIOUS
  <2>1. HistoryInv
    BY HistoryStarts
  <2>2. \A c \in Chains : Len(ledger[c]) \in Nat
    BY <2>1, SentCountType DEF HistoryInv
  <2>3. workers = {} /\ indexed = [c \in Chains |-> Len(ledger[c])]
    BY DEF HistoryInit, Session
  <2> QED
    BY <2>2, <2>3 DEF WalksReach
<1>2. HistoryInv /\ WalksReach /\ [HistoryNext]_historyVars => WalksReach'
  BY WalksMove
<1>3. HistoryInv /\ WalksReach /\ [HistoryNext]_historyVars
      => [\A w \in workers \ workers' : ~EndsShort(w, w.begun)]_historyVars
  BY WalksMove DEF WalkStep
<1> QED
  BY <1>1, <1>2, <1>3, HistoryInvariance, PTL DEF HistorySpec, PagingEndsAtFirst
=============================================================================
