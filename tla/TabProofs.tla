------------------------------ MODULE TabProofs ------------------------------
(***************************************************************************)
(* Theorems about the Activity column and the approvals tab, for every set *)
(* of transactions, coins, accounts and pairs, and without the bounds of   *)
(* the runs.                                                               *)
(*                                                                         *)
(* Activity (ActivityIsKept): whatever changes an activity goes through    *)
(* Keep, and the lemmas say what Keep and the ways to it (Emit, NoteLegs)  *)
(* leave: what is saved and what is shown get the same coins, and the      *)
(* known legs are among them.  The property is then inductive beside the   *)
(* types.                                                                  *)
(*                                                                         *)
(* Approvals (OwnAccountOnly, CalmCursorPassesNothing): CoverInv follows a *)
(* pair on its way from a scan's candidates through its signals into the   *)
(* panel: together they cover the scan's cursor, so that what is shown at  *)
(* the end covers the cursor that is saved with it.                        *)
(***************************************************************************)
EXTENDS TxActivity, Approvals, TLAPS, SequenceTheorems

-----------------------------------------------------------------------------
(* The Activity column.                                                    *)

AllCoins == Coins \cup {Native}
Legs == [out : SUBSET AllCoins, inn : SUBSET AllCoins]
Verbs == {"none", "name", "selector"}
Activities == [verb : Verbs, out : SUBSET AllCoins, inn : SUBSET AllCoins,
               odd : SUBSET AllCoins, muted : BOOLEAN]
Builders == [txs : SUBSET Hashes, muted : SUBSET Hashes,
             stage : {"early", "coins", "cold", "trace", "whole"},
             coins : [Hashes -> Legs], cold : SUBSET Hashes, bare : SUBSET Hashes]

\* The variables the properties are about, and those they depend on.
TypeOK ==
    /\ saved \in [Hashes -> Activities]
    /\ activities \in [Hashes -> Activities]
    /\ knownLegs \in [Hashes -> Legs]
    /\ builders \subseteq Builders
    /\ rendered \in BOOLEAN

\* What the properties say of one transaction, of any values.
KeptLegs(s, k) == Has(s) => k.out \cup k.inn \subseteq s.out \cup s.inn
SameCoins(s, a) == Has(s) => a.out = s.out /\ a.inn = s.inn

IInv == TypeOK /\ ActivityIsKept

LEMMA Parts ==
    ActivityIsKept <=> \A h \in Hashes : KeptLegs(saved[h], knownLegs[h])
                                         /\ (rendered => SameCoins(saved[h], activities[h]))
  BY DEF ActivityIsKept, ShownIsKept, KnownLegsStay, KeptLegs, SameCoins

-----------------------------------------------------------------------------
(* What the operators return. *)

LEMMA NoActivityType == NoActivity \in Activities /\ ~Has(NoActivity)
  BY DEF NoActivity, Activities, Verbs, Has

LEMMA FilledType ==
    ASSUME NEW a \in Activities, NEW S
    PROVE  /\ Filled(a, S) \in Activities
           /\ Filled(a, S).out = a.out /\ Filled(a, S).inn = a.inn
           /\ Filled(a, S).verb = a.verb
  BY DEF Filled, Activities

\* An activity with the known legs folded in has them, and no other coins.
LEMMA WithKnownLegsType ==
    ASSUME NEW a \in Activities, NEW h \in Hashes, NEW S, knownLegs'[h] \in Legs
    PROVE  LET w == WithKnownLegs(h, a, S)
           IN  /\ w \in Activities /\ w.verb = a.verb
               /\ knownLegs'[h].out \cup knownLegs'[h].inn \subseteq w.out \cup w.inn
<1> DEFINE k == knownLegs'[h]
           new == (k.out \cup k.inn) \ (a.out \cup a.inn)
           w == [a EXCEPT !.out = @ \cup (k.out \cap new),
                          !.inn = @ \cup (k.inn \cap new),
                          !.odd = @ \cup (new \ S)]
<1>1. WithKnownLegs(h, a, S) = w
  BY DEF WithKnownLegs
<1>2. k.out \subseteq AllCoins /\ k.inn \subseteq AllCoins
  BY DEF Legs
<1>3. new \subseteq AllCoins
  BY <1>2
<1> HIDE DEF new, k
<1>4. w \in Activities /\ w.verb = a.verb
      /\ w.out = a.out \cup (k.out \cap new) /\ w.inn = a.inn \cup (k.inn \cap new)
  BY <1>2, <1>3 DEF Activities
<1> HIDE DEF w
<1>5. k.out \cup k.inn \subseteq w.out \cup w.inn
  BY <1>4 DEF new
<1> QED
  BY <1>1, <1>4, <1>5 DEF k

\* Keep writes the same activities to what is saved and, while the view is
\* rendered, to what is shown.
LEMMA KeepKeeps ==
    ASSUME TypeOK, ActivityIsKept,
           NEW acts \in [Hashes -> Activities], Keep(acts),
           knownLegs' \in [Hashes -> Legs], rendered' = rendered,
           \A h \in Hashes : KeptLegs(acts[h], knownLegs'[h]),
           \A h \in Hashes : Has(acts[h]) \/ knownLegs'[h] = knownLegs[h]
    PROVE  saved' \in [Hashes -> Activities] /\ activities' \in [Hashes -> Activities]
           /\ ActivityIsKept'
<1>1. saved' \in [Hashes -> Activities] /\ activities' \in [Hashes -> Activities]
  BY DEF Keep, Merged, TypeOK
<1>2. ASSUME NEW h \in Hashes
      PROVE  KeptLegs(saved'[h], knownLegs'[h])
             /\ (rendered' => SameCoins(saved'[h], activities'[h]))
  <2>1. KeptLegs(saved[h], knownLegs[h]) /\ (rendered => SameCoins(saved[h], activities[h]))
    BY Parts
  <2>2. CASE Has(acts[h])
    BY <2>1, <2>2 DEF Keep, Merged, SameCoins
  <2>3. CASE ~Has(acts[h])
    BY <2>1, <2>3 DEF Keep, Merged, SameCoins
  <2> QED
    BY <2>2, <2>3
<1> QED
  BY <1>1, <1>2 DEF ActivityIsKept, ShownIsKept, KnownLegsStay, KeptLegs, SameCoins

\* The steps that neither change what is kept nor what is known, or only
\* forget what is known, keep the properties while the view is what it was.
LEMMA NothingKept ==
    ASSUME TypeOK, ActivityIsKept, UNCHANGED <<saved, activities, knownLegs, rendered>>
    PROVE  saved' \in [Hashes -> Activities] /\ activities' \in [Hashes -> Activities]
           /\ ActivityIsKept'
  BY DEF TypeOK, ActivityIsKept, ShownIsKept, KnownLegsStay

LEMMA EmitKeeps ==
    ASSUME TypeOK, ActivityIsKept, NEW acts \in [Hashes -> Activities], Emit(acts)
    PROVE  /\ saved' \in [Hashes -> Activities] /\ activities' \in [Hashes -> Activities]
           /\ UNCHANGED <<knownLegs, rendered>>
           /\ ActivityIsKept'
<1>1. CASE Silent
  BY <1>1, NothingKept DEF Silent, viewVars
<1>2. CASE OnActivities(acts)
  <2>1. UNCHANGED <<knownLegs, rendered>>
    BY <1>2 DEF OnActivities
  <2> DEFINE S == tickers \cup UNION {((acts[h].out \cup acts[h].inn) \ acts[h].odd) \ {Native} :
                                    h \in Hashes}
             merged == [h \in Hashes |->
                     IF Has(acts[h]) THEN Filled(WithKnownLegs(h, acts[h], S), S) ELSE NoActivity]
  <2>2. Keep(merged)
    BY <1>2 DEF OnActivities
  <2> HIDE DEF S
  <2>3. ASSUME NEW h \in Hashes
        PROVE  merged[h] \in Activities /\ KeptLegs(merged[h], knownLegs'[h])
    <3>1. knownLegs'[h] \in Legs
      BY <2>1 DEF TypeOK
    <3>2. CASE Has(acts[h])
      <4> DEFINE w == WithKnownLegs(h, acts[h], S)
      <4>1. w \in Activities /\ knownLegs'[h].out \cup knownLegs'[h].inn \subseteq w.out \cup w.inn
        BY <3>1, WithKnownLegsType
      <4>2. merged[h] = Filled(w, S)
        BY <3>2
      <4> HIDE DEF w
      <4>3. Filled(w, S) \in Activities /\ Filled(w, S).out = w.out /\ Filled(w, S).inn = w.inn
        BY <4>1, FilledType
      <4> QED
        BY <4>1, <4>2, <4>3 DEF KeptLegs
    <3>3. CASE ~Has(acts[h])
      <4>1. merged[h] = NoActivity
        BY <3>3
      <4> HIDE DEF merged
      <4> QED
        BY <4>1, NoActivityType DEF KeptLegs
    <3> QED
      BY <3>2, <3>3
  <2>4. merged \in [Hashes -> Activities]
    BY <2>3
  <2> HIDE DEF merged
  <2> QED
    BY <2>1, <2>2, <2>3, <2>4, KeepKeeps DEF TypeOK
<1> QED
  BY <1>1, <1>2 DEF Emit

LEMMA NoteLegsKeeps ==
    ASSUME TypeOK, ActivityIsKept, NEW h \in Hashes, NEW legs \in Legs,
           NoteLegs(h, legs), rendered' = rendered
    PROVE  /\ saved' \in [Hashes -> Activities] /\ activities' \in [Hashes -> Activities]
           /\ knownLegs' \in [Hashes -> Legs]
           /\ ActivityIsKept'
<1> DEFINE base == IF rendered /\ Has(activities[h]) THEN activities[h] ELSE saved[h]
           acts == [Unbuilt EXCEPT ![h] = Filled(WithKnownLegs(h, base, tickers), tickers)]
<1>0. base \in Activities
  BY DEF TypeOK
<1>1. CASE legs = NoLegs
  BY <1>1, NothingKept DEF NoteLegs, TypeOK
<1>2. CASE legs # NoLegs
  <2>1. knownLegs' = [knownLegs EXCEPT ![h] = legs]
    BY <1>2 DEF NoteLegs
  <2>2. knownLegs' \in [Hashes -> Legs] /\ knownLegs'[h] \in Legs
    BY <2>1 DEF TypeOK
  <2>3. CASE ~Has(base)
    <3>1. UNCHANGED <<saved, activities>> /\ ~Has(saved[h])
      BY <1>2, <2>3 DEF NoteLegs
    <3>2. \A g \in Hashes : KeptLegs(saved'[g], knownLegs'[g])
                            /\ (rendered' => SameCoins(saved'[g], activities'[g]))
      BY <2>1, <3>1, Parts DEF TypeOK, KeptLegs
    <3> QED
      BY <2>2, <3>1, <3>2 DEF TypeOK, ActivityIsKept, ShownIsKept, KnownLegsStay, KeptLegs,
                              SameCoins
  <2>4. CASE Has(base)
    <3>1. Keep(acts)
      BY <1>2, <2>4 DEF NoteLegs
    <3> DEFINE w == WithKnownLegs(h, base, tickers)
    <3> HIDE DEF base
    <3>2. w \in Activities /\ w.verb = base.verb
          /\ knownLegs'[h].out \cup knownLegs'[h].inn \subseteq w.out \cup w.inn
      BY <1>0, <2>2, WithKnownLegsType
    <3> HIDE DEF w
    <3>3. Filled(w, tickers) \in Activities /\ Filled(w, tickers).verb = w.verb
          /\ Filled(w, tickers).out = w.out /\ Filled(w, tickers).inn = w.inn
      BY <3>2, FilledType
    <3>4. NoActivity \in Activities /\ ~Has(NoActivity)
      BY NoActivityType
    <3>5. /\ acts \in [Hashes -> Activities] /\ acts[h] = Filled(w, tickers)
          /\ \A g \in Hashes : g # h => acts[g] = NoActivity
      BY <3>3, <3>4 DEF Unbuilt, w
    <3> HIDE DEF acts
    <3>6. \A g \in Hashes : KeptLegs(acts[g], knownLegs'[g])
      BY <3>2, <3>3, <3>4, <3>5 DEF KeptLegs
    <3>7. \A g \in Hashes : Has(acts[g]) \/ knownLegs'[g] = knownLegs[g]
      BY <2>1, <2>4, <3>2, <3>3, <3>5 DEF TypeOK, Has
    <3> QED
      BY <2>2, <3>1, <3>5, <3>6, <3>7, KeepKeeps
  <2> QED
    BY <2>3, <2>4
<1> QED
  BY <1>1, <1>2

-----------------------------------------------------------------------------
(* The workers. *)

LEMMA LegsType ==
    ASSUME NEW legs \in Legs, NEW b \in Builders, NEW h \in Hashes, NEW verb \in Verbs
    PROVE  Activity(b, h, verb, legs) \in Activities
  BY DEF Activity, Activities, Legs

LEMMA NoLegsType == NoLegs \in Legs
  BY DEF NoLegs, Legs

LEMMA ListedType ==
    ASSUME NEW h \in Hashes, NEW level
    PROVE  Listed(h, level) \in Legs
  BY DEF Listed, Legs, AllCoins

LEMMA BuildersType ==
    ASSUME TypeOK, NEW hs \in SUBSET Hashes, NEW st, NEW p, Request(hs, st, p)
    PROVE  builders' \subseteq Builders
<1> DEFINE wanted == {h \in hs : NeedsFetch(h, p)}
<1>1. Builder(wanted, st) \in Builders
  <2>1. [h \in Hashes |-> NoLegs] \in [Hashes -> Legs]
    BY NoLegsType
  <2> QED
    BY <2>1 DEF Builder, Builders
<1> QED
  BY <1>1 DEF Request, TypeOK

LEMMA BuildKeeps ==
    ASSUME IInv, NEW b \in builders, NEW acts \in [Hashes -> Activities], Emit(acts),
           builders' \subseteq Builders
    PROVE  IInv'
<1>1. /\ saved' \in [Hashes -> Activities] /\ activities' \in [Hashes -> Activities]
      /\ UNCHANGED <<knownLegs, rendered>> /\ ActivityIsKept'
  BY EmitKeeps DEF IInv
<1> QED
  BY <1>1 DEF IInv, TypeOK

LEMMA EarlyVerbsKeeps ==
    ASSUME IInv, NEW b \in builders, EarlyVerbs(b)
    PROVE  IInv'
<1> DEFINE acts == [h \in Hashes |-> IF h \in b.txs /\ ~IsCold(h)
                              THEN Activity(b, h, "name", NoLegs) ELSE NoActivity]
<1>1. b \in Builders
  BY DEF IInv, TypeOK
<1>2. acts \in [Hashes -> Activities]
  BY <1>1, LegsType, NoLegsType, NoActivityType DEF Verbs
<1>3. [b EXCEPT !.stage = "coins"] \in Builders
  BY <1>1 DEF Builders
<1>4. builders' \subseteq Builders
  BY <1>3 DEF EarlyVerbs, Becomes, IInv, TypeOK
<1>5. Emit(acts)
  BY DEF EarlyVerbs
<1> QED
  BY <1>2, <1>4, <1>5, BuildKeeps

LEMMA ReadCoinsKeeps ==
    ASSUME IInv, NEW b \in builders, ReadCoins(b)
    PROVE  IInv'
<1>1. b \in Builders
  BY DEF IInv, TypeOK
<1>2. PICK level \in {"none", "tokens", "all"} :
        LET coins == [h \in Hashes |-> IF h \in b.txs THEN Listed(h, level) ELSE NoLegs]
            cold == {h \in b.txs : IsCold(h)}
        IN  /\ Becomes(b, [b EXCEPT !.coins = coins, !.cold = cold,
                                  !.stage = IF cold = {} THEN "trace" ELSE "cold"])
            /\ Emit([h \in Hashes |-> IF h \in b.txs \ cold
                                      THEN Activity(b, h, "name", coins[h]) ELSE NoActivity])
  BY DEF ReadCoins
<1> DEFINE coins == [h \in Hashes |-> IF h \in b.txs THEN Listed(h, level) ELSE NoLegs]
           cold == {h \in b.txs : IsCold(h)}
           acts == [h \in Hashes |-> IF h \in b.txs \ cold
                                     THEN Activity(b, h, "name", coins[h]) ELSE NoActivity]
           next == [b EXCEPT !.coins = coins, !.cold = cold,
                             !.stage = IF cold = {} THEN "trace" ELSE "cold"]
<1>3. coins \in [Hashes -> Legs] /\ cold \subseteq Hashes
  BY <1>1, ListedType, NoLegsType DEF Builders
<1>4. Emit(acts) /\ Becomes(b, next)
  BY <1>2
<1> HIDE DEF coins, cold
<1>5. next \in Builders
  BY <1>1, <1>3 DEF Builders
<1>6. acts \in [Hashes -> Activities]
  BY <1>1, <1>3, LegsType, NoActivityType DEF Verbs
<1> HIDE DEF acts, next
<1>7. builders' \subseteq Builders
  BY <1>4, <1>5 DEF Becomes, IInv, TypeOK
<1> QED
  BY <1>4, <1>6, <1>7, BuildKeeps

LEMMA ResolveKeeps ==
    ASSUME IInv, NEW b \in builders, NEW c, Resolve(b, c)
    PROVE  IInv'
<1>1. b \in Builders
  BY DEF IInv, TypeOK
<1> DEFINE hs == {h \in b.cold : Callee[h] = c}
<1>2. PICK named \in {TRUE, FALSE} :
        LET verb == IF named THEN "name" ELSE "selector"
        IN  /\ Becomes(b, [b EXCEPT !.cold = @ \ hs, !.bare = @ \cup (IF named THEN {} ELSE hs),
                                  !.stage = IF b.cold = hs THEN "trace" ELSE "cold"])
            /\ Emit([h \in Hashes |-> IF h \in hs THEN Activity(b, h, verb, b.coins[h])
                                      ELSE NoActivity])
  BY DEF Resolve
<1> DEFINE verb == IF named THEN "name" ELSE "selector"
           acts == [h \in Hashes |-> IF h \in hs THEN Activity(b, h, verb, b.coins[h])
                                     ELSE NoActivity]
           next == [b EXCEPT !.cold = @ \ hs, !.bare = @ \cup (IF named THEN {} ELSE hs),
                             !.stage = IF b.cold = hs THEN "trace" ELSE "cold"]
<1>3. hs \subseteq Hashes /\ b.coins \in [Hashes -> Legs] /\ verb \in Verbs
  BY <1>1 DEF Builders, Verbs
<1>4. Emit(acts) /\ Becomes(b, next)
  BY <1>2
<1> HIDE DEF hs, verb
<1>5. next \in Builders
  BY <1>1, <1>3 DEF Builders
<1>6. acts \in [Hashes -> Activities]
  BY <1>1, <1>3, LegsType, NoActivityType
<1> HIDE DEF acts, next
<1>7. builders' \subseteq Builders
  BY <1>4, <1>5 DEF Becomes, IInv, TypeOK
<1> QED
  BY <1>4, <1>6, <1>7, BuildKeeps

LEMMA TraceKeeps ==
    ASSUME IInv, NEW b \in builders, Trace(b)
    PROVE  IInv'
<1>1. b \in Builders /\ builders' \subseteq Builders
  BY DEF IInv, TypeOK, Trace
<1>2. PICK hs \in SUBSET {h \in b.txs : WantsTrace(b, h) /\ status[h] = "ok"
                                        /\ Native \in Moves[h].inn} :
        Emit([h \in Hashes |->
                IF h \in hs
                THEN Activity(b, h, IF h \in b.bare THEN "selector" ELSE "name",
                              [b.coins[h] EXCEPT !.inn = @ \cup {Native}])
                ELSE NoActivity])
  BY DEF Trace
<1> DEFINE acts == [h \in Hashes |->
                      IF h \in hs
                      THEN Activity(b, h, IF h \in b.bare THEN "selector" ELSE "name",
                                    [b.coins[h] EXCEPT !.inn = @ \cup {Native}])
                      ELSE NoActivity]
<1>3. \A h \in Hashes : [b.coins[h] EXCEPT !.inn = @ \cup {Native}] \in Legs
  <2>1. b.coins \in [Hashes -> Legs]
    BY <1>1 DEF Builders
  <2> QED
    BY <2>1 DEF Legs, AllCoins
<1>4. acts \in [Hashes -> Activities]
  BY <1>1, <1>3, LegsType, NoActivityType DEF Verbs
<1> HIDE DEF acts
<1> QED
  BY <1>1, <1>2, <1>4, BuildKeeps DEF acts

LEMMA BuildTronKeeps ==
    ASSUME IInv, NEW b \in builders, BuildTron(b)
    PROVE  IInv'
<1>1. b \in Builders /\ builders' \subseteq Builders
  BY DEF IInv, TypeOK, BuildTron
<1>2. PICK level \in {"none", "tokens"} :
        Emit([h \in Hashes |->
                IF h \in b.txs
                THEN Activity(b, h, IF h \in Calls /\ Callee[h] \notin fetched'
                                    THEN "selector" ELSE "name", Listed(h, level))
                ELSE NoActivity])
  BY DEF BuildTron
<1> DEFINE acts == [h \in Hashes |->
                IF h \in b.txs
                THEN Activity(b, h, IF h \in Calls /\ Callee[h] \notin fetched'
                                    THEN "selector" ELSE "name", Listed(h, level))
                ELSE NoActivity]
<1>3. acts \in [Hashes -> Activities]
  BY <1>1, ListedType, LegsType, NoActivityType DEF Verbs
<1> HIDE DEF acts
<1> QED
  BY <1>1, <1>2, <1>3, BuildKeeps DEF acts

-----------------------------------------------------------------------------
(* Receipts and simulations. *)

LEMMA BroadcastKeeps ==
    ASSUME IInv, NEW h \in Hashes, Broadcast(h)
    PROVE  IInv'
<1>1. PICK legs \in Predictions : NoteLegs(h, legs)
  BY DEF Broadcast
<1>2. legs \in Legs
  BY ActivityAssumption DEF Legs, AllCoins
<1>3. UNCHANGED rendered
  BY DEF Broadcast
<1>4. builders' \subseteq Builders
  <2>1. CASE rendered
    BY <2>1, BuildersType DEF Broadcast, IInv
  <2>2. CASE ~rendered
    BY <2>2 DEF Broadcast, IInv, TypeOK
  <2> QED
    BY <2>1, <2>2
<1> QED
  BY <1>1, <1>2, <1>3, <1>4, NoteLegsKeeps DEF IInv, TypeOK

LEMMA TokenLegsType ==
    ASSUME NEW h \in Hashes
    PROVE  TokenLegs(Moves[h]) \in Legs
  BY DEF TokenLegs, Legs, AllCoins

LEMMA ConfirmKeeps ==
    ASSUME IInv, NEW h \in Hashes, Confirm(h)
    PROVE  IInv'
<1>1. PICK end \in {"ok", "reverted"}, receipt \in BOOLEAN :
        NoteLegs(h, IF receipt /\ end = "ok" THEN TokenLegs(Moves[h]) ELSE NoLegs)
  BY DEF Confirm
<1>2. UNCHANGED <<rendered, builders>>
  BY DEF Confirm
<1> QED
  BY <1>1, <1>2, NoteLegsKeeps, TokenLegsType, NoLegsType DEF IInv, TypeOK

LEMMA ScanReceiptKeeps ==
    ASSUME IInv, NEW h \in Hashes, ScanReceipt(h)
    PROVE  IInv'
<1>1. PICK found \in BOOLEAN :
        NoteLegs(h, IF found /\ status[h] = "ok" THEN TokenLegs(Moves[h]) ELSE NoLegs)
  BY DEF ScanReceipt
<1>2. UNCHANGED <<rendered, builders>>
  BY DEF ScanReceipt
<1> QED
  BY <1>1, <1>2, NoteLegsKeeps, TokenLegsType, NoLegsType DEF IInv, TypeOK

-----------------------------------------------------------------------------
(* Tickers and the view. *)

\* The answer is folded into what is kept, so it brings no coin.
LEMMA TickersArriveKeeps ==
    ASSUME IInv, NEW cs, TickersArrive(cs)
    PROVE  IInv'
<1>1. UNCHANGED <<rendered, builders, knownLegs>>
  BY DEF TickersArrive, legVars
<1>2. PICK got \in SUBSET cs :
        LET hit == {h \in Built(saved) : (saved[h].out \cup saved[h].inn) \cap got # {}}
            acts == [h \in Hashes |-> IF h \in hit THEN Filled(saved[h], tickers \cup got)
                                      ELSE NoActivity]
        IN  IF rendered THEN Keep(acts) ELSE UNCHANGED <<saved, activities>>
  BY DEF TickersArrive
<1> DEFINE hit == {h \in Built(saved) : (saved[h].out \cup saved[h].inn) \cap got # {}}
           acts == [h \in Hashes |-> IF h \in hit THEN Filled(saved[h], tickers \cup got)
                                     ELSE NoActivity]
<1>3. IF rendered THEN Keep(acts) ELSE UNCHANGED <<saved, activities>>
  BY <1>2
<1>4. \A h \in Hashes : /\ Filled(saved[h], tickers \cup got) \in Activities
                        /\ Filled(saved[h], tickers \cup got).out = saved[h].out
                        /\ Filled(saved[h], tickers \cup got).inn = saved[h].inn
                        /\ Filled(saved[h], tickers \cup got).verb = saved[h].verb
  BY FilledType DEF IInv, TypeOK
<1> HIDE DEF hit
<1>5. acts \in [Hashes -> Activities]
  BY <1>4, NoActivityType
<1>6. \A h \in Hashes : KeptLegs(acts[h], knownLegs'[h])
  <2> TAKE h \in Hashes
  <2>1. KeptLegs(saved[h], knownLegs[h])
    BY Parts DEF IInv
  <2> QED
    BY <1>1, <1>4, <2>1, NoActivityType DEF KeptLegs, Has
<1> HIDE DEF acts
<1>7. CASE rendered
  BY <1>1, <1>3, <1>5, <1>6, <1>7, KeepKeeps DEF IInv, TypeOK
<1>8. CASE ~rendered
  BY <1>1, <1>3, <1>8, NothingKept DEF IInv, TypeOK
<1> QED
  BY <1>7, <1>8

\* The panel is primed with what is kept.
LEMMA ShowKeeps ==
    ASSUME IInv, Show
    PROVE  IInv'
<1> DEFINE primed == [h \in Hashes |-> FillVerb(h, Filled(saved[h], tickers))]
<1>1. /\ UNCHANGED <<saved, knownLegs>> /\ rendered' = TRUE
      /\ activities' = Merged(primed, activities)
      /\ Request({h \in Hashes : status[h] # "absent"}, status, activities')
  BY DEF Show
<1>2. ASSUME NEW h \in Hashes
      PROVE  primed[h] \in Activities /\ SameCoins(saved[h], primed[h])
             /\ (Has(saved[h]) <=> Has(primed[h]))
  <2> DEFINE a == Filled(saved[h], tickers)
  <2>1. a \in Activities /\ a.out = saved[h].out /\ a.inn = saved[h].inn
        /\ a.verb = saved[h].verb
    BY FilledType DEF IInv, TypeOK
  <2>2. primed[h] = FillVerb(h, a)
    OBVIOUS
  <2> HIDE DEF a, primed
  <2>3. primed[h] \in {a, [a EXCEPT !.verb = "name"]}
        /\ (primed[h] = a \/ a.verb = "selector")
    BY <2>2 DEF FillVerb
  <2> QED
    BY <2>1, <2>3 DEF Activities, Verbs, SameCoins, Has
<1>3. primed \in [Hashes -> Activities]
  BY <1>2
<1> HIDE DEF primed
<1>4. activities' \in [Hashes -> Activities]
  BY <1>1, <1>3 DEF Merged, IInv, TypeOK
<1>5. \A h \in Hashes : SameCoins(saved'[h], activities'[h])
  BY <1>1, <1>2 DEF Merged, SameCoins
<1>6. ActivityIsKept'
  BY <1>1, <1>5 DEF IInv, ActivityIsKept, ShownIsKept, KnownLegsStay, SameCoins
<1>7. builders' \subseteq Builders
  BY <1>1, BuildersType DEF IInv
<1> QED
  BY <1>1, <1>4, <1>6, <1>7 DEF IInv, TypeOK

LEMMA UnbuiltType == Unbuilt \in [Hashes -> Activities]
  BY NoActivityType DEF Unbuilt

LEMMA LeaveKeeps ==
    ASSUME IInv, Leave
    PROVE  IInv'
  BY UnbuiltType DEF Leave, IInv, TypeOK, legVars, ActivityIsKept, ShownIsKept, KnownLegsStay

\* What was known is forgotten, and what is kept stays.
LEMMA RestartKeeps ==
    ASSUME IInv, Restart
    PROVE  IInv'
<1>1. knownLegs' = [h \in Hashes |-> NoLegs] /\ builders' = {} /\ rendered' = FALSE
      /\ activities' = Unbuilt /\ saved' = saved
  BY DEF Restart
<1>2. TypeOK'
  BY <1>1, UnbuiltType, NoLegsType DEF IInv, TypeOK
<1>3. KnownLegsStay'
  BY <1>1 DEF KnownLegsStay, NoLegs
<1> QED
  BY <1>1, <1>2, <1>3 DEF IInv, ActivityIsKept, ShownIsKept

-----------------------------------------------------------------------------
(* The invariant. *)

LEMMA InitHolds == ActivityInit => IInv
<1> SUFFICES ASSUME ActivityInit PROVE IInv
  OBVIOUS
<1>1. \A h \in Hashes : saved[h] = NoActivity
  BY DEF ActivityInit, Unbuilt
<1> QED
  BY <1>1, UnbuiltType, NoLegsType, NoActivityType
     DEF ActivityInit, IInv, TypeOK, ActivityIsKept, ShownIsKept, KnownLegsStay

LEMMA NextKeeps == IInv /\ [ActivityNext]_activityVars => IInv'
<1> SUFFICES ASSUME IInv, [ActivityNext]_activityVars PROVE IInv'
  OBVIOUS
<1>1. CASE Build
  BY <1>1, EarlyVerbsKeeps, ReadCoinsKeeps, ResolveKeeps, TraceKeeps, BuildTronKeeps DEF Build
<1>2. ASSUME NEW h \in Hashes, Broadcast(h) \/ Confirm(h) \/ ScanReceipt(h) PROVE IInv'
  BY <1>2, BroadcastKeeps, ConfirmKeeps, ScanReceiptKeeps
<1>3. ASSUME NEW cs \in metas, TickersArrive(cs) PROVE IInv'
  BY <1>3, TickersArriveKeeps
<1>4. ASSUME NEW cs \in metas, TickersFail(cs) PROVE IInv'
  BY <1>4 DEF TickersFail, viewVars, legVars, IInv, TypeOK, ActivityIsKept, ShownIsKept,
              KnownLegsStay
<1>5. CASE Show
  BY <1>5, ShowKeeps
<1>6. CASE Leave
  BY <1>6, LeaveKeeps
<1>7. CASE Restart
  BY <1>7, RestartKeeps
<1>8. CASE UNCHANGED activityVars
  BY <1>8 DEF activityVars, viewVars, legVars, IInv, TypeOK, ActivityIsKept, ShownIsKept,
              KnownLegsStay
<1> QED
  BY <1>1, <1>2, <1>3, <1>4, <1>5, <1>6, <1>7, <1>8 DEF ActivityNext

\* The types and the properties are an inductive invariant.
THEOREM ActivityInvariance == ActivitySpec => []IInv
<1> QED
  BY InitHolds, NextKeeps, PTL DEF ActivitySpec

\* A row shows the coins that are kept for it and keeps those a receipt told
\* of, whatever workers, receipts, tickers and restarts come in which order.
\* (_on_activities, note_transfer_legs, _with_known_legs, prime_activities)
THEOREM KeptActivity == ActivitySpec => []ActivityIsKept
<1>1. IInv => ActivityIsKept
  BY DEF IInv
<1> QED
  BY <1>1, ActivityInvariance, PTL

-----------------------------------------------------------------------------
(* The approvals tab.                                                      *)

AllPairs == UNION {Pairs[a] : a \in Accounts}
Messages ==
    [kind : {"rows", "zeroed"}, what : SUBSET AllPairs] \cup
    [kind : {"done"}, what : [complete : BOOLEAN, head : Nat]]
Scanners ==
    [acct : Accounts, stage : {"logs", "tail", "verify", "ended"}, from : Nat, head : Nat,
     pairs : SUBSET AllPairs, interrupted : BOOLEAN, inbox : Seq(Messages)]
Reconciles ==
    [acct : Accounts, pairs : SUBSET AllPairs, read : SUBSET AllPairs, done : BOOLEAN, n : Nat]

ApprovalsTypes ==
    /\ logs \in [Accounts -> Seq(AllPairs)]
    /\ allowed \in [Accounts -> SUBSET AllPairs]
    /\ indexed \in [Accounts -> Nat]
    /\ view \in Accounts /\ shown \subseteq AllPairs
    /\ epoch \in 0 .. MaxEpochs /\ lastBlock \in Nat /\ zeroed \subseteq AllPairs
    /\ pending \subseteq AllPairs
    /\ cache \in [Accounts -> [rows : SUBSET AllPairs, block : Nat]]
    /\ scanners \in [1 .. MaxEpochs -> Scanners \cup {NoScan}]
    /\ reconciles \subseteq Reconciles /\ started \in Nat
    /\ queue \in [acct : Accounts \cup {None}, rows : SUBSET AllPairs]

\* The pairs that signals of a kind report.
Reported(inbox, kind) ==
    {p \in AllPairs : \E i \in DOMAIN inbox : inbox[i].kind = kind /\ p \in inbox[i].what}

\* The chain: an allowed pair has an event, the index serves blocks there are.
ChainOK ==
    \A a \in Accounts : allowed[a] \subseteq ToSet(logs[a]) /\ indexed[a] <= Len(logs[a])

\* Scans start one per epoch, and that of the current epoch is of the view.
Current == epoch > 0 /\ scanners[epoch].acct # None
OnePerEpoch ==
    /\ \A e \in 1 .. MaxEpochs : e > epoch => scanners[e].acct = None
    /\ Current => scanners[epoch].acct = view

\* What a scan carries and reports is of its account, and "done" comes last.
ScanOwn(s) ==
    /\ s.pairs \subseteq ToSet(logs[s.acct])
    /\ Reported(s.inbox, "rows") \subseteq ToSet(logs[s.acct])
    /\ s.head <= Len(logs[s.acct]) /\ s.from <= s.head + 1
    /\ \A i \in DOMAIN s.inbox :
          s.inbox[i].kind = "done" =>
              i = Len(s.inbox) /\ s.stage = "ended" /\ s.inbox[i].what.head = s.head
ScansOwn == \A e \in 1 .. MaxEpochs : scanners[e].acct # None => ScanOwn(scanners[e])

BatchOwn == queue.rows # {} => queue.acct = view

\* A cursor that counts is of a block of the account's chain.
CursorsExist ==
    /\ shown # {} \/ Current => lastBlock <= Len(logs[view])
    /\ \A a \in Accounts : cache[a].rows # {} => cache[a].block <= Len(logs[a])

OwnInv == /\ ApprovalsTypes /\ ChainOK /\ OnePerEpoch /\ ScansOwn /\ BatchOwn
          /\ CursorsExist /\ OwnAccountOnly

\* Where nothing fails: what the scan of the view has still to read, has
\* reported or is shown covers its cursor, and what it read as zero is zero, or
\* was approved above it since.
ScanCovers(s) ==
    /\ Covers(view, s.head, s.pairs \cup Reported(s.inbox, "rows") \cup shown)
    /\ ~s.interrupted /\ lastBlock <= s.head
    /\ s.stage = "ended" => s.pairs = {}
    /\ \A i \in DOMAIN s.inbox : s.inbox[i].kind = "done" => s.inbox[i].what.complete
    /\ \A p \in zeroed \cup Reported(s.inbox, "zeroed") :
          p \in allowed[view] => ~Under(view, p, s.head)
    /\ s.stage \in {"logs", "tail"} => zeroed \cup Reported(s.inbox, "zeroed") = {}

\* So does the panel the cursor in memory, once a scan has begun to fill it, and
\* each cache its own.
PanelCovers == shown # {} \/ Current => Covers(view, lastBlock, shown)
CacheCovers(a) == cache[a].rows # {} => Covers(a, cache[a].block, cache[a].rows)

AllCovered ==
    faults = {} => /\ Current => ScanCovers(scanners[epoch])
                   /\ PanelCovers
                   /\ \A a \in Accounts : CacheCovers(a)

CoverInv == OwnInv /\ AllCovered

-----------------------------------------------------------------------------
(* Lemmas about signals, cursors and events. *)

\* What a queue reports after a signal is appended.
LEMMA ReportAppended ==
    ASSUME NEW q \in Seq(Messages), NEW m \in Messages, NEW kind \in {"rows", "zeroed"}
    PROVE  /\ Append(q, m) \in Seq(Messages)
           /\ Reported(Append(q, m), kind) =
                Reported(q, kind) \cup (IF m.kind = kind THEN m.what ELSE {})
           /\ m.kind # kind => Reported(Append(q, m), kind) = Reported(q, kind)
<1>1. /\ Append(q, m) \in Seq(Messages) /\ Len(Append(q, m)) = Len(q) + 1
      /\ \A i \in 1 .. Len(q) : Append(q, m)[i] = q[i]
      /\ Append(q, m)[Len(q) + 1] = m
  BY AppendProperties
<1>2. DOMAIN q = 1 .. Len(q) /\ DOMAIN Append(q, m) = 1 .. Len(q) + 1 /\ Len(q) \in Nat
  BY <1>1, LenProperties
<1>3. m.kind = kind => m.what \subseteq AllPairs
  BY DEF Messages
<1>4. \A p \in AllPairs :
        (\E i \in DOMAIN Append(q, m) : Append(q, m)[i].kind = kind /\ p \in Append(q, m)[i].what)
        <=> \/ \E i \in DOMAIN q : q[i].kind = kind /\ p \in q[i].what
            \/ m.kind = kind /\ p \in m.what
  <2> TAKE p \in AllPairs
  <2>1. \A i \in 1 .. Len(q) + 1 : i \in 1 .. Len(q) \/ i = Len(q) + 1
    BY <1>2
  <2>2. 1 .. Len(q) \subseteq 1 .. Len(q) + 1 /\ Len(q) + 1 \in 1 .. Len(q) + 1
    BY <1>2
  <2> QED
    BY <1>1, <1>2, <2>1, <2>2
<1> QED
  BY <1>1, <1>3, <1>4 DEF Reported

\* And when its first signal is delivered.
LEMMA ReportDelivered ==
    ASSUME NEW q \in Seq(Messages), q # <<>>, NEW kind \in {"rows", "zeroed"}
    PROVE  /\ Head(q) \in Messages /\ Tail(q) \in Seq(Messages)
           /\ Reported(q, kind) =
                Reported(Tail(q), kind) \cup (IF Head(q).kind = kind THEN Head(q).what ELSE {})
<1>1. /\ Head(q) \in Messages /\ Tail(q) \in Seq(Messages) /\ Len(Tail(q)) = Len(q) - 1
      /\ \A i \in 1 .. Len(Tail(q)) : Tail(q)[i] = q[i + 1]
  BY HeadTailProperties
<1>2. /\ DOMAIN q = 1 .. Len(q) /\ DOMAIN Tail(q) = 1 .. Len(q) - 1
      /\ Len(q) \in Nat /\ Len(q) >= 1 /\ Head(q) = q[1]
  BY <1>1, LenProperties, EmptySeq
<1>3. Head(q).kind = kind => Head(q).what \subseteq AllPairs
  BY <1>1 DEF Messages
<1>4. \A p \in AllPairs :
        (\E i \in DOMAIN q : q[i].kind = kind /\ p \in q[i].what)
        <=> \/ \E i \in DOMAIN Tail(q) : Tail(q)[i].kind = kind /\ p \in Tail(q)[i].what
            \/ Head(q).kind = kind /\ p \in Head(q).what
  <2> TAKE p \in AllPairs
  <2>1. \A i \in 1 .. Len(q) : i = 1 \/ i - 1 \in 1 .. Len(q) - 1
    BY <1>2
  <2>2. \A i \in 1 .. Len(q) - 1 : i + 1 \in 1 .. Len(q) /\ Tail(q)[i] = q[i + 1]
    BY <1>1, <1>2
  <2>3. \A i \in 1 .. Len(q) : i # 1 => Tail(q)[i - 1] = q[i]
    <3> TAKE i \in 1 .. Len(q)
    <3> HAVE i # 1
    <3>1. i - 1 \in 1 .. Len(q) - 1 /\ (i - 1) + 1 = i
      BY <2>1
    <3> QED
      BY <2>2, <3>1
  <2>4. 1 \in 1 .. Len(q)
    BY <1>2
  <2>5. ASSUME NEW i \in 1 .. Len(q), q[i].kind = kind, p \in q[i].what
        PROVE  \/ \E j \in DOMAIN Tail(q) : Tail(q)[j].kind = kind /\ p \in Tail(q)[j].what
               \/ Head(q).kind = kind /\ p \in Head(q).what
    BY <1>2, <2>1, <2>3, <2>5
  <2>6. ASSUME NEW j \in 1 .. Len(q) - 1, Tail(q)[j].kind = kind, p \in Tail(q)[j].what
        PROVE  \E i \in DOMAIN q : q[i].kind = kind /\ p \in q[i].what
    BY <1>2, <2>2, <2>6
  <2> QED
    BY <1>2, <2>4, <2>5, <2>6
<1> QED
  BY <1>1, <1>3, <1>4 DEF Reported

\* An approval mined above a cursor leaves what is below it alone.
LEMMA MinedAbove ==
    ASSUME ApprovalsTypes, ChainOK, NEW a \in Accounts, NEW p \in Pairs[a], NEW own, Mine(a, p, own)
    PROVE  /\ logs' \in [Accounts -> Seq(AllPairs)] /\ allowed' \in [Accounts -> SUBSET AllPairs]
           /\ \A x \in Accounts : ToSet(logs[x]) \subseteq ToSet(logs'[x])
                                  /\ Len(logs[x]) <= Len(logs'[x]) /\ Len(logs[x]) \in Nat
                                  /\ allowed'[x] \subseteq ToSet(logs'[x])
           /\ \A x \in Accounts : \A h \in Nat : \A q \in allowed'[x] :
                 h <= Len(logs[x]) /\ Under(x, q, h)' =>
                    q \in allowed[x] /\ Under(x, q, h) /\ (<<x, q>> \in outrun => <<x, q>> \in outrun')
<1>1. p \in AllPairs /\ logs[a] \in Seq(AllPairs)
  BY DEF AllPairs, ApprovalsTypes
<1>2. /\ Append(logs[a], p) \in Seq(AllPairs) /\ Len(Append(logs[a], p)) = Len(logs[a]) + 1
      /\ \A i \in 1 .. Len(logs[a]) : Append(logs[a], p)[i] = logs[a][i]
      /\ Append(logs[a], p)[Len(logs[a]) + 1] = p
  BY <1>1, AppendProperties
<1>3. /\ DOMAIN logs[a] = 1 .. Len(logs[a]) /\ Len(logs[a]) \in Nat
      /\ DOMAIN Append(logs[a], p) = 1 .. Len(logs[a]) + 1
  BY <1>1, <1>2, LenProperties
<1>4. /\ logs' = [logs EXCEPT ![a] = Append(logs[a], p)]
      /\ allowed' = [allowed EXCEPT ![a] = IF p \in allowed[a] THEN allowed[a] \ {p}
                                           ELSE allowed[a] \union {p}]
      /\ outrun' = outrun \ {<<a, p>>}
  BY DEF Mine
<1>5. /\ \A x \in Accounts : x # a => logs'[x] = logs[x] /\ allowed'[x] = allowed[x]
      /\ logs'[a] = Append(logs[a], p) /\ allowed'[a] \subseteq allowed[a] \cup {p}
      /\ \A q \in allowed'[a] : q # p => q \in allowed[a]
  BY <1>4 DEF ApprovalsTypes
<1>6. logs' \in [Accounts -> Seq(AllPairs)] /\ allowed' \in [Accounts -> SUBSET AllPairs]
  BY <1>1, <1>2, <1>4 DEF ApprovalsTypes
<1>7. \A x \in Accounts : Len(logs[x]) \in Nat
  BY LenProperties DEF ApprovalsTypes
<1>8. ToSet(logs[a]) \subseteq ToSet(logs'[a]) /\ p \in ToSet(logs'[a])
  <2>1. \A i \in 1 .. Len(logs[a]) : i \in 1 .. Len(logs[a]) + 1
    BY <1>3
  <2>2. Len(logs[a]) + 1 \in 1 .. Len(logs[a]) + 1
    BY <1>3
  <2> QED
    BY <1>2, <1>3, <1>5, <2>1, <2>2 DEF ToSet
<1>9. \A x \in Accounts : ToSet(logs[x]) \subseteq ToSet(logs'[x])
                          /\ Len(logs[x]) <= Len(logs'[x])
                          /\ allowed'[x] \subseteq ToSet(logs'[x])
  <2> TAKE x \in Accounts
  <2>1. CASE x = a
    <3>1. allowed[a] \subseteq ToSet(logs[a])
      BY DEF ChainOK
    <3>2. Len(logs'[a]) = Len(logs[a]) + 1
      BY <1>2, <1>5
    <3>3. Len(logs[a]) <= Len(logs'[a])
      BY <1>3, <3>2
    <3>4. allowed'[a] \subseteq ToSet(logs'[a])
      BY <1>5, <1>8, <3>1
    <3> QED
      BY <1>8, <2>1, <3>3, <3>4
  <2>2. CASE x # a
    BY <1>5, <1>7, <2>2 DEF ChainOK
  <2> QED
    BY <2>1, <2>2
<1>10. ASSUME NEW x \in Accounts, NEW h \in Nat, NEW q \in allowed'[x],
              h <= Len(logs[x]), Under(x, q, h)'
       PROVE  q \in allowed[x] /\ Under(x, q, h) /\ (<<x, q>> \in outrun => <<x, q>> \in outrun')
  <2>1. CASE x # a
    BY <1>4, <1>5, <1>10, <2>1 DEF Under
  <2>2. CASE x = a
    <3>1. Len(logs[a]) + 1 \in DOMAIN logs'[a] /\ ~(Len(logs[a]) + 1 <= h)
      BY <1>3, <1>5, <1>10, <2>2
    <3>2. q # p
      BY <1>2, <1>5, <1>10, <2>2, <3>1 DEF Under
    <3>3. Under(x, q, h)
      BY SMTT(30), <1>2, <1>3, <1>5, <1>10, <2>2 DEF Under
    <3> QED
      BY <1>4, <1>5, <2>2, <3>2, <3>3
  <2> QED
    BY <2>1, <2>2
<1> QED
  BY <1>6, <1>7, <1>9, <1>10

-----------------------------------------------------------------------------
(* What belongs to an account stays with it: the scan workers. *)

\* A step of a scan worker keeps what is shown and saved to its account.
LEMMA WorkerOwn ==
    ASSUME OwnInv, NEW e \in 1 .. MaxEpochs, scanners[e].acct # None, NEW s \in Scanners,
           s.acct = scanners[e].acct, ScanOwn(s), WorkerStep(e, s)
    PROVE  OwnInv'
<1>1. /\ scanners' = [scanners EXCEPT ![e] = s]
      /\ UNCHANGED <<logs, allowed, indexed, view, shown, epoch, lastBlock, zeroed, pending,
                     cache, reconciles, started, queue, dialog>>
  BY DEF WorkerStep, onChain, plugin, batch
<1>2. scanners \in [1 .. MaxEpochs -> Scanners \cup {NoScan}]
  BY DEF OwnInv, ApprovalsTypes
<1>3. scanners'[e] = s /\ \A x \in 1 .. MaxEpochs : x # e => scanners'[x] = scanners[x]
  BY <1>1, <1>2
<1>4. ApprovalsTypes'
  BY <1>1, <1>2 DEF OwnInv, ApprovalsTypes
<1>5. ChainOK' /\ BatchOwn' /\ OwnAccountOnly'
  BY <1>1 DEF OwnInv, ChainOK, BatchOwn, OwnAccountOnly, CacheIsOwn, BatchActsForItsAccount
<1>6. OnePerEpoch'
  <2>1. epoch > 0 => epoch \in 1 .. MaxEpochs
    BY DEF OwnInv, ApprovalsTypes
  <2> QED
    BY <1>1, <1>3, <2>1 DEF OwnInv, OnePerEpoch, Current
<1>7. ScansOwn'
  <2>1. \A x \in 1 .. MaxEpochs : scanners'[x].acct # None => ScanOwn(scanners'[x])
    BY <1>3 DEF OwnInv, ScansOwn
  <2> QED
    BY <1>1, <2>1 DEF ScansOwn, ScanOwn
<1>8. CursorsExist'
  <2>1. epoch > 0 => epoch \in 1 .. MaxEpochs
    BY DEF OwnInv, ApprovalsTypes
  <2>2. Current' => Current
    BY <1>1, <1>3, <2>1 DEF Current
  <2> QED
    BY <1>1, <2>2 DEF OwnInv, CursorsExist
<1> QED
  BY <1>4, <1>5, <1>6, <1>7, <1>8 DEF OwnInv

\* What a scan worker is.
LEMMA RunningScan ==
    ASSUME OwnInv, NEW e \in 1 .. MaxEpochs, scanners[e].acct # None
    PROVE  /\ scanners[e] \in Scanners /\ ScanOwn(scanners[e])
           /\ scanners[e].acct \in Accounts /\ scanners[e].inbox \in Seq(Messages)
           /\ logs[scanners[e].acct] \in Seq(AllPairs)
           /\ Len(logs[scanners[e].acct]) \in Nat
           /\ \A i \in 1 .. Len(logs[scanners[e].acct]) :
                 logs[scanners[e].acct][i] \in AllPairs \cap ToSet(logs[scanners[e].acct])
           /\ indexed[scanners[e].acct] <= Len(logs[scanners[e].acct])
           /\ indexed[scanners[e].acct] \in Nat
           /\ allowed[scanners[e].acct] \subseteq AllPairs \cap ToSet(logs[scanners[e].acct])
<1>1. scanners[e] \in Scanners
  BY DEF OwnInv, ApprovalsTypes, NoScan
<1>2. ScanOwn(scanners[e])
  BY DEF OwnInv, ScansOwn
<1>3. scanners[e].acct \in Accounts /\ scanners[e].inbox \in Seq(Messages)
  BY <1>1 DEF Scanners
<1>4. logs[scanners[e].acct] \in Seq(AllPairs)
  BY <1>3 DEF OwnInv, ApprovalsTypes
<1>5. /\ Len(logs[scanners[e].acct]) \in Nat
      /\ DOMAIN logs[scanners[e].acct] = 1 .. Len(logs[scanners[e].acct])
      /\ \A i \in 1 .. Len(logs[scanners[e].acct]) : logs[scanners[e].acct][i] \in AllPairs
  BY <1>4, LenProperties, ElementOfSeq
<1>6. \A i \in 1 .. Len(logs[scanners[e].acct]) :
        logs[scanners[e].acct][i] \in ToSet(logs[scanners[e].acct])
  BY <1>5 DEF ToSet
<1> QED
  BY <1>1, <1>2, <1>3, <1>4, <1>5, <1>6 DEF OwnInv, ChainOK, ApprovalsTypes

\* A window of logs: the scan goes on with more pairs and a higher cursor, which
\* covers what the pairs before it and the events up to it cover.
LEMMA WindowStep ==
    ASSUME OwnInv, NEW e \in 1 .. MaxEpochs, FetchWindow(e)
    PROVE  \E s \in Scanners :
              /\ WorkerStep(e, s) /\ ScanOwn(s) /\ scanners[e].acct # None
              /\ s.acct = scanners[e].acct /\ s.inbox = scanners[e].inbox
              /\ s.interrupted = scanners[e].interrupted
              /\ s.stage \in {"logs", "tail"} /\ scanners[e].stage = "logs"
              /\ s.head >= scanners[e].head /\ s.head <= Len(logs[s.acct])
              /\ scanners[e].pairs \subseteq s.pairs
              /\ \A i \in 1 .. s.head : i > scanners[e].head => logs[s.acct][i] \in s.pairs
<1> DEFINE o == scanners[e]
           first == IF o.from = 0 THEN 1 ELSE o.from
           full == first + Page - 1
           last == IF full <= indexed[o.acct] THEN full ELSE indexed[o.acct]
           top == IF last > o.head THEN last ELSE o.head
           new == o.pairs \union {logs[o.acct][i] : i \in first .. last}
           found == [o EXCEPT !.pairs = new, !.head = top]
<1>1. /\ o.acct # None /\ o.stage = "logs"
      /\ WorkerStep(e, IF o.interrupted \/ last < full
                       THEN [(IF o.interrupted THEN o ELSE found) EXCEPT !.stage = "tail"]
                       ELSE [found EXCEPT !.from = last + 1])
  BY DEF FetchWindow, Running
<1>2. /\ o \in Scanners /\ ScanOwn(o) /\ o.acct \in Accounts
      /\ Len(logs[o.acct]) \in Nat /\ indexed[o.acct] \in Nat /\ indexed[o.acct] <= Len(logs[o.acct])
      /\ \A i \in 1 .. Len(logs[o.acct]) : logs[o.acct][i] \in AllPairs \cap ToSet(logs[o.acct])
  BY <1>1, RunningScan
<1>3. /\ o.from \in Nat /\ o.head \in Nat /\ Page \in Nat /\ Page >= 1
      /\ o.from <= o.head + 1 /\ o.head <= Len(logs[o.acct])
      /\ o.pairs \subseteq AllPairs /\ o.pairs \subseteq ToSet(logs[o.acct])
  BY <1>2, ApprovalsAssumption DEF Scanners, ScanOwn
<1>4. /\ first \in Nat /\ first >= 1 /\ first <= o.head + 1
      /\ last \in Int /\ last <= indexed[o.acct] /\ full \in Nat /\ last <= full
      /\ top \in Nat /\ top >= o.head /\ top >= last /\ (top = last \/ top = o.head)
      /\ top <= Len(logs[o.acct])
  <2>1. first \in Nat /\ first >= 1 /\ first <= o.head + 1
    BY <1>3
  <2> HIDE DEF first
  <2>2. full \in Nat
    BY <1>3, <2>1
  <2> HIDE DEF full
  <2>3. last \in Int /\ last <= indexed[o.acct] /\ last <= full
    BY <1>2, <2>2
  <2> HIDE DEF last
  <2>4. /\ top \in Nat /\ top >= o.head /\ top >= last /\ (top = last \/ top = o.head)
        /\ top <= Len(logs[o.acct])
    BY <1>2, <1>3, <2>3
  <2> QED
    BY <2>1, <2>2, <2>3, <2>4
<1>5. new \subseteq AllPairs /\ new \subseteq ToSet(logs[o.acct])
  <2>1. \A i \in first .. last : i \in 1 .. Len(logs[o.acct])
    BY <1>2, <1>4
  <2> QED
    BY <1>2, <1>3, <2>1
<1>6. \A i \in 1 .. top : i > o.head => logs[o.acct][i] \in new
  <2> SUFFICES ASSUME NEW i \in 1 .. top, i > o.head PROVE logs[o.acct][i] \in new
    OBVIOUS
  <2> HIDE DEF top, last, first
  <2>1. top = last /\ i \in first .. last
    BY <1>3, <1>4
  <2> QED
    BY <2>1
<1> HIDE DEF top, new
<1>7. CASE o.interrupted
  <2> DEFINE s == [o EXCEPT !.stage = "tail"]
  <2>1. s \in Scanners /\ s.acct = o.acct /\ s.inbox = o.inbox /\ s.head = o.head /\ s.pairs = o.pairs
        /\ s.from = o.from /\ s.stage = "tail" /\ s.interrupted = o.interrupted
    BY <1>2 DEF Scanners
  <2>2. WorkerStep(e, s)
    BY <1>1, <1>7
  <2> HIDE DEF s
  <2>3. ScanOwn(s)
    BY <1>1, <1>2, <2>1 DEF ScanOwn
  <2>4. \A i \in 1 .. s.head : ~(i > o.head)
    BY <1>3, <2>1
  <2> QED
    BY <1>1, <1>3, <2>1, <2>2, <2>3, <2>4
<1>8. CASE ~o.interrupted
  <2>1. found \in Scanners /\ found.acct = o.acct /\ found.inbox = o.inbox /\ found.head = top
        /\ found.pairs = new /\ found.from = o.from /\ found.stage = o.stage
        /\ found.interrupted = o.interrupted
    BY <1>2, <1>4, <1>5 DEF Scanners
  <2> HIDE DEF found
  <2>2. CASE last < full
    <3> DEFINE s == [found EXCEPT !.stage = "tail"]
    <3>1. s \in Scanners /\ s.acct = o.acct /\ s.inbox = o.inbox /\ s.head = top /\ s.pairs = new
          /\ s.from = o.from /\ s.stage = "tail" /\ s.interrupted = o.interrupted
      BY <2>1 DEF Scanners
    <3>2. WorkerStep(e, s)
      BY <1>1, <1>8, <2>2
    <3> HIDE DEF s
    <3>3. ScanOwn(s)
      BY <1>1, <1>2, <1>3, <1>4, <1>5, <3>1 DEF ScanOwn
    <3>4. o.pairs \subseteq s.pairs
      BY <3>1 DEF new
    <3> QED
      BY <1>1, <1>4, <1>6, <3>1, <3>2, <3>3, <3>4
  <2>3. CASE ~(last < full)
    <3> DEFINE s == [found EXCEPT !.from = last + 1]
    <3>1. last + 1 \in Nat /\ last + 1 <= top + 1
      BY <1>3, <1>4, <2>3
    <3>2. s \in Scanners /\ s.acct = o.acct /\ s.inbox = o.inbox /\ s.head = top /\ s.pairs = new
          /\ s.from = last + 1 /\ s.stage = "logs" /\ s.interrupted = o.interrupted
      BY <1>1, <2>1, <3>1 DEF Scanners
    <3>3. WorkerStep(e, s)
      BY <1>1, <1>8, <2>3
    <3> HIDE DEF s
    <3>4. ScanOwn(s)
      BY <1>1, <1>2, <1>3, <1>4, <1>5, <3>1, <3>2 DEF ScanOwn
    <3>5. o.pairs \subseteq s.pairs
      BY <3>2 DEF new
    <3> QED
      BY <1>1, <1>4, <1>6, <3>2, <3>3, <3>4, <3>5
  <2> QED
    BY <2>2, <2>3
<1> QED
  BY <1>7, <1>8

\* A step of a scan worker keeps the whole invariant, if what its scan has found
\* still covers its cursor.
LEMMA WorkerKeeps ==
    ASSUME CoverInv, NEW e \in 1 .. MaxEpochs, scanners[e].acct # None, NEW s \in Scanners,
           s.acct = scanners[e].acct, ScanOwn(s), WorkerStep(e, s),
           faults = {} /\ e = epoch => ScanCovers(s)
    PROVE  CoverInv'
<1>1. OwnInv'
  BY WorkerOwn DEF CoverInv
<1>2. /\ scanners' = [scanners EXCEPT ![e] = s]
      /\ UNCHANGED <<logs, allowed, view, shown, epoch, lastBlock, zeroed, cache, outrun, faults>>
  BY DEF WorkerStep, onChain, plugin
<1>3. scanners \in [1 .. MaxEpochs -> Scanners \cup {NoScan}]
      /\ (epoch > 0 => epoch \in 1 .. MaxEpochs)
  BY DEF CoverInv, OwnInv, ApprovalsTypes
<1>4. scanners'[e] = s /\ \A x \in 1 .. MaxEpochs : x # e => scanners'[x] = scanners[x]
  BY <1>2, <1>3
<1>5. Current' <=> Current
  BY <1>2, <1>3, <1>4 DEF Current
<1>6. AllCovered'
  <2> SUFFICES ASSUME faults = {}
               PROVE  /\ Current' => ScanCovers(scanners[epoch])'
                      /\ PanelCovers'
                      /\ \A a \in Accounts : CacheCovers(a)'
    BY <1>2 DEF AllCovered
  <2>1. (Current => ScanCovers(scanners[epoch])) /\ PanelCovers /\ \A a \in Accounts : CacheCovers(a)
    BY DEF CoverInv, AllCovered
  <2>2. PanelCovers' /\ \A a \in Accounts : CacheCovers(a)'
    BY <1>2, <1>5, <2>1 DEF PanelCovers, CacheCovers, Covers, Under
  <2>3. ASSUME Current PROVE ScanCovers(scanners[epoch])'
    <3>1. ScanCovers(scanners'[epoch])
      BY <1>2, <1>3, <1>4, <2>1, <2>3 DEF Current
    <3> QED
      BY <1>2, <3>1 DEF ScanCovers, Covers, Under
  <2> QED
    BY <1>5, <2>2, <2>3
<1> QED
  BY <1>1, <1>6 DEF CoverInv

\* The scan that ends reports its cursor last.
LEMMA EndStep ==
    ASSUME OwnInv, NEW e \in 1 .. MaxEpochs, scanners[e].acct # None,
           scanners[e].stage # "ended", NEW complete \in BOOLEAN
    PROVE  LET o == scanners[e]
               s == Ends(o, complete)
           IN  /\ s \in Scanners /\ ScanOwn(s) /\ s.acct = o.acct /\ s.stage = "ended"
               /\ s.pairs = o.pairs /\ s.head = o.head /\ s.interrupted = o.interrupted
               /\ Reported(s.inbox, "rows") = Reported(o.inbox, "rows")
               /\ Reported(s.inbox, "zeroed") = Reported(o.inbox, "zeroed")
               /\ \A i \in DOMAIN s.inbox :
                     s.inbox[i].kind = "done" => s.inbox[i].what.complete = complete
<1> DEFINE o == scanners[e]
           m == [kind |-> "done", what |-> [complete |-> complete, head |-> o.head]]
           box == Append(o.inbox, m)
           r == [o EXCEPT !.inbox = box]
           s == [r EXCEPT !.stage = "ended"]
<1>1. o \in Scanners /\ ScanOwn(o) /\ o.inbox \in Seq(Messages) /\ o.head \in Nat
  BY RunningScan DEF Scanners
<1>2. m \in Messages /\ m.kind = "done" /\ m.what.head = o.head /\ m.what.complete = complete
  BY <1>1 DEF Messages
<1> HIDE DEF m
<1>3. /\ box \in Seq(Messages)
      /\ Reported(box, "rows") = Reported(o.inbox, "rows")
      /\ Reported(box, "zeroed") = Reported(o.inbox, "zeroed")
  BY <1>1, <1>2, ReportAppended
<1>4. /\ Len(box) = Len(o.inbox) + 1 /\ box[Len(o.inbox) + 1] = m
      /\ \A i \in 1 .. Len(o.inbox) : box[i] = o.inbox[i]
      /\ Len(o.inbox) \in Nat /\ DOMAIN o.inbox = 1 .. Len(o.inbox)
      /\ DOMAIN box = 1 .. Len(o.inbox) + 1
  BY <1>1, <1>2, <1>3, AppendProperties, LenProperties
<1>5. \A i \in DOMAIN box : box[i].kind = "done" => i = Len(box) /\ box[i] = m
  <2>1. \A i \in 1 .. Len(o.inbox) : o.inbox[i].kind # "done"
    BY <1>1, <1>4 DEF ScanOwn
  <2>2. \A i \in 1 .. Len(o.inbox) + 1 : i \in 1 .. Len(o.inbox) \/ i = Len(o.inbox) + 1
    BY <1>4
  <2> QED
    BY <1>4, <2>1, <2>2
<1> HIDE DEF box
<1>6. /\ s \in Scanners /\ s.acct = o.acct /\ s.stage = "ended" /\ s.pairs = o.pairs
      /\ s.head = o.head /\ s.from = o.from /\ s.interrupted = o.interrupted /\ s.inbox = box
  BY <1>1, <1>3 DEF Scanners
<1>7. s = Ends(o, complete)
  BY DEF Ends, Report, Cursor, m, box
<1> HIDE DEF s
<1>8. ScanOwn(s)
  BY <1>1, <1>2, <1>3, <1>5, <1>6 DEF ScanOwn
<1> QED
  BY <1>2, <1>3, <1>5, <1>6, <1>7, <1>8

\* _fetch_logs
LEMMA FetchWindowKeeps ==
    ASSUME CoverInv, NEW e \in 1 .. MaxEpochs, FetchWindow(e) PROVE CoverInv'
<1> DEFINE o == scanners[e]
<1>1. OwnInv
  BY DEF CoverInv
<1>2. PICK s \in Scanners :
              /\ WorkerStep(e, s) /\ ScanOwn(s) /\ o.acct # None
              /\ s.acct = o.acct /\ s.inbox = o.inbox /\ s.interrupted = o.interrupted
              /\ s.stage \in {"logs", "tail"} /\ o.stage = "logs"
              /\ s.head >= o.head /\ s.head <= Len(logs[s.acct])
              /\ o.pairs \subseteq s.pairs
              /\ \A i \in 1 .. s.head : i > o.head => logs[s.acct][i] \in s.pairs
  BY <1>1, WindowStep
<1>3. ASSUME faults = {}, e = epoch PROVE ScanCovers(s)
  <2>1. e > 0 /\ o.acct = view /\ ScanCovers(o)
    BY <1>1, <1>2, <1>3 DEF OnePerEpoch, Current, OwnInv, CoverInv, AllCovered
  <2>2. /\ o \in Scanners /\ s.head \in Nat /\ o.head \in Nat /\ lastBlock \in Nat
        /\ logs[view] \in Seq(AllPairs) /\ DOMAIN logs[view] = 1 .. Len(logs[view])
    BY <1>1, <1>2, <2>1, RunningScan, LenProperties DEF Scanners, OwnInv, ApprovalsTypes
  <2>3. ASSUME NEW p \in allowed[view], Under(view, p, s.head), <<view, p>> \notin outrun
        PROVE  p \in s.pairs \cup Reported(s.inbox, "rows") \cup shown
    <3>1. CASE Under(view, p, o.head)
      BY <1>2, <2>1, <2>3, <3>1 DEF ScanCovers, Covers
    <3>2. CASE ~Under(view, p, o.head)
      <4>1. PICK i \in DOMAIN logs[view] : logs[view][i] = p /\ ~(i <= o.head)
        BY <3>2 DEF Under
      <4>2. i \in 1 .. s.head /\ i > o.head
        BY <2>2, <2>3, <4>1 DEF Under
      <4> QED
        BY <1>2, <2>1, <4>1, <4>2
    <3> QED
      BY <3>1, <3>2
  <2>4. lastBlock <= s.head
    BY <1>2, <2>1, <2>2 DEF ScanCovers
  <2> QED
    BY <1>2, <2>1, <2>3, <2>4 DEF ScanCovers, Covers
<1> QED
  BY <1>2, <1>3, WorkerKeeps

\* A log source that fails ends the scan.
LEMMA LogSourceFailsKeeps ==
    ASSUME CoverInv, NEW e \in 1 .. MaxEpochs, LogSourceFails(e) PROVE CoverInv'
<1>1. /\ scanners[e].acct # None /\ scanners[e].stage # "ended" /\ faults # {}
      /\ WorkerStep(e, Ends(scanners[e], FALSE))
  BY DEF LogSourceFails, Running
<1> QED
  BY <1>1, EndStep, WorkerKeeps DEF CoverInv

\* _patch_recent_tail
LEMMA PatchTailKeeps ==
    ASSUME CoverInv, NEW e \in 1 .. MaxEpochs, PatchTail(e) PROVE CoverInv'
<1> DEFINE o == scanners[e]
           newer == {logs[o.acct][i] : i \in {j \in DOMAIN logs[o.acct] : j > o.head}}
<1>1. /\ o.acct # None /\ o.stage = "tail"
      /\ \E got \in {{}, newer} :
            WorkerStep(e, [o EXCEPT !.pairs = o.pairs \union got, !.stage = "verify"])
  BY DEF PatchTail, Running
<1>2. PICK got \in {{}, newer} :
            WorkerStep(e, [o EXCEPT !.pairs = o.pairs \union got, !.stage = "verify"])
  BY <1>1
<1>3. /\ o \in Scanners /\ ScanOwn(o) /\ o.acct \in Accounts
      /\ DOMAIN logs[o.acct] = 1 .. Len(logs[o.acct])
      /\ \A i \in 1 .. Len(logs[o.acct]) : logs[o.acct][i] \in AllPairs \cap ToSet(logs[o.acct])
  BY <1>1, RunningScan, LenProperties DEF CoverInv
<1>4. got \subseteq AllPairs /\ got \subseteq ToSet(logs[o.acct])
  BY <1>3
<1> HIDE DEF newer
<1> DEFINE s == [o EXCEPT !.pairs = o.pairs \union got, !.stage = "verify"]
<1>5. /\ s \in Scanners /\ s.acct = o.acct /\ s.inbox = o.inbox /\ s.head = o.head
      /\ s.from = o.from /\ s.stage = "verify" /\ s.interrupted = o.interrupted
      /\ s.pairs = o.pairs \union got
  BY <1>3, <1>4 DEF Scanners
<1>6. WorkerStep(e, s)
  BY <1>2
<1> HIDE DEF s
<1>7. ScanOwn(s)
  BY <1>1, <1>3, <1>4, <1>5 DEF ScanOwn
<1>8. ASSUME faults = {}, e = epoch PROVE ScanCovers(s)
  <2>1. e > 0 /\ o.acct = view /\ ScanCovers(o)
    BY <1>1, <1>8 DEF OnePerEpoch, Current, OwnInv, CoverInv, AllCovered
  <2> QED
    BY <1>1, <1>5, <2>1 DEF ScanCovers, Covers
<1> QED
  BY <1>1, <1>5, <1>6, <1>7, <1>8, WorkerKeeps

\* The end of a scan.
LEMMA ScanEndsKeeps ==
    ASSUME CoverInv, NEW e \in 1 .. MaxEpochs, ScanEnds(e) PROVE CoverInv'
<1> DEFINE o == scanners[e]
           complete == ~o.interrupted
           s == Ends(o, complete)
<1>1. /\ o.acct # None /\ o.stage = "verify" /\ (o.pairs = {} \/ o.interrupted)
      /\ WorkerStep(e, s) /\ OwnInv
  BY DEF ScanEnds, Running, CoverInv
<1>2. o \in Scanners /\ complete \in BOOLEAN
  BY <1>1, RunningScan
<1>3. /\ s \in Scanners /\ ScanOwn(s) /\ s.acct = o.acct /\ s.stage = "ended"
      /\ s.pairs = o.pairs /\ s.head = o.head /\ s.interrupted = o.interrupted
      /\ Reported(s.inbox, "rows") = Reported(o.inbox, "rows")
      /\ Reported(s.inbox, "zeroed") = Reported(o.inbox, "zeroed")
      /\ \A i \in DOMAIN s.inbox : s.inbox[i].kind = "done" => s.inbox[i].what.complete = complete
  BY <1>1, <1>2, EndStep
<1> HIDE DEF s
<1>4. ASSUME faults = {}, e = epoch PROVE ScanCovers(s)
  <2>1. e > 0 /\ o.acct = view /\ ScanCovers(o)
    BY <1>1, <1>4 DEF OnePerEpoch, Current, OwnInv, CoverInv, AllCovered
  <2>2. o.pairs = {} /\ complete /\ ~s.interrupted
    BY <1>1, <1>3, <2>1 DEF ScanCovers
  <2> QED
    BY <1>1, <1>3, <2>1, <2>2 DEF ScanCovers, Covers
<1> QED
  BY <1>1, <1>3, <1>4, WorkerKeeps

\* _emit_rows: a pair read as positive is a row, one read as zero is reported.
LEMMA VerifyKeeps ==
    ASSUME CoverInv, NEW e \in 1 .. MaxEpochs, Verify(e) PROVE CoverInv'
<1> DEFINE o == scanners[e]
           p == First(o.pairs)
           rest == [o EXCEPT !.pairs = o.pairs \ {p}]
<1>1. /\ o.acct # None /\ o.stage = "verify" /\ o.pairs # {} /\ ~o.interrupted
      /\ \E ok \in IF "read" \in faults THEN BOOLEAN ELSE {TRUE} :
           WorkerStep(e,
             IF ok /\ p \in allowed[o.acct] THEN Report(rest, "rows", {p})
             ELSE IF ReadZero(p, ok) # {} THEN Report(rest, "zeroed", ReadZero(p, ok))
             ELSE rest)
  BY DEF Verify, Running
<1>2. PICK ok \in IF "read" \in faults THEN BOOLEAN ELSE {TRUE} :
           WorkerStep(e,
             IF ok /\ p \in allowed[o.acct] THEN Report(rest, "rows", {p})
             ELSE IF ReadZero(p, ok) # {} THEN Report(rest, "zeroed", ReadZero(p, ok))
             ELSE rest)
  BY <1>1
<1>3. /\ o \in Scanners /\ ScanOwn(o) /\ o.acct \in Accounts /\ o.inbox \in Seq(Messages)
      /\ o.pairs \subseteq AllPairs /\ p \in o.pairs /\ p \in AllPairs
      /\ o.pairs \subseteq ToSet(logs[o.acct])
  BY <1>1, RunningScan DEF CoverInv, Scanners, First, ScanOwn
<1>4. faults = {} => ok
  BY <1>2
<1> HIDE DEF p
<1>5. /\ rest \in Scanners /\ rest.acct = o.acct /\ rest.inbox = o.inbox /\ rest.head = o.head
      /\ rest.from = o.from /\ rest.stage = "verify" /\ rest.interrupted = o.interrupted
      /\ rest.pairs = o.pairs \ {p}
  BY <1>1, <1>3 DEF Scanners
<1> HIDE DEF rest
<1>6. ASSUME faults = {}, e = epoch
      PROVE  e > 0 /\ o.acct = view /\ ScanCovers(o)
  BY <1>1, <1>6 DEF OnePerEpoch, Current, OwnInv, CoverInv, AllCovered
<1>7. ASSUME NEW kind \in {"rows", "zeroed"}, kind = "rows" <=> p \in allowed[o.acct],
             WorkerStep(e, Report(rest, kind, {p}))
      PROVE  CoverInv'
  <2> DEFINE m == [kind |-> kind, what |-> {p}]
             box == Append(o.inbox, m)
             s == Report(rest, kind, {p})
  <2>1. m \in Messages /\ m.kind = kind /\ m.what = {p}
    BY <1>3 DEF Messages
  <2> HIDE DEF m
  <2>2. /\ box \in Seq(Messages)
        /\ Reported(box, "rows") = Reported(o.inbox, "rows") \cup (IF kind = "rows" THEN {p} ELSE {})
        /\ Reported(box, "zeroed") = Reported(o.inbox, "zeroed") \cup (IF kind = "zeroed" THEN {p} ELSE {})
    BY <1>3, <2>1, ReportAppended
  <2>3. \A i \in DOMAIN box : box[i].kind # "done"
    <3>1. /\ Len(box) = Len(o.inbox) + 1 /\ box[Len(o.inbox) + 1] = m
          /\ \A i \in 1 .. Len(o.inbox) : box[i] = o.inbox[i]
          /\ Len(o.inbox) \in Nat /\ DOMAIN o.inbox = 1 .. Len(o.inbox)
          /\ DOMAIN box = 1 .. Len(o.inbox) + 1
      BY <1>3, <2>1, <2>2, AppendProperties, LenProperties
    <3>2. \A i \in 1 .. Len(o.inbox) : o.inbox[i].kind # "done"
      BY <1>1, <1>3, <3>1 DEF ScanOwn
    <3>3. \A i \in 1 .. Len(o.inbox) + 1 : i \in 1 .. Len(o.inbox) \/ i = Len(o.inbox) + 1
      BY <3>1
    <3> QED
      BY <2>1, <3>1, <3>2, <3>3
  <2> HIDE DEF box
  <2>4. s = [rest EXCEPT !.inbox = box]
    BY <1>5 DEF Report, m, box
  <2>5. /\ s \in Scanners /\ s.acct = o.acct /\ s.inbox = box /\ s.head = o.head
        /\ s.from = o.from /\ s.stage = "verify" /\ s.interrupted = o.interrupted
        /\ s.pairs = o.pairs \ {p}
    BY <1>5, <2>2, <2>4 DEF Scanners
  <2> HIDE DEF s
  <2>6. ScanOwn(s)
    BY <1>3, <2>2, <2>3, <2>5 DEF ScanOwn
  <2>7. ASSUME faults = {}, e = epoch PROVE ScanCovers(s)
    <3>1. o.acct = view /\ ScanCovers(o)
      BY <1>6, <2>7
    <3>2. Covers(view, s.head, s.pairs \cup Reported(s.inbox, "rows") \cup shown)
      BY <1>7, <2>2, <2>5, <3>1 DEF ScanCovers, Covers
    <3>3. \A q \in zeroed \cup Reported(s.inbox, "zeroed") :
            q \in allowed[view] => ~Under(view, q, s.head)
      BY <1>7, <2>2, <2>5, <3>1 DEF ScanCovers
    <3> QED
      BY <1>1, <2>3, <2>5, <3>1, <3>2, <3>3 DEF ScanCovers
  <2>8. WorkerStep(e, s)
    BY <1>7 DEF s
  <2> QED
    BY <1>1, <2>5, <2>6, <2>7, <2>8, WorkerKeeps
<1>8. CASE ok /\ p \in allowed[o.acct]
  BY <1>2, <1>7, <1>8
<1>9. CASE ok /\ p \notin allowed[o.acct]
  <2>1. ReadZero(p, ok) = {p}
    BY <1>9 DEF ReadZero
  <2> QED
    BY <1>2, <1>7, <1>9, <2>1
<1>10. CASE ~ok
  <2>1. WorkerStep(e, rest)
    BY <1>2, <1>10 DEF ReadZero
  <2>2. ScanOwn(rest)
    BY <1>1, <1>3, <1>5 DEF ScanOwn
  <2> QED
    BY <1>1, <1>4, <1>5, <1>10, <2>1, <2>2, WorkerKeeps
<1> QED
  BY <1>8, <1>9, <1>10

-----------------------------------------------------------------------------
(* The main thread. *)

\* The steps that leave scans, panel and caches alone.
LEMMA QuietKeeps ==
    ASSUME CoverInv,
           UNCHANGED <<logs, allowed, view, shown, epoch, lastBlock, zeroed, cache, scanners,
                       outrun, faults>>,
           indexed' \in [Accounts -> Nat], \A a \in Accounts : indexed'[a] <= Len(logs[a]),
           pending' \subseteq AllPairs, reconciles' \subseteq Reconciles, started' \in Nat,
           queue' \in [acct : Accounts \cup {None}, rows : SUBSET AllPairs],
           queue'.rows # {} => queue'.acct = view,
           dialog'.owner # None => dialog'.owner = dialog'.acct
    PROVE  CoverInv'
<1>1. Current' <=> Current
  BY DEF Current
<1>2. ApprovalsTypes'
  BY DEF CoverInv, OwnInv, ApprovalsTypes
<1>3. ChainOK' /\ OnePerEpoch' /\ BatchOwn'
  BY <1>1 DEF CoverInv, OwnInv, ChainOK, OnePerEpoch, BatchOwn
<1>4. ScansOwn' /\ CursorsExist'
  BY <1>1 DEF CoverInv, OwnInv, ScansOwn, ScanOwn, CursorsExist
<1>5. OwnAccountOnly'
  BY DEF CoverInv, OwnInv, OwnAccountOnly, CacheIsOwn, BatchActsForItsAccount
<1>6. AllCovered'
  BY <1>1 DEF CoverInv, AllCovered, ScanCovers, PanelCovers, CacheCovers, Covers, Under
<1> QED
  BY <1>2, <1>3, <1>4, <1>5, <1>6 DEF CoverInv, OwnInv

\* _kick: what a scan starts from covers the cursor it starts at.
LEMMA StartScanKeeps ==
    ASSUME CoverInv, StartScan, pending' \subseteq AllPairs,
           UNCHANGED <<onChain, view, cache, reconciles, started, batch, outrun>>
    PROVE  CoverInv'
<1> DEFINE c == cache[view]
           from == IF c.rows # {} THEN c.block ELSE 0
           s == [acct |-> view, stage |-> "logs", from |-> from, head |-> from,
                 pairs |-> c.rows, interrupted |-> FALSE, inbox |-> <<>>]
<1>1. /\ epoch < MaxEpochs /\ epoch' = epoch + 1 /\ zeroed' = {}
      /\ shown' = c.rows /\ lastBlock' = from
      /\ scanners' = [scanners EXCEPT ![epoch + 1] = s]
      /\ UNCHANGED <<logs, allowed, indexed, faults, view, cache, reconciles, started, queue,
                     dialog, outrun>>
  BY DEF StartScan, CanScan, onChain, batch
<1>2. /\ c.rows \subseteq AllPairs /\ from \in Nat /\ epoch \in Nat /\ epoch + 1 \in 1 .. MaxEpochs
      /\ view \in Accounts /\ c.rows \subseteq ToSet(logs[view])
      /\ logs[view] \in Seq(AllPairs) /\ Len(logs[view]) \in Nat /\ from <= Len(logs[view])
      /\ scanners \in [1 .. MaxEpochs -> Scanners \cup {NoScan}]
  BY <1>1, LenProperties, ApprovalsAssumption
     DEF CoverInv, OwnInv, ApprovalsTypes, OwnAccountOnly, CacheIsOwn, CursorsExist
<1>3. <<>> \in Seq(Messages) /\ DOMAIN <<>> = {} /\ \A kind : Reported(<<>>, kind) = {}
  BY EmptySeq, LenProperties DEF Reported
<1> HIDE DEF from
<1>4. /\ s \in Scanners /\ s.acct = view /\ s.head = from /\ s.from = from /\ s.pairs = c.rows
      /\ s.stage = "logs" /\ s.interrupted = FALSE /\ s.inbox = <<>>
  BY <1>2, <1>3 DEF Scanners
<1> HIDE DEF s
<1>5. /\ scanners' \in [1 .. MaxEpochs -> Scanners \cup {NoScan}]
      /\ scanners'[epoch + 1] = s
      /\ \A x \in 1 .. MaxEpochs : x # epoch + 1 => scanners'[x] = scanners[x]
  BY <1>1, <1>2, <1>4
<1>6. ScanOwn(s)
  BY <1>2, <1>3, <1>4 DEF ScanOwn
<1>7. ApprovalsTypes'
  BY <1>1, <1>2, <1>5 DEF CoverInv, OwnInv, ApprovalsTypes
<1>8. ChainOK' /\ BatchOwn'
  BY <1>1 DEF CoverInv, OwnInv, ChainOK, BatchOwn
<1>9. OnePerEpoch'
  <2>1. \A x \in 1 .. MaxEpochs : x > epoch + 1 => x > epoch /\ x # epoch + 1
    BY <1>2
  <2> QED
    BY <1>1, <1>2, <1>4, <1>5, <2>1 DEF CoverInv, OwnInv, OnePerEpoch, Current
<1>10. ScansOwn'
  <2>1. \A x \in 1 .. MaxEpochs : scanners'[x].acct # None => ScanOwn(scanners'[x])
    BY <1>5, <1>6 DEF CoverInv, OwnInv, ScansOwn
  <2> QED
    BY <1>1, <2>1 DEF ScansOwn, ScanOwn
<1>11. CursorsExist'
  BY <1>1, <1>2 DEF CoverInv, OwnInv, CursorsExist
<1>12. OwnAccountOnly'
  BY <1>1, <1>2 DEF CoverInv, OwnInv, OwnAccountOnly, CacheIsOwn, BatchActsForItsAccount
<1>13. AllCovered'
  <2> SUFFICES ASSUME faults = {}
               PROVE  /\ ScanCovers(scanners[epoch])' /\ PanelCovers'
                      /\ \A a \in Accounts : CacheCovers(a)'
    BY <1>1 DEF AllCovered
  <2>1. \A a \in Accounts : CacheCovers(a)
    BY DEF CoverInv, AllCovered
  <2>2. Covers(view, from, c.rows)
    <3>1. CASE c.rows # {}
      BY <1>2, <2>1, <3>1 DEF CacheCovers, from
    <3>2. CASE c.rows = {}
      <4> SUFFICES ASSUME NEW p \in allowed[view], Under(view, p, from) PROVE FALSE
        BY DEF Covers
      <4>1. p \in ToSet(logs[view])
        BY <1>2 DEF CoverInv, OwnInv, ChainOK
      <4>2. PICK i \in DOMAIN logs[view] : logs[view][i] = p
        BY <4>1 DEF ToSet
      <4>3. i \in 1 .. Len(logs[view])
        BY <1>2, LenProperties
      <4>4. i <= from /\ from = 0
        BY <3>2, <4>2 DEF Under, from
      <4> QED
        BY <4>3, <4>4
    <3> QED
      BY <3>1, <3>2
  <2>3. PanelCovers' /\ \A a \in Accounts : CacheCovers(a)'
    BY <1>1, <2>1, <2>2 DEF PanelCovers, CacheCovers, Covers, Under
  <2>4. ScanCovers(scanners[epoch])'
    BY <1>1, <1>2, <1>3, <1>4, <1>5, <2>2 DEF ScanCovers, Covers, Under
  <2> QED
    BY <2>3, <2>4
<1> QED
  BY <1>7, <1>8, <1>9, <1>10, <1>11, <1>12, <1>13 DEF CoverInv, OwnInv

\* The next signal of a scan worker, and the scan after it.
FirstSignal(o) == Head(o.inbox)
AfterFirst(o) == [o EXCEPT !.inbox = Tail(o.inbox)]

LEMMA NextSignal ==
    ASSUME NEW o \in Scanners, ScanOwn(o), o.inbox # <<>>
    PROVE  /\ FirstSignal(o) \in Messages /\ AfterFirst(o) \in Scanners /\ ScanOwn(AfterFirst(o))
           /\ AfterFirst(o).acct = o.acct /\ AfterFirst(o).stage = o.stage
           /\ AfterFirst(o).pairs = o.pairs /\ AfterFirst(o).head = o.head
           /\ AfterFirst(o).interrupted = o.interrupted
           /\ \A kind \in {"rows", "zeroed"} :
                 Reported(o.inbox, kind) =
                    Reported(AfterFirst(o).inbox, kind)
                    \cup (IF FirstSignal(o).kind = kind THEN FirstSignal(o).what ELSE {})
           /\ FirstSignal(o).kind = "done" =>
                 /\ FirstSignal(o).what.head = o.head /\ o.stage = "ended"
                 /\ Reported(o.inbox, "rows") = {}
                 /\ Reported(o.inbox, "zeroed") = {}
           /\ 1 \in DOMAIN o.inbox /\ o.inbox[1] = FirstSignal(o)
           /\ \A i \in DOMAIN AfterFirst(o).inbox :
                 /\ i + 1 \in DOMAIN o.inbox
                 /\ AfterFirst(o).inbox[i] = o.inbox[i + 1]
<1> DEFINE s == AfterFirst(o)
           m == FirstSignal(o)
           box == Tail(o.inbox)
<1>1. o.inbox \in Seq(Messages)
  BY DEF Scanners
<1>2. /\ m \in Messages /\ box \in Seq(Messages) /\ Len(box) = Len(o.inbox) - 1
      /\ \A i \in 1 .. Len(box) : box[i] = o.inbox[i + 1]
  BY <1>1, HeadTailProperties DEF FirstSignal
<1>3. /\ DOMAIN o.inbox = 1 .. Len(o.inbox) /\ DOMAIN box = 1 .. Len(o.inbox) - 1
      /\ Len(o.inbox) \in Nat /\ Len(o.inbox) >= 1 /\ m = o.inbox[1]
  BY <1>1, <1>2, LenProperties, EmptySeq DEF FirstSignal
<1>4. \A kind \in {"rows", "zeroed"} :
         Reported(o.inbox, kind) = Reported(box, kind) \cup (IF m.kind = kind THEN m.what ELSE {})
  BY <1>1, ReportDelivered DEF FirstSignal
<1>5. /\ 1 \in DOMAIN o.inbox
      /\ \A i \in DOMAIN box : i + 1 \in DOMAIN o.inbox /\ box[i] = o.inbox[i + 1]
  BY <1>2, <1>3
<1> HIDE DEF box
<1> HIDE DEF m
<1>6. /\ s \in Scanners /\ s.acct = o.acct /\ s.stage = o.stage /\ s.pairs = o.pairs
      /\ s.head = o.head /\ s.from = o.from /\ s.interrupted = o.interrupted /\ s.inbox = box
  BY <1>1, <1>2 DEF Scanners, box, AfterFirst
<1> HIDE DEF s
<1>7. Reported(box, "rows") \subseteq Reported(o.inbox, "rows")
  BY <1>4
<1>8. \A i \in DOMAIN box : box[i].kind = "done" =>
         i = Len(box) /\ o.stage = "ended" /\ box[i].what.head = o.head
  <2> SUFFICES ASSUME NEW i \in DOMAIN box, box[i].kind = "done"
               PROVE  i = Len(box) /\ o.stage = "ended" /\ box[i].what.head = o.head
    OBVIOUS
  <2>1. i + 1 = Len(o.inbox) /\ o.stage = "ended" /\ box[i].what.head = o.head
    BY <1>1, <1>5 DEF ScanOwn
  <2> QED
    BY <1>2, <1>3, <2>1
<1>9. ScanOwn(s)
  BY <1>1, <1>6, <1>7, <1>8 DEF ScanOwn
<1>10. ASSUME m.kind = "done"
       PROVE  /\ m.what.head = s.head /\ s.stage = "ended"
              /\ Reported(o.inbox, "rows") = {} /\ Reported(o.inbox, "zeroed") = {}
  <2>1. 1 = Len(o.inbox) /\ m.what.head = o.head /\ o.stage = "ended"
    BY <1>1, <1>3, <1>5, <1>10 DEF ScanOwn
  <2>2. \A i \in DOMAIN o.inbox : o.inbox[i].kind = "done"
    BY <1>3, <1>10, <2>1
  <2> QED
    BY <1>6, <2>1, <2>2 DEF Reported
<1> QED
  BY <1>2, <1>3, <1>4, <1>5, <1>6, <1>9, <1>10 DEF s, m

\* What a delivered signal leaves of the scans.
LEMMA DeliveredOwn ==
    ASSUME CoverInv, NEW e \in 1 .. MaxEpochs, DeliverScan(e),
           shown' \subseteq AllPairs, shown' \subseteq ToSet(logs[view]),
           zeroed' \subseteq AllPairs, lastBlock' \in Nat,
           shown' # {} \/ Current => lastBlock' <= Len(logs[view]),
           cache' = cache \/ Persist(view, shown', lastBlock')
    PROVE  OwnInv'
<1> DEFINE o == scanners[e]
           m == FirstSignal(o)
           s == AfterFirst(o)
           t == IF m.kind = "done" THEN NoScan ELSE s
<1>1. /\ o.acct # None /\ o.inbox # <<>> /\ scanners' = [scanners EXCEPT ![e] = t]
      /\ UNCHANGED <<logs, allowed, indexed, view, epoch, pending, reconciles, started, queue,
                     dialog>>
  BY DEF DeliverScan, onChain, batch, FirstSignal, AfterFirst
<1>2. s \in Scanners /\ ScanOwn(s) /\ s.acct = o.acct
  <2>1. o \in Scanners /\ ScanOwn(o)
    BY <1>1, RunningScan DEF CoverInv
  <2> QED
    BY <1>1, <2>1, NextSignal
<1> HIDE DEF s, m
<1>3. /\ scanners \in [1 .. MaxEpochs -> Scanners \cup {NoScan}]
      /\ epoch \in 0 .. MaxEpochs /\ view \in Accounts
      /\ cache \in [Accounts -> [rows : SUBSET AllPairs, block : Nat]]
  BY DEF CoverInv, OwnInv, ApprovalsTypes
<1>4. t \in Scanners \cup {NoScan} /\ (t.acct # None => t = s)
  BY <1>2 DEF NoScan
<1>5. /\ scanners' \in [1 .. MaxEpochs -> Scanners \cup {NoScan}] /\ scanners'[e] = t
      /\ \A x \in 1 .. MaxEpochs : x # e => scanners'[x] = scanners[x]
  BY <1>1, <1>3, <1>4
<1> HIDE DEF t
<1>6. /\ cache' \in [Accounts -> [rows : SUBSET AllPairs, block : Nat]]
      /\ \A a \in Accounts :
            \/ cache'[a] = cache[a]
            \/ a = view /\ cache'[a] = [rows |-> shown', block |-> lastBlock']
  <2>1. [rows |-> shown', block |-> lastBlock'] \in [rows : SUBSET AllPairs, block : Nat]
    OBVIOUS
  <2>2. CASE cache' = cache
    BY <1>3, <2>2
  <2>3. CASE Persist(view, shown', lastBlock')
    <3>1. cache' = [cache EXCEPT ![view] = [rows |-> shown', block |-> lastBlock']]
      BY <2>3 DEF Persist
    <3> QED
      BY <1>3, <2>1, <3>1
  <2> QED
    BY <2>2, <2>3
<1>7. ApprovalsTypes'
  BY <1>1, <1>5, <1>6 DEF CoverInv, OwnInv, ApprovalsTypes
<1>8. ChainOK' /\ BatchOwn'
  BY <1>1 DEF CoverInv, OwnInv, ChainOK, BatchOwn
<1>9. Current' => Current
  BY <1>1, <1>2, <1>3, <1>4, <1>5 DEF Current
<1>10. OnePerEpoch'
  BY <1>1, <1>2, <1>3, <1>4, <1>5 DEF CoverInv, OwnInv, OnePerEpoch, Current
<1>11. ScansOwn'
  <2>1. \A x \in 1 .. MaxEpochs : scanners'[x].acct # None => ScanOwn(scanners'[x])
    BY <1>2, <1>4, <1>5 DEF CoverInv, OwnInv, ScansOwn
  <2> QED
    BY <1>1, <2>1 DEF ScansOwn, ScanOwn
<1>12. CursorsExist'
  <2>1. \A a \in Accounts : cache'[a].rows # {} => cache'[a].block <= Len(logs[a])
    BY <1>6 DEF CoverInv, OwnInv, CursorsExist
  <2> QED
    BY <1>1, <1>9, <2>1 DEF CursorsExist
<1>13. OwnAccountOnly'
  <2>1. \A a \in Accounts : cache'[a].rows \subseteq ToSet(logs[a])
    BY <1>6 DEF CoverInv, OwnInv, OwnAccountOnly, CacheIsOwn
  <2> QED
    BY <1>1, <2>1 DEF CoverInv, OwnInv, OwnAccountOnly, CacheIsOwn, BatchActsForItsAccount
<1> QED
  BY <1>7, <1>8, <1>10, <1>11, <1>12, <1>13 DEF OwnInv

\* What a delivered signal leaves covered, where nothing fails.
LEMMA DeliveredCovers ==
    ASSUME CoverInv, NEW e \in 1 .. MaxEpochs, DeliverScan(e), OwnInv',
           faults = {} =>
              /\ Current' => ScanCovers(scanners[epoch])'
              /\ shown' # {} \/ Current' => Covers(view, lastBlock', shown'),
           cache' = cache \/ (Persist(view, shown', lastBlock') /\ Covers(view, lastBlock', shown'))
    PROVE  CoverInv'
<1>1. UNCHANGED <<logs, allowed, view, outrun, faults>>
  BY DEF DeliverScan, onChain
<1>2. ASSUME faults = {}, NEW a \in Accounts, cache'[a].rows # {}
      PROVE  Covers(a, cache'[a].block, cache'[a].rows)
  <2>1. CASE cache'[a] = cache[a]
    BY <1>2, <2>1 DEF CoverInv, AllCovered, CacheCovers
  <2>2. CASE cache'[a] # cache[a]
    <3>1. cache' = [cache EXCEPT ![view] = [rows |-> shown', block |-> lastBlock']]
      BY <2>2 DEF Persist
    <3>2. a = view /\ cache'[a] = [rows |-> shown', block |-> lastBlock']
      BY <2>2, <3>1 DEF CoverInv, OwnInv, ApprovalsTypes
    <3> QED
      BY <2>2, <3>2
  <2> QED
    BY <2>1, <2>2
<1>3. ASSUME faults = {} PROVE PanelCovers' /\ \A a \in Accounts : CacheCovers(a)'
  BY <1>1, <1>2, <1>3 DEF PanelCovers, CacheCovers, Covers, Under
<1> QED
  BY <1>1, <1>3 DEF CoverInv, AllCovered

\* _on_rows, _on_zeroed and _on_done, for the view or not.
LEMMA DeliverScanKeeps ==
    ASSUME CoverInv, NEW e \in 1 .. MaxEpochs, DeliverScan(e) PROVE CoverInv'
<1> DEFINE o == scanners[e]
           m == FirstSignal(o)
           s == AfterFirst(o)
           t == IF m.kind = "done" THEN NoScan ELSE s
           head == IF m.what.head > lastBlock THEN m.what.head ELSE lastBlock
<1>1. /\ o.acct # None /\ o.inbox # <<>> /\ scanners' = [scanners EXCEPT ![e] = t]
      /\ UNCHANGED <<logs, allowed, indexed, view, epoch, outrun, faults>>
      /\ \/ ~Fresh(e) /\ UNCHANGED <<shown, lastBlock, zeroed, cache>>
         \/ /\ Fresh(e) /\ m.kind = "rows" /\ shown' = shown \union m.what
            /\ UNCHANGED <<lastBlock, zeroed, cache>>
         \/ /\ Fresh(e) /\ m.kind = "zeroed" /\ zeroed' = zeroed \union m.what
            /\ UNCHANGED <<shown, lastBlock, cache>>
         \/ /\ Fresh(e) /\ m.kind = "done" /\ m.what.complete
            /\ shown' = shown \ zeroed /\ lastBlock' = head
            /\ Persist(view, shown \ zeroed, head) /\ UNCHANGED zeroed
         \/ /\ Fresh(e) /\ m.kind = "done" /\ ~m.what.complete
            /\ lastBlock' = head /\ UNCHANGED <<shown, zeroed, cache>>
  BY DEF DeliverScan, onChain, FirstSignal, AfterFirst
<1>2. /\ m \in Messages /\ s \in Scanners /\ ScanOwn(s)
      /\ s.acct = o.acct /\ s.stage = o.stage /\ s.pairs = o.pairs /\ s.head = o.head
      /\ s.interrupted = o.interrupted
      /\ Reported(o.inbox, "rows") =
            Reported(s.inbox, "rows") \cup (IF m.kind = "rows" THEN m.what ELSE {})
      /\ Reported(o.inbox, "zeroed") =
            Reported(s.inbox, "zeroed") \cup (IF m.kind = "zeroed" THEN m.what ELSE {})
      /\ m.kind = "done" =>
            /\ m.what.head = s.head /\ s.stage = "ended"
            /\ Reported(o.inbox, "rows") = {} /\ Reported(o.inbox, "zeroed") = {}
      /\ 1 \in DOMAIN o.inbox /\ o.inbox[1] = m
      /\ \A i \in DOMAIN s.inbox : i + 1 \in DOMAIN o.inbox /\ s.inbox[i] = o.inbox[i + 1]
  <2>1. o \in Scanners /\ ScanOwn(o) /\ o.inbox # <<>>
    BY <1>1, RunningScan DEF CoverInv
  <2> HIDE DEF o
  <2> QED
    BY <2>1, NextSignal
<1> HIDE DEF s, m
<1>3. /\ shown \subseteq AllPairs /\ zeroed \subseteq AllPairs /\ lastBlock \in Nat
      /\ shown \subseteq ToSet(logs[view]) /\ view \in Accounts
      /\ scanners \in [1 .. MaxEpochs -> Scanners \cup {NoScan}] /\ epoch \in 0 .. MaxEpochs
      /\ (shown # {} \/ Current => lastBlock <= Len(logs[view]))
      /\ (e = epoch => Current /\ o.acct = view)
  BY <1>1 DEF CoverInv, OwnInv, ApprovalsTypes, OwnAccountOnly, CacheIsOwn, CursorsExist,
              OnePerEpoch, Current
<1>4. /\ t \in Scanners \cup {NoScan}
      /\ scanners'[e] = t /\ \A x \in 1 .. MaxEpochs : x # e => scanners'[x] = scanners[x]
  BY <1>1, <1>2, <1>3
<1>5. Fresh(e) => e = epoch /\ Current
  BY <1>1, <1>3 DEF Fresh
<1>6. m.kind = "done" /\ e = epoch => ~Current'
  BY <1>1, <1>4 DEF Current, NoScan
<1>7. /\ m.kind \in {"rows", "zeroed"} => m.what \subseteq AllPairs
      /\ m.kind = "done" => m.what.head \in Nat
      /\ m.kind \in {"rows", "zeroed", "done"}
  BY <1>2 DEF Messages
<1>8. m.kind # "done" => t = s
  OBVIOUS
<1> HIDE DEF t
<1>9. ASSUME faults = {}, e = epoch PROVE ScanCovers(o)
  BY <1>3, <1>9 DEF CoverInv, AllCovered
<1>10. CASE ~Fresh(e)
  <2>1. UNCHANGED <<shown, lastBlock, zeroed, cache>> /\ e # epoch
    BY <1>1, <1>3, <1>10 DEF Fresh
  <2>2. Current' <=> Current
    BY <1>1, <1>3, <1>4, <2>1 DEF Current
  <2>3. OwnInv'
    BY <1>1, <1>3, <2>1, <2>2, DeliveredOwn
  <2>4. ASSUME faults = {}
        PROVE  /\ Current' => ScanCovers(scanners[epoch])'
               /\ shown' # {} \/ Current' => Covers(view, lastBlock', shown')
    <3>1. Current' => ScanCovers(scanners[epoch])'
      <4> SUFFICES ASSUME Current' PROVE ScanCovers(scanners[epoch])'
        OBVIOUS
      <4>1. ScanCovers(scanners[epoch]) /\ scanners'[epoch] = scanners[epoch]
        BY <1>3, <1>4, <2>1, <2>2, <2>4 DEF CoverInv, AllCovered, Current
      <4> QED
        BY <1>1, <2>1, <4>1 DEF ScanCovers, Covers, Under
    <3>2. shown' # {} \/ Current' => Covers(view, lastBlock', shown')
      BY <2>1, <2>2, <2>4 DEF CoverInv, AllCovered, PanelCovers
    <3> QED
      BY <3>1, <3>2
  <2> QED
    BY <2>1, <2>3, <2>4, DeliveredCovers
<1>11. CASE Fresh(e) /\ m.kind = "rows"
  <2>1. /\ shown' = shown \union m.what /\ UNCHANGED <<lastBlock, zeroed, cache>>
        /\ t = s /\ e = epoch /\ Current /\ o.acct = view
    BY <1>1, <1>3, <1>5, <1>8, <1>11
  <2>2. m.what \subseteq AllPairs /\ m.what \subseteq ToSet(logs[view])
    <3>1. Reported(o.inbox, "rows") \subseteq ToSet(logs[view])
      BY <1>1, <2>1, RunningScan DEF CoverInv, ScanOwn
    <3> QED
      BY <1>2, <1>7, <1>11, <3>1
  <2>3. OwnInv'
    BY <1>3, <2>1, <2>2, DeliveredOwn
  <2>4. ASSUME faults = {}
        PROVE  /\ Current' => ScanCovers(scanners[epoch])'
               /\ shown' # {} \/ Current' => Covers(view, lastBlock', shown')
    <3>1. ScanCovers(o) /\ Covers(view, lastBlock, shown)
      BY <1>9, <2>1, <2>4 DEF CoverInv, AllCovered, PanelCovers
    <3>2. Covers(view, s.head, s.pairs \cup Reported(s.inbox, "rows") \cup shown')
      BY <1>2, <1>11, <2>1, <3>1 DEF ScanCovers, Covers
    <3>3. /\ ~s.interrupted /\ lastBlock <= s.head /\ (s.stage = "ended" => s.pairs = {})
          /\ \A i \in DOMAIN s.inbox : s.inbox[i].kind = "done" => s.inbox[i].what.complete
      BY <1>2, <3>1 DEF ScanCovers
    <3>4. /\ \A p \in zeroed \cup Reported(s.inbox, "zeroed") :
                p \in allowed[view] => ~Under(view, p, s.head)
          /\ (s.stage \in {"logs", "tail"} => zeroed \cup Reported(s.inbox, "zeroed") = {})
      BY <1>2, <1>11, <3>1 DEF ScanCovers
    <3>5. scanners'[epoch] = s
      BY <1>4, <2>1
    <3>6. ScanCovers(scanners[epoch])'
      BY <1>1, <2>1, <3>2, <3>3, <3>4, <3>5 DEF ScanCovers, Covers, Under
    <3> QED
      BY <2>1, <3>1, <3>6 DEF Covers
  <2> QED
    BY <2>1, <2>3, <2>4, DeliveredCovers
<1>12. CASE Fresh(e) /\ m.kind = "zeroed"
  <2>1. /\ zeroed' = zeroed \union m.what /\ UNCHANGED <<shown, lastBlock, cache>>
        /\ t = s /\ e = epoch /\ Current /\ o.acct = view
    BY <1>1, <1>3, <1>5, <1>8, <1>12
  <2>2. OwnInv'
    BY <1>3, <1>7, <1>12, <2>1, DeliveredOwn
  <2>3. ASSUME faults = {}
        PROVE  /\ Current' => ScanCovers(scanners[epoch])'
               /\ shown' # {} \/ Current' => Covers(view, lastBlock', shown')
    <3>1. ScanCovers(o) /\ Covers(view, lastBlock, shown)
      BY <1>9, <2>1, <2>3 DEF CoverInv, AllCovered, PanelCovers
    <3>2. Covers(view, s.head, s.pairs \cup Reported(s.inbox, "rows") \cup shown)
      BY <1>2, <1>12, <3>1 DEF ScanCovers
    <3>3. /\ ~s.interrupted /\ lastBlock <= s.head /\ (s.stage = "ended" => s.pairs = {})
          /\ \A i \in DOMAIN s.inbox : s.inbox[i].kind = "done" => s.inbox[i].what.complete
      BY <1>2, <3>1 DEF ScanCovers
    <3>4. zeroed' \cup Reported(s.inbox, "zeroed") = zeroed \cup Reported(o.inbox, "zeroed")
      BY <1>2, <1>12, <2>1
    <3>5. /\ \A p \in zeroed' \cup Reported(s.inbox, "zeroed") :
                p \in allowed[view] => ~Under(view, p, s.head)
          /\ (s.stage \in {"logs", "tail"} => zeroed' \cup Reported(s.inbox, "zeroed") = {})
      BY <1>2, <3>1, <3>4 DEF ScanCovers
    <3>6. scanners'[epoch] = s
      BY <1>4, <2>1
    <3>7. ScanCovers(scanners[epoch])'
      BY <1>1, <2>1, <3>2, <3>3, <3>5, <3>6 DEF ScanCovers, Covers, Under
    <3> QED
      BY <2>1, <3>1, <3>7
  <2> QED
    BY <2>1, <2>2, <2>3, DeliveredCovers
<1>13. CASE Fresh(e) /\ m.kind = "done"
  <2>1. /\ lastBlock' = head /\ e = epoch /\ Current /\ o.acct = view /\ ~Current'
        /\ UNCHANGED zeroed /\ shown' \subseteq shown
        /\ \/ m.what.complete /\ shown' = shown \ zeroed /\ Persist(view, shown', lastBlock')
           \/ ~m.what.complete /\ UNCHANGED <<shown, cache>>
    BY <1>1, <1>3, <1>5, <1>6, <1>13
  <2>2. s.head <= Len(logs[view]) /\ m.what.head = s.head /\ s.head \in Nat
    BY <1>2, <1>13, <2>1 DEF ScanOwn, Scanners
  <2>3. lastBlock' \in Nat /\ lastBlock' <= Len(logs[view])
    BY <1>3, <2>1, <2>2
  <2>4. OwnInv'
    <3>1. cache' = cache \/ Persist(view, shown', lastBlock')
      BY <2>1
    <3>2. shown' \subseteq AllPairs /\ shown' \subseteq ToSet(logs[view]) /\ zeroed' \subseteq AllPairs
      BY <1>3, <2>1
    <3> QED
      BY <2>3, <3>1, <3>2, DeliveredOwn
  <2>5. ASSUME faults = {}
        PROVE  m.what.complete /\ Covers(view, lastBlock', shown')
    <3>1. ScanCovers(o)
      BY <1>9, <2>1, <2>5
    <3>2. m.what.complete /\ lastBlock' = o.head /\ o.pairs = {}
      BY <1>2, <1>3, <1>13, <2>1, <2>2, <3>1 DEF ScanCovers
    <3>3. Covers(view, o.head, shown)
      BY <1>2, <1>13, <3>1, <3>2 DEF ScanCovers, Covers
    <3>4. \A p \in zeroed : p \in allowed[view] => ~Under(view, p, o.head)
      BY <3>1 DEF ScanCovers
    <3>5. shown' = shown \ zeroed
      BY <2>1, <3>2
    <3> QED
      BY <3>2, <3>3, <3>4, <3>5 DEF Covers
  <2>6. faults = {} =>
           /\ Current' => ScanCovers(scanners[epoch])'
           /\ shown' # {} \/ Current' => Covers(view, lastBlock', shown')
    BY <2>1, <2>5
  <2>7. faults # {} => CoverInv'
    BY <1>1, <2>4 DEF CoverInv, AllCovered
  <2>8. CASE faults = {}
    <3>1. Persist(view, shown', lastBlock') /\ Covers(view, lastBlock', shown')
      BY <2>1, <2>5, <2>8
    <3> QED
      BY <2>4, <2>6, <3>1, DeliveredCovers
  <2> QED
    BY <2>7, <2>8
<1> QED
  BY <1>7, <1>10, <1>11, <1>12, <1>13

\* _on_reconciled: a pair taken away was read as zero, or its zero is outrun.
LEMMA DeliverReconcileKeeps ==
    ASSUME CoverInv, NEW r \in reconciles, DeliverReconcile(r) PROVE CoverInv'
<1>1. /\ reconciles' \subseteq Reconciles
      /\ UNCHANGED <<logs, allowed, indexed, faults, view, epoch, lastBlock, zeroed, pending,
                     scanners, started, queue, dialog>>
  BY DEF DeliverReconcile, onChain, batch, CoverInv, OwnInv, ApprovalsTypes
<1>2. CASE r.acct # view
  BY <1>1, <1>2, QuietKeeps
     DEF DeliverReconcile, CoverInv, OwnInv, ApprovalsTypes, ChainOK, BatchOwn, OwnAccountOnly,
         BatchActsForItsAccount
<1>3. CASE r.acct = view
  <2> DEFINE left == shown \ (r.pairs \ r.read)
             late == {<<view, p>> : p \in (shown \ left) \intersect allowed[view]}
  <2>1. shown' = left /\ outrun' = outrun \union late
        /\ cache' = [cache EXCEPT ![view] = [rows |-> left, block |-> lastBlock]]
    BY <1>3 DEF DeliverReconcile, Persist
  <2>2. \A p \in shown \ left : p \in allowed[view] => <<view, p>> \in outrun'
    BY <2>1
  <2>3. outrun \subseteq outrun'
    BY <2>1
  <2>4. left \subseteq shown
    OBVIOUS
  <2> HIDE DEF left, late
  <2>5. /\ shown \subseteq AllPairs /\ shown \subseteq ToSet(logs[view]) /\ lastBlock \in Nat
        /\ view \in Accounts /\ cache \in [Accounts -> [rows : SUBSET AllPairs, block : Nat]]
        /\ (shown # {} => lastBlock <= Len(logs[view]))
    BY DEF CoverInv, OwnInv, ApprovalsTypes, OwnAccountOnly, CacheIsOwn, CursorsExist
  <2>6. /\ [rows |-> left, block |-> lastBlock] \in [rows : SUBSET AllPairs, block : Nat]
        /\ cache' \in [Accounts -> [rows : SUBSET AllPairs, block : Nat]]
        /\ cache'[view] = [rows |-> left, block |-> lastBlock]
        /\ \A a \in Accounts : a # view => cache'[a] = cache[a]
    BY <2>1, <2>4, <2>5
  <2>7. Current' <=> Current
    BY <1>1 DEF Current
  <2>8. ApprovalsTypes'
    BY <1>1, <2>1, <2>4, <2>5, <2>6 DEF CoverInv, OwnInv, ApprovalsTypes
  <2>9. ChainOK' /\ OnePerEpoch' /\ BatchOwn' /\ ScansOwn'
    BY <1>1, <2>7 DEF CoverInv, OwnInv, ChainOK, OnePerEpoch, BatchOwn, ScansOwn, ScanOwn
  <2>10. CursorsExist'
    <3>1. \A a \in Accounts : cache'[a].rows # {} => cache'[a].block <= Len(logs[a])
      BY <2>4, <2>5, <2>6 DEF CoverInv, OwnInv, CursorsExist
    <3>2. shown' # {} \/ Current => lastBlock <= Len(logs[view])
      BY <2>1, <2>4, <2>5 DEF CoverInv, OwnInv, CursorsExist
    <3> QED
      BY <1>1, <2>7, <3>1, <3>2 DEF CursorsExist
  <2>11. OwnAccountOnly'
    <3>1. \A a \in Accounts : cache'[a].rows \subseteq ToSet(logs[a])
      BY <2>4, <2>5, <2>6 DEF CoverInv, OwnInv, OwnAccountOnly, CacheIsOwn
    <3> QED
      BY <1>1, <2>1, <2>4, <2>5, <3>1
         DEF CoverInv, OwnInv, OwnAccountOnly, CacheIsOwn, BatchActsForItsAccount
  <2>12. AllCovered'
    <3> SUFFICES ASSUME faults = {}
                 PROVE  /\ Current' => ScanCovers(scanners[epoch])'
                        /\ PanelCovers'
                        /\ \A a \in Accounts : CacheCovers(a)'
      BY <1>1 DEF AllCovered
    <3>1. /\ Current => ScanCovers(scanners[epoch])
          /\ shown # {} \/ Current => Covers(view, lastBlock, shown)
          /\ \A a \in Accounts : CacheCovers(a)
      BY DEF CoverInv, AllCovered, PanelCovers
    <3>2. ASSUME NEW h, NEW more, Covers(view, h, more \cup shown)
          PROVE  \A p \in allowed[view] :
                    Under(view, p, h) /\ <<view, p>> \notin outrun' => p \in more \cup left
      BY <2>2, <2>3, <3>2 DEF Covers
    <3>3. ASSUME shown # {} \/ Current
          PROVE  \A p \in allowed[view] :
                    Under(view, p, lastBlock) /\ <<view, p>> \notin outrun' => p \in left
      <4>1. Covers(view, lastBlock, {} \cup shown)
        BY <3>1, <3>3 DEF Covers
      <4> QED
        BY <3>2, <4>1
    <3>4. PanelCovers'
      BY <1>1, <2>1, <2>4, <2>7, <3>3 DEF PanelCovers, Covers, Under
    <3>5. ASSUME Current PROVE ScanCovers(scanners[epoch])'
      <4> DEFINE s == scanners[epoch]
                 more == s.pairs \cup Reported(s.inbox, "rows")
      <4>1. Covers(view, s.head, more \cup shown)
        BY <3>1, <3>5 DEF ScanCovers
      <4>2. \A p \in allowed[view] :
               Under(view, p, s.head) /\ <<view, p>> \notin outrun' => p \in more \cup left
        BY <3>2, <4>1
      <4> QED
        BY <1>1, <2>1, <3>1, <3>5, <4>2 DEF ScanCovers, Covers, Under
    <3>6. ASSUME NEW a \in Accounts, cache'[a].rows # {}
          PROVE  \A p \in allowed[a] :
                    Under(a, p, cache'[a].block) /\ <<a, p>> \notin outrun' => p \in cache'[a].rows
      <4>1. CASE a # view
        BY <2>3, <2>6, <3>1, <3>6, <4>1 DEF CacheCovers, Covers
      <4>2. CASE a = view
        BY <2>4, <2>6, <3>3, <3>6, <4>2
      <4> QED
        BY <4>1, <4>2
    <3>7. \A a \in Accounts : CacheCovers(a)'
      BY <1>1, <3>6 DEF CacheCovers, Covers, Under
    <3> QED
      BY <2>7, <3>4, <3>5, <3>7
  <2> QED
    BY <2>8, <2>9, <2>10, <2>11, <2>12 DEF CoverInv, OwnInv
<1> QED
  BY <1>2, <1>3

\* The Stop button; and a scan that is left behind.
LEMMA InterruptedScan ==
    ASSUME OwnInv, NEW e \in 1 .. MaxEpochs, scanners[e].acct # None
    PROVE  LET s == [scanners[e] EXCEPT !.interrupted = TRUE]
           IN  s \in Scanners /\ s.acct = scanners[e].acct /\ ScanOwn(s)
<1> DEFINE o == scanners[e]
           s == [o EXCEPT !.interrupted = TRUE]
<1>1. o \in Scanners /\ ScanOwn(o)
  BY RunningScan
<1>2. /\ s \in Scanners /\ s.acct = o.acct /\ s.stage = o.stage /\ s.pairs = o.pairs
      /\ s.head = o.head /\ s.from = o.from /\ s.inbox = o.inbox
  BY <1>1 DEF Scanners
<1> HIDE DEF s
<1>3. ScanOwn(s)
  BY <1>1, <1>2 DEF ScanOwn
<1> QED
  BY <1>2, <1>3 DEF s

LEMMA StopKeeps == ASSUME CoverInv, Stop PROVE CoverInv'
<1> DEFINE s == [scanners[epoch] EXCEPT !.interrupted = TRUE]
<1>1. /\ faults # {} /\ scanners[epoch].acct # None
      /\ scanners' = [scanners EXCEPT ![epoch] = s]
      /\ UNCHANGED <<onChain, confirmed, view, plugin, cache, reconciles, started, batch, outrun>>
  BY DEF Stop, Running
<1>2. epoch \in 1 .. MaxEpochs
  BY DEF Stop, CoverInv, OwnInv, ApprovalsTypes
<1>3. s \in Scanners /\ s.acct = scanners[epoch].acct /\ ScanOwn(s)
  BY <1>1, <1>2, InterruptedScan DEF CoverInv
<1> HIDE DEF s
<1>4. WorkerStep(epoch, s)
  BY <1>1 DEF WorkerStep
<1> QED
  BY <1>1, <1>2, <1>3, <1>4, WorkerKeeps

\* _invalidate
LEMMA SelectAccountKeeps ==
    ASSUME CoverInv, NEW a \in Accounts, SelectAccount(a) PROVE CoverInv'
<1> DEFINE s == [scanners[epoch] EXCEPT !.interrupted = TRUE]
<1>1. /\ view' = a /\ epoch < MaxEpochs /\ epoch' = epoch + 1 /\ shown' = {} /\ pending' = {}
      /\ \/ epoch > 0 /\ scanners[epoch].acct # None /\ scanners' = [scanners EXCEPT ![epoch] = s]
         \/ scanners' = scanners
      /\ queue' = [acct |-> None, rows |-> {}]
      /\ UNCHANGED <<logs, allowed, indexed, faults, lastBlock, zeroed, cache, reconciles, started,
                     dialog, outrun>>
  BY DEF SelectAccount, Running, Aborted, onChain
<1>2. /\ epoch \in 0 .. MaxEpochs /\ MaxEpochs \in Nat
      /\ scanners \in [1 .. MaxEpochs -> Scanners \cup {NoScan}]
  BY ApprovalsAssumption DEF CoverInv, OwnInv, ApprovalsTypes
<1>3. epoch > 0 /\ scanners[epoch].acct # None =>
         s \in Scanners /\ s.acct = scanners[epoch].acct /\ ScanOwn(s)
  BY <1>2, InterruptedScan DEF CoverInv
<1> HIDE DEF s
<1>4. /\ scanners' \in [1 .. MaxEpochs -> Scanners \cup {NoScan}]
      /\ \A x \in 1 .. MaxEpochs : scanners'[x].acct = scanners[x].acct
      /\ \A x \in 1 .. MaxEpochs : scanners'[x].acct # None => ScanOwn(scanners'[x])
  BY <1>1, <1>2, <1>3 DEF CoverInv, OwnInv, ScansOwn
<1>5. ApprovalsTypes'
  BY <1>1, <1>2, <1>4 DEF CoverInv, OwnInv, ApprovalsTypes
<1>6. ChainOK' /\ BatchOwn' /\ ScansOwn'
  BY <1>1, <1>4 DEF CoverInv, OwnInv, ChainOK, BatchOwn, ScansOwn, ScanOwn
<1>7. ~Current'
  BY <1>1, <1>2, <1>4 DEF CoverInv, OwnInv, OnePerEpoch, Current
<1>8. OnePerEpoch'
  <2>1. \A x \in 1 .. MaxEpochs : x > epoch' => x > epoch
    BY <1>1, <1>2
  <2> QED
    BY <1>4, <1>7, <2>1 DEF CoverInv, OwnInv, OnePerEpoch
<1>9. CursorsExist'
  BY <1>1, <1>7 DEF CoverInv, OwnInv, CursorsExist
<1>10. OwnAccountOnly'
  BY <1>1 DEF CoverInv, OwnInv, OwnAccountOnly, CacheIsOwn, BatchActsForItsAccount
<1>11. AllCovered'
  BY <1>1, <1>7 DEF CoverInv, AllCovered, PanelCovers, CacheCovers, Covers, Under
<1> QED
  BY <1>5, <1>6, <1>8, <1>9, <1>10, <1>11 DEF CoverInv, OwnInv

\* An approval is mined above every cursor there is.
LEMMA MineKeeps ==
    ASSUME CoverInv, NEW a \in Accounts, NEW p \in Pairs[a], NEW own, Mine(a, p, own)
    PROVE  CoverInv'
<1> DEFINE Above(x, q, h) == \A i \in DOMAIN logs'[x] : logs'[x][i] = q => i <= h
<1>1. /\ logs' \in [Accounts -> Seq(AllPairs)] /\ allowed' \in [Accounts -> SUBSET AllPairs]
      /\ \A x \in Accounts : /\ ToSet(logs[x]) \subseteq ToSet(logs'[x])
                             /\ Len(logs[x]) <= Len(logs'[x]) /\ Len(logs[x]) \in Nat
                             /\ allowed'[x] \subseteq ToSet(logs'[x])
      /\ \A x \in Accounts : \A h \in Nat : \A q \in allowed'[x] :
            h <= Len(logs[x]) /\ Above(x, q, h) =>
               q \in allowed[x] /\ Under(x, q, h) /\ (<<x, q>> \in outrun => <<x, q>> \in outrun')
  <2>1. ASSUME NEW x \in Accounts, NEW h \in Nat, NEW q \in allowed'[x], h <= Len(logs[x]),
               Above(x, q, h)
        PROVE  q \in allowed[x] /\ Under(x, q, h) /\ (<<x, q>> \in outrun => <<x, q>> \in outrun')
    <3>1. Under(x, q, h)'
      BY <2>1 DEF Under
    <3> QED
      BY <2>1, <3>1, MinedAbove DEF CoverInv, OwnInv
  <2> HIDE DEF Above
  <2> QED
    BY <2>1, MinedAbove DEF CoverInv, OwnInv
<1> HIDE DEF Above
<1>2. UNCHANGED <<indexed, faults, view, shown, epoch, lastBlock, zeroed, pending, cache, scanners,
                  reconciles, started, queue, dialog>>
  BY DEF Mine, plugin, batch
<1>3. Current' <=> Current
  BY <1>2 DEF Current
<1>4. \A x \in Accounts : Len(logs'[x]) \in Nat
  BY <1>1, LenProperties
<1>5. ApprovalsTypes'
  BY <1>1, <1>2 DEF CoverInv, OwnInv, ApprovalsTypes
<1>6. ChainOK'
  <2>1. \A x \in Accounts : indexed[x] \in Nat /\ indexed[x] <= Len(logs[x])
    BY DEF CoverInv, OwnInv, ChainOK, ApprovalsTypes
  <2>2. \A x \in Accounts : indexed[x] <= Len(logs'[x])
    BY <1>1, <1>4, <2>1
  <2> QED
    BY <1>1, <1>2, <2>2 DEF ChainOK
<1>7. OnePerEpoch' /\ BatchOwn'
  BY <1>2, <1>3 DEF CoverInv, OwnInv, OnePerEpoch, BatchOwn
<1>8. ScansOwn'
  <2>1. ASSUME NEW e \in 1 .. MaxEpochs, scanners[e].acct # None PROVE ScanOwn(scanners[e])'
    <3> DEFINE o == scanners[e]
    <3>1. ScanOwn(o) /\ o.acct \in Accounts /\ o.head \in Nat
      BY <2>1, RunningScan DEF CoverInv, Scanners
    <3>2. o.head <= Len(logs'[o.acct])
      BY <1>1, <1>4, <3>1 DEF ScanOwn
    <3> QED
      BY <1>1, <1>2, <3>1, <3>2 DEF ScanOwn
  <2> QED
    BY <1>2, <2>1 DEF ScansOwn
<1>9. CursorsExist'
  <2>1. /\ view \in Accounts /\ lastBlock \in Nat
        /\ \A x \in Accounts : cache[x].block \in Nat
    BY DEF CoverInv, OwnInv, ApprovalsTypes
  <2>2. shown # {} \/ Current => lastBlock <= Len(logs'[view])
    BY <1>1, <1>4, <2>1 DEF CoverInv, OwnInv, CursorsExist
  <2>3. \A x \in Accounts : cache[x].rows # {} => cache[x].block <= Len(logs'[x])
    BY SMTT(30), <1>1, <1>4, <2>1 DEF CoverInv, OwnInv, CursorsExist
  <2> QED
    BY <1>2, <1>3, <2>2, <2>3 DEF CursorsExist
<1>10. OwnAccountOnly'
  <2>1. view \in Accounts
    BY DEF CoverInv, OwnInv, ApprovalsTypes
  <2> QED
    BY <1>1, <1>2, <2>1 DEF CoverInv, OwnInv, OwnAccountOnly, CacheIsOwn, BatchActsForItsAccount
<1>11. ASSUME NEW x \in Accounts, NEW h \in Nat, NEW rows, h <= Len(logs[x]), Covers(x, h, rows)
       PROVE  \A q \in allowed'[x] : Above(x, q, h) /\ <<x, q>> \notin outrun' => q \in rows
  BY <1>1, <1>11 DEF Covers
<1>12. AllCovered'
  <2> SUFFICES ASSUME faults = {}
               PROVE  /\ Current' => ScanCovers(scanners[epoch])'
                      /\ PanelCovers'
                      /\ \A x \in Accounts : CacheCovers(x)'
    BY <1>2 DEF AllCovered
  <2>1. /\ Current => ScanCovers(scanners[epoch])
        /\ PanelCovers
        /\ \A x \in Accounts : CacheCovers(x)
    BY DEF CoverInv, AllCovered
  <2>2. view \in Accounts /\ lastBlock \in Nat /\ \A x \in Accounts : cache[x].block \in Nat
    BY DEF CoverInv, OwnInv, ApprovalsTypes
  <2>3. PanelCovers'
    <3> SUFFICES ASSUME shown # {} \/ Current
                 PROVE  \A q \in allowed'[view] :
                           Above(view, q, lastBlock) /\ <<view, q>> \notin outrun' => q \in shown
      BY <1>2, <1>3 DEF PanelCovers, Covers, Under, Above
    <3>1. lastBlock <= Len(logs[view]) /\ Covers(view, lastBlock, shown)
      BY <2>1 DEF PanelCovers, CoverInv, OwnInv, CursorsExist
    <3> QED
      BY <1>11, <2>2, <3>1
  <2>4. ASSUME NEW x \in Accounts PROVE CacheCovers(x)'
    <3> SUFFICES ASSUME cache[x].rows # {}
                 PROVE  \A q \in allowed'[x] :
                           Above(x, q, cache[x].block) /\ <<x, q>> \notin outrun' => q \in cache[x].rows
      BY <1>2 DEF CacheCovers, Covers, Under, Above
    <3>1. cache[x].block <= Len(logs[x]) /\ Covers(x, cache[x].block, cache[x].rows)
      BY <2>1 DEF CacheCovers, CoverInv, OwnInv, CursorsExist
    <3> QED
      BY <1>11, <2>2, <3>1
  <2>5. ASSUME Current PROVE ScanCovers(scanners[epoch])'
    <3> DEFINE s == scanners[epoch]
               rows == s.pairs \cup Reported(s.inbox, "rows") \cup shown
    <3>1. ScanCovers(s) /\ s.acct = view /\ epoch \in 1 .. MaxEpochs
      BY <2>1, <2>5 DEF CoverInv, OwnInv, OnePerEpoch, Current, ApprovalsTypes
    <3>2. s.head <= Len(logs[view]) /\ s.head \in Nat
      BY <2>5, <3>1, RunningScan DEF CoverInv, ScanOwn, Scanners, Current
    <3>3. \A q \in allowed'[view] : Above(view, q, s.head) /\ <<view, q>> \notin outrun' => q \in rows
      <4>1. Covers(view, s.head, rows)
        BY <3>1 DEF ScanCovers
      <4> HIDE DEF rows
      <4> QED
        BY <1>11, <2>2, <3>2, <4>1
    <3>4. \A q \in zeroed \cup Reported(s.inbox, "zeroed") :
             q \in allowed'[view] => ~Above(view, q, s.head)
      <4> SUFFICES ASSUME NEW q \in zeroed \cup Reported(s.inbox, "zeroed"), q \in allowed'[view],
                          Above(view, q, s.head)
                   PROVE  FALSE
        OBVIOUS
      <4>1. q \in allowed[view] /\ Under(view, q, s.head)
        BY <1>1, <2>2, <3>2
      <4> QED
        BY <3>1, <4>1 DEF ScanCovers
    <3>5. /\ Covers(view, s.head, rows)'
          /\ (\A q \in zeroed \cup Reported(s.inbox, "zeroed") :
                 q \in allowed[view] => ~Under(view, q, s.head))'
      BY <1>2, <3>3, <3>4 DEF Covers, Under, Above
    <3> QED
      BY <1>2, <3>1, <3>5 DEF ScanCovers
  <2> QED
    BY <1>3, <2>3, <2>4, <2>5
<1> QED
  BY <1>5, <1>6, <1>7, <1>8, <1>9, <1>10, <1>12 DEF CoverInv, OwnInv

-----------------------------------------------------------------------------
(* The invariant. *)

\* What a saved cursor was saved with: the pairs allowed after the blocks up to
\* it, which are all of those whose latest event is among these blocks.
LEMMA SavedCovers ==
    ASSUME NEW S, NEW seq \in Seq(S), NEW c \in SavedAfter(seq)
    PROVE  /\ c.block \in 0 .. Len(seq) /\ c.rows \subseteq ToSet(seq)
           /\ \A p \in AllowedAfter(seq) :
                 (\A i \in DOMAIN seq : seq[i] = p => i <= c.block) => p \in c.rows
<1>1. PICK n \in 0 .. Len(seq) : c = [rows |-> AllowedAfter(SubSeq(seq, 1, n)), block |-> n]
  BY DEF SavedAfter
<1> DEFINE old == SubSeq(seq, 1, n)
<1>2. Len(seq) \in Nat /\ DOMAIN seq = 1 .. Len(seq) /\ n \in Nat /\ n <= Len(seq)
  BY LenProperties
<1>3. /\ old \in Seq(S) /\ Len(old) = n /\ \A i \in 1 .. n : old[i] = seq[i]
  <2>1. \A i \in 1 .. n : seq[i] \in S
    BY <1>2, ElementOfSeq
  <2>2. CASE n = 0
    BY <1>2, <2>2, SubSeqProperties
  <2>3. CASE n # 0
    BY <1>2, <2>3, SubSeqProperties
  <2> QED
    BY <2>2, <2>3
<1>4. DOMAIN old = 1 .. n
  BY <1>3, LenProperties
<1> HIDE DEF old
<1>5. ToSet(old) \subseteq ToSet(seq)
  BY <1>2, <1>3, <1>4 DEF ToSet
<1>6. c.rows = AllowedAfter(old) /\ c.block = n
  BY <1>1 DEF old
<1>7. ASSUME NEW p \in AllowedAfter(seq), \A i \in DOMAIN seq : seq[i] = p => i <= n
      PROVE  p \in AllowedAfter(old)
  <2>1. p \in ToSet(seq) /\ Cardinality({i \in DOMAIN seq : seq[i] = p}) % 2 = 1
    BY DEF AllowedAfter
  <2>2. {i \in DOMAIN seq : seq[i] = p} = {i \in DOMAIN old : old[i] = p}
    BY <1>2, <1>3, <1>4, <1>7
  <2>3. p \in ToSet(old)
    BY <1>2, <1>3, <1>4, <1>7, <2>1 DEF ToSet
  <2> QED
    BY <2>1, <2>2, <2>3 DEF AllowedAfter
<1> QED
  BY <1>2, <1>5, <1>6, <1>7 DEF AllowedAfter

LEMMA InitInv == ApprovalsInit => CoverInv
<1> SUFFICES ASSUME ApprovalsInit PROVE CoverInv
  OBVIOUS
<1>0. /\ \A a \in Accounts : /\ logs[a] \in Starts[a] /\ allowed[a] = AllowedAfter(logs[a])
                             /\ cache[a] \in SavedAfter(logs[a]) /\ indexed[a] = Len(logs[a])
      /\ logs = [a \in Accounts |-> logs[a]] /\ allowed = [a \in Accounts |-> allowed[a]]
      /\ indexed = [a \in Accounts |-> indexed[a]] /\ cache = [a \in Accounts |-> cache[a]]
      /\ view \in Accounts /\ shown = {} /\ epoch = 0 /\ lastBlock = 0 /\ zeroed = {}
      /\ pending = {} /\ scanners = [e \in 1 .. MaxEpochs |-> NoScan]
      /\ reconciles = {} /\ started = 0 /\ queue = [acct |-> None, rows |-> {}]
      /\ dialog.owner = None /\ outrun = {}
  BY DEF ApprovalsInit
<1>1. ASSUME NEW a \in Accounts
      PROVE  /\ logs[a] \in Seq(AllPairs) /\ ToSet(logs[a]) \subseteq AllPairs
             /\ Len(logs[a]) \in Nat /\ allowed[a] = AllowedAfter(logs[a])
             /\ cache[a] \in SavedAfter(logs[a])
  <2>1. logs[a] \in Seq(Pairs[a]) /\ Pairs[a] \subseteq AllPairs
    BY <1>0, ApprovalsAssumption DEF AllPairs
  <2>2. /\ Len(logs[a]) \in Nat /\ logs[a] \in [1 .. Len(logs[a]) -> Pairs[a]]
        /\ DOMAIN logs[a] = 1 .. Len(logs[a])
    BY <2>1, LenProperties
  <2>3. logs[a] \in [1 .. Len(logs[a]) -> AllPairs]
    BY <2>1, <2>2
  <2>4. logs[a] \in Seq(AllPairs)
    BY <2>2, <2>3
  <2>5. ToSet(logs[a]) \subseteq AllPairs
    BY <2>2, <2>3 DEF ToSet
  <2> QED
    BY <1>0, <2>2, <2>4, <2>5
<1>2. \A a \in Accounts : allowed[a] \subseteq ToSet(logs[a])
  BY <1>1 DEF AllowedAfter
<1>3. \A a \in Accounts :
         /\ cache[a].block \in 0 .. Len(logs[a]) /\ cache[a].rows \subseteq ToSet(logs[a])
         /\ \A p \in allowed[a] : Under(a, p, cache[a].block) => p \in cache[a].rows
  BY <1>1, SavedCovers DEF Under
<1>4. \A a \in Accounts : cache[a] \in [rows : SUBSET AllPairs, block : Nat]
  <2> TAKE a \in Accounts
  <2>1. PICK n \in 0 .. Len(logs[a]) :
           cache[a] = [rows |-> AllowedAfter(SubSeq(logs[a], 1, n)), block |-> n]
    BY <1>1 DEF SavedAfter
  <2>2. cache[a].rows \subseteq AllPairs /\ cache[a].block \in Nat
    BY <1>1, <1>3
  <2> QED
    BY <2>1, <2>2
<1>5. \A e \in 1 .. MaxEpochs : scanners[e] = NoScan /\ scanners[e].acct = None
  BY <1>0 DEF NoScan
<1>6. ApprovalsTypes
  <2>1. logs \in [Accounts -> Seq(AllPairs)]
    BY <1>0, <1>1
  <2>2. allowed \in [Accounts -> SUBSET AllPairs] /\ indexed \in [Accounts -> Nat]
    BY <1>0, <1>1, <1>2
  <2>3. cache \in [Accounts -> [rows : SUBSET AllPairs, block : Nat]]
    BY <1>0, <1>4
  <2>4. scanners \in [1 .. MaxEpochs -> Scanners \cup {NoScan}]
    BY <1>0
  <2>5. epoch \in 0 .. MaxEpochs
    BY <1>0, ApprovalsAssumption
  <2>6. queue \in [acct : Accounts \cup {None}, rows : SUBSET AllPairs]
    BY <1>0
  <2> QED
    BY <1>0, <2>1, <2>2, <2>3, <2>4, <2>5, <2>6 DEF ApprovalsTypes
<1>7. ChainOK
  BY <1>0, <1>1, <1>2 DEF ChainOK
<1>8. ~Current /\ OnePerEpoch /\ ScansOwn /\ BatchOwn
  BY <1>0, <1>5 DEF Current, OnePerEpoch, ScansOwn, BatchOwn
<1>9. CursorsExist
  BY <1>0, <1>1, <1>3, <1>8 DEF CursorsExist
<1>10. OwnAccountOnly
  BY <1>0, <1>3 DEF OwnAccountOnly, CacheIsOwn, BatchActsForItsAccount
<1>11. AllCovered
  BY <1>0, <1>3, <1>8 DEF AllCovered, PanelCovers, CacheCovers, Covers
<1> QED
  BY <1>6, <1>7, <1>8, <1>9, <1>10, <1>11 DEF CoverInv, OwnInv

LEMMA NextInv == CoverInv /\ [ApprovalsNext]_vars => CoverInv'
<1> SUFFICES ASSUME CoverInv, [ApprovalsNext]_vars PROVE CoverInv'
  OBVIOUS
<1> DEFINE Idle ==
        /\ indexed \in [Accounts -> Nat] /\ \A a \in Accounts : indexed[a] <= Len(logs[a])
        /\ pending \subseteq AllPairs /\ shown \subseteq AllPairs
        /\ reconciles \subseteq Reconciles /\ started \in Nat
        /\ queue \in [acct : Accounts \cup {None}, rows : SUBSET AllPairs]
        /\ view \in Accounts /\ (queue.rows # {} => queue.acct = view)
        /\ (dialog.owner # None => dialog.owner = dialog.acct)
        /\ None \notin Accounts /\ allowed \in [Accounts -> SUBSET AllPairs]
<1>1. Idle
  BY ApprovalsAssumption
     DEF CoverInv, OwnInv, ApprovalsTypes, ChainOK, BatchOwn, OwnAccountOnly,
         BatchActsForItsAccount
<1>2. ASSUME NEW e \in 1 .. MaxEpochs,
             \/ FetchWindow(e) \/ LogSourceFails(e) \/ PatchTail(e) \/ Verify(e)
             \/ ScanEnds(e) \/ DeliverScan(e)
      PROVE  CoverInv'
  BY <1>2, FetchWindowKeeps, LogSourceFailsKeeps, PatchTailKeeps, VerifyKeeps, ScanEndsKeeps,
     DeliverScanKeeps
<1>3. ASSUME NEW r \in reconciles, ReconcileReads(r) PROVE CoverInv'
  <2>1. PICK ok \in SUBSET r.pairs :
           reconciles' = (reconciles \ {r}) \union
              {[r EXCEPT !.done = TRUE, !.pairs = ok, !.read = ok \intersect allowed[r.acct]]}
    BY <1>3 DEF ReconcileReads
  <2>2. r \in Reconciles /\ ok \subseteq AllPairs
    BY <1>1, <2>1 DEF Reconciles
  <2>3. [r EXCEPT !.done = TRUE, !.pairs = ok, !.read = ok \intersect allowed[r.acct]]
           \in Reconciles
    BY <2>2 DEF Reconciles
  <2>4. reconciles' \subseteq Reconciles
    BY <1>1, <2>1, <2>3
  <2> QED
    BY <1>1, <1>3, <2>4, QuietKeeps DEF ReconcileReads, onChain, plugin, batch
<1>4. ASSUME NEW r \in reconciles, DeliverReconcile(r) PROVE CoverInv'
  BY <1>4, DeliverReconcileKeeps
<1>5. CASE Activate
  <2>1. CASE loaded
    <3>1. pending' \subseteq AllPairs
      BY <1>1, <1>5, <2>1 DEF Activate
    <3> QED
      BY <1>1, <1>5, <2>1, <3>1, QuietKeeps DEF Activate, onChain, batch
  <2>2. CASE ~loaded
    <3>1. StartScan /\ pending' \subseteq AllPairs
          /\ UNCHANGED <<onChain, view, cache, reconciles, started, batch, outrun>>
      BY <1>1, <1>5, <2>2 DEF Activate
    <3> QED
      BY <3>1, StartScanKeeps
  <2> QED
    BY <2>1, <2>2
<1>6. CASE Refresh
  <2>1. StartScan /\ pending' \subseteq AllPairs
        /\ UNCHANGED <<onChain, view, cache, reconciles, started, batch, outrun>>
    BY <1>1, <1>6 DEF Refresh
  <2> QED
    BY <2>1, StartScanKeeps
<1>7. CASE Stop
  BY <1>7, StopKeeps
<1>8. CASE RunReconcile
  <2>1. [acct |-> view, pairs |-> pending, read |-> {}, done |-> FALSE, n |-> started]
           \in Reconciles
    BY <1>1 DEF Reconciles
  <2>2. /\ reconciles' = reconciles \union
              {[acct |-> view, pairs |-> pending, read |-> {}, done |-> FALSE, n |-> started]}
        /\ pending' = {} /\ started' = started + 1
    BY <1>8 DEF RunReconcile
  <2>3. reconciles' \subseteq Reconciles
    BY <1>1, <2>1, <2>2
  <2>4. pending' \subseteq AllPairs /\ started' \in Nat
    BY <1>1, <2>2
  <2> QED
    BY <1>1, <1>8, <2>3, <2>4, QuietKeeps DEF RunReconcile, onChain, batch
<1>9. ASSUME NEW a \in Accounts, SelectAccount(a) PROVE CoverInv'
  BY <1>9, SelectAccountKeeps
<1>10. ASSUME NEW a \in Accounts, IndexAdvances(a) PROVE CoverInv'
  <2>1. /\ indexed[a] < Len(logs[a]) /\ indexed' = [indexed EXCEPT ![a] = indexed[a] + 1]
        /\ UNCHANGED logs
    BY <1>10 DEF IndexAdvances
  <2>2. Len(logs[a]) \in Nat
    BY LenProperties DEF CoverInv, OwnInv, ApprovalsTypes
  <2>3. indexed' \in [Accounts -> Nat] /\ \A x \in Accounts : indexed'[x] <= Len(logs[x])
    BY <1>1, <2>1, <2>2
  <2> QED
    BY <1>1, <1>10, <2>3, QuietKeeps DEF IndexAdvances, plugin, batch
<1>11. ASSUME NEW t \in confirmed, TxConfirmed(t[1], t[2]) PROVE CoverInv'
  <2>1. CASE t[1] # view
    BY <1>1, <1>11, <2>1, QuietKeeps DEF TxConfirmed, onChain, plugin, batch
  <2>2. CASE t[1] = view /\ t[2] \in shown
    <3>1. pending' \subseteq AllPairs
      BY <1>1, <1>11, <2>2 DEF TxConfirmed
    <3> QED
      BY <1>1, <1>11, <2>2, <3>1, QuietKeeps DEF TxConfirmed, onChain, batch
  <2>3. CASE t[1] = view /\ t[2] \notin shown
    <3>1. StartScan /\ pending' \subseteq AllPairs
          /\ UNCHANGED <<onChain, view, cache, reconciles, started, batch, outrun>>
      BY <1>1, <1>11, <2>3 DEF TxConfirmed
    <3> QED
      BY <3>1, StartScanKeeps
  <2> QED
    BY <2>1, <2>2, <2>3
<1>12. ASSUME NEW a \in Accounts, NEW p \in Pairs[a], NEW own \in BOOLEAN, Mine(a, p, own)
       PROVE  CoverInv'
  BY <1>12, MineKeeps
<1>13. ASSUME NEW rows \in SUBSET shown, StartBatch(rows) PROVE CoverInv'
  <2>1. /\ queue' = [acct |-> view, rows |-> rows \ {First(rows)}]
        /\ dialog' = [owner |-> view, acct |-> view]
    BY <1>13 DEF StartBatch, OpenNext
  <2> QED
    BY <1>1, <1>13, <2>1, QuietKeeps DEF StartBatch, onChain, plugin
<1>14. CASE DialogBroadcast
  <2>1. CASE queue.rows = {}
    BY <1>1, <1>14, <2>1, QuietKeeps DEF DialogBroadcast, Aborted, onChain, plugin
  <2>2. CASE queue.rows # {}
    <3>1. /\ queue' = [queue EXCEPT !.rows = queue.rows \ {First(queue.rows)}]
          /\ dialog' = [owner |-> view, acct |-> view]
      BY <1>1, <1>14, <2>2 DEF DialogBroadcast, OpenNext
    <3>2. /\ queue' \in [acct : Accounts \cup {None}, rows : SUBSET AllPairs]
          /\ (queue'.rows # {} => queue'.acct = view)
      BY <1>1, <2>2, <3>1
    <3> QED
      BY <1>1, <1>14, <3>1, <3>2, QuietKeeps DEF DialogBroadcast, onChain, plugin
  <2> QED
    BY <2>1, <2>2
<1>15. CASE DialogCancelled
  BY <1>1, <1>15, QuietKeeps DEF DialogCancelled, Aborted, onChain, plugin
<1>16. CASE UNCHANGED vars
  BY <1>1, <1>16, QuietKeeps DEF vars, onChain, plugin, batch
<1> QED
  BY <1>2, <1>3, <1>4, <1>5, <1>6, <1>7, <1>8, <1>9, <1>10, <1>11, <1>12, <1>13, <1>14, <1>15,
     <1>16 DEF ApprovalsNext

\* CoverInv is an invariant: what scans, panel, caches and the batch hold is of
\* their account, and covers their cursors where nothing fails.
THEOREM ApprovalsInvariance == ApprovalsSpec => []CoverInv
<1>1. ApprovalsInit => CoverInv
  BY InitInv
<1>2. CoverInv /\ [ApprovalsNext]_vars => CoverInv'
  BY NextInv
<1> QED
  BY <1>1, <1>2, PTL DEF ApprovalsSpec

\* Approvals are shown, saved and revoked for their own account only, whatever
\* is switched while scans, reconciles and a batch run.
THEOREM OwnAccount == ApprovalsSpec => []OwnAccountOnly
<1>1. CoverInv => OwnAccountOnly
  BY DEF CoverInv, OwnInv
<1> QED
  BY <1>1, ApprovalsInvariance, PTL

\* Where nothing fails a saved cursor passes only approvals that are saved with
\* it, or whose row a reconcile's late zero took.
THEOREM CursorCovers == ApprovalsSpec => []CalmCursorPassesNothing
<1>1. CoverInv => CalmCursorPassesNothing
  BY DEF CoverInv, AllCovered, CacheCovers, CalmCursorPassesNothing
<1> QED
  BY <1>1, ApprovalsInvariance, PTL
=============================================================================
