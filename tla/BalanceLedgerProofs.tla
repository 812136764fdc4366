------------------------ MODULE BalanceLedgerProofs ------------------------
(***************************************************************************)
(* Proofs about BalanceLedger, and about the discovery pipelines that run  *)
(* beside it, for every set of chains, accounts and tokens and every bound *)
(* on the heads.  The argument: what a read or a receipt may do to one key *)
(* is summarised once (ReadStep, CreditStep), the inductive invariant IInv *)
(* ties the stamp of a key to the height its row reflects, and every       *)
(* property follows from IInv and the summaries.  A merge is summarised in *)
(* the same way (MergedKey) and keeps the same IInv.                       *)
(***************************************************************************)
EXTENDS TokenDiscovery, TLAPS

\* What the ledger may rely on about a read that has come back.
IsRead(rd, top) ==
    /\ rd.tokens \subseteq Tokens
    /\ \A t \in rd.tokens :
          /\ rd.at[t] \in 0..top
          /\ rd.order[t] = None \/ rd.order[t] = rd.at[t]
    /\ rd.native \in 0..top
    /\ rd.block \in (0..top) \cup {None}
    /\ rd.told # None => rd.block # None /\ rd.block <= rd.native

\* The parts of a key are a wallet and a token, those of a wallet a chain and
\* an account.
LEMMA KeyParts ==
    /\ \A k \in Keys : WalletOf(k) \in Wallets /\ TokenOf(k) \in Tokens
    /\ \A w \in Wallets : ChainOf(w) \in Chains
  BY DEF Keys, Wallets, WalletOf, TokenOf, ChainOf

\* Every result of an http read is a read the ledger may rely on.
LEMMA HttpReadIsRead ==
    ASSUME NEW top \in Nat, NEW rd \in HttpReads(top), Coherent(rd)
    PROVE  IsRead(rd, top)
<1>1. PICK ts \in SUBSET Tokens : rd \in ReadsOf(ts, top)
  BY DEF HttpReads
<1> QED
  BY <1>1 DEF ReadsOf, IsRead, Coherent

\* So is the pair read over the ws for a Transfer log.
LEMMA WsReadIsRead ==
    ASSUME NEW top \in Nat, NEW t \in Tokens, NEW h \in 0..top,
           NEW block \in (0..top) \cup {None}, block = None \/ h = block
    PROVE  IsRead(WsRead(t, block, h), top)
  BY DEF IsRead, WsRead, None

\* A read keeps every variable it writes within its type.
LEMMA ReadType ==
    ASSUME TypeOK, NEW w \in Wallets, NEW rd, IsRead(rd, head[ChainOf(w)]),
           ApplyRead(w, rd)
    PROVE  /\ cached' \subseteq Wallets
           /\ rows' \subseteq Keys
           /\ \A k \in Keys : IF k \in rows' THEN WalletOf(k) \in cached'
                            ELSE credits'[k] = {}
           /\ base' \in [Keys -> Heights \cup {None}]
           /\ credits' \in [Keys -> SUBSET (1..MaxBlock)]
           /\ nativeAt' \in [Wallets -> Heights \cup {None}]
           /\ nativePaired' \subseteq Wallets
           /\ balance_block' \in [Keys -> Heights \cup {None}]
           /\ native_block' \in [Wallets -> Heights \cup {None}]
           /\ readAt' \in [Keys -> Heights \cup {None}]
<1>1. head[ChainOf(w)] \in 1..MaxBlock
  BY KeyParts DEF TypeOK
<1>2. /\ \A k \in ReadKeys(w, rd) : WalletOf(k) = w /\ TokenOf(k) \in rd.tokens
      /\ ReadKeys(w, rd) \subseteq Keys
      /\ Applied(w, rd) \subseteq ReadKeys(w, rd)
      /\ Stamped(w, rd) \subseteq Applied(w, rd)
      /\ Dropped(w, rd) \subseteq Stamped(w, rd)
      /\ Written(w, rd) \subseteq Applied(w, rd)
      /\ Settled(w, rd) \subseteq Stamped(w, rd)
  BY DEF ReadKeys, Applied, Stamped, Dropped, Written, Settled
<1>3. \A t \in rd.tokens : rd.at[t] \in Heights /\ rd.order[t] \in Heights \cup {None}
  BY <1>1, MaxBlockAssumption DEF IsRead, Heights
<1>4. /\ rd.native \in Heights
      /\ rd.block \in Heights \cup {None}
  BY <1>1, MaxBlockAssumption DEF IsRead, Heights
<1>5. /\ cached' \subseteq Wallets /\ rows' \subseteq Keys
      /\ \A k \in Keys : IF k \in rows' THEN WalletOf(k) \in cached'
                       ELSE credits'[k] = {}
  BY <1>2 DEF ApplyRead, TypeOK
<1>6. base' \in [Keys -> Heights \cup {None}]
      /\ balance_block' \in [Keys -> Heights \cup {None}]
      /\ readAt' \in [Keys -> Heights \cup {None}]
  BY <1>2, <1>3 DEF ApplyRead, TypeOK
<1>7. credits' \in [Keys -> SUBSET (1..MaxBlock)]
  BY DEF ApplyRead, TypeOK
<1>8. /\ nativeAt' \in [Wallets -> Heights \cup {None}]
      /\ nativePaired' \subseteq Wallets
      /\ native_block' \in [Wallets -> Heights \cup {None}]
  BY <1>4 DEF ApplyRead, TypeOK
<1> QED
  BY <1>5, <1>6, <1>7, <1>8

----------------------------------------------------------------------------
(* What one operation of the ledger does to one key. *)

IInv ==
    /\ TypeOK
    /\ SettledRowsAreExact
    /\ NativeFloorEarned
    /\ ForkFloorCoversCredits

\* The exactness of one key, so that SettledRowsAreExact is \A k : Exact(k).
Exact(k) ==
    readAt[k] # None =>
        /\ balance_block[k] # None
        /\ k \notin rows => /\ readAt[k] \in empty[k]
                            /\ balance_block[k] = readAt[k]
        /\ k \in rows =>
             /\ base[k] = readAt[k] \/ (base[k] = None /\ readAt[k] \in empty[k])
             /\ base[k] = None => credits[k] # {}
             /\ \A b \in credits[k] : readAt[k] < b /\ b <= balance_block[k]
             /\ balance_block[k] \in credits[k] \cup {readAt[k]}

\* What a step may do to one key: leave what it shows, add a receipt mined
\* after all of it, replace it by a read at the same height or a later one,
\* or lose it (an amount that cannot be rendered, a new connection).
Forward(k) ==
    \/ /\ readAt'[k] = readAt[k]
       /\ readAt[k] # None => credits'[k] = credits[k]
    \/ /\ readAt'[k] = readAt[k]
       /\ \E b \in 1..MaxBlock :
             /\ readAt[k] < b
             /\ \A e \in credits[k] : e < b
             /\ credits'[k] = credits[k] \cup {b}
    \/ /\ readAt'[k] \in Heights
       /\ readAt[k] # None => readAt'[k] >= readAt[k]
       /\ credits'[k] = {}
    \/ /\ readAt'[k] = None
       /\ credits'[k] \subseteq credits[k]
       /\ \/ k \notin rows' /\ ~Known(k)
          \/ ChainOf(WalletOf(k)) \in live' \ live

\* SettledRowsAreExact, key by key.
LEMMA ExactIsSettled == SettledRowsAreExact <=> \A k \in Keys : Exact(k)
  BY DEF SettledRowsAreExact, Exact

\* A stamp never lies below what the row reflects.
LEMMA StampCovers ==
    ASSUME TypeOK, NEW k \in Keys, Exact(k), readAt[k] # None
    PROVE  /\ balance_block[k] \in Nat
           /\ readAt[k] \in Nat
           /\ readAt[k] <= balance_block[k]
           /\ OrZero(balance_block[k]) = balance_block[k]
<1>1. readAt[k] \in Nat /\ balance_block[k] \in Nat
  BY DEF TypeOK, Exact, Heights, None
<1>2. CASE k \in rows
  BY <1>1, <1>2 DEF Exact, OrZero, None
<1>3. CASE k \notin rows
  BY <1>1, <1>3 DEF Exact, OrZero, None
<1> QED
  BY <1>2, <1>3

\* A read keeps every key exact and moves it forward.
LEMMA ReadStep ==
    ASSUME TypeOK, NEW w \in Wallets, NEW rd, IsRead(rd, head[ChainOf(w)]),
           ApplyRead(w, rd), empty' = empty, NEW k \in Keys, Exact(k)
    PROVE  Exact(k)' /\ Forward(k)
<1> DEFINE t == TokenOf(k)
<1>1. head[ChainOf(w)] \in 1..MaxBlock
  BY KeyParts DEF TypeOK
<1>2. readAt[k] \in Heights \cup {None} /\ balance_block[k] \in Heights \cup {None}
  BY DEF TypeOK
<1>3. CASE k \notin Stamped(w, rd)
  <2>1. readAt'[k] = readAt[k] /\ balance_block'[k] = balance_block[k]
    BY <1>3 DEF ApplyRead, Settled
  <2>2. CASE readAt[k] = None
    BY <2>1, <2>2 DEF Exact, Forward
  <2>3. CASE readAt[k] # None
    <3>1. k \notin Applied(w, rd)
      BY <1>3, <2>3 DEF Exact, Stamped, Applied, TokenIgnored
    <3>2. k \notin Written(w, rd) /\ k \notin Dropped(w, rd)
      BY <1>3, <3>1 DEF Written, Dropped
    <3>3. /\ base'[k] = base[k] /\ credits'[k] = credits[k]
          /\ k \in rows' <=> k \in rows
      BY <3>2 DEF ApplyRead
    <3> QED
      BY <2>1, <3>3 DEF Exact, Forward
  <2> QED
    BY <2>2, <2>3
<1>4. CASE k \in Stamped(w, rd)
  <2>1. /\ k \in Applied(w, rd) /\ t \in rd.tokens
        /\ rd.order[t] # None
    BY <1>4 DEF Stamped, Applied, ReadKeys
  <2>2. rd.at[t] \in Heights /\ rd.order[t] = rd.at[t]
    BY <1>1, <2>1, MaxBlockAssumption DEF IsRead, Heights
  <2>3. rd.at[t] >= OrZero(balance_block[k])
    BY <1>2, <2>1, <2>2 DEF Applied, TokenIgnored, TokenStale, OrZero, Heights, None
  <2>4. readAt[k] # None => rd.at[t] >= readAt[k]
    BY <2>2, <2>3, StampCovers DEF Heights
  <2>5. balance_block'[k] = rd.at[t]
    BY <1>4, <2>2 DEF ApplyRead
  <2>6. CASE k \in Written(w, rd)
    <3>1. /\ readAt'[k] = rd.at[t] /\ base'[k] = rd.at[t]
          /\ credits'[k] = {} /\ k \in rows'
      BY <1>4, <2>6 DEF ApplyRead, Settled
    <3> QED
      BY <2>2, <2>4, <2>5, <3>1 DEF Exact, Forward, Heights, None
  <2>7. CASE k \notin Written(w, rd) /\ ReadsZero(k, rd)
    <3>1. readAt'[k] = rd.at[t] /\ rd.at[t] \in empty[k]
      BY <1>4, <2>7 DEF ApplyRead, Settled, ReadsZero
    <3>2. k \notin rows' /\ credits'[k] = {}
      BY <1>4, <2>7, ReadType DEF ApplyRead, Dropped
    <3> QED
      BY <2>2, <2>4, <2>5, <3>1, <3>2 DEF Exact, Forward, Heights, None
  <2>8. CASE k \notin Written(w, rd) /\ ~ReadsZero(k, rd)
    <3>1. readAt'[k] = None
      BY <1>4, <2>8 DEF ApplyRead, Settled
    <3>2. k \notin rows /\ ~Known(k)
      BY <2>1, <2>8 DEF Written
    <3>3. k \notin rows' /\ credits'[k] \subseteq credits[k]
      BY <2>8, <3>2 DEF ApplyRead
    <3> QED
      BY <3>1, <3>2, <3>3 DEF Exact, Forward
  <2> QED
    BY <2>6, <2>7, <2>8
<1> QED
  BY <1>3, <1>4
\* A receipt keeps every key exact, and what it adds to a settled key was
\* mined after everything the key shows.
LEMMA CreditStep ==
    ASSUME TypeOK, NEW ks \in SUBSET Keys, NEW block \in 1..MaxBlock,
           ApplyFloor(ks, block), empty' = empty, readAt' = readAt,
           NEW k \in Keys, Exact(k)
    PROVE  /\ Exact(k)'
           /\ credits'[k] = IF k \in Credited(ks, block)
                            THEN credits[k] \cup {block} ELSE credits[k]
           /\ k \in Credited(ks, block) /\ readAt[k] # None =>
                readAt[k] < block /\ \A b \in credits[k] : b < block
<1>1. CASE k \notin Credited(ks, block)
  <2>1. /\ k \in rows' <=> k \in rows
        /\ base'[k] = base[k] /\ credits'[k] = credits[k]
        /\ balance_block'[k] = balance_block[k] /\ readAt'[k] = readAt[k]
    BY <1>1 DEF ApplyFloor
  <2> QED
    BY <1>1, <2>1 DEF Exact
<1>2. CASE k \in Credited(ks, block)
  <2>1. OrZero(balance_block[k]) < block
    BY <1>2 DEF Credited, FloorReached, OrZero, TypeOK, Heights, None
  <2>2. balance_block'[k] = block
    BY <1>2, <2>1 DEF ApplyFloor, Highest, OrZero, TypeOK, Heights, None
  <2>3. /\ k \in rows' /\ readAt'[k] = readAt[k]
        /\ base'[k] = IF k \in rows THEN base[k] ELSE None
        /\ credits'[k] = IF k \in rows THEN credits[k] \cup {block} ELSE {block}
    BY <1>2 DEF ApplyFloor
  <2>4. credits'[k] = credits[k] \cup {block}
    <3>1. k \notin rows => credits[k] = {}
      BY DEF TypeOK
    <3> QED
      BY <2>3, <3>1
  <2>5. CASE readAt[k] = None
    BY <1>2, <2>3, <2>4, <2>5 DEF Exact
  <2>6. CASE readAt[k] # None
    <3>1. readAt[k] \in Nat /\ readAt[k] < block /\ balance_block[k] < block
      BY <2>1, <2>6, StampCovers
    <3>2. credits[k] \subseteq 1..MaxBlock
      BY DEF TypeOK
    <3>3. \A b \in credits[k] : readAt[k] < b /\ b < block
      BY <2>6, <3>1, <3>2, StampCovers DEF Exact, TypeOK
    <3>4. \A b \in credits'[k] : readAt'[k] < b /\ b <= balance_block'[k]
      BY <2>2, <2>3, <2>4, <3>1, <3>2, <3>3
    <3>5. base'[k] = readAt[k] \/ (base'[k] = None /\ readAt[k] \in empty[k])
      BY <2>3, <2>6 DEF Exact
    <3>6. Exact(k)'
      BY <2>2, <2>3, <2>4, <3>4, <3>5 DEF Exact, None
    <3> QED
      BY <1>2, <2>4, <3>1, <3>3, <3>6
  <2> QED
    BY <2>5, <2>6
<1> QED
  BY <1>1, <1>2
----------------------------------------------------------------------------
(* One lemma per slot: the invariant is kept, and every key moves forward.  *)

\* The part of IInv a read leaves to be shown: the native floor.
LEMMA ReadNative ==
    ASSUME TypeOK, NativeFloorEarned,
           NEW w \in Wallets, NEW rd, IsRead(rd, head[ChainOf(w)]),
           ApplyRead(w, rd)
    PROVE  NativeFloorEarned'
<1> SUFFICES ASSUME NEW v \in Wallets, native_block'[v] # None
             PROVE  /\ v \in cached'
                    /\ v \in nativePaired' => native_block'[v] <= nativeAt'[v]
  BY DEF NativeFloorEarned
<1>1. CASE v # w
  BY <1>1 DEF ApplyRead, NativeFloorEarned, TypeOK
<1>2. CASE v = w /\ rd.block # None /\ ~NativeStale(w, rd.block)
  BY <1>2 DEF ApplyRead, NativeFloorEarned, TypeOK, NativeIgnored, IsRead
<1>3. CASE v = w /\ ~(rd.block # None /\ ~NativeStale(w, rd.block))
  <2>1. native_block'[w] = native_block[w] /\ w \in cached
    BY <1>3 DEF ApplyRead, NativeFloorEarned
  <2>2. NativeIgnored(w, rd.block)
    BY <1>3, <2>1 DEF NativeIgnored
  <2>3. nativeAt' = nativeAt /\ nativePaired' = nativePaired
    BY <2>1, <2>2 DEF ApplyRead
  <2> QED
    BY <1>3, <2>1, <2>3 DEF ApplyRead, NativeFloorEarned
<1> QED
  BY <1>1, <1>2, <1>3

\* transfer_block only grows, and reaches the block noted.
LEMMA TransferStep ==
    ASSUME TypeOK, NEW ws \in SUBSET Wallets, NEW block \in Heights \cup {None},
           transfer_block' = TransferNoted(ws, block)
    PROVE  /\ transfer_block' \in [Wallets -> Heights \cup {None}]
           /\ \A w \in Wallets : transfer_block[w] <= transfer_block'[w]
           /\ \A w \in ws : block <= transfer_block'[w]
<1> SUFFICES ASSUME NEW w \in Wallets
             PROVE  /\ transfer_block'[w] \in Heights \cup {None}
                    /\ transfer_block[w] <= transfer_block'[w]
                    /\ w \in ws => block <= transfer_block'[w]
  BY DEF TransferNoted
<1>1. transfer_block[w] \in Heights \cup {None}
  BY DEF TypeOK
<1>2. CASE w \in ws /\ block # None
  <2>1. transfer_block'[w] = Highest(OrZero(transfer_block[w]), block)
    BY <1>2 DEF TransferNoted
  <2> QED
    BY <1>1, <1>2, <2>1, MaxBlockAssumption DEF Highest, OrZero, Heights, None
<1>3. CASE ~(w \in ws /\ block # None)
  BY <1>1, <1>3 DEF TransferNoted, Heights, None
<1> QED
  BY <1>2, <1>3

\* Any slot that applies one read, whatever it notes of a transfer.
LEMMA ReadSlot ==
    ASSUME IInv, NEW w \in Wallets, NEW rd, IsRead(rd, head[ChainOf(w)]),
           ApplyRead(w, rd), UNCHANGED <<chainVars, live>>,
           NEW block \in Heights \cup {None},
           transfer_block' = TransferNoted({w}, block) \/ transfer_block' = transfer_block
    PROVE  IInv' /\ \A k \in Keys : Forward(k)
<1>1. TypeOK'
  <2>1. transfer_block' \in [Wallets -> Heights \cup {None}]
    BY TransferStep DEF IInv, TypeOK
  <2> QED
    BY <2>1, ReadType DEF IInv, TypeOK, chainVars
<1>2. \A k \in Keys : Exact(k)' /\ Forward(k)
  BY ReadStep, ExactIsSettled DEF IInv, chainVars
<1>3. SettledRowsAreExact'
  BY <1>2 DEF SettledRowsAreExact, Exact
<1>4. NativeFloorEarned'
  BY ReadNative DEF IInv
<1>5. ForkFloorCoversCredits'
  <2>1. \A v \in Wallets : transfer_block[v] <= transfer_block'[v]
    <3>1. CASE transfer_block' = TransferNoted({w}, block)
      BY <3>1, TransferStep DEF IInv
    <3>2. CASE transfer_block' = transfer_block
      <4>1. \A v \in Wallets : transfer_block[v] \in Int
        BY DEF IInv, TypeOK, Heights, None
      <4> QED
        BY <3>2, <4>1
    <3> QED
      BY <3>1, <3>2
  <2>2. \A k \in Keys : credits'[k] \subseteq credits[k]
    BY DEF ApplyRead
  <2>3. \A k \in Keys : /\ WalletOf(k) \in Wallets
                        /\ credits[k] \subseteq 1..MaxBlock
                        /\ transfer_block[WalletOf(k)] \in Heights \cup {None}
                        /\ transfer_block'[WalletOf(k)] \in Heights \cup {None}
    BY <1>1, KeyParts DEF IInv, TypeOK
  <2> QED
    BY <2>1, <2>2, <2>3 DEF IInv, ForkFloorCoversCredits, Heights, None
<1> QED
  BY <1>1, <1>2, <1>3, <1>4, <1>5 DEF IInv
\* note_receipt_logs.
LEMMA ReceiptSlot ==
    ASSUME IInv, NEW touched \in SUBSET Keys, NEW paid \in SUBSET touched,
           NEW block \in 1..MaxBlock, NoteReceiptLogs(touched, paid, block)
    PROVE  IInv' /\ \A k \in Keys : Forward(k)
<1> DEFINE ws == {WalletOf(k) : k \in touched}
           add == Credited(paid, block)
<1>1. /\ ws \in SUBSET Wallets /\ add \subseteq Keys /\ add \subseteq paid
      /\ block \in Heights
  BY KeyParts, MaxBlockAssumption DEF Credited, Heights
<1>2. /\ transfer_block' \in [Wallets -> Heights \cup {None}]
      /\ \A w \in Wallets : transfer_block[w] <= transfer_block'[w]
      /\ \A w \in ws : block <= transfer_block'[w]
  BY <1>1, TransferStep DEF IInv, NoteReceiptLogs
<1>3. /\ ApplyFloor(paid, block) /\ UNCHANGED <<chainVars, live, native_block, readAt>>
      /\ empty' = empty /\ readAt' = readAt
  BY DEF NoteReceiptLogs, chainVars
<1>4. \A k \in Keys :
        /\ Exact(k)'
        /\ credits'[k] = IF k \in add THEN credits[k] \cup {block} ELSE credits[k]
  BY <1>3, CreditStep, ExactIsSettled DEF IInv
<1>5. TypeOK'
  <2>1. cached' \subseteq Wallets /\ rows' \subseteq Keys
    BY <1>1, <1>3, KeyParts DEF ApplyFloor, IInv, TypeOK
  <2>2. \A k \in Keys : IF k \in rows' THEN WalletOf(k) \in cached'
                        ELSE credits'[k] = {}
    BY <1>1, <1>3, <1>4, KeyParts DEF ApplyFloor, IInv, TypeOK
  <2>3. /\ base' \in [Keys -> Heights \cup {None}]
        /\ nativeAt' \in [Wallets -> Heights \cup {None}]
        /\ nativePaired' \subseteq Wallets
    BY <1>3 DEF ApplyFloor, IInv, TypeOK
  <2>4. credits' \in [Keys -> SUBSET (1..MaxBlock)]
    BY <1>3, <1>4 DEF ApplyFloor, IInv, TypeOK
  <2>5. balance_block' \in [Keys -> Heights \cup {None}]
    <3>1. \A k \in Keys : Highest(OrZero(balance_block[k]), block) \in Heights
      BY <1>1 DEF Highest, OrZero, IInv, TypeOK, Heights, None
    <3> QED
      BY <1>3, <3>1 DEF ApplyFloor, IInv, TypeOK
  <2> QED
    BY <1>2, <1>3, <2>1, <2>2, <2>3, <2>4, <2>5 DEF IInv, TypeOK, chainVars
<1>6. SettledRowsAreExact'
  BY <1>4 DEF SettledRowsAreExact, Exact
<1>7. NativeFloorEarned'
  <2>1. native_block' = native_block /\ cached \subseteq cached'
    BY <1>3 DEF ApplyFloor
  <2>2. \A w \in cached : /\ w \in Wallets => nativeAt'[w] = nativeAt[w]
                          /\ w \in nativePaired' <=> w \in nativePaired
    BY <1>3 DEF ApplyFloor
  <2> QED
    BY <2>1, <2>2 DEF IInv, NativeFloorEarned
<1>8. ForkFloorCoversCredits'
  <2> SUFFICES ASSUME NEW k \in Keys, NEW b \in credits'[k]
               PROVE  b <= transfer_block'[WalletOf(k)]
    BY DEF ForkFloorCoversCredits
  <2>1. WalletOf(k) \in Wallets
    BY KeyParts
  <2>2. CASE b \in credits[k]
    <3>1. /\ b \in Nat /\ b <= transfer_block[WalletOf(k)]
          /\ transfer_block[WalletOf(k)] \in Int /\ transfer_block'[WalletOf(k)] \in Int
      BY <1>2, <2>1, <2>2 DEF IInv, ForkFloorCoversCredits, TypeOK, Heights, None
    <3> QED
      BY <1>2, <2>1, <3>1
  <2>3. CASE b \notin credits[k]
    <3>1. k \in add /\ b = block
      BY <1>4, <2>3
    <3> QED
      BY <1>1, <1>2, <3>1
  <2> QED
    BY <2>2, <2>3
<1>9. ASSUME NEW k \in Keys PROVE Forward(k)
  <2>1. CASE k \in add /\ readAt[k] # None
    <3>1. readAt[k] < block /\ \A b \in credits[k] : b < block
      BY <1>3, <2>1, CreditStep, ExactIsSettled DEF IInv
    <3> QED
      BY <1>3, <1>4, <2>1, <3>1 DEF Forward
  <2>2. CASE ~(k \in add /\ readAt[k] # None)
    BY <1>3, <1>4, <2>2 DEF Forward
  <2> QED
    BY <2>1, <2>2
<1> QED
  BY <1>5, <1>6, <1>7, <1>8, <1>9 DEF IInv

\* The slots that read no token: the native poll, a log whose ws read failed.
LEMMA NativeSlot ==
    ASSUME IInv, NEW w \in Wallets, NEW h \in Heights,
           NEW block \in Heights \cup {None}, OnNativeBalance(w, block, h)
    PROVE  IInv' /\ \A k \in Keys : Forward(k)
<1>1. TypeOK'
  BY DEF OnNativeBalance, ApplyNative, IInv, TypeOK, chainVars
<1>2. SettledRowsAreExact' /\ ForkFloorCoversCredits'
  BY DEF OnNativeBalance, IInv, SettledRowsAreExact, ForkFloorCoversCredits, chainVars
<1>3. NativeFloorEarned'
  BY DEF OnNativeBalance, ApplyNative, IInv, TypeOK, NativeFloorEarned, Heights
<1> QED
  BY <1>1, <1>2, <1>3 DEF IInv, Forward, OnNativeBalance

\* on_balance_dirty after a failed ws read: only the fork floor moves, upwards.
LEMMA UnreadSlot ==
    ASSUME IInv, NEW w \in Wallets, NEW block \in Heights,
           OnBalanceDirtyUnread(w, block)
    PROVE  IInv' /\ \A k \in Keys : Forward(k)
<1>1. /\ transfer_block' \in [Wallets -> Heights \cup {None}]
      /\ \A v \in Wallets : transfer_block[v] <= transfer_block'[v]
  BY TransferStep DEF IInv, OnBalanceDirtyUnread
<1>2. TypeOK'
  BY <1>1 DEF OnBalanceDirtyUnread, IInv, TypeOK, chainVars, cacheVars
<1>3. SettledRowsAreExact' /\ NativeFloorEarned'
  BY DEF OnBalanceDirtyUnread, IInv, SettledRowsAreExact, NativeFloorEarned,
         chainVars, cacheVars
<1>4. ForkFloorCoversCredits'
  <2>1. credits' = credits
    BY DEF OnBalanceDirtyUnread, cacheVars
  <2> QED
    BY <1>1, <2>1, KeyParts DEF IInv, TypeOK, ForkFloorCoversCredits, Heights, None
<1> QED
  BY <1>2, <1>3, <1>4 DEF IInv, Forward, OnBalanceDirtyUnread, cacheVars

\* on_ws_link_state: what is forgotten is forgotten with its stamp.
LEMMA LinkUpSlot ==
    ASSUME IInv, NEW c \in Chains, OnLinkUp(c)
    PROVE  IInv' /\ \A k \in Keys : Forward(k)
<1>1. CASE c \in live
  <2>1. UNCHANGED <<chainVars, cacheVars, ledgerVars, readAt>>
        /\ live' \subseteq Chains
    BY <1>1 DEF OnLinkUp, IInv, TypeOK, ledgerVars
  <2> QED
    BY <2>1 DEF IInv, TypeOK, SettledRowsAreExact, NativeFloorEarned,
         ForkFloorCoversCredits, Forward, chainVars, cacheVars, ledgerVars
<1>2. CASE c \notin live
  <2>1. ResetChain(c) /\ live' = live \cup {c}
        /\ UNCHANGED <<chainVars, cacheVars, transfer_block>>
    BY <1>2 DEF OnLinkUp
  <2>2. TypeOK'
    BY <2>1 DEF ResetChain, IInv, TypeOK, chainVars, cacheVars
  <2>3. SettledRowsAreExact'
    <3> SUFFICES ASSUME NEW k \in Keys PROVE Exact(k)'
      BY DEF SettledRowsAreExact, Exact
    <3> QED
      BY <2>1, ExactIsSettled DEF ResetChain, IInv, Exact, chainVars, cacheVars
  <2>4. NativeFloorEarned' /\ ForkFloorCoversCredits'
    BY <2>1 DEF ResetChain, IInv, NativeFloorEarned, ForkFloorCoversCredits, cacheVars
  <2>5. \A k \in Keys : Forward(k)
    BY <1>2, <2>1 DEF ResetChain, Forward, cacheVars
  <2> QED
    BY <2>2, <2>3, <2>4, <2>5 DEF IInv
<1> QED
  BY <1>1, <1>2

\* The steps that change nothing the invariant relates.
LEMMA OtherSlot ==
    ASSUME IInv, UNCHANGED <<empty, cacheVars, ledgerVars, readAt>>,
           head' \in [Chains -> 1..MaxBlock], known' \subseteq Chains \X Tokens,
           live' \subseteq Chains
    PROVE  IInv' /\ \A k \in Keys : Forward(k)
  BY DEF IInv, TypeOK, SettledRowsAreExact, NativeFloorEarned,
         ForkFloorCoversCredits, Forward, cacheVars, ledgerVars
----------------------------------------------------------------------------
(* The inductive step, and the theorems. *)

\* Nothing is settled, floored or credited when the app starts.
LEMMA InitInv == ASSUME Init PROVE IInv
<1>1. TypeOK
  BY MaxBlockAssumption DEF Init, TypeOK, Heights, Keys
<1>2. SettledRowsAreExact /\ NativeFloorEarned /\ ForkFloorCoversCredits
  BY KeyParts DEF Init, SettledRowsAreExact, NativeFloorEarned, ForkFloorCoversCredits
<1> QED
  BY <1>1, <1>2 DEF IInv

\* Every step keeps the invariant and moves every key forward.
LEMMA NextInv == ASSUME IInv, [Next]_vars PROVE IInv' /\ \A k \in Keys : Forward(k)
<1>0. /\ \A c \in Chains : head[c] \in 1..MaxBlock
      /\ \A w \in Wallets : head[ChainOf(w)] \in 1..MaxBlock
      /\ \A c \in Chains : Seen(c) \subseteq Heights
      /\ \A w \in Wallets : Seen(ChainOf(w)) \subseteq Heights
  BY KeyParts, MaxBlockAssumption DEF IInv, TypeOK, Seen, Heights
<1>1. CASE UNCHANGED vars
  BY <1>1, OtherSlot DEF vars, chainVars, IInv, TypeOK
<1>2. ASSUME NEW c \in Chains, NewBlock(c) PROVE IInv' /\ \A k \in Keys : Forward(k)
  <2>1. head' \in [Chains -> 1..MaxBlock]
    <3>1. head \in [Chains -> 1..MaxBlock] /\ head[c] < MaxBlock
          /\ head' = [head EXCEPT ![c] = head[c] + 1]
      BY <1>2 DEF NewBlock, IInv, TypeOK
    <3>2. head[c] + 1 \in 1..MaxBlock
      BY <1>0, <3>1, MaxBlockAssumption
    <3> QED
      BY <3>1, <3>2
  <2> QED
    BY <1>2, <2>1, OtherSlot DEF NewBlock, IInv, TypeOK
<1>3. ASSUME NEW c \in Chains, OnLinkUp(c) PROVE IInv' /\ \A k \in Keys : Forward(k)
  BY <1>3, LinkUpSlot
<1>4. ASSUME NEW c \in Chains, OnLinkDown(c) PROVE IInv' /\ \A k \in Keys : Forward(k)
  BY <1>4, OtherSlot DEF OnLinkDown, chainVars, IInv, TypeOK
<1>5. ASSUME NEW c \in Chains, NEW t \in Tokens, LearnMetadata(c, t)
      PROVE  IInv' /\ \A k \in Keys : Forward(k)
  BY <1>5, OtherSlot DEF LearnMetadata, IInv, TypeOK
<1>6. ASSUME NEW w \in Wallets, NEW block \in Seen(ChainOf(w)) \cup {None},
             NEW h \in Seen(ChainOf(w)), NEW t \in Tokens, OnBalanceDirty(w, t, block, h)
      PROVE  IInv' /\ \A k \in Keys : Forward(k)
  <2>1. IsRead(WsRead(t, block, h), head[ChainOf(w)])
    BY <1>0, <1>6, WsReadIsRead DEF OnBalanceDirty, Seen
  <2>2. block \in Heights \cup {None}
    BY <1>0
  <2> QED
    BY <1>6, <2>1, <2>2, ReadSlot DEF OnBalanceDirty
<1>7. ASSUME NEW w \in Wallets, NEW block \in Seen(ChainOf(w)) \cup {None},
             NEW h \in Seen(ChainOf(w)), OnNativeBalance(w, block, h)
      PROVE  IInv' /\ \A k \in Keys : Forward(k)
  <2>1. block \in Heights \cup {None} /\ h \in Heights
    BY <1>0
  <2> QED
    BY <1>7, <2>1, NativeSlot
<1>8. ASSUME NEW w \in Wallets, NEW block \in Seen(ChainOf(w)),
             OnBalanceDirtyUnread(w, block)
      PROVE  IInv' /\ \A k \in Keys : Forward(k)
  <2>1. block \in Heights
    BY <1>0
  <2> QED
    BY <1>8, <2>1, UnreadSlot
<1>9. ASSUME NEW w \in Wallets, NEW rd \in HttpReads(head[ChainOf(w)]), OnHttpRead(w, rd)
      PROVE  IInv' /\ \A k \in Keys : Forward(k)
  <2>1. IsRead(rd, head[ChainOf(w)])
    BY <1>0, <1>9, HttpReadIsRead DEF OnHttpRead
  <2> QED
    BY <1>9, <2>1, ReadSlot DEF OnHttpRead
<1>10. ASSUME NEW c \in Chains, NEW touched \in SUBSET Keys, NEW paid \in SUBSET touched,
              NEW block \in 1..head[c], NoteReceiptLogs(touched, paid, block)
       PROVE  IInv' /\ \A k \in Keys : Forward(k)
  <2>1. block \in 1..MaxBlock
    BY <1>0, MaxBlockAssumption
  <2> QED
    BY <1>10, <2>1, ReceiptSlot
<1>11. CASE Next
  BY <1>2, <1>3, <1>4, <1>5, <1>6, <1>7, <1>8, <1>9, <1>10, <1>11 DEF Next
<1> QED
  BY <1>1, <1>11

\* The invariant holds throughout: the maps are well typed, settled rows are
\* exact, native floors are earned, the fork floor covers every credit.
THEOREM Invariance == Spec => []IInv
<1>1. Init => IInv
  BY InitInv
<1>2. IInv /\ [Next]_vars => IInv'
  BY NextInv
<1> QED
  BY <1>1, <1>2, PTL DEF Spec

\* Every map of the ledger and the cache keeps its type.
THEOREM TypeCorrect == Spec => []TypeOK
<1>1. IInv => TypeOK
  BY DEF IInv
<1> QED
  BY <1>1, Invariance, PTL

\* A settled token shows exactly what the read it reflects said, and only
\* receipts mined after it.
THEOREM SettledRows == Spec => []SettledRowsAreExact
<1>1. IInv => SettledRowsAreExact
  BY DEF IInv
<1> QED
  BY <1>1, Invariance, PTL

\* The height the native balance is ordered by is no newer than its read.
THEOREM NativeFloors == Spec => []NativeFloorEarned
<1>1. IInv => NativeFloorEarned
  BY DEF IInv
<1> QED
  BY <1>1, Invariance, PTL

\* The fork floor covers every credit in the cache.
THEOREM ForkFloors == Spec => []ForkFloorCoversCredits
<1>1. IInv => ForkFloorCoversCredits
  BY DEF IInv
<1> QED
  BY <1>1, Invariance, PTL

\* Both floors, as the runs check them.
THEOREM Floors == Spec => []FloorsHold
<1>1. IInv => FloorsHold
  BY DEF IInv, FloorsHold
<1> QED
  BY <1>1, Invariance, PTL

\* An older read never regresses a fresher one.
THEOREM NoRegression == Spec => NeverRegresses
<1>1. IInv /\ [Next]_vars =>
        [\A k \in Keys : readAt[k] # None =>
           \/ readAt'[k] >= readAt[k]
           \/ /\ readAt'[k] = None
              /\ \/ ChainOf(WalletOf(k)) \in live' \ live
                 \/ k \notin rows' /\ ~Known(k)]_vars
  <2> SUFFICES ASSUME IInv, [Next]_vars, NEW k \in Keys, readAt[k] # None
               PROVE  \/ readAt'[k] >= readAt[k]
                      \/ /\ readAt'[k] = None
                         /\ \/ ChainOf(WalletOf(k)) \in live' \ live
                            \/ k \notin rows' /\ ~Known(k)
    OBVIOUS
  <2>1. Forward(k)
    BY NextInv
  <2>2. readAt[k] \in Int
    BY DEF IInv, TypeOK, Heights, None
  <2> QED
    BY <2>1, <2>2 DEF Forward
<1> QED
  BY <1>1, Invariance, PTL DEF Spec, NeverRegresses
\* A receipt is never added on top of a read that already contains it.
THEOREM NoDoubleCrediting == Spec => NoDoubleCredit
<1>1. IInv /\ [Next]_vars =>
        [\A k \in Keys : \A b \in credits'[k] \ credits[k] :
           readAt[k] # None => readAt[k] < b]_vars
  <2> SUFFICES ASSUME IInv, [Next]_vars, NEW k \in Keys,
                      NEW b \in credits'[k] \ credits[k], readAt[k] # None
               PROVE  readAt[k] < b
    OBVIOUS
  <2>1. Forward(k)
    BY NextInv
  <2> QED
    BY <2>1 DEF Forward
<1> QED
  BY <1>1, Invariance, PTL DEF Spec, NoDoubleCredit

\* The height a row shows is the height of the ordered read.
LEMMA VersionIsReadAt ==
    ASSUME SettledRowsAreExact, NEW k \in Keys
    PROVE  Version(k) = readAt[k]
  BY DEF SettledRowsAreExact, Version

\* The ledger, with its stamps and its cache file, implements the ordered
\* balances: no interleaving of reads, receipts and reconnects makes a shown
\* balance go back or count a receipt twice, except by forgetting first.
THEOREM Refinement == Spec => ImplementsOrderedBalances
<1>1. Init => Ordered!Init
  BY DEF Init, Ordered!Init, Version, Extra
<1>2. IInv /\ IInv' /\ [Next]_vars => [Ordered!Next]_(Ordered!vars)
  <2> SUFFICES ASSUME IInv, IInv', [Next]_vars PROVE Ordered!Next
    OBVIOUS
  <2>1. /\ \A k \in Keys : Version(k) = readAt[k] /\ Version(k)' = readAt'[k]
        /\ \A k \in Keys : readAt[k] \in Heights \cup {None}
                           /\ readAt'[k] \in Heights \cup {None}
        /\ \A k \in Keys : credits[k] \subseteq Heights /\ credits'[k] \subseteq Heights
    <3>1. \A k \in Keys : Version(k) = readAt[k]
      BY VersionIsReadAt DEF IInv
    <3>2. \A k \in Keys : Version(k)' = readAt'[k]
      BY DEF IInv, SettledRowsAreExact, Version
    <3> QED
      BY <3>1, <3>2, MaxBlockAssumption DEF IInv, TypeOK, Heights
  <2>2. ASSUME NEW k \in Keys
        PROVE  Ordered!Keep(k) \/ Ordered!Advance(k) \/ Ordered!Credit(k) \/ Ordered!Forget(k)
    <3>1. /\ Version(k) = readAt[k] /\ Version(k)' = readAt'[k]
          /\ Extra(k) = IF readAt[k] # None THEN credits[k] ELSE {}
          /\ Extra(k)' = IF readAt'[k] # None THEN credits'[k] ELSE {}
      BY <2>1 DEF Extra
    <3>2. Forward(k)
      BY NextInv
    <3>3. CASE readAt'[k] = readAt[k] /\ (readAt[k] # None => credits'[k] = credits[k])
      BY <3>1, <3>3 DEF Ordered!Keep
    <3>4. CASE /\ readAt'[k] = readAt[k] /\ readAt[k] # None
               /\ \E b \in 1..MaxBlock :
                     /\ readAt[k] < b
                     /\ \A e \in credits[k] : e < b
                     /\ credits'[k] = credits[k] \cup {b}
      BY <2>1, <3>1, <3>4, MaxBlockAssumption DEF Ordered!Credit, Heights, None
    <3>5. CASE /\ readAt'[k] \in Heights
               /\ readAt[k] # None => readAt'[k] >= readAt[k]
               /\ credits'[k] = {}
      BY <3>1, <3>5 DEF Ordered!Advance
    <3>6. CASE readAt'[k] = None
      BY <3>1, <3>6 DEF Ordered!Forget
    <3> QED
      BY <3>1, <3>2, <3>3, <3>4, <3>5, <3>6 DEF Forward
  <2>3. /\ [k \in Keys |-> Version(k)]' \in [Keys -> Heights \cup {None}]
        /\ [k \in Keys |-> Extra(k)]' \in [Keys -> SUBSET Heights]
    BY <2>1 DEF Extra
  <2> QED
    BY <2>2, <2>3 DEF Ordered!Next
<1> QED
  BY <1>1, <1>2, Invariance, PTL DEF Spec, ImplementsOrderedBalances, Ordered!Spec
\* A row only disappears when an ordered read found the balance to be zero.
THEOREM RowsDrop == Spec => RowsDropOnlyAtZero
<1>1. IInv /\ [Next]_vars => [\A k \in rows \ rows' : balance_block'[k] \in empty[k]]_vars
  <2> SUFFICES ASSUME IInv, Next, NEW k \in rows \ rows'
               PROVE  balance_block'[k] \in empty[k]
    OBVIOUS
  <2>1. k \in Keys
    BY DEF IInv, TypeOK
  <2>2. ASSUME NEW w \in Wallets, NEW rd, IsRead(rd, head[ChainOf(w)]), ApplyRead(w, rd)
        PROVE  balance_block'[k] \in empty[k]
    <3>1. k \in Dropped(w, rd)
      BY <2>2 DEF ApplyRead
    <3>2. /\ k \in Stamped(w, rd) /\ ReadsZero(k, rd)
          /\ TokenOf(k) \in rd.tokens /\ rd.order[TokenOf(k)] # None
      BY <3>1 DEF Dropped, Stamped, Applied, ReadKeys
    <3> QED
      BY <2>1, <2>2, <3>2 DEF ApplyRead, ReadsZero, IsRead
  <2>3. ASSUME NEW w \in Wallets, NEW t \in Tokens, NEW h \in Seen(ChainOf(w)),
               NEW block \in Seen(ChainOf(w)) \cup {None}, OnBalanceDirty(w, t, block, h)
        PROVE  balance_block'[k] \in empty[k]
    <3>1. head[ChainOf(w)] \in Nat
      BY KeyParts DEF IInv, TypeOK
    <3>2. IsRead(WsRead(t, block, h), head[ChainOf(w)])
      BY <2>3, <3>1, WsReadIsRead DEF OnBalanceDirty, Seen
    <3> QED
      BY <2>2, <2>3, <3>2 DEF OnBalanceDirty
  <2>4. ASSUME NEW w \in Wallets, NEW rd \in HttpReads(head[ChainOf(w)]), OnHttpRead(w, rd)
        PROVE  balance_block'[k] \in empty[k]
    <3>1. head[ChainOf(w)] \in Nat
      BY KeyParts DEF IInv, TypeOK
    <3>2. IsRead(rd, head[ChainOf(w)])
      BY <2>4, <3>1, HttpReadIsRead DEF OnHttpRead
    <3> QED
      BY <2>2, <2>4, <3>2 DEF OnHttpRead
  <2>5. ASSUME NEW touched, NEW paid, NEW block, NoteReceiptLogs(touched, paid, block)
        PROVE  FALSE
    BY <2>5 DEF NoteReceiptLogs, ApplyFloor
  <2> QED
    BY <2>3, <2>4, <2>5 DEF Next, NewBlock, OnLinkUp, OnLinkDown, LearnMetadata,
       OnNativeBalance, OnBalanceDirtyUnread, cacheVars
<1> QED
  BY <1>1, Invariance, PTL DEF Spec, RowsDropOnlyAtZero

----------------------------------------------------------------------------
(* Discovery: what is carried through the stages, and the merge. *)

\* What a pipeline may merge: a read, whose amounts that told their height have
\* nothing on top of them, and amounts of the cache.
Mergeable(v) ==
    /\ v.block \in Heights \cup {None} /\ v.native \in Heights \cup {None}
    /\ v.told # None => v.block # None /\ v.block <= v.native
    /\ DOMAIN v.amounts \subseteq Tokens
    /\ \A t \in DOMAIN v.amounts :
          /\ v.amounts[t].base \in Heights \cup {None}
          /\ v.amounts[t].credits \subseteq 1..MaxBlock
    /\ \A t \in DOMAIN v.order :
          /\ v.order[t] \in Heights \cup {None}
          /\ v.order[t] # None => /\ v.amounts[t].base = v.order[t]
                                  /\ v.amounts[t].credits = {}

Carries(v) ==
    /\ v.stage # "idle" => v.view \in Wallets
    /\ v.stage = "reading" => v.queried \subseteq Tokens /\ v.explorer \in Heights \cup {None}
    /\ v.stage = "pricing" => Mergeable(v)

\* The credits a pipeline took from the cache are covered by the fork floor.
Covered(v) ==
    v.stage = "pricing" =>
        \A t \in DOMAIN v.amounts : \A b \in v.amounts[t].credits : b <= transfer_block[v.view]

PipelinesHold ==
    /\ pv = [p \in Pipelines |-> pv[p]]
    /\ \A p \in Pipelines : Carries(pv[p]) /\ Covered(pv[p])

DiscoveryInv == IInv /\ PipelinesHold

\* A settled key shows no older amount.
Onward(k) ==
    k \in rows' /\ readAt[k] # None /\ base'[k] # None => base'[k] >= readAt[k]

\* What v lands for k without a height is what keeps a key from going onward.
Unordered(k, v) == k \in Merged(v) /\ OrderOf(k, v) = None

FloorsRise == \A w \in Wallets : transfer_block[w] <= transfer_block'[w]

\* A key that moves forward, and is exact at both ends, goes onward.
LEMMA ForwardIsOnward ==
    ASSUME TypeOK, NEW k \in Keys, Exact(k), Exact(k)', Forward(k),
           live' \subseteq live \/ UNCHANGED <<base, rows>>
    PROVE  Onward(k)
<1>1. /\ readAt[k] \in Int
      /\ k \in rows /\ readAt[k] # None => base[k] = readAt[k] \/ base[k] = None
      /\ k \in rows' /\ readAt'[k] # None => base'[k] = readAt'[k] \/ base'[k] = None
  BY DEF TypeOK, Exact, Heights, None
<1>2. CASE UNCHANGED <<base, rows>>
  BY <1>1, <1>2 DEF Onward
<1>3. CASE live' \subseteq live
  BY <1>1, <1>3 DEF Forward, Onward, Heights, None
<1> QED
  BY <1>2, <1>3

\* What a merge does to one key: it stays exact, and goes onward unless what
\* lands for it has no height.
LEMMA MergedKey ==
    ASSUME IInv, NEW v, v.view \in Wallets, Mergeable(v), Covered(v), v.stage = "pricing",
           MergeTokens(v), UNCHANGED empty, NEW k \in Keys
    PROVE  /\ Exact(k)' /\ (Onward(k) \/ Unordered(k, v))
           /\ base'[k] \in Heights \cup {None} /\ balance_block'[k] \in Heights \cup {None}
           /\ readAt'[k] \in Heights \cup {None}
           /\ credits'[k] \subseteq 1..MaxBlock /\ (k \notin rows' => credits'[k] = {})
           /\ \A b \in credits'[k] : b <= transfer_block[WalletOf(k)]
           /\ k \in rows' => k \in rows \/ WalletOf(k) = v.view
<1> DEFINE saved == SavedRows(v)
           shown == Shown(v) \cap saved
           hidden == {x \in Keys : WalletOf(x) = v.view /\ x \notin Emptied(v)} \ saved
           a == Amount(k, v)
           o == OrderOf(k, v)
<1>1. /\ Exact(k) /\ (k \notin rows => credits[k] = {}) /\ rows \subseteq Keys
      /\ base[k] \in Heights \cup {None} /\ balance_block[k] \in Heights \cup {None}
      /\ readAt[k] \in Heights \cup {None} /\ empty[k] \subseteq Heights
      /\ credits[k] \subseteq 1..MaxBlock
      /\ \A b \in credits[k] : b <= transfer_block[WalletOf(k)]
  BY ExactIsSettled DEF IInv, TypeOK, ForkFloorCoversCredits
<1>2. /\ rows' = saved
      /\ base'[k] = IF k \in shown THEN a.base ELSE base[k]
      /\ credits'[k] = IF k \notin saved THEN {}
                       ELSE IF k \in shown THEN a.credits ELSE credits[k]
      /\ balance_block'[k] = IF k \in MergeStamped(v) THEN o ELSE balance_block[k]
      /\ readAt'[k] = IF k \in hidden
                      THEN IF k \in rows \cup MergeStamped(v) THEN None ELSE readAt[k]
                      ELSE IF k \in MergeStamped(v) THEN o
                      ELSE IF k \in MergedUnordered(v) THEN None
                      ELSE readAt[k]
  BY DEF MergeTokens
<1>3. k \in saved => k \in rows \/ WalletOf(k) = v.view
  BY DEF SavedRows, Shown, Merged
<1>4. ASSUME k \in Merged(v)
      PROVE  /\ WalletOf(k) = v.view /\ ~TokenStale(k, o) /\ o \in Heights \cup {None}
             /\ a.base \in Heights \cup {None} /\ a.credits \subseteq 1..MaxBlock
             /\ \A b \in a.credits : b <= transfer_block[WalletOf(k)]
             /\ o # None => a.base = o /\ a.credits = {}
  <2>1. WalletOf(k) = v.view /\ TokenOf(k) \in DOMAIN v.amounts /\ ~TokenStale(k, o)
    BY <1>4 DEF Merged
  <2>2. a.base \in Heights \cup {None} /\ a.credits \subseteq 1..MaxBlock
    BY <2>1 DEF Mergeable, Amount
  <2>3. \A b \in a.credits : b <= transfer_block[WalletOf(k)]
    BY <2>1 DEF Covered, Amount
  <2>4. o \in Heights \cup {None} /\ (o # None => a.base = o /\ a.credits = {})
    BY DEF Mergeable, Amount, OrderOf
  <2> QED
    BY <2>1, <2>2, <2>3, <2>4
<1>5. CASE k \in Merged(v) /\ o # None
  <2>1. /\ WalletOf(k) = v.view /\ o \in Heights /\ a.base = o /\ a.credits = {}
        /\ ~TokenStale(k, o) /\ k \in MergeStamped(v)
    BY <1>4, <1>5 DEF MergeStamped
  <2>2. o >= OrZero(balance_block[k])
    BY <1>1, <1>5, <2>1 DEF TokenStale, OrZero, Heights, None
  <2>3. readAt[k] # None => o >= readAt[k]
    BY <1>1, <2>1, <2>2, StampCovers DEF IInv, Heights
  <2>4. CASE k \in Emptied(v)
    <3>1. k \notin saved /\ k \notin hidden /\ o \in empty[k]
      BY <2>1, <2>4 DEF SavedRows, Shown, Emptied
    <3>2. /\ k \notin rows' /\ credits'[k] = {} /\ balance_block'[k] = o /\ readAt'[k] = o
          /\ base'[k] = base[k]
      BY <1>2, <2>1, <3>1
    <3> QED
      BY <1>1, <1>5, <2>1, <3>1, <3>2 DEF Exact, Onward
  <2>5. CASE k \notin Emptied(v) /\ k \in saved
    <3>1. k \in shown /\ k \notin hidden
      BY <1>5, <2>5 DEF Shown, SavedRows
    <3>2. /\ k \in rows' /\ credits'[k] = {} /\ balance_block'[k] = o /\ readAt'[k] = o
          /\ base'[k] = o
      BY <1>2, <2>1, <2>5, <3>1
    <3> QED
      BY <1>1, <1>3, <1>5, <2>1, <2>3, <2>5, <3>2 DEF Exact, Onward
  <2>6. CASE k \notin Emptied(v) /\ k \notin saved
    <3>1. k \in hidden
      BY <2>1, <2>6
    <3>2. /\ k \notin rows' /\ credits'[k] = {} /\ balance_block'[k] = o /\ readAt'[k] = None
          /\ base'[k] = base[k]
      BY <1>2, <2>1, <2>6, <3>1
    <3> QED
      BY <1>1, <2>1, <3>2 DEF Exact, Onward
  <2> QED
    BY <2>4, <2>5, <2>6
<1>6. CASE k \in Merged(v) /\ o = None
  <2>1. /\ Unordered(k, v) /\ k \notin MergeStamped(v) /\ WalletOf(k) = v.view
        /\ a.base \in Heights \cup {None} /\ a.credits \subseteq 1..MaxBlock
        /\ \A b \in a.credits : b <= transfer_block[WalletOf(k)]
    BY <1>4, <1>6 DEF MergeStamped, Unordered
  <2>2. balance_block'[k] = balance_block[k]
    BY <1>2, <2>1
  <2>3. /\ base'[k] \in Heights \cup {None} /\ readAt'[k] \in Heights \cup {None}
        /\ credits'[k] \subseteq 1..MaxBlock /\ (k \notin rows' => credits'[k] = {})
        /\ \A b \in credits'[k] : b <= transfer_block[WalletOf(k)]
    BY <1>1, <1>2, <2>1
  <2>4. Exact(k)'
    <3>1. CASE readAt'[k] = None
      BY <3>1 DEF Exact
    <3>2. CASE readAt'[k] # None
      <4>1. readAt'[k] = readAt[k]
        BY <1>2, <2>1, <3>2
      <4>2. CASE k \in hidden
        <5>1. k \notin rows /\ k \notin rows'
          BY <1>2, <3>2, <4>2
        <5> QED
          BY <1>1, <2>2, <4>1, <5>1 DEF Exact
      <4>3. CASE k \notin hidden
        <5>1. k \notin MergedUnordered(v)
          BY <1>2, <2>1, <3>2, <4>3
        <5>2. k \in rows /\ a = [base |-> base[k], credits |-> credits[k]]
          BY <1>6, <5>1 DEF MergedUnordered
        <5>3. a.base = base[k] /\ a.credits = credits[k]
          BY <5>2
        <5>4. CASE k \in Emptied(v)
          <6>1. k \notin saved /\ credits[k] = {} /\ base[k] \in empty[k]
            BY <5>3, <5>4 DEF SavedRows, Shown, Emptied
          <6>2. k \notin rows'
            BY <1>2, <6>1
          <6>3. base[k] = readAt[k] /\ balance_block[k] = readAt[k]
            BY <1>1, <3>2, <4>1, <5>2, <6>1 DEF Exact
          <6> QED
            BY <2>2, <4>1, <6>1, <6>2, <6>3, <3>2 DEF Exact
        <5>5. CASE k \notin Emptied(v)
          <6>1. k \in saved
            BY <2>1, <4>3, <5>5
          <6>2. k \in rows' /\ base'[k] = base[k] /\ credits'[k] = credits[k]
            BY <1>2, <5>3, <6>1
          <6> QED
            BY <1>1, <2>2, <4>1, <5>2, <6>2 DEF Exact
        <5> QED
          BY <5>4, <5>5
      <4> QED
        BY <4>2, <4>3
    <3> QED
      BY <3>1, <3>2
  <2> QED
    BY <1>1, <1>2, <1>3, <2>1, <2>2, <2>3, <2>4
<1>7. CASE k \notin Merged(v)
  <2>1. /\ k \notin shown /\ k \notin MergeStamped(v) /\ k \notin MergedUnordered(v)
        /\ k \notin Emptied(v) /\ k \notin Shown(v)
    BY <1>7 DEF Shown, MergeStamped, MergedUnordered, Emptied
  <2>2. k \in saved => k \in rows /\ k \notin hidden
    BY <2>1 DEF SavedRows
  <2>3. CASE k \in saved
    <3>1. /\ k \in rows' /\ base'[k] = base[k] /\ credits'[k] = credits[k]
          /\ balance_block'[k] = balance_block[k] /\ readAt'[k] = readAt[k]
      BY <1>2, <2>1, <2>2, <2>3
    <3>2. Exact(k)'
      BY <1>1, <2>2, <2>3, <3>1 DEF Exact
    <3>3. Onward(k)
      BY <1>1, <2>2, <2>3, <3>1 DEF Exact, Onward, Heights, None
    <3> QED
      BY <1>1, <1>3, <2>3, <3>1, <3>2, <3>3
  <2>4. CASE k \notin saved /\ k \in rows
    <3>1. k \in hidden
      <4>1. WalletOf(k) = v.view
        BY <2>1, <2>4 DEF SavedRows
      <4> QED
        BY <2>1, <2>4, <4>1
    <3>2. /\ k \notin rows' /\ base'[k] = base[k] /\ credits'[k] = {}
          /\ balance_block'[k] = balance_block[k] /\ readAt'[k] = None
      BY <1>2, <2>1, <2>4, <3>1
    <3> QED
      BY <1>1, <3>2 DEF Exact, Onward
  <2>5. CASE k \notin saved /\ k \notin rows
    <3>1. /\ k \notin rows' /\ base'[k] = base[k] /\ credits'[k] = {}
          /\ balance_block'[k] = balance_block[k] /\ readAt'[k] = readAt[k]
      BY <1>2, <2>1, <2>5
    <3> QED
      BY <1>1, <2>5, <3>1 DEF Exact, Onward
  <2> QED
    BY <2>3, <2>4, <2>5
<1> QED
  BY <1>5, <1>6, <1>7

\* _on_combined_ready: the merge keeps what the ledger keeps.
LEMMA MergeSlot ==
    ASSUME IInv, NEW v, v.view \in Wallets, Mergeable(v), Covered(v), v.stage = "pricing",
           MergeNative(v), MergeTokens(v),
           cached' = cached \cup {v.view}, UNCHANGED <<chainVars, live, transfer_block>>
    PROVE  IInv' /\ \A k \in Keys : Onward(k) \/ Unordered(k, v)
<1>1. \A k \in Keys :
         /\ Exact(k)' /\ (Onward(k) \/ Unordered(k, v))
         /\ base'[k] \in Heights \cup {None} /\ balance_block'[k] \in Heights \cup {None}
         /\ readAt'[k] \in Heights \cup {None}
         /\ credits'[k] \subseteq 1..MaxBlock /\ (k \notin rows' => credits'[k] = {})
         /\ \A b \in credits'[k] : b <= transfer_block[WalletOf(k)]
         /\ k \in rows' => k \in rows \/ WalletOf(k) = v.view
  BY MergedKey DEF chainVars
<1>2. SettledRowsAreExact'
  BY <1>1 DEF SettledRowsAreExact, Exact
<1>3. /\ v.block \in Heights \cup {None} /\ v.native \in Heights \cup {None}
      /\ v.told # None => v.block # None /\ v.block <= v.native
      /\ native_block \in [Wallets -> Heights \cup {None}]
      /\ nativeAt \in [Wallets -> Heights \cup {None}] /\ nativePaired \subseteq Wallets
  BY DEF Mergeable, IInv, TypeOK
<1>4. /\ nativeAt' \in [Wallets -> Heights \cup {None}] /\ nativePaired' \subseteq Wallets
      /\ native_block' \in [Wallets -> Heights \cup {None}]
  BY <1>3 DEF MergeNative
<1>5. NativeFloorEarned'
  <2> SUFFICES ASSUME NEW w \in Wallets, native_block'[w] # None
               PROVE  /\ w \in cached'
                      /\ w \in nativePaired' => native_block'[w] <= nativeAt'[w]
    BY DEF NativeFloorEarned
  <2>1. CASE w # v.view
    <3>1. native_block'[w] = native_block[w] /\ nativeAt'[w] = nativeAt[w]
          /\ (w \in nativePaired' <=> w \in nativePaired)
      BY <1>3, <2>1 DEF MergeNative
    <3> QED
      BY <2>1, <3>1 DEF IInv, NativeFloorEarned
  <2>2. CASE w = v.view /\ NativeStale(w, v.block)
    <3>1. native_block[w] # None
      BY <1>3, <2>2 DEF NativeStale, OrZero, Heights, None
    <3>2. w \in cached
      BY <3>1 DEF IInv, NativeFloorEarned
    <3>3. UNCHANGED <<native_block, nativeAt, nativePaired>>
      BY <2>2, <3>2 DEF MergeNative
    <3> QED
      BY <3>2, <3>3 DEF IInv, NativeFloorEarned
  <2>3. CASE w = v.view /\ ~NativeStale(w, v.block)
    <3>1. /\ nativeAt'[w] = v.native
          /\ w \in nativePaired' => v.told # None
          /\ v.block # None => native_block'[w] = v.block
      BY <1>3, <2>3 DEF MergeNative
    <3> QED
      BY <1>3, <2>3, <3>1
  <2> QED
    BY <2>1, <2>2, <2>3
<1>6. ForkFloorCoversCredits'
  BY <1>1 DEF ForkFloorCoversCredits
<1>7. TypeOK'
  <2>1. rows' \subseteq Keys
    BY DEF MergeTokens, SavedRows, Shown, Merged, IInv, TypeOK
  <2>2. \A k \in Keys : IF k \in rows' THEN WalletOf(k) \in cached' ELSE credits'[k] = {}
    BY <1>1 DEF IInv, TypeOK
  <2>3. /\ base' \in [Keys -> Heights \cup {None}]
        /\ balance_block' \in [Keys -> Heights \cup {None}]
        /\ readAt' \in [Keys -> Heights \cup {None}]
        /\ credits' \in [Keys -> SUBSET (1..MaxBlock)]
    <3>1. /\ base' = [k \in Keys |-> base'[k]] /\ readAt' = [k \in Keys |-> readAt'[k]]
          /\ balance_block' = [k \in Keys |-> balance_block'[k]]
          /\ credits' = [k \in Keys |-> credits'[k]]
      BY DEF MergeTokens
    <3> QED
      BY <1>1, <3>1
  <2>4. cached' \subseteq Wallets /\ transfer_block' = transfer_block
        /\ UNCHANGED <<head, empty, known, live>>
    BY DEF IInv, TypeOK, chainVars
  <2> QED
    BY <1>4, <2>1, <2>2, <2>3, <2>4 DEF IInv, TypeOK
<1> QED
  BY <1>1, <1>2, <1>5, <1>6, <1>7 DEF IInv

\* Whatever a multicall answers is a read the ledger may rely on.
LEMMA AnswerIsRead ==
    ASSUME NEW ts \in SUBSET Tokens, NEW top \in Nat, NEW rd \in Answers(ts, top)
    PROVE  IsRead(rd, top) /\ rd.tokens \subseteq ts
<1>1. Coherent(rd) /\ rd.tokens \subseteq ts
  BY DEF Answers
<1>2. CASE readsMayFail
  BY <1>1, <1>2, HttpReadIsRead DEF Answers
<1>3. CASE ~readsMayFail
  <2>1. rd \in FullReads(ts, top)
    BY <1>3 DEF Answers
  <2>2. /\ rd.native \in 0..top /\ rd.block \in (0..top) \cup {None}
        /\ \A t \in rd.tokens : rd.at[t] \in 0..top
    <3>1. CASE ts = {}
      <4>1. PICK c \in Chunks(top) :
               rd = [tokens |-> {}, at |-> <<>>, order |-> <<>>,
                     native |-> c[1], told |-> c[2], block |-> c[2]]
        BY <2>1, <3>1 DEF FullReads
      <4>2. rd.tokens = {} /\ rd.native = c[1] /\ rd.block = c[2]
        BY <4>1
      <4> QED
        BY <4>2 DEF Chunks
    <3>2. CASE ts # {}
      <4>1. PICK c \in [ts -> Chunks(top)], first \in ts, lowest \in ts :
               rd = [tokens |-> ts, at |-> [t \in ts |-> c[t][1]],
                     order |-> [t \in ts |-> c[t][2]],
                     native |-> c[first][1], told |-> c[first][2], block |-> c[lowest][2]]
        BY <2>1, <3>2 DEF FullReads
      <4>2. /\ rd.tokens = ts /\ rd.at = [t \in ts |-> c[t][1]]
            /\ rd.native = c[first][1] /\ rd.block = c[lowest][2]
        BY <4>1
      <4>3. \A t \in ts : c[t][1] \in 0..top /\ c[t][2] \in (0..top) \cup {None}
        BY DEF Chunks
      <4> QED
        BY <4>2, <4>3
    <3> QED
      BY <3>1, <3>2
  <2> QED
    BY <1>1, <2>2 DEF IsRead, Coherent
<1> QED
  BY <1>2, <1>3

\* What a pipeline is given is what it carries on.
LEMMA PipelineSet ==
    ASSUME PipelinesHold, UNCHANGED transfer_block,
           NEW p \in Pipelines, NEW v, Carries(v), Covered(v), pv' = [pv EXCEPT ![p] = v]
    PROVE  PipelinesHold'
<1>1. /\ pv' = [q \in Pipelines |-> pv'[q]]
      /\ \A q \in Pipelines : pv'[q] = IF q = p THEN v ELSE pv[q]
  BY DEF PipelinesHold
<1>2. ASSUME NEW q \in Pipelines PROVE Carries(pv[q])' /\ Covered(pv[q])'
  <2>1. CASE q = p
    BY <1>1, <2>1 DEF Carries, Covered, Mergeable
  <2>2. CASE q # p
    <3>1. pv'[q] = pv[q] /\ Carries(pv[q]) /\ Covered(pv[q])
      BY <1>1, <2>2 DEF PipelinesHold
    <3> QED
      BY <3>1 DEF Carries, Covered, Mergeable
  <2> QED
    BY <2>1, <2>2
<1> QED
  BY <1>1, <1>2 DEF PipelinesHold

\* ... and so it is while the fork floors rise.
LEMMA PipelinesUnder ==
    ASSUME IInv, IInv', PipelinesHold, UNCHANGED pv, FloorsRise
    PROVE  PipelinesHold'
<1> SUFFICES ASSUME NEW p \in Pipelines PROVE Carries(pv[p])' /\ Covered(pv[p])'
  BY DEF PipelinesHold
<1>1. pv'[p] = pv[p] /\ Carries(pv[p]) /\ Covered(pv[p])
  BY DEF PipelinesHold
<1>2. Carries(pv[p])'
  BY <1>1 DEF Carries, Mergeable
<1>3. ASSUME pv[p].stage = "pricing", NEW t \in DOMAIN pv[p].amounts,
             NEW b \in pv[p].amounts[t].credits
      PROVE  b <= transfer_block'[pv[p].view]
  <2>1. pv[p].view \in Wallets /\ b \in Int /\ b <= transfer_block[pv[p].view]
    BY <1>1, <1>3 DEF Carries, Mergeable, Covered
  <2>2. transfer_block[pv[p].view] \in Int /\ transfer_block'[pv[p].view] \in Int
    BY <2>1 DEF IInv, TypeOK, Heights, None
  <2> QED
    BY <2>1, <2>2 DEF FloorsRise
<1> QED
  BY <1>1, <1>2, <1>3 DEF Covered

LEMMA StagesCarry ==
    /\ Carries(Idle) /\ Covered(Idle)
    /\ \A w \in Wallets : Carries(Listing(w)) /\ Covered(Listing(w))
    /\ \A named : \A w \in Wallets, queried \in SUBSET Tokens, explorer \in Heights \cup {None} :
          Carries(Reading(w, explorer, queried, named))
          /\ Covered(Reading(w, explorer, queried, named))
  BY DEF Carries, Covered, Idle, Listing, Reading

\* on_balances: what was read tells its height or does not, and what is carried
\* forward comes from the cache as it is.
LEMMA BalancesCarry ==
    ASSUME IInv, NEW p \in Pipelines, Carries(pv[p]),
           NEW rd \in Answers(pv[p].queried, head[ChainOf(pv[p].view)]),
           OnBalances(p, rd)
    PROVE  \E v : Carries(v) /\ Covered(v) /\ pv' = [pv EXCEPT ![p] = v]
<1> DEFINE w == pv[p].view
           queried == pv[p].queried
           carried == TokensOf(CarriedForward(w, queried \ rd.tokens))
           have == rd.tokens \cup carried
           amounts == [t \in have |->
                         IF t \in rd.tokens THEN [base |-> rd.at[t], credits |-> {}]
                         ELSE [base |-> base[<<w, t>>], credits |-> credits[<<w, t>>]]]
           order == [t \in rd.tokens |-> rd.order[t]]
           v == Pricing(w, rd.native, rd.told, rd.block, FALSE, amounts, order,
                        Metadata(w, pv[p].named))
<1>1. pv[p].stage = "reading" /\ pv' = [pv EXCEPT ![p] = v]
  BY DEF OnBalances
<1>2. w \in Wallets /\ queried \in SUBSET Tokens
  BY <1>1 DEF Carries
<1>3. head[ChainOf(w)] \in 1..MaxBlock /\ head[ChainOf(w)] \in Nat
  BY <1>2, KeyParts DEF IInv, TypeOK
<1>4. IsRead(rd, head[ChainOf(w)]) /\ rd.tokens \subseteq Tokens
  BY <1>2, <1>3, AnswerIsRead
<1>5. /\ rd.native \in Heights /\ rd.block \in Heights \cup {None}
      /\ rd.told # None => rd.block # None /\ rd.block <= rd.native
      /\ \A t \in rd.tokens : rd.at[t] \in Heights /\ (rd.order[t] = None \/ rd.order[t] = rd.at[t])
  BY <1>3, <1>4, MaxBlockAssumption DEF IsRead, Heights
<1>6. carried \subseteq Tokens
  BY KeyParts DEF TokensOf, CarriedForward, RowsOf, IInv, TypeOK
<1>7. ASSUME NEW t \in have
      PROVE  /\ amounts[t].base \in Heights \cup {None}
             /\ amounts[t].credits \subseteq 1..MaxBlock
             /\ \A b \in amounts[t].credits : b <= transfer_block[w]
  <2>1. CASE t \in rd.tokens
    <3>1. amounts[t].base = rd.at[t] /\ amounts[t].credits = {}
      BY <2>1
    <3> QED
      BY <1>5, <2>1, <3>1
  <2>2. CASE t \notin rd.tokens
    <3>1. /\ amounts[t].base = base[<<w, t>>] /\ amounts[t].credits = credits[<<w, t>>]
          /\ <<w, t>> \in Keys /\ WalletOf(<<w, t>>) = w
      BY <1>2, <1>6, <2>2 DEF Keys, WalletOf
    <3>2. /\ base[<<w, t>>] \in Heights \cup {None} /\ credits[<<w, t>>] \subseteq 1..MaxBlock
          /\ \A b \in credits[<<w, t>>] : b <= transfer_block[w]
      BY <3>1 DEF IInv, TypeOK, ForkFloorCoversCredits
    <3> QED
      BY <3>1, <3>2
  <2> QED
    BY <2>1, <2>2
<1>8. DOMAIN amounts = have /\ DOMAIN order = rd.tokens /\ have \subseteq Tokens
  BY <1>4, <1>6
<1>9. \A t \in rd.tokens :
         /\ order[t] \in Heights \cup {None}
         /\ order[t] # None => amounts[t].base = order[t] /\ amounts[t].credits = {}
  BY <1>5
<1>10. /\ v.stage = "pricing" /\ v.view = w /\ v.block = rd.block /\ v.told = rd.told
       /\ v.native = rd.native /\ v.amounts = amounts /\ v.order = order
  BY DEF Pricing
<1>11. Mergeable(v) /\ Covered(v)
  <2> HIDE DEF amounts, order, have, v
  <2> QED
    BY <1>5, <1>7, <1>8, <1>9, <1>10 DEF Mergeable, Covered
<1>12. Carries(v)
  <2> HIDE DEF v
  <2> QED
    BY <1>2, <1>10, <1>11 DEF Carries
<1> QED
  BY <1>1, <1>11, <1>12

\* on_balances_fail: no amounts at all.
LEMMA FailedCarry ==
    ASSUME NEW p \in Pipelines, Carries(pv[p]), OnBalancesFail(p)
    PROVE  \E v : Carries(v) /\ Covered(v) /\ pv' = [pv EXCEPT ![p] = v]
<1> DEFINE v == Pricing(pv[p].view, pv[p].explorer, None, None, TRUE, <<>>, <<>>, {})
<1>1. pv[p].stage = "reading" /\ pv' = [pv EXCEPT ![p] = v]
  BY DEF OnBalancesFail
<1>2. pv[p].view \in Wallets /\ pv[p].explorer \in Heights \cup {None}
  BY <1>1 DEF Carries
<1>3. /\ v.stage = "pricing" /\ v.view = pv[p].view /\ v.block = None /\ v.told = None
      /\ v.native = pv[p].explorer /\ v.amounts = <<>> /\ v.order = <<>>
  BY DEF Pricing
<1>4. Mergeable(v) /\ Covered(v) /\ Carries(v)
  <2> HIDE DEF v
  <2> QED
    BY <1>2, <1>3 DEF Mergeable, Covered, Carries
<1> QED
  BY <1>1, <1>4

\* The live writers do to the cache what they do without pipelines.
LEMMA LiveKeeps ==
    ASSUME IInv, LiveStep PROVE IInv' /\ FloorsRise /\ \A k \in Keys : Onward(k)
<1>0. /\ \A c \in Chains : head[c] \in 1..MaxBlock /\ Seen(c) \subseteq Heights
      /\ \A w \in Wallets : /\ head[ChainOf(w)] \in 1..MaxBlock /\ head[ChainOf(w)] \in Nat
                            /\ Seen(ChainOf(w)) \subseteq Heights
                            /\ transfer_block[w] \in Int
  BY KeyParts, MaxBlockAssumption DEF IInv, TypeOK, Seen, Heights, None
<1> DEFINE Kept == /\ IInv' /\ FloorsRise
                   /\ \A k \in Keys : Forward(k)
                   /\ live' \subseteq live \/ UNCHANGED <<base, rows>>
<1> SUFFICES Kept
  <2>1. ASSUME Kept, NEW k \in Keys PROVE Onward(k)
    <3>1. Exact(k) /\ Exact(k)'
      BY <2>1 DEF IInv, SettledRowsAreExact, Exact
    <3> QED
      BY <2>1, <3>1, ForwardIsOnward DEF IInv
  <2> QED
    BY <2>1
<1>1. ASSUME NEW c \in Chains, NewBlock(c) PROVE Kept
  <2>1. IInv' /\ \A k \in Keys : Forward(k)
    BY <1>1, NextInv DEF Next
  <2> QED
    BY <1>0, <1>1, <2>1 DEF NewBlock, FloorsRise, ledgerVars
<1>2. ASSUME NEW c \in Chains, OnLinkUp(c) PROVE Kept
  BY <1>0, <1>2, LinkUpSlot DEF OnLinkUp, FloorsRise, cacheVars
<1>3. ASSUME NEW c \in Chains, OnLinkDown(c) PROVE Kept
  <2>1. IInv' /\ \A k \in Keys : Forward(k)
    BY <1>3, OtherSlot DEF OnLinkDown, chainVars, IInv, TypeOK
  <2> QED
    BY <1>0, <1>3, <2>1 DEF OnLinkDown, FloorsRise, ledgerVars
<1>4. ASSUME NEW c \in Chains, NEW t \in Tokens, LearnMetadata(c, t) PROVE Kept
  <2>1. IInv' /\ \A k \in Keys : Forward(k)
    BY <1>4, OtherSlot DEF LearnMetadata, IInv, TypeOK
  <2> QED
    BY <1>0, <1>4, <2>1 DEF LearnMetadata, FloorsRise, ledgerVars
<1>5. ASSUME NEW w \in Wallets, NEW t \in Tokens, NEW block \in Seen(ChainOf(w)),
             OnBalanceDirty(w, t, block, block)
      PROVE  Kept
  <2>1. IsRead(WsRead(t, block, block), head[ChainOf(w)]) /\ block \in Heights \cup {None}
    BY <1>0, <1>5, WsReadIsRead DEF Seen
  <2>2. IInv' /\ \A k \in Keys : Forward(k)
    BY <1>5, <2>1, ReadSlot DEF OnBalanceDirty
  <2>3. FloorsRise
    BY <1>5, <2>1, TransferStep DEF OnBalanceDirty, FloorsRise, IInv
  <2> QED
    BY <1>5, <2>2, <2>3 DEF OnBalanceDirty
<1>6. ASSUME NEW w \in Wallets, NEW rd \in Answers(Tokens, head[ChainOf(w)]),
             OnHttpRead(w, rd)
      PROVE  Kept
  <2>1. IsRead(rd, head[ChainOf(w)])
    BY <1>0, <1>6, AnswerIsRead
  <2>2. IInv' /\ \A k \in Keys : Forward(k)
    BY <1>6, <2>1, ReadSlot DEF OnHttpRead
  <2> QED
    BY <1>0, <1>6, <2>2 DEF OnHttpRead, FloorsRise
<1>7. ASSUME NEW w \in Wallets, NEW block \in Seen(ChainOf(w)),
             OnNativeBalance(w, block, block)
      PROVE  Kept
  <2>1. block \in Heights
    BY <1>0
  <2>2. IInv' /\ \A k \in Keys : Forward(k)
    BY <1>7, <2>1, NativeSlot
  <2> QED
    BY <1>0, <1>7, <2>2 DEF OnNativeBalance, FloorsRise
<1>8. ASSUME NEW k \in Keys, NEW block \in 1..head[ChainOf(WalletOf(k))],
             NoteReceiptLogs({k}, {k}, block)
      PROVE  Kept
  <2>1. block \in 1..MaxBlock /\ block \in Heights
    BY <1>0, KeyParts, MaxBlockAssumption DEF Heights
  <2>2. IInv' /\ \A x \in Keys : Forward(x)
    BY <1>8, <2>1, ReceiptSlot
  <2>3. FloorsRise
    <3>1. {WalletOf(x) : x \in {k}} \in SUBSET Wallets
      BY KeyParts
    <3> QED
      BY <1>8, <2>1, <3>1, TransferStep DEF NoteReceiptLogs, FloorsRise, IInv
  <2> QED
    BY <1>8, <2>2, <2>3 DEF NoteReceiptLogs
<1> QED
  BY <1>1, <1>2, <1>3, <1>4, <1>5, <1>6, <1>7, <1>8 DEF LiveStep

\* A step that leaves the ledger alone.
LEMMA LedgerUnchanged ==
    ASSUME IInv, UNCHANGED vars PROVE IInv' /\ FloorsRise /\ \A k \in Keys : Onward(k)
<1>1. UNCHANGED <<base, rows, transfer_block>>
  BY DEF vars, cacheVars, ledgerVars
<1>2. IInv' /\ \A k \in Keys : Forward(k)
  BY NextInv
<1>3. \A k \in Keys : Exact(k) /\ Exact(k)'
  BY <1>2 DEF IInv, SettledRowsAreExact, Exact
<1>4. \A k \in Keys : Onward(k)
  BY <1>1, <1>2, <1>3, ForwardIsOnward DEF IInv
<1>5. FloorsRise
  BY <1>1 DEF FloorsRise, IInv, TypeOK, Heights, None
<1> QED
  BY <1>2, <1>4, <1>5

\* A key that does not go onward is one a pipeline lands on without a height.
LandsUnordered(k) == \E p \in Landing(k) : OrderOf(k, pv[p]) = None

DiscoveryKept ==
    /\ IInv' /\ PipelinesHold'
    /\ \A k \in Keys : Onward(k) \/ LandsUnordered(k)

\* The start of a pipeline for a wallet.
LEMMA Started ==
    ASSUME DiscoveryInv, NEW w \in Wallets, StartPipeline(w) \/ pv' = pv, UNCHANGED vars
    PROVE  DiscoveryKept
<1>1. /\ IInv' /\ FloorsRise /\ \A k \in Keys : Onward(k)
      /\ UNCHANGED transfer_block
  BY LedgerUnchanged DEF DiscoveryInv, vars, ledgerVars
<1>2. CASE pv' = pv
  BY <1>1, <1>2, PipelinesUnder DEF DiscoveryInv, DiscoveryKept
<1>3. CASE StartPipeline(w)
  <2>1. PICK p \in Pipelines : pv' = [pv EXCEPT ![p] = Listing(w)]
    BY <1>3 DEF StartPipeline
  <2>2. Carries(Listing(w)) /\ Covered(Listing(w))
    BY StagesCarry
  <2>3. PipelinesHold'
    <3> HIDE DEF Listing
    <3> QED
      BY <1>1, <2>1, <2>2, PipelineSet DEF DiscoveryInv
  <2> QED
    BY <1>1, <2>3 DEF DiscoveryKept
<1> QED
  BY <1>2, <1>3

\* A callback that only hands the pipeline its next stage.
LEMMA HandedOn ==
    ASSUME DiscoveryInv, UNCHANGED vars, NEW p \in Pipelines,
           \E v : Carries(v) /\ Covered(v) /\ pv' = [pv EXCEPT ![p] = v]
    PROVE  DiscoveryKept
<1>1. /\ IInv' /\ \A k \in Keys : Onward(k)
      /\ UNCHANGED transfer_block
  BY LedgerUnchanged DEF DiscoveryInv, vars, ledgerVars
<1>2. PICK v : Carries(v) /\ Covered(v) /\ pv' = [pv EXCEPT ![p] = v]
  OBVIOUS
<1>3. PipelinesHold'
  BY <1>1, <1>2, PipelineSet DEF DiscoveryInv
<1> QED
  BY <1>1, <1>3 DEF DiscoveryKept

\* Every callback of a pipeline keeps what is carried, and the merge keeps the
\* ledger.
LEMMA PipelineKeeps ==
    ASSUME DiscoveryInv, NEW p \in Pipelines, PipelineStep(p)
    PROVE  DiscoveryKept
<1>0. /\ Carries(pv[p]) /\ Covered(pv[p]) /\ pv[p].view \in Wallets
      /\ IInv /\ PipelinesHold
  BY DEF PipelineStep, Running, Carries, DiscoveryInv, PipelinesHold
<1>1. ASSUME NEW explorer \in ExplorerNatives(ChainOf(pv[p].view)),
             NEW named \in SUBSET Tokens, NEW others \in SUBSET Tokens,
             OnDiscovered(p, explorer, named, others)
      PROVE  DiscoveryKept
  <2> DEFINE queried == named \cup others \cup TokensOf(RowsOf(pv[p].view))
  <2>1. queried \in SUBSET Tokens
    BY <1>0, KeyParts DEF TokensOf, RowsOf, IInv, TypeOK
  <2>2. explorer \in Heights \cup {None}
    <3>1. head[ChainOf(pv[p].view)] \in 1..MaxBlock
      BY <1>0, KeyParts DEF IInv, TypeOK
    <3> QED
      BY <1>1, <3>1, MaxBlockAssumption DEF ExplorerNatives, Seen, Heights
  <2>3. pv' = [pv EXCEPT ![p] = Reading(pv[p].view, explorer, queried, named)]
    BY <1>1 DEF OnDiscovered
  <2>4. /\ Carries(Reading(pv[p].view, explorer, queried, named))
        /\ Covered(Reading(pv[p].view, explorer, queried, named))
    <3> HIDE DEF queried
    <3> QED
      BY <1>0, <2>1, <2>2, StagesCarry
  <2>5. \E v : Carries(v) /\ Covered(v) /\ pv' = [pv EXCEPT ![p] = v]
    <3> HIDE DEF queried
    <3> QED
      BY <2>3, <2>4
  <2> QED
    BY <1>1, <2>5, HandedOn DEF OnDiscovered
<1>2. ASSUME NEW rd \in Answers(pv[p].queried, head[ChainOf(pv[p].view)]), OnBalances(p, rd)
      PROVE  DiscoveryKept
  <2>1. \E v : Carries(v) /\ Covered(v) /\ pv' = [pv EXCEPT ![p] = v]
    BY <1>0, <1>2, BalancesCarry
  <2> QED
    BY <1>2, <2>1, HandedOn DEF OnBalances
<1>3. ASSUME OnBalancesFail(p) PROVE DiscoveryKept
  <2>1. \E v : Carries(v) /\ Covered(v) /\ pv' = [pv EXCEPT ![p] = v]
    BY <1>0, <1>3, FailedCarry
  <2> QED
    BY <1>3, <2>1, HandedOn DEF OnBalancesFail
<1>4. ASSUME OnCombinedReady(p) PROVE DiscoveryKept
  <2>1. pv[p].stage = "pricing" /\ pv' = [pv EXCEPT ![p] = Idle]
    BY <1>4 DEF OnCombinedReady
  <2>2. Mergeable(pv[p])
    BY <1>0, <2>1 DEF Carries
  <2>3. CASE pv[p].view \in displayed
    <3>1. /\ MergeNative(pv[p]) /\ MergeTokens(pv[p])
          /\ cached' = cached \cup {pv[p].view}
          /\ UNCHANGED <<chainVars, live, transfer_block>>
      BY <1>4, <2>3 DEF OnCombinedReady
    <3>2. IInv' /\ \A k \in Keys : Onward(k) \/ Unordered(k, pv[p])
      BY <1>0, <2>1, <2>2, <3>1, MergeSlot
    <3>3. PipelinesHold'
      <4> HIDE DEF Idle
      <4> QED
        BY <1>0, <2>1, <3>1, StagesCarry, PipelineSet
    <3>4. pv'[p].stage = "idle"
      BY <1>0, <2>1 DEF PipelinesHold, Idle
    <3>5. \A k \in Keys : Unordered(k, pv[p]) => LandsUnordered(k)
      BY <2>1, <3>4 DEF Unordered, LandsUnordered, Landing
    <3> QED
      BY <3>2, <3>3, <3>5 DEF DiscoveryKept
  <2>4. CASE pv[p].view \notin displayed
    <3>1. UNCHANGED vars
      BY <1>4, <2>4 DEF OnCombinedReady
    <3>2. \E v : Carries(v) /\ Covered(v) /\ pv' = [pv EXCEPT ![p] = v]
      BY <2>1, StagesCarry
    <3> QED
      BY <3>1, <3>2, HandedOn
  <2> QED
    BY <2>3, <2>4
<1> QED
  BY <1>1, <1>2, <1>3, <1>4 DEF PipelineStep

LEMMA DiscoveryInitInv == ASSUME DiscoveryInit PROVE DiscoveryInv
<1>1. IInv /\ pv = [p \in Pipelines |-> Idle]
  BY InitInv DEF DiscoveryInit
<1>2. PipelinesHold
  BY <1>1, StagesCarry DEF PipelinesHold
<1> QED
  BY <1>1, <1>2 DEF DiscoveryInv

\* Every step of the live writers, the pipelines and the user keeps the
\* invariant, and takes a settled key back only by landing without a height.
LEMMA DiscoveryNextInv ==
    ASSUME DiscoveryInv, [DiscoveryNext]_allVars PROVE DiscoveryKept
<1>1. CASE UNCHANGED allVars
  <2>1. UNCHANGED <<vars, pv>>
    BY <1>1 DEF allVars, discoveryVars
  <2> QED
    BY <2>1, LedgerUnchanged, PipelinesUnder DEF DiscoveryInv, DiscoveryKept
<1>2. CASE LiveStep
  <2>1. pv' = pv
    BY <1>2 DEF LiveStep, discoveryVars
  <2> QED
    BY <1>2, <2>1, LiveKeeps, PipelinesUnder DEF DiscoveryInv, DiscoveryKept
<1>3. ASSUME NEW w \in Wallets, Refresh(w) \/ InvalidateAndRefresh(w) PROVE DiscoveryKept
  <2>1. UNCHANGED vars /\ (StartPipeline(w) \/ pv' = pv)
    BY <1>3 DEF Refresh, InvalidateAndRefresh
  <2> QED
    BY <2>1, Started
<1>4. ASSUME LeaveView \/ \E k \in Keys : FilterChanges(k) PROVE DiscoveryKept
  <2>1. UNCHANGED <<vars, pv>>
    BY <1>4 DEF LeaveView, FilterChanges
  <2> QED
    BY <2>1, LedgerUnchanged, PipelinesUnder DEF DiscoveryInv, DiscoveryKept
<1>5. ASSUME NEW p \in Pipelines, PipelineStep(p) PROVE DiscoveryKept
  BY <1>5, PipelineKeeps
<1> QED
  BY <1>1, <1>2, <1>3, <1>4, <1>5 DEF DiscoveryNext, ViewStep

\* Beside the merges, whatever reads fail or tell no height, the ledger's
\* invariant holds: settled rows are exact, native floors are earned, and the
\* fork floor covers every credit, also those a pipeline carries from the cache.
THEOREM DiscoveryInvariance == DiscoverySpec => []DiscoveryInv
<1>1. DiscoveryInv /\ [DiscoveryNext]_allVars => DiscoveryInv'
  BY DiscoveryNextInv DEF DiscoveryInv, DiscoveryKept
<1> QED
  BY <1>1, DiscoveryInitInv, PTL DEF DiscoverySpec

\* A merge that lands seconds after its read never takes a token on screen back
\* behind an ordered read with an amount that tells its height, whatever the
\* live writers wrote in between and however many pipelines overlap: what does
\* is an amount without a height, from a chunk that told none or from the cache.
THEOREM ShownForward == DiscoverySpec => ShownNeverRegresses
<1>1. DiscoveryInv /\ [DiscoveryNext]_allVars
         => [\A k \in Keys : Regresses(k) => LandsHeightless(k) \/ LandsCarried(k)]_allVars
  <2> SUFFICES ASSUME DiscoveryInv, DiscoveryNext, NEW k \in Keys, Regresses(k)
               PROVE  LandsHeightless(k) \/ LandsCarried(k)
    OBVIOUS
  <2>1. IInv /\ IInv' /\ (Onward(k) \/ LandsUnordered(k))
    BY DiscoveryNextInv DEF DiscoveryInv, DiscoveryKept
  <2>2. Version(k) = readAt[k]
    BY <2>1, VersionIsReadAt DEF IInv
  <2>3. readAt[k] \in Int /\ base'[k] \in Int
    BY <2>1 DEF IInv, TypeOK, Heights, None
  <2>4. ~Onward(k)
    BY <2>2, <2>3 DEF Regresses, Onward
  <2> QED
    BY <2>1, <2>4 DEF LandsUnordered, LandsHeightless, LandsCarried
<1> QED
  BY <1>1, DiscoveryInvariance, PTL DEF DiscoverySpec, ShownNeverRegresses

==============================================================================
