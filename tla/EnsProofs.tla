------------------------------ MODULE EnsProofs ------------------------------
(***************************************************************************)
(* Proofs about the ENS tab: what it shows was read and is never painted   *)
(* back (EnsNames), and what it offers and shows of the account's own      *)
(* writes (EnsWrites).  The two models share no variable: each has its own *)
(* inductive invariant.                                                    *)
(***************************************************************************)
EXTENDS EnsNames, EnsWrites, TLAPS, SequenceTheorems

-----------------------------------------------------------------------------
(* Names, owners and records: the inductive invariant.                     *)

Listings == [Names -> Sources \union {None}]
Owners == Accounts \union {Nobody}
Shown == [owner : Owners \union {None, Unknown}, at : Nat, proven : BOOLEAN]
Panels == [drawn : Listings, rows : SUBSET Names, own : [Names -> Shown],
           badge : [Names -> Accounts \union {None}], stamp : [Names -> Nat]]
Records == [val : {None, "blank", "set"}, block : Nat, verified : BOOLEAN]

Read(S) == [S -> Owners \union {Unknown}]
Answer == [states : UNION {Read(S) : S \in SUBSET Names},
           at : UNION {[S -> Nat] : S \in SUBSET Names}, block : Nat, verified : BOOLEAN]
Stages == {"fast", "proof", "done"}
Discoverers == [epoch : Nat, acct : Accounts \union {None}, found : {NoFile} \union Listings]
Verifiers == [epoch : Nat, acct : Accounts \union {None}, names : SUBSET Names,
              catchup : BOOLEAN, stage : Stages, landed : BOOLEAN, fast : Nat,
              out : Seq(Answer)]
RecordAnswer == [val : {"blank", "set"}, verified : BOOLEAN, block : Nat]
Readers == [name : Names, forced : BOOLEAN, knows : BOOLEAN, stage : Stages,
            out : Seq(RecordAnswer)]
Writes == [kind : {"add", "remove", "manager", "record"}, name : Names, to : Accounts,
           block : Nat, ok : BOOLEAN]

WorldTypes == chain \in Seq(Blocks) /\ chain # <<>> /\ writes \subseteq Writes
NameTypes ==
    /\ view \in Accounts \union {None} /\ epoch \in Nat /\ catchup \in BOOLEAN
    /\ disk \in [Accounts -> {NoFile} \union Listings] /\ listed \in Listings
    /\ remembered \subseteq Names /\ added \subseteq Names /\ denied \subseteq Names
    /\ gates \subseteq Names
    /\ writes # {} => view # None
ShownTypes ==
    /\ panel \in Panels /\ recs \in [Names -> Records] /\ known \in BOOLEAN
    /\ seen \in [Names -> Nat] /\ apart \subseteq Names /\ wrote \in [Names -> Nat]
    /\ proved \in [Names -> SUBSET {"blank", "set"}]
WorkerTypes ==
    /\ discoveries \subseteq Discoverers /\ verifiers \subseteq Verifiers
    /\ readers \subseteq Readers

\* Outside `ap`, no owner on display is older than one that was, nor was newer than
\* its row's stamp.
Sound(p, sn, ap) ==
    \A n \in Names \ ap : sn[n] <= p.stamp[n] /\ (p.own[n].owner # None => p.own[n].at >= sn[n])

\* What the workers were answered, the chain `ch` says: each owner at the block its
\* aggregate ran at, which a read of one aggregate reports.
OwnersTrue(ch, m) ==
    \A n \in DOMAIN m.states :
        /\ m.at[n] \in 1 .. Len(ch)
        /\ m.states[n] \in {Unknown, ch[m.at[n]].owner[n]}
        /\ MorePins \/ m.states[n] = Unknown \/ m.at[n] = m.block

OwnersRead(ch, out) == \A i \in DOMAIN out : OwnersTrue(ch, out[i])

RecordsRead1(ch, r) ==
    /\ KeyIsStandard => r.knows
    /\ \A i \in DOMAIN r.out :
          /\ r.out[i].block \in 1 .. Len(ch)
          /\ KeyIsStandard => r.out[i].val = ch[r.out[i].block].rec[r.name]

\* A name removed by a write of the account had no owner in its block.
Removed(ch, w) ==
    /\ w.block \in 1 .. Len(ch)
    /\ w.ok /\ w.kind = "remove" => ch[w.block].owner[w.name] = Nobody

\* A written record is shown as of its block or later, and as the chain has it.
Written(ch, rc, wr) ==
    KeyIsStandard =>
        \A n \in Names : wr[n] > 0 =>
            /\ rc[n].val # None /\ rc[n].block >= wr[n]
            /\ (\A b \in wr[n] .. Len(ch) : ch[b].rec[n] = "set") => rc[n].val = "set"

Ticked(rc, pv) == \A n \in Names : rc[n].verified => rc[n].val \in pv[n]

\* The account `vw` owned n in every block.
AlwaysOf(ch, vw, n) == \A b \in 1 .. Len(ch) : ch[b].owner[n] = vw

DeniedWasNot(ch, vw, den) == \A n \in den : ~AlwaysOf(ch, vw, n)

RememberedListed(ch, vw, rem, li) ==
    \A n \in rem : AlwaysOf(ch, vw, n) => li[n] # None

ReadsTrue ==
    /\ \A v \in verifiers : OwnersRead(chain, v.out)
    /\ \A r \in readers : RecordsRead1(chain, r)
    /\ \A w \in writes : Removed(chain, w)
    /\ KeyIsStandard => known
ShownTrue ==
    /\ Sound(panel, seen, apart) /\ (MorePins \/ apart = {})
    /\ Written(chain, recs, wrote) /\ Ticked(recs, proved)
ListedTrue ==
    DeniedWasNot(chain, view, denied) /\ RememberedListed(chain, view, remembered, listed)

NamesInv ==
    /\ WorldTypes /\ NameTypes /\ ShownTypes /\ WorkerTypes
    /\ ReadsTrue /\ ShownTrue /\ ListedTrue

-----------------------------------------------------------------------------
(* The panel's operations.                                                 *)

LEMMA PopulatedSound ==
    ASSUME NEW p \in Panels, NEW list \in Listings, NEW sn \in [Names -> Nat], NEW ap,
           Sound(p, sn, ap)
    PROVE  Populated(p, list) \in Panels /\ Sound(Populated(p, list), sn, ap)
<1>1. NoOwner \in Shown /\ Nothing \in [Names -> Accounts \union {None}]
  BY DEF NoOwner, Shown, Nothing
<1>2. CASE list = p.drawn /\ (p.rows # {} \/ MorePins)
  BY <1>2 DEF Populated
<1>3. CASE ~(list = p.drawn /\ (p.rows # {} \/ MorePins))
  BY <1>1, <1>3 DEF Populated, Panels, Sound, NoOwner
<1> QED
  BY <1>2, <1>3

LEMMA StampedSound ==
    ASSUME NEW p \in Panels, NEW n \in Names, NEW b \in Nat, NEW sn \in [Names -> Nat],
           NEW ap, Sound(p, sn, ap)
    PROVE  Stamped(p, n, b) \in Panels /\ Sound(Stamped(p, n, b), sn, ap)
<1>1. CASE ~Accepts(p, n, b)
  BY <1>1 DEF Stamped
<1>2. CASE Accepts(p, n, b)
  <2> DEFINE q == [p EXCEPT !.stamp[n] = b]
  <2>1. /\ q \in Panels /\ q.stamp = [p.stamp EXCEPT ![n] = b] /\ q.own = p.own
        /\ p.stamp \in [Names -> Nat] /\ p.stamp[n] <= b /\ Stamped(p, n, b) = q
    BY <1>2 DEF Stamped, Accepts, Panels
  <2> HIDE DEF q
  <2>2. \A k \in Names : q.stamp[k] \in Nat /\ q.stamp[k] >= p.stamp[k]
    BY <2>1
  <2>3. Sound(q, sn, ap)
    BY <2>1, <2>2 DEF Sound
  <2> QED
    BY <2>1, <2>3
<1> QED
  BY <1>1, <1>2

LEMMA RoleAppliedSound ==
    ASSUME NEW p \in Panels, NEW w \in Writes, Sound(p, seen, apart),
           seen \in [Names -> Nat], apart \subseteq Names, MorePins \/ apart = {},
           OwnWriteShown(p, w)
    PROVE  /\ RoleApplied(p, w.name, w.to, w.block) \in Panels
           /\ Sound(RoleApplied(p, w.name, w.to, w.block), seen', apart')
           /\ seen' \in [Names -> Nat] /\ apart' \subseteq Names
           /\ MorePins \/ apart' = {}
<1> DEFINE n == w.name
           b == w.block
           o == [owner |-> w.to, at |-> b, proven |-> FALSE]
<1>0. n \in Names /\ b \in Nat /\ w.to \in Accounts
  BY DEF Writes
<1>1. o \in Shown
  BY <1>0 DEF Shown, Owners
<1>2. CASE ~Accepts(p, n, b)
  BY <1>2 DEF RoleApplied, OwnWriteShown
<1>3. CASE Accepts(p, n, b)
  <2> DEFINE q == [[p EXCEPT !.stamp[n] = b] EXCEPT !.own[n] = o]
             at == [k \in Names |-> b]
  <2>1. RoleApplied(p, n, w.to, b) = q
    BY <1>3 DEF RoleApplied, Stamped
  <2>2. /\ q \in Panels
        /\ q.stamp = [p.stamp EXCEPT ![n] = b] /\ q.own = [p.own EXCEPT ![n] = o]
    BY <1>0, <1>1 DEF Panels
  <2>3. o.at = b /\ p.stamp[n] <= b
    BY <1>3 DEF Accepts, Panels
  <2>4. p.stamp \in [Names -> Nat] /\ p.own \in [Names -> Shown]
    BY DEF Panels
  <2>5. seen' = Seen({n}, at) /\ apart' = Apart({n}, at, b)
    BY <1>3 DEF OwnWriteShown
  <2>6. at[n] = b
    BY <1>0
  <2> HIDE DEF q, o, at
  <2>7. seen' = [seen EXCEPT ![n] = IF b > seen[n] THEN b ELSE seen[n]]
    BY <2>5, <2>6, <1>0 DEF Seen
  <2>8. apart' = {k \in Names : IF k = n THEN n \in apart /\ b < seen[n] ELSE k \in apart}
    BY <2>5, <2>6, <1>0 DEF Apart
  <2> HIDE DEF n, b
  <2>9. Sound(q, seen', apart')
    <3> SUFFICES ASSUME NEW k \in Names \ apart'
                 PROVE  /\ seen'[k] <= q.stamp[k]
                        /\ q.own[k].owner # None => q.own[k].at >= seen'[k]
      BY DEF Sound
    <3>1. CASE k # n
      <4>1. k \notin apart /\ seen'[k] = seen[k] /\ q.stamp[k] = p.stamp[k] /\ q.own[k] = p.own[k]
        BY <3>1, <2>2, <2>4, <2>7, <2>8, <1>0
      <4> QED
        BY <4>1 DEF Sound
    <3>2. CASE k = n
      <4>1. seen'[n] = b
        <5>1. seen[n] <= b
          BY <3>2, <2>3, <2>4, <2>8, <1>0 DEF Sound
        <5> QED
          BY <5>1, <2>7, <1>0
      <4>2. q.stamp[n] = b /\ q.own[n] = o
        BY <2>2, <2>4, <1>0
      <4> QED
        BY <3>2, <4>1, <4>2, <2>3, <1>0
    <3> QED
      BY <3>1, <3>2
  <2>10. seen' \in [Names -> Nat]
    BY <2>7, <1>0
  <2>11. apart' \subseteq Names /\ (MorePins \/ apart' = {})
    BY <2>8
  <2> QED
    BY <2>1, <2>2, <2>9, <2>10, <2>11 DEF n, b
<1> QED
  BY <1>2, <1>3

LEMMA RowDroppedSound ==
    ASSUME NEW p \in Panels, NEW n \in Names, NEW sn \in [Names -> Nat], NEW ap,
           Sound(p, sn, ap)
    PROVE  RowDropped(p, n) \in Panels /\ Sound(RowDropped(p, n), sn, ap)
<1>1. NoOwner \in Shown
  BY DEF NoOwner, Shown
<1> DEFINE q == [p EXCEPT !.rows = @ \ {n}, !.own[n] = NoOwner, !.badge[n] = None]
<1>2. q \in Panels /\ q.stamp = p.stamp /\ q.own = [p.own EXCEPT ![n] = NoOwner]
  BY <1>1 DEF Panels
<1>3. NoOwner.owner = None
  BY DEF NoOwner
<1>4. p.stamp \in [Names -> Nat] /\ p.own \in [Names -> Shown]
  BY DEF Panels
<1>5. RowDropped(p, n) = q
  BY DEF RowDropped
<1> HIDE DEF q
<1> QED
  BY <1>2, <1>3, <1>4, <1>5 DEF Sound

LEMMA ListingTyped ==
    ASSUME NEW found \in Listings, NEW pend, NEW rem, NEW den
    PROVE  Listing(found, pend, rem, den) \in Listings
BY DEF Listing, Listings, Sources

LEMMA SavedTyped ==
    ASSUME NEW list \in Listings, NEW den
    PROVE  Saved(list, den) \in Listings
BY DEF Saved, Listings

\* What is remembered and not denied is listed, and what is listed and not
\* denied is saved.
LEMMA ListingKeeps ==
    ASSUME NEW found \in Listings, NEW pend, NEW rem, NEW den, NEW n \in Names,
           n \in rem \/ found[n] # None, n \notin den
    PROVE  Listing(found, pend, rem, den)[n] # None
BY DEF Listing, None

LEMMA SavedKeeps ==
    ASSUME NEW list \in Listings, NEW den, NEW n \in Names, n \notin den
    PROVE  Saved(list, den)[n] = list[n]
BY DEF Saved, Listings

-----------------------------------------------------------------------------
(* The start.                                                              *)

LEMMA NamesStart == Init => NamesInv
<1> SUFFICES ASSUME Init PROVE NamesInv
  OBVIOUS
<1>1. NoOwner \in Shown /\ NoRecord \in Records /\ Nothing \in Listings
  BY DEF NoOwner, Shown, NoRecord, Records, Nothing, Listings
<1>2. PICK b \in FirstBlocks : chain = <<b>>
  BY DEF Init
<1>3. WorldTypes
  <2>1. b \in Blocks
    BY EnsAssumption
  <2> QED
    BY <1>2, <2>1 DEF WorldTypes, Init
<1>4. NameTypes
  BY <1>1, EnsAssumption DEF NameTypes, Init, Listings
<1>5. ShownTypes
  <2>1. panel \in Panels
    BY <1>1 DEF Panels, Init, Nothing, Listings
  <2> QED
    BY <1>1, <2>1, EnsAssumption DEF ShownTypes, Init
<1>6. WorkerTypes /\ ReadsTrue /\ ListedTrue
  BY DEF WorkerTypes, ReadsTrue, ListedTrue, DeniedWasNot, RememberedListed, Init
<1>7. ShownTrue
  BY DEF ShownTrue, Sound, Written, Ticked, NoOwner, NoRecord, Init
<1> QED
  BY <1>3, <1>4, <1>5, <1>6, <1>7 DEF NamesInv

-----------------------------------------------------------------------------
(* The chain grows.                                                        *)

\* What held of a chain holds of it with one more block.
LEMMA ChainGrown ==
    ASSUME NEW ch \in Seq(Blocks), NEW blk \in Blocks
    PROVE  LET more == Append(ch, blk)
           IN  /\ more \in Seq(Blocks) /\ Len(more) = Len(ch) + 1
               /\ \A b \in 1 .. Len(ch) : more[b] = ch[b]
               /\ \A out : OwnersRead(ch, out) => OwnersRead(more, out)
               /\ \A r : RecordsRead1(ch, r) => RecordsRead1(more, r)
               /\ \A w : Removed(ch, w) => Removed(more, w)
               /\ \A vw, n : AlwaysOf(more, vw, n) => AlwaysOf(ch, vw, n)
<1> DEFINE more == Append(ch, blk)
<1>1. /\ more \in Seq(Blocks) /\ Len(more) = Len(ch) + 1 /\ Len(ch) \in Nat
      /\ \A b \in 1 .. Len(ch) : more[b] = ch[b]
  BY AppendProperties
<1>2. \A b \in 1 .. Len(ch) : b \in 1 .. Len(more)
  BY <1>1
<1> HIDE DEF more
<1>3. \A out : OwnersRead(ch, out) => OwnersRead(more, out)
  BY <1>1, <1>2 DEF OwnersRead, OwnersTrue
<1>4. \A r : RecordsRead1(ch, r) => RecordsRead1(more, r)
  BY <1>1, <1>2 DEF RecordsRead1
<1>5. \A w : Removed(ch, w) => Removed(more, w)
  BY <1>1, <1>2 DEF Removed
<1>6. \A vw, n : AlwaysOf(more, vw, n) => AlwaysOf(ch, vw, n)
  BY <1>1, <1>2 DEF AlwaysOf
<1> QED
  BY <1>1, <1>3, <1>4, <1>5, <1>6 DEF more

LEMMA WrittenGrown ==
    ASSUME NEW ch \in Seq(Blocks), NEW blk \in Blocks, NEW rc,
           NEW wr \in [Names -> Nat], Written(ch, rc, wr)
    PROVE  Written(Append(ch, blk), rc, wr)
<1> DEFINE more == Append(ch, blk)
<1>1. Len(more) = Len(ch) + 1 /\ Len(ch) \in Nat /\ \A b \in 1 .. Len(ch) : more[b] = ch[b]
  BY ChainGrown
<1> HIDE DEF more
<1>2. ASSUME NEW n \in Names, wr[n] > 0, \A b \in wr[n] .. Len(more) : more[b].rec[n] = "set"
      PROVE  \A b \in wr[n] .. Len(ch) : ch[b].rec[n] = "set"
  <2>1. \A b \in wr[n] .. Len(ch) : b \in wr[n] .. Len(more) /\ b \in 1 .. Len(ch)
    BY <1>1, <1>2
  <2> QED
    BY <1>1, <1>2, <2>1
<1>3. Written(more, rc, wr)
  BY <1>2 DEF Written
<1> QED
  BY <1>3 DEF more

LEMMA GrowthKeeps ==
    ASSUME NamesInv, NEW blk \in Blocks, chain' = Append(chain, blk),
           writes' \subseteq Writes, writes' # {} => view # None,
           \A w \in writes' : w \in writes \/ Removed(chain', w),
           UNCHANGED <<view, epoch, catchup, names, records, panel, workers, left, history>>
    PROVE  NamesInv'
<1> USE DEF names, records, workers, history
<1>1. WorldTypes' /\ NameTypes' /\ ShownTypes' /\ WorkerTypes'
  <2>1. chain' \in Seq(Blocks) /\ chain' # <<>>
    BY ChainGrown, AppendProperties DEF NamesInv, WorldTypes
  <2> QED
    BY <2>1 DEF NamesInv, WorldTypes, NameTypes, ShownTypes, WorkerTypes
<1>2. ReadsTrue'
  BY ChainGrown DEF NamesInv, WorldTypes, ReadsTrue
<1>3. ShownTrue'
  <2>1. Written(chain', recs, wrote)
    BY WrittenGrown DEF NamesInv, WorldTypes, ShownTypes, ShownTrue
  <2> QED
    BY <2>1 DEF NamesInv, ShownTrue
<1>4. ListedTrue'
  BY ChainGrown DEF NamesInv, WorldTypes, ListedTrue, DeniedWasNot, RememberedListed
<1> QED
  BY <1>1, <1>2, <1>3, <1>4 DEF NamesInv

LEMMA HeadIsBlock ==
    ASSUME NamesInv
    PROVE  Height \in Nat /\ Height >= 1 /\ chain[Height] \in Blocks
<1>1. chain \in Seq(Blocks) /\ chain # <<>>
  BY DEF NamesInv, WorldTypes
<1> QED
  BY <1>1 DEF Height

LEMMA WriteMinesKeeps ==
    ASSUME NamesInv, NEW n \in Names, NEW kind \in {"add", "remove", "manager", "record"},
           WriteMines(kind, n)
    PROVE  NamesInv'
<1> DEFINE b == chain[Height]
           ok == IF kind = "add" THEN b.owner[n] = Nobody ELSE b.owner[n] = view
           next(to) == IF ~ok THEN b
                       ELSE CASE kind = "remove" -> [b EXCEPT !.owner[n] = Nobody]
                              [] kind \in {"add", "manager"} -> [b EXCEPT !.owner[n] = to]
                              [] kind = "record" -> [b EXCEPT !.rec[n] = "set"]
<1>1. PICK to \in Accounts :
        /\ chain' = Append(chain, next(to))
        /\ writes' = writes \union {[kind |-> kind, name |-> n, to |-> to,
                                     block |-> Height + 1, ok |-> ok]}
  BY DEF WriteMines
<1>2. b \in Blocks /\ Height \in Nat /\ Height >= 1
  BY HeadIsBlock
<1>3. next(to) \in Blocks
  <2>1. [b EXCEPT !.owner[n] = Nobody] \in Blocks /\ [b EXCEPT !.owner[n] = to] \in Blocks
        /\ [b EXCEPT !.rec[n] = "set"] \in Blocks
    BY <1>2 DEF Blocks
  <2> QED
    BY <1>2, <2>1
<1> DEFINE w == [kind |-> kind, name |-> n, to |-> to, block |-> Height + 1, ok |-> ok]
<1>4. w \in Writes
  <2>1. ok \in BOOLEAN
    OBVIOUS
  <2> QED
    BY <1>2, <2>1 DEF Writes
<1>5. Removed(chain', w)
  <2>1. /\ Len(chain') = Height + 1 /\ chain'[Height + 1] = next(to)
    BY <1>1, <1>3, AppendProperties DEF Height, NamesInv, WorldTypes
  <2>2. ok /\ kind = "remove" => next(to).owner[n] = Nobody
    BY <1>2 DEF Blocks
  <2> HIDE DEF next, ok
  <2> QED
    BY <1>2, <2>1, <2>2 DEF Removed
<1>6. /\ writes' \subseteq Writes
      /\ \A x \in writes' : x \in writes \/ Removed(chain', x)
  BY <1>1, <1>4, <1>5 DEF NamesInv, WorldTypes
<1>7. view # None /\ UNCHANGED <<view, epoch, catchup, names, records, panel, workers, left, history>>
  BY DEF WriteMines
<1> HIDE DEF next, w
<1> QED
  BY <1>1, <1>3, <1>6, <1>7, GrowthKeeps

LEMMA ChainMovesKeeps ==
    ASSUME NamesInv, ChainMoves
    PROVE  NamesInv'
<1>1. chain[Height] \in Blocks
  BY HeadIsBlock
<1>2. PICK blk \in Blocks : chain' = Append(chain, blk)
  <2>1. \A n \in Names, o \in Owners : [chain[Height] EXCEPT !.owner[n] = o] \in Blocks
    BY <1>1 DEF Blocks, Owners
  <2>2. \A n \in Names, v \in {"blank", "set"} : [chain[Height] EXCEPT !.rec[n] = v] \in Blocks
    BY <1>1 DEF Blocks
  <2>3. \E n \in Names :
          \/ \E o \in Owners : chain' = Append(chain, [chain[Height] EXCEPT !.owner[n] = o])
          \/ \E v \in {"blank", "set"} :
                chain' = Append(chain, [chain[Height] EXCEPT !.rec[n] = v])
    BY DEF ChainMoves, Owners
  <2> QED
    BY <2>1, <2>2, <2>3
<1>3. writes' = writes /\ UNCHANGED <<view, epoch, catchup, names, records, panel, workers, left, history>>
  BY DEF ChainMoves
<1> QED
  BY <1>2, <1>3, GrowthKeeps DEF NamesInv, WorldTypes, NameTypes

-----------------------------------------------------------------------------
(* Accounts and discovery.                                                 *)

LEMMA RefreshTyped ==
    ASSUME NamesInv, NEW cu \in BOOLEAN, NEW acct \in Accounts \union {None}, Refresh(cu, acct)
    PROVE  epoch' \in Nat /\ catchup' \in BOOLEAN /\ discoveries' \subseteq Discoverers
BY DEF NamesInv, NameTypes, WorkerTypes, Refresh, Discoverers

LEMMA LoadKeeps ==
    ASSUME NamesInv, NEW a \in Accounts, Load(a)
    PROVE  NamesInv'
<1> DEFINE found == disk[a]
           rem == IF found = NoFile THEN {}
                  ELSE {n \in Names : found[n] \notin {None, "custom"}}
           list == IF found = NoFile THEN listed ELSE Listing(found, {}, rem, {})
<1>0. /\ view' = a /\ denied' = {} /\ added' = {} /\ gates' = {}
      /\ remembered' = rem /\ listed' = list
      /\ panel' = IF found = NoFile THEN panel ELSE Populated(panel, list)
      /\ Refresh(FALSE, a)
      /\ UNCHANGED <<world, disk, records, verifiers, readers, history>>
  BY DEF Load
<1> USE DEF world, records, history
<1>1. found \in {NoFile} \union Listings /\ rem \subseteq Names
  BY DEF NamesInv, NameTypes
<1>2. list \in Listings
  BY <1>1, ListingTyped DEF NamesInv, NameTypes
<1>3. \A n \in rem : list[n] # None
  BY <1>1, ListingKeeps
<1>4. panel' \in Panels /\ Sound(panel', seen', apart')
  <2>1. panel \in Panels /\ seen \in [Names -> Nat] /\ Sound(panel, seen, apart) /\ seen' = seen
    BY <1>0 DEF NamesInv, ShownTypes, ShownTrue
  <2>2. CASE found = NoFile
    BY <1>0, <2>1, <2>2
  <2>3. CASE found # NoFile
    BY <1>0, <1>2, <2>1, <2>3, PopulatedSound
  <2> QED
    BY <2>2, <2>3
<1> HIDE DEF found, rem, list
<1>5. WorldTypes' /\ NameTypes' /\ ShownTypes' /\ WorkerTypes'
  BY <1>0, <1>1, <1>2, <1>4, RefreshTyped, EnsAssumption
     DEF NamesInv, WorldTypes, NameTypes, ShownTypes, WorkerTypes
<1>6. ReadsTrue' /\ ShownTrue'
  BY <1>0, <1>4 DEF NamesInv, ReadsTrue, ShownTrue
<1>7. ListedTrue'
  BY <1>0, <1>3 DEF ListedTrue, DeniedWasNot, RememberedListed
<1> QED
  BY <1>5, <1>6, <1>7 DEF NamesInv

LEMMA AddCustomKeeps ==
    ASSUME NamesInv, AddCustom
    PROVE  NamesInv'
<1>0. /\ Refresh(FALSE, view)
      /\ UNCHANGED <<world, view, names, records, panel, verifiers, readers, history>>
  BY DEF AddCustom
<1> USE DEF world, names, records, history
<1>1. epoch' \in Nat /\ catchup' \in BOOLEAN /\ discoveries' \subseteq Discoverers
  BY <1>0, RefreshTyped DEF NamesInv, NameTypes
<1> QED
  BY <1>0, <1>1 DEF NamesInv, WorldTypes, NameTypes, ShownTypes, WorkerTypes, ReadsTrue,
     ShownTrue, ListedTrue

LEMMA DiscoveryReadsKeeps ==
    ASSUME NamesInv, NEW d \in discoveries, DiscoveryReads(d)
    PROVE  NamesInv'
<1>0. /\ \E found \in Listings : discoveries' = (discoveries \ {d}) \union {[d EXCEPT !.found = found]}
      /\ UNCHANGED <<world, view, epoch, catchup, names, records, panel, verifiers,
                     readers, left, history>>
  <2> DEFINE found(S, T) == [n \in Names |-> IF n \in S THEN "owned"
                                             ELSE IF n \in T THEN "registrant"
                                             ELSE IF n \in Pins THEN "custom" ELSE None]
  <2>1. PICK idx \in Indexed(d.acct), nft \in Held(d.acct) :
          discoveries' = (discoveries \ {d}) \union {[d EXCEPT !.found = found(idx, nft)]}
    BY DEF DiscoveryReads
  <2>2. found(idx, nft) \in Listings
    BY DEF Listings, Sources
  <2>3. UNCHANGED <<world, view, epoch, catchup, names, records, panel, verifiers,
                    readers, left, history>>
    BY DEF DiscoveryReads
  <2> HIDE DEF found
  <2> QED
    BY <2>1, <2>2, <2>3
<1> USE DEF world, names, records, history
<1>1. discoveries' \subseteq Discoverers
  BY <1>0 DEF NamesInv, WorkerTypes, Discoverers
<1> QED
  BY <1>0, <1>1 DEF NamesInv, WorldTypes, NameTypes, ShownTypes, WorkerTypes, ReadsTrue,
     ShownTrue, ListedTrue

LEMMA NamesReadyKeeps ==
    ASSUME NamesInv, NEW d \in discoveries, NamesReady(d)
    PROVE  NamesInv'
<1> DEFINE pend == {n \in added : d.found[n] = None}
           list == Listing(d.found, pend, remembered, denied)
           shown1 == {n \in Names : list[n] # None}
           v == [epoch |-> epoch, acct |-> view, names |-> shown1, catchup |-> catchup,
                 stage |-> "fast", landed |-> FALSE, fast |-> NoBlock, out |-> <<>>]
<1>0. /\ d.found # NoFile /\ discoveries' = discoveries \ {d}
      /\ UNCHANGED <<world, view, epoch, remembered, denied, gates, records, readers,
                     left, history>>
  BY DEF NamesReady
<1>1. CASE OfThisRefresh(d)
  <2>1. /\ added' = pend /\ listed' = list /\ panel' = Populated(panel, list)
        /\ disk' = [disk EXCEPT ![view] = Saved(list, denied)]
        /\ \/ verifiers' = verifiers /\ catchup' = catchup
           \/ catchup' = FALSE /\ verifiers' = verifiers \union {v}
    BY <1>1 DEF NamesReady
  <2> USE DEF world, records, history
  <2>2. d.found \in Listings
    BY <1>0 DEF NamesInv, WorkerTypes, Discoverers
  <2>3. list \in Listings
    BY <2>2, ListingTyped
  <2>4. Saved(list, denied) \in Listings
    BY <2>3, SavedTyped
  <2>5. v \in Verifiers /\ OwnersRead(chain, v.out)
    <3>1. v.out = <<>> /\ <<>> \in Seq(Answer) /\ DOMAIN <<>> = {}
      OBVIOUS
    <3>2. shown1 \subseteq Names /\ 0 \in Nat
      OBVIOUS
    <3> HIDE DEF shown1
    <3> QED
      BY <3>1, <3>2 DEF Verifiers, NamesInv, NameTypes, Stages, NoBlock, OwnersRead
  <2>6. panel' \in Panels /\ Sound(panel', seen', apart')
    BY <1>0, <2>1, <2>3, PopulatedSound DEF NamesInv, ShownTypes, ShownTrue
  <2>7. \A n \in remembered : n \in denied \/ list[n] # None
    BY <2>2, ListingKeeps DEF NamesInv, NameTypes
  <2> HIDE DEF v, list, pend
  <2>8. pend \subseteq Names
    BY DEF pend, NamesInv, NameTypes
  <2>9. WorldTypes' /\ NameTypes' /\ ShownTypes' /\ WorkerTypes'
    BY <1>0, <2>1, <2>3, <2>4, <2>5, <2>6, <2>8
       DEF NamesInv, WorldTypes, NameTypes, ShownTypes, WorkerTypes
  <2>10. ReadsTrue' /\ ShownTrue'
    BY <1>0, <2>1, <2>5, <2>6 DEF NamesInv, ReadsTrue, ShownTrue
  <2>11. ListedTrue'
    BY <1>0, <2>1, <2>7 DEF NamesInv, ListedTrue, DeniedWasNot, RememberedListed
  <2> QED
    BY <2>9, <2>10, <2>11 DEF NamesInv
<1>2. CASE ~OfThisRefresh(d)
  <2>1. UNCHANGED <<added, listed, panel, disk, verifiers, catchup>>
    BY <1>2 DEF NamesReady
  <2> QED
    BY <1>0, <2>1 DEF world, records, history, NamesInv, WorldTypes, NameTypes, ShownTypes,
       WorkerTypes, ReadsTrue, ShownTrue, ListedTrue
<1> QED
  BY <1>1, <1>2

-----------------------------------------------------------------------------
(* Ownership.                                                              *)

LEMMA VerifierKept ==
    ASSUME NamesInv, NEW v \in verifiers, NEW w \in Verifiers, OwnersRead(chain, w.out),
           VerifierStep(v, w)
    PROVE  NamesInv'
<1>1. /\ verifiers' \subseteq Verifiers
      /\ \A u \in verifiers' : OwnersRead(chain, u.out)
  BY DEF VerifierStep, NamesInv, WorkerTypes, ReadsTrue
<1>2. UNCHANGED <<world, view, epoch, catchup, names, records, panel, discoveries,
                  readers, left, history>>
  BY DEF VerifierStep
<1> QED
  BY <1>1, <1>2 DEF world, names, records, history, NamesInv, WorldTypes, NameTypes,
     ShownTypes, WorkerTypes, ReadsTrue, ShownTrue, ListedTrue

\* A read of the owners, added to what a verifier has to tell.
LEMMA OwnersTold ==
    ASSUME NamesInv, NEW v \in verifiers, NEW b \in 1 .. Height, NEW heads \in SUBSET (1 .. Height),
           NEW m \in Reads(v.names, b, heads), NEW ver \in BOOLEAN
    PROVE  /\ m.block \in Nat
           /\ Append(v.out, Message(m, ver)) \in Seq(Answer)
           /\ OwnersRead(chain, Append(v.out, Message(m, ver)))
<1>1. PICK r \in Runs(v.names, b, heads) :
        m = [states |-> [n \in v.names |-> IF n \in r.lost THEN Unknown ELSE chain[r.at[n]].owner[n]],
             at |-> r.at, block |-> r.block]
  BY DEF Reads
<1>2. v.names \subseteq Names /\ v.out \in Seq(Answer) /\ OwnersRead(chain, v.out)
  BY DEF NamesInv, WorkerTypes, Verifiers, ReadsTrue
<1>3. chain \in Seq(Blocks) /\ Height \in Nat /\ Height = Len(chain)
  BY DEF NamesInv, WorldTypes, Height
<1>4. r.at \in [v.names -> heads \union {b}] /\ r.block \in {b, NoBlock}
  BY DEF Runs
<1>5. MorePins \/ \A n \in v.names : n \in r.lost \/ r.at[n] = r.block
  <2>1. PICK first \in IF MorePins THEN SUBSET v.names ELSE {v.names} :
            /\ \A n \in first \union r.lost : r.at[n] = b
            /\ r.block = NoBlock => first \subseteq r.lost
    BY DEF Runs
  <2> QED
    BY <1>4, <2>1
<1>6. \A n \in v.names : r.at[n] \in 1 .. Height /\ chain[r.at[n]] \in Blocks
  <2>1. \A n \in v.names : r.at[n] \in 1 .. Height
    BY <1>4
  <2> QED
    BY <2>1, <1>3
<1> DEFINE st == [n \in v.names |-> IF n \in r.lost THEN Unknown ELSE chain[r.at[n]].owner[n]]
           a == Message(m, ver)
<1>7. a.states = st /\ a.at = r.at /\ a.block = r.block /\ a.verified = ver
      /\ a = [states |-> st, at |-> r.at, block |-> r.block, verified |-> ver]
  BY <1>1 DEF Message
<1>8. /\ st \in Read(v.names) /\ DOMAIN st = v.names
      /\ \A n \in v.names : /\ st[n] \in {Unknown, chain[r.at[n]].owner[n]}
                            /\ n \in r.lost => st[n] = Unknown
  BY <1>2, <1>6 DEF Read, Owners, Blocks
<1>9. m.block \in Nat /\ r.at \in [v.names -> Nat] /\ r.block \in Nat
  BY <1>1, <1>3, <1>4, <1>6 DEF NoBlock
<1> HIDE DEF st
<1>10. a \in Answer
  BY <1>2, <1>7, <1>8, <1>9 DEF Answer
<1> HIDE DEF a
<1>11. OwnersTrue(chain, a)
  BY <1>3, <1>5, <1>6, <1>7, <1>8 DEF OwnersTrue
<1> DEFINE out == Append(v.out, a)
<1>12. /\ out \in Seq(Answer)
       /\ \A i \in DOMAIN out : (i \in DOMAIN v.out /\ out[i] = v.out[i]) \/ out[i] = a
  BY <1>2, <1>10, AppendProperties
<1> HIDE DEF out
<1>13. OwnersRead(chain, out)
  BY <1>2, <1>11, <1>12 DEF OwnersRead
<1> QED
  BY <1>9, <1>12, <1>13 DEF out, a

LEMMA FastHeadsInside ==
    ASSUME NamesInv
    PROVE  FastHeads \subseteq 1 .. Height /\ ProofHeads \subseteq 1 .. Height
<1>1. Height \in Nat /\ Height >= 1
  BY HeadIsBlock
<1>2. FastHeads \subseteq 1 .. Height
  BY <1>1 DEF FastHeads
<1>3. ProofHeads \subseteq 1 .. Height
  <2>1. {Height} \subseteq 1 .. Height
    BY <1>1
  <2>2. ProofHeads = 1 .. Height \/ ProofHeads = {Height}
    BY DEF ProofHeads
  <2> QED
    BY <2>1, <2>2
<1> QED
  BY <1>2, <1>3

LEMMA FastStatesKeeps ==
    ASSUME NamesInv, NEW v \in verifiers, FastStates(v)
    PROVE  NamesInv'
<1>0. v \in Verifiers /\ OwnersRead(chain, v.out)
  BY DEF NamesInv, WorkerTypes, ReadsTrue
<1>1. CASE VerifierStep(v, [v EXCEPT !.stage = "proof"])
  <2>1. [v EXCEPT !.stage = "proof"] \in Verifiers /\ [v EXCEPT !.stage = "proof"].out = v.out
    BY <1>0 DEF Verifiers, Stages
  <2> QED
    BY <1>0, <1>1, <2>1, VerifierKept
<1>2. ASSUME NEW b \in FastHeads, NEW m \in Reads(v.names, b, FastHeads),
             VerifierStep(v, [v EXCEPT !.stage = "proof", !.landed = TRUE, !.fast = m.block,
                !.out = Append(@, Message(m, FALSE))])
      PROVE  NamesInv'
  <2> DEFINE out == Append(v.out, Message(m, FALSE))
             w == [v EXCEPT !.stage = "proof", !.landed = TRUE, !.fast = m.block, !.out = out]
  <2>1. b \in 1 .. Height /\ FastHeads \subseteq 1 .. Height
    BY FastHeadsInside
  <2>2. m.block \in Nat /\ out \in Seq(Answer) /\ OwnersRead(chain, out)
    BY <2>1, OwnersTold
  <2>3. VerifierStep(v, w)
    BY <1>2
  <2> HIDE DEF out
  <2>4. w \in Verifiers /\ w.out = out
    BY <1>0, <2>2 DEF Verifiers, Stages
  <2> HIDE DEF w
  <2> QED
    BY <2>2, <2>3, <2>4, VerifierKept
<1> QED
  BY <1>1, <1>2 DEF FastStates

LEMMA ProvenStatesKeeps ==
    ASSUME NamesInv, NEW v \in verifiers, ProvenStates(v)
    PROVE  NamesInv'
<1>0. PICK b \in ProofHeads : \E m \in Reads(v.names, b, {h \in ProofHeads : h >= b}) :
        VerifierStep(v, [v EXCEPT !.stage = "done", !.out = Append(@, Message(m, TRUE))])
  BY DEF ProvenStates
<1> DEFINE heads == {h \in ProofHeads : h >= b}
<1>1. PICK m \in Reads(v.names, b, heads) :
        VerifierStep(v, [v EXCEPT !.stage = "done", !.out = Append(@, Message(m, TRUE))])
  BY <1>0
<1> DEFINE out == Append(v.out, Message(m, TRUE))
           w == [v EXCEPT !.stage = "done", !.out = out]
<1>2. b \in 1 .. Height /\ heads \in SUBSET (1 .. Height)
  BY FastHeadsInside
<1> HIDE DEF heads
<1>3. out \in Seq(Answer) /\ OwnersRead(chain, out)
  BY <1>2, OwnersTold
<1>4. VerifierStep(v, w)
  BY <1>1
<1> HIDE DEF out
<1>5. w \in Verifiers /\ w.out = out
  BY <1>3 DEF NamesInv, WorkerTypes, Verifiers, Stages
<1> HIDE DEF w
<1> QED
  BY <1>3, <1>4, <1>5, VerifierKept

LEMMA VerifierEndsKeeps ==
    ASSUME NamesInv, NEW v \in verifiers, VerifierEnds(v)
    PROVE  NamesInv'
<1>1. [v EXCEPT !.stage = "done"] \in Verifiers /\ [v EXCEPT !.stage = "done"].out = v.out
  BY DEF NamesInv, WorkerTypes, Verifiers, Stages
<1> QED
  BY <1>1, VerifierKept DEF VerifierEnds, NamesInv, ReadsTrue

\* What a list of answers loses its head of is still answers.
LEMMA TailTold ==
    ASSUME NamesInv, NEW v \in verifiers, v.out # <<>>
    PROVE  /\ Head(v.out) \in Answer
           /\ OwnersTrue(chain, Head(v.out))
           /\ Tail(v.out) \in Seq(Answer) /\ OwnersRead(chain, Tail(v.out))
<1>1. v.out \in Seq(Answer) /\ OwnersRead(chain, v.out)
  BY DEF NamesInv, WorkerTypes, Verifiers, ReadsTrue
<1>2. Head(v.out) = v.out[1] /\ 1 \in DOMAIN v.out /\ Head(v.out) \in Answer
  BY <1>1
<1>3. /\ Tail(v.out) \in Seq(Answer)
      /\ \A i \in DOMAIN Tail(v.out) : i + 1 \in DOMAIN v.out /\ Tail(v.out)[i] = v.out[i + 1]
  BY <1>1
<1> QED
  BY <1>1, <1>2, <1>3 DEF OwnersRead

LEMMA OnVerifiedKeeps ==
    ASSUME NamesInv, NEW v \in verifiers, OnVerified(v)
    PROVE  NamesInv'
<1> DEFINE m == Head(v.out)
           w == [v EXCEPT !.out = Tail(@)]
           fresh == {n \in DOMAIN m.states : Accepts(panel, n, m.block)}
           mine == {n \in fresh : m.states[n] = view}
           drawn == fresh \intersect panel.rows
           src(n) == panel.drawn[n]
           dropped == {n \in drawn : /\ Disowned(m.states, n)
                                     /\ \/ src(n) = "cached"
                                        \/ src(n) = "owned" /\ m.verified}
           kept == {n \in drawn : /\ m.states[n] # Unknown
                                  /\ Disowned(m.states, n) => src(n) = "custom"}
           catchingUp == {n \in drawn : Disowned(m.states, n) /\ src(n) = "registrant"}
           own(n) == [owner |-> m.states[n], at |-> m.at[n], proven |-> m.verified]
<1>0. /\ v.out # <<>>
      /\ verifiers' = (verifiers \ {v}) \union
            (IF w.stage = "done" /\ w.out = <<>> THEN {} ELSE {w})
      /\ UNCHANGED <<world, view, epoch, catchup, added, listed, records, discoveries,
                     readers, left, wrote, proved>>
  BY DEF OnVerified
<1>1. /\ m \in Answer /\ m.block \in Nat /\ m.verified \in BOOLEAN
      /\ m.states \in UNION {Read(S) : S \in SUBSET Names}
      /\ OwnersTrue(chain, m)
      /\ Tail(v.out) \in Seq(Answer) /\ OwnersRead(chain, Tail(v.out))
  BY <1>0, TailTold DEF Answer
<1>2. w \in Verifiers /\ w.out = Tail(v.out)
  BY <1>1 DEF NamesInv, WorkerTypes, Verifiers
<1>3. /\ DOMAIN m.states \subseteq Names
      /\ \A n \in DOMAIN m.states :
            /\ m.states[n] \in Owners \union {Unknown}
            /\ m.at[n] \in Nat /\ m.at[n] \in 1 .. Len(chain)
            /\ m.states[n] # Unknown => m.states[n] = chain[m.at[n]].owner[n]
            /\ MorePins \/ m.states[n] = Unknown \/ m.at[n] = m.block
  <2>1. \A S \in SUBSET Names : \A st \in Read(S) :
            DOMAIN st = S /\ \A n \in S : st[n] \in Owners \union {Unknown}
    BY DEF Read
  <2>2. /\ DOMAIN m.states \subseteq Names
        /\ \A n \in DOMAIN m.states : m.states[n] \in Owners \union {Unknown}
    BY <1>1, <2>1
  <2>3. Len(chain) \in Nat
    BY HeadIsBlock DEF Height
  <2> HIDE DEF m
  <2> QED
    BY <1>1, <2>2, <2>3 DEF OwnersTrue
<1>4. /\ verifiers' \subseteq Verifiers
      /\ \A u \in verifiers' : OwnersRead(chain, u.out)
  BY <1>0, <1>1, <1>2 DEF NamesInv, WorkerTypes, ReadsTrue
<1>5. ReadsTrue'
  BY <1>0, <1>4 DEF world, records, NamesInv, ReadsTrue
<1>6. CASE ~OfThisRefresh(v)
  <2>1. UNCHANGED <<gates, denied, remembered, disk, panel, seen, apart>>
    BY <1>6 DEF OnVerified
  <2> QED
    BY <1>0, <1>4, <1>5, <2>1 DEF world, records, NamesInv, WorldTypes, NameTypes,
       ShownTypes, WorkerTypes, ShownTrue, ListedTrue
<1>7. CASE OfThisRefresh(v)
  <2> DEFINE stamp1 == [n \in Names |-> IF n \in drawn THEN m.block ELSE panel.stamp[n]]
             own1 == [n \in Names |-> CASE n \in dropped -> NoOwner
                                        [] n \in kept -> own(n)
                                        [] OTHER -> panel.own[n]]
             badge1 == [n \in Names |->
                          CASE n \in dropped -> None
                            [] n \in catchingUp /\ m.verified -> None
                            [] n \in mine \intersect drawn /\ m.verified -> view
                            [] OTHER -> panel.badge[n]]
             seen1 == [n \in Names |->
                         IF n \in kept /\ m.at[n] > seen[n] THEN m.at[n] ELSE seen[n]]
             apart1 == {n \in Names : IF n \in kept
                                      THEN m.at[n] # m.block \/ (n \in apart /\ m.block < seen[n])
                                      ELSE n \in apart}
  <2>1. /\ gates' = (gates \ fresh) \union mine
        /\ denied' = (denied \ mine) \union dropped
        /\ remembered' = remembered \ dropped
        /\ disk' = IF dropped = {} THEN disk
                   ELSE [disk EXCEPT ![view] = Saved(listed, denied')]
        /\ panel' = [panel EXCEPT !.rows = @ \ dropped, !.stamp = stamp1, !.own = own1,
                                  !.badge = badge1]
        /\ seen' = seen1 /\ apart' = apart1
    BY <1>7 DEF OnVerified, Seen, Apart
  <2>2. panel \in Panels /\ seen \in [Names -> Nat] /\ Sound(panel, seen, apart)
    BY DEF NamesInv, ShownTypes, ShownTrue
  <2>3. /\ panel.stamp \in [Names -> Nat] /\ panel.own \in [Names -> Shown]
        /\ panel.badge \in [Names -> Accounts \union {None}]
    BY <2>2 DEF Panels
  <2>4. /\ drawn \subseteq DOMAIN m.states /\ kept \subseteq drawn /\ dropped \subseteq drawn
        /\ mine \subseteq fresh /\ fresh \subseteq DOMAIN m.states
        /\ \A n \in drawn : panel.stamp[n] <= m.block
        /\ \A n \in dropped : n \notin kept /\ m.states[n] \notin {Unknown, view}
        /\ \A n \in kept : m.states[n] \in Owners /\ m.at[n] \in Nat
    BY <1>1, <1>3, <2>3 DEF Accepts, Disowned
  <2>5. /\ stamp1 \in [Names -> Nat] /\ seen1 \in [Names -> Nat]
        /\ badge1 \in [Names -> Accounts \union {None}]
    <3>1. view \in Accounts \union {None} /\ None \in Accounts \union {None}
      BY DEF NamesInv, NameTypes
    <3> HIDE DEF m, kept, drawn, dropped, mine, catchingUp
    <3>2. stamp1 \in [Names -> Nat]
      BY <1>1, <2>3
    <3>3. seen1 \in [Names -> Nat]
      BY <2>2, <2>4
    <3>4. badge1 \in [Names -> Accounts \union {None}]
      BY <2>3, <3>1
    <3> QED
      BY <3>2, <3>3, <3>4
  <2>6. \A n \in Names : own1[n] \in Shown
          /\ own1[n] = IF n \in dropped THEN NoOwner
                       ELSE IF n \in kept THEN own(n)
                       ELSE panel.own[n]
    <3>1. NoOwner \in Shown
      BY DEF NoOwner, Shown
    <3>2. \A n \in kept : own(n) \in Shown
      <4> HIDE DEF kept, m
      <4> QED
        BY <1>1, <2>4 DEF Shown
    <3> HIDE DEF kept, dropped, m, own
    <3> QED
      BY <2>3, <2>4, <3>1, <3>2
  <2>7. own1 \in [Names -> Shown]
    <3> HIDE DEF kept, dropped, m, own
    <3> QED
      BY <2>6
  <2>8. \A n \in kept : own(n).at = m.at[n]
    OBVIOUS
  <2>9. NoOwner.owner = None
    BY DEF NoOwner
  <2>10. /\ panel' \in Panels
         /\ panel'.stamp = stamp1 /\ panel'.own = own1
    <3> HIDE DEF stamp1, own1, badge1, dropped
    <3> QED
      BY <2>1, <2>2, <2>5, <2>7 DEF Panels
  <2>11. Sound(panel', seen', apart')
    <3> HIDE DEF kept, dropped, drawn, m, own
    <3> SUFFICES ASSUME NEW n \in Names \ apart1
                 PROVE  /\ seen1[n] <= stamp1[n]
                        /\ own1[n].owner # None => own1[n].at >= seen1[n]
      BY <2>1, <2>10 DEF Sound
    <3>1. /\ seen[n] \in Nat /\ panel.stamp[n] \in Nat
          /\ n \notin apart => seen[n] <= panel.stamp[n]
          /\ n \notin apart /\ panel.own[n].owner # None => panel.own[n].at >= seen[n]
      BY <2>2, <2>3 DEF Sound
    <3>2. CASE n \in kept
      <4>1. stamp1[n] = m.block /\ panel.stamp[n] <= m.block /\ n \notin dropped
        BY <2>4, <3>2
      <4>2. m.at[n] = m.block /\ seen[n] <= m.block
        BY <1>1, <3>1, <3>2, <4>1
      <4>3. seen1[n] = m.block
        BY <1>1, <3>1, <3>2, <4>2
      <4>4. own1[n].at = m.block
        BY <2>6, <2>8, <3>2, <4>1, <4>2
      <4> QED
        BY <1>1, <4>1, <4>3, <4>4
    <3>3. CASE n \notin kept
      BY <1>1, <2>4, <2>6, <2>9, <3>1, <3>3
    <3> QED
      BY <3>2, <3>3
  <2>12. \A n \in dropped : ~AlwaysOf(chain, view, n)
    <3> HIDE DEF m, dropped
    <3> QED
      BY <1>3, <2>4 DEF AlwaysOf
  <2>13. denied' \subseteq Names /\ remembered' \subseteq Names /\ gates' \subseteq Names
    BY <1>3, <2>1, <2>4 DEF NamesInv, NameTypes
  <2>14. disk' \in [Accounts -> {NoFile} \union Listings]
    BY <2>1, SavedTyped DEF NamesInv, NameTypes
  <2>15. apart1 \subseteq Names /\ (MorePins \/ apart1 = {})
    <3>1. MorePins \/ \A n \in kept : m.at[n] = m.block
      BY <1>3, <2>4
    <3> HIDE DEF kept, m
    <3> QED
      BY <3>1 DEF NamesInv, ShownTrue
  <2> HIDE DEF stamp1, own1, badge1, seen1, apart1, dropped, fresh, mine
  <2>16. WorldTypes' /\ NameTypes' /\ ShownTypes' /\ WorkerTypes'
    BY <1>0, <1>4, <2>1, <2>5, <2>10, <2>13, <2>14, <2>15
       DEF world, records, NamesInv, WorldTypes, NameTypes, ShownTypes, WorkerTypes
  <2>17. ShownTrue'
    BY <1>0, <2>1, <2>11, <2>15 DEF world, records, NamesInv, ShownTrue
  <2>18. ListedTrue'
    BY <1>0, <2>1, <2>12 DEF world, NamesInv, ListedTrue, DeniedWasNot, RememberedListed
  <2> QED
    BY <1>5, <2>16, <2>17, <2>18 DEF NamesInv
<1> QED
  BY <1>6, <1>7

-----------------------------------------------------------------------------
(* Records.                                                                *)

LEMMA ReaderKept ==
    ASSUME NamesInv, NEW r \in readers, NEW w \in Readers, RecordsRead1(chain, w),
           ReaderStep(r, w)
    PROVE  NamesInv'
<1>1. /\ readers' \subseteq Readers
      /\ \A u \in readers' : RecordsRead1(chain, u)
  BY DEF ReaderStep, NamesInv, WorkerTypes, ReadsTrue
<1>2. UNCHANGED <<world, view, epoch, catchup, names, records, panel, discoveries,
                  verifiers, left, history>>
  BY DEF ReaderStep
<1> QED
  BY <1>1, <1>2 DEF world, names, records, history, NamesInv, WorldTypes, NameTypes,
     ShownTypes, WorkerTypes, ReadsTrue, ShownTrue, ListedTrue

\* A read of the record at a block, added to what a reader has to tell.
LEMMA RecordTold ==
    ASSUME NamesInv, NEW r \in readers, NEW b \in 1 .. Height, NEW ver \in BOOLEAN
    PROVE  LET m == [val |-> RecordAt(r, b), verified |-> ver, block |-> b]
               out == Append(r.out, m)
           IN  /\ out \in Seq(RecordAnswer)
               /\ \A i \in DOMAIN out :
                     /\ out[i].block \in 1 .. Len(chain)
                     /\ KeyIsStandard => out[i].val = chain[out[i].block].rec[r.name]
<1> DEFINE m == [val |-> RecordAt(r, b), verified |-> ver, block |-> b]
           out == Append(r.out, m)
<1>1. r \in Readers /\ RecordsRead1(chain, r)
  BY DEF NamesInv, WorkerTypes, ReadsTrue
<1>2. chain[b] \in Blocks /\ b \in Nat
  BY DEF NamesInv, WorldTypes, Height
<1>3. RecordAt(r, b) \in {"blank", "set"} /\ (KeyIsStandard => RecordAt(r, b) = chain[b].rec[r.name])
  BY <1>1, <1>2 DEF RecordAt, Readers, Blocks, RecordsRead1
<1>4. m \in RecordAnswer /\ m.block = b /\ m.val = RecordAt(r, b)
  BY <1>2, <1>3 DEF RecordAnswer
<1>5. r.out \in Seq(RecordAnswer)
  BY <1>1 DEF Readers
<1> HIDE DEF m
<1>6. /\ out \in Seq(RecordAnswer)
      /\ \A i \in DOMAIN out : (i \in DOMAIN r.out /\ out[i] = r.out[i]) \/ out[i] = m
  BY <1>4, <1>5, AppendProperties
<1> HIDE DEF out
<1>7. \A i \in DOMAIN out :
        /\ out[i].block \in 1 .. Len(chain)
        /\ KeyIsStandard => out[i].val = chain[out[i].block].rec[r.name]
  BY <1>1, <1>3, <1>4, <1>6 DEF RecordsRead1, Height
<1> QED
  BY <1>6, <1>7 DEF out, m

LEMMA FastRecordsKeeps ==
    ASSUME NamesInv, NEW r \in readers, FastRecords(r)
    PROVE  NamesInv'
<1>0. r \in Readers /\ RecordsRead1(chain, r)
  BY DEF NamesInv, WorkerTypes, ReadsTrue
<1>1. CASE ReaderStep(r, [r EXCEPT !.stage = "proof"])
  <2> DEFINE w == [r EXCEPT !.stage = "proof"]
  <2>1. w \in Readers /\ w.out = r.out /\ w.knows = r.knows /\ w.name = r.name
    BY <1>0 DEF Readers, Stages
  <2>2. ReaderStep(r, w)
    BY <1>1
  <2> HIDE DEF w
  <2>3. RecordsRead1(chain, w)
    BY <1>0, <2>1 DEF RecordsRead1
  <2> QED
    BY <2>1, <2>2, <2>3, ReaderKept
<1>2. ASSUME NEW b \in FastHeads,
             ReaderStep(r, [r EXCEPT !.stage = "proof",
                !.out = Append(@, [val |-> RecordAt(r, b), verified |-> FALSE, block |-> b])])
      PROVE  NamesInv'
  <2> DEFINE out == Append(r.out, [val |-> RecordAt(r, b), verified |-> FALSE, block |-> b])
             w == [r EXCEPT !.stage = "proof", !.out = out]
  <2>1. b \in 1 .. Height /\ b \in Nat
    BY FastHeadsInside, HeadIsBlock
  <2>2. /\ out \in Seq(RecordAnswer)
        /\ \A i \in DOMAIN out : /\ out[i].block \in 1 .. Len(chain)
                                 /\ KeyIsStandard => out[i].val = chain[out[i].block].rec[r.name]
    BY <2>1, RecordTold
  <2>3. ReaderStep(r, w)
    BY <1>2
  <2> HIDE DEF out
  <2>4. w \in Readers /\ w.out = out /\ w.knows = r.knows /\ w.name = r.name
    BY <1>0, <2>1, <2>2 DEF Readers, Stages
  <2> HIDE DEF w
  <2>5. RecordsRead1(chain, w)
    BY <1>0, <2>2, <2>4 DEF RecordsRead1
  <2> QED
    BY <2>3, <2>4, <2>5, ReaderKept
<1> QED
  BY <1>1, <1>2 DEF FastRecords

LEMMA ProvenRecordsKeeps ==
    ASSUME NamesInv, NEW r \in readers, ProvenRecords(r)
    PROVE  NamesInv'
<1>0. r \in Readers /\ RecordsRead1(chain, r)
  BY DEF NamesInv, WorkerTypes, ReadsTrue
<1>1. PICK b \in ProofHeads :
        ReaderStep(r, [r EXCEPT !.stage = "done",
           !.out = Append(@, [val |-> RecordAt(r, b), verified |-> TRUE, block |-> b])])
  BY DEF ProvenRecords
<1> DEFINE out == Append(r.out, [val |-> RecordAt(r, b), verified |-> TRUE, block |-> b])
           w == [r EXCEPT !.stage = "done", !.out = out]
<1>2. b \in 1 .. Height
  BY FastHeadsInside
<1>3. /\ out \in Seq(RecordAnswer)
      /\ \A i \in DOMAIN out : /\ out[i].block \in 1 .. Len(chain)
                               /\ KeyIsStandard => out[i].val = chain[out[i].block].rec[r.name]
  BY <1>2, RecordTold
<1>4. ReaderStep(r, w)
  BY <1>1
<1> HIDE DEF out
<1>5. w \in Readers /\ w.out = out /\ w.knows = r.knows /\ w.name = r.name
  BY <1>0, <1>3 DEF Readers, Stages
<1> HIDE DEF w
<1>6. RecordsRead1(chain, w)
  BY <1>0, <1>3, <1>5 DEF RecordsRead1
<1> QED
  BY <1>4, <1>5, <1>6, ReaderKept

LEMMA ReaderEndsKeeps ==
    ASSUME NamesInv, NEW r \in readers, ReaderEnds(r)
    PROVE  NamesInv'
<1> DEFINE w == [r EXCEPT !.stage = "done"]
<1>0. r \in Readers /\ RecordsRead1(chain, r)
  BY DEF NamesInv, WorkerTypes, ReadsTrue
<1>1. w \in Readers /\ w.out = r.out /\ w.knows = r.knows /\ w.name = r.name
  BY <1>0 DEF Readers, Stages
<1>2. ReaderStep(r, w)
  BY DEF ReaderEnds
<1> HIDE DEF w
<1>3. RecordsRead1(chain, w)
  BY <1>0, <1>1 DEF RecordsRead1
<1> QED
  BY <1>1, <1>2, <1>3, ReaderKept

LEMMA RecordsRequestedKeeps ==
    ASSUME NamesInv, NEW n \in Names, RecordsRequested(n)
    PROVE  NamesInv'
<1>0. /\ readers' = readers \union {Reader(n, FALSE)}
      /\ UNCHANGED <<world, view, epoch, catchup, names, records, panel, discoveries,
                     verifiers, history>>
  BY DEF RecordsRequested
<1>1. Reader(n, FALSE) \in Readers /\ RecordsRead1(chain, Reader(n, FALSE))
  <2>1. (known \/ recs[n].val = "set") \in BOOLEAN /\ (KeyIsStandard => known)
    BY DEF NamesInv, ShownTypes, ReadsTrue
  <2>2. <<>> \in Seq(RecordAnswer) /\ DOMAIN <<>> = {} /\ 0 \in Nat
    OBVIOUS
  <2> QED
    BY <2>1, <2>2 DEF Reader, Readers, Stages, NoBlock, RecordsRead1
<1> QED
  BY <1>0, <1>1 DEF world, names, records, history, NamesInv, WorldTypes, NameTypes,
     ShownTypes, WorkerTypes, ReadsTrue, ShownTrue, ListedTrue

LEMMA OnRecordsReadyKeeps ==
    ASSUME NamesInv, NEW r \in readers, OnRecordsReady(r)
    PROVE  NamesInv'
<1> DEFINE m == Head(r.out)
           w == [r EXCEPT !.out = Tail(@)]
           n == r.name
           ticked == m.verified \/ (recs[n].verified /\ recs[n].val = m.val)
           new == [val |-> m.val, block |-> m.block, verified |-> ticked]
<1>0. /\ r.out # <<>>
      /\ readers' = (readers \ {r}) \union
            (IF w.stage = "done" /\ w.out = <<>> THEN {} ELSE {w})
      /\ UNCHANGED <<world, view, epoch, catchup, names, known, discoveries, verifiers,
                     left, seen, wrote, apart>>
  BY DEF OnRecordsReady
<1>1. r \in Readers /\ RecordsRead1(chain, r) /\ r.out \in Seq(RecordAnswer) /\ n \in Names
  BY DEF NamesInv, WorkerTypes, ReadsTrue, Readers
<1>2. /\ m \in RecordAnswer /\ m.block \in 1 .. Len(chain)
      /\ KeyIsStandard => m.val = chain[m.block].rec[n]
  <2>1. m = r.out[1] /\ 1 \in DOMAIN r.out
    BY <1>0, <1>1
  <2> QED
    BY <1>1, <2>1 DEF RecordsRead1
<1>3. m.val \in {"blank", "set"} /\ m.block \in Nat /\ m.verified \in BOOLEAN
  BY <1>2 DEF RecordAnswer
<1>4. w \in Readers /\ RecordsRead1(chain, w)
  <2>1. /\ Tail(r.out) \in Seq(RecordAnswer)
        /\ \A i \in DOMAIN Tail(r.out) : i + 1 \in DOMAIN r.out /\ Tail(r.out)[i] = r.out[i + 1]
    BY <1>0, <1>1
  <2>2. w \in Readers /\ w.out = Tail(r.out) /\ w.knows = r.knows /\ w.name = r.name
    BY <1>1, <2>1 DEF Readers
  <2> HIDE DEF w
  <2> QED
    BY <1>1, <2>1, <2>2 DEF RecordsRead1
<1>5. readers' \subseteq Readers /\ \A u \in readers' : RecordsRead1(chain, u)
  BY <1>0, <1>4 DEF NamesInv, WorkerTypes, ReadsTrue
<1>6. CASE ~Supersedes(n, m)
  <2>1. UNCHANGED <<recs, panel, proved>>
    BY <1>6 DEF OnRecordsReady
  <2> QED
    BY <1>0, <1>5, <2>1 DEF world, names, NamesInv, WorldTypes, NameTypes,
       ShownTypes, WorkerTypes, ReadsTrue, ShownTrue, ListedTrue
<1>7. CASE Supersedes(n, m)
  <2>1. /\ recs' = [recs EXCEPT ![n] = new]
        /\ panel' = IF n \in Addressed \/ r.forced THEN Stamped(panel, n, m.block) ELSE panel
        /\ proved' = IF m.verified THEN [proved EXCEPT ![n] = @ \union {m.val}] ELSE proved
    BY <1>7 DEF OnRecordsReady
  <2>2. /\ recs \in [Names -> Records] /\ proved \in [Names -> SUBSET {"blank", "set"}]
        /\ wrote \in [Names -> Nat] /\ Ticked(recs, proved) /\ Written(chain, recs, wrote)
        /\ panel \in Panels /\ seen \in [Names -> Nat] /\ Sound(panel, seen, apart)
    BY DEF NamesInv, ShownTypes, ShownTrue
  <2>3. new \in Records /\ new.val = m.val /\ new.block = m.block
        /\ (new.verified => m.verified \/ (recs[n].verified /\ recs[n].val = m.val))
    BY <1>1, <1>3, <2>2 DEF Records
  <2>4. recs' \in [Names -> Records]
    <3> HIDE DEF new
    <3> QED
      BY <1>1, <2>1, <2>2, <2>3
  <2>5. proved' \in [Names -> SUBSET {"blank", "set"}]
    BY <1>1, <1>3, <2>1, <2>2
  <2>6. Ticked(recs', proved')
    <3> HIDE DEF new, m
    <3> QED
      BY <1>1, <2>1, <2>2, <2>3 DEF Ticked
  <2>7. panel' \in Panels /\ Sound(panel', seen', apart')
    <3> HIDE DEF m
    <3> QED
      BY <1>0, <1>1, <1>3, <2>1, <2>2, StampedSound
  <2>8. Written(chain, recs', wrote)
    <3> SUFFICES ASSUME KeyIsStandard, NEW k \in Names, wrote[k] > 0
                 PROVE  /\ recs'[k].val # None /\ recs'[k].block >= wrote[k]
                        /\ (\A b \in wrote[k] .. Len(chain) : chain[b].rec[k] = "set")
                              => recs'[k].val = "set"
      BY DEF Written
    <3>1. /\ recs[k].val # None /\ recs[k].block >= wrote[k]
          /\ (\A b \in wrote[k] .. Len(chain) : chain[b].rec[k] = "set") => recs[k].val = "set"
      BY <2>2 DEF Written
    <3>2. CASE k # n
      BY <1>1, <2>1, <2>2, <3>1, <3>2
    <3>3. CASE k = n
      <4>1. recs[n].block \in Nat /\ m.block >= recs[n].block /\ wrote[n] \in Nat
        BY <1>1, <1>3, <1>7, <2>2, <3>1, <3>3 DEF Supersedes, Records
      <4>2. recs'[n].val = m.val /\ recs'[n].block = m.block
        <5> HIDE DEF new, m
        <5> QED
          BY <1>1, <2>1, <2>2, <2>3
      <4>3. m.block \in wrote[n] .. Len(chain) /\ m.val = chain[m.block].rec[n]
        BY <1>2, <1>3, <3>1, <3>3, <4>1 DEF NamesInv, WorldTypes
      <4>4. m.val # None
        BY <1>3 DEF None
      <4> HIDE DEF m
      <4> QED
        BY <1>3, <3>1, <3>3, <4>1, <4>2, <4>3, <4>4
    <3> QED
      BY <3>2, <3>3
  <2>9. WorldTypes' /\ NameTypes' /\ ShownTypes' /\ WorkerTypes'
    BY <1>0, <1>5, <2>4, <2>5, <2>7
       DEF world, names, NamesInv, WorldTypes, NameTypes, ShownTypes, WorkerTypes
  <2>10. ReadsTrue' /\ ShownTrue' /\ ListedTrue'
    BY <1>0, <1>5, <2>6, <2>7, <2>8
       DEF world, names, NamesInv, ReadsTrue, ShownTrue, ListedTrue
  <2> QED
    BY <2>9, <2>10 DEF NamesInv
<1> QED
  BY <1>6, <1>7

-----------------------------------------------------------------------------
(* The account's own writes.                                               *)

LEMMA RevertedKeeps ==
    ASSUME NamesInv, NEW w \in writes, Reverted(w)
    PROVE  NamesInv'
<1>1. /\ writes' \subseteq writes
      /\ UNCHANGED <<chain, view, epoch, catchup, names, records, panel, workers, left, history>>
  BY DEF Reverted, Told
<1> QED
  BY <1>1 DEF names, records, workers, history, NamesInv, WorldTypes, NameTypes, ShownTypes,
     WorkerTypes, ReadsTrue, ShownTrue, ListedTrue

LEMMA MarkAddedKeeps ==
    ASSUME NamesInv, NEW w \in writes, MarkAdded(w)
    PROVE  NamesInv'
<1> DEFINE n == w.name
           den == denied \ {n}
           found == IF disk[view] = NoFile THEN Nothing ELSE disk[view]
           list == Listing(found, added \union {n}, remembered, den)
           drawn == Populated(panel, list)
<1>0. /\ writes' = writes \ {w} /\ denied' = den /\ added' = added \union {n} /\ listed' = list
      /\ panel' = RoleApplied(drawn, n, w.to, w.block)
      /\ OwnWriteShown(drawn, w)
      /\ gates' = (IF w.to = view THEN gates \union {n} ELSE gates)
      /\ Refresh(TRUE, view)
      /\ UNCHANGED <<chain, view, disk, remembered, records, verifiers, readers, wrote, proved>>
  BY DEF MarkAdded, Told
<1>1. /\ n \in Names /\ w.to \in Accounts /\ w.block \in Nat
      /\ view \in Accounts \union {None}
  BY DEF NamesInv, WorldTypes, NameTypes, Writes
<1>3. view \in Accounts
  BY <1>1 DEF NamesInv, NameTypes
<1>4. found \in Listings
  <2>1. Nothing \in Listings
    BY DEF Nothing, Listings
  <2> QED
    BY <1>3, <2>1 DEF NamesInv, NameTypes
<1>5. list \in Listings
  BY <1>4, ListingTyped
<1>6. /\ panel \in Panels /\ seen \in [Names -> Nat] /\ Sound(panel, seen, apart)
      /\ apart \subseteq Names /\ (MorePins \/ apart = {}) /\ w \in Writes
  BY DEF WorldTypes, NamesInv, ShownTypes, ShownTrue
<1>7. drawn \in Panels /\ Sound(drawn, seen, apart)
  BY <1>5, <1>6, PopulatedSound
<1>8. \A k \in remembered : k \in den \/ list[k] # None
  BY <1>4, ListingKeeps DEF NamesInv, NameTypes
<1> HIDE DEF drawn, list, found
<1>9. panel' \in Panels /\ Sound(panel', seen', apart')
      /\ seen' \in [Names -> Nat] /\ apart' \subseteq Names /\ (MorePins \/ apart' = {})
  BY <1>0, <1>6, <1>7, RoleAppliedSound
<1>10. WorldTypes' /\ NameTypes' /\ ShownTypes' /\ WorkerTypes'
  BY <1>0, <1>1, <1>5, <1>9, RefreshTyped
     DEF records, NamesInv, WorldTypes, NameTypes, ShownTypes, WorkerTypes
<1>11. ReadsTrue' /\ ShownTrue'
  BY <1>0, <1>9 DEF records, NamesInv, ReadsTrue, ShownTrue
<1>12. ListedTrue'
  BY <1>0, <1>8 DEF NamesInv, ListedTrue, DeniedWasNot, RememberedListed
<1> QED
  BY <1>10, <1>11, <1>12 DEF NamesInv

LEMMA MarkRemovedKeeps ==
    ASSUME NamesInv, NEW w \in writes, MarkRemoved(w)
    PROVE  NamesInv'
<1> DEFINE n == w.name
<1>0. /\ w.ok /\ w.kind = "remove"
      /\ writes' = writes \ {w} /\ denied' = denied \union {n}
      /\ added' = added \ {n} /\ remembered' = remembered \ {n}
      /\ disk' = [a \in Accounts |->
            IF disk[a] = NoFile THEN NoFile ELSE [disk[a] EXCEPT ![n] = None]]
      /\ panel' = RowDropped(Stamped(panel, n, w.block), n)
      /\ Refresh(TRUE, view)
      /\ UNCHANGED <<chain, view, listed, gates, records, verifiers, readers, history>>
  BY DEF MarkRemoved, Told
<1> USE DEF records, history
<1>1. n \in Names /\ w.block \in Nat /\ view \in Accounts \union {None}
  BY DEF NamesInv, WorldTypes, NameTypes, Writes
<1>2. ~AlwaysOf(chain, view, n)
  <2>1. w.block \in 1 .. Len(chain) /\ chain[w.block].owner[n] = Nobody
    BY <1>0 DEF NamesInv, ReadsTrue, Removed
  <2>2. view # Nobody
    BY <1>1, EnsAssumption DEF None, Nobody
  <2> QED
    BY <2>1, <2>2 DEF AlwaysOf
<1>3. disk' \in [Accounts -> {NoFile} \union Listings]
  BY <1>0, <1>1 DEF NamesInv, NameTypes, Listings
<1>4. panel' \in Panels /\ Sound(panel', seen', apart')
  <2>1. panel \in Panels /\ seen \in [Names -> Nat] /\ Sound(panel, seen, apart) /\ seen' = seen
    BY <1>0 DEF NamesInv, ShownTypes, ShownTrue
  <2>2. Stamped(panel, n, w.block) \in Panels /\ Sound(Stamped(panel, n, w.block), seen, apart)
    BY <1>1, <2>1, StampedSound
  <2> QED
    BY <1>0, <1>1, <2>1, <2>2, RowDroppedSound
<1>5. WorldTypes' /\ NameTypes' /\ ShownTypes' /\ WorkerTypes'
  BY <1>0, <1>1, <1>3, <1>4, RefreshTyped
     DEF NamesInv, WorldTypes, NameTypes, ShownTypes, WorkerTypes
<1>6. ReadsTrue' /\ ShownTrue'
  BY <1>0, <1>4 DEF NamesInv, ReadsTrue, ShownTrue
<1>7. ListedTrue'
  BY <1>0, <1>2 DEF NamesInv, ListedTrue, DeniedWasNot, RememberedListed
<1> QED
  BY <1>5, <1>6, <1>7 DEF NamesInv

LEMMA ApplySetManagerKeeps ==
    ASSUME NamesInv, NEW w \in writes, ApplySetManager(w)
    PROVE  NamesInv'
<1> DEFINE n == w.name
<1>0. /\ writes' = writes \ {w}
      /\ panel' = RoleApplied(panel, n, w.to, w.block)
      /\ OwnWriteShown(panel, w)
      /\ Refresh(TRUE, view)
      /\ UNCHANGED <<chain, view, names, records, verifiers, readers, wrote, proved>>
  BY DEF ApplySetManager, Told
<1> USE DEF names, records
<1>1. n \in Names /\ w.to \in Accounts /\ w.block \in Nat /\ view \in Accounts \union {None}
  BY DEF NamesInv, WorldTypes, NameTypes, Writes
<1>2. /\ panel \in Panels /\ seen \in [Names -> Nat] /\ Sound(panel, seen, apart)
      /\ apart \subseteq Names /\ (MorePins \/ apart = {}) /\ w \in Writes
  BY DEF NamesInv, WorldTypes, ShownTypes, ShownTrue
<1>3. panel' \in Panels /\ Sound(panel', seen', apart')
      /\ seen' \in [Names -> Nat] /\ apart' \subseteq Names /\ (MorePins \/ apart' = {})
  BY <1>0, <1>2, RoleAppliedSound
<1>4. WorldTypes' /\ NameTypes' /\ ShownTypes' /\ WorkerTypes'
  BY <1>0, <1>1, <1>3, RefreshTyped
     DEF NamesInv, WorldTypes, NameTypes, ShownTypes, WorkerTypes
<1>5. ReadsTrue' /\ ShownTrue' /\ ListedTrue'
  BY <1>0, <1>3 DEF NamesInv, ReadsTrue, ShownTrue, ListedTrue
<1> QED
  BY <1>4, <1>5 DEF NamesInv

LEMMA ApplyRecordChangeKeeps ==
    ASSUME NamesInv, NEW w \in writes, ApplyRecordChange(w)
    PROVE  NamesInv'
<1> DEFINE n == w.name
           r == [name |-> n, forced |-> TRUE, knows |-> TRUE, stage |-> "fast", out |-> <<>>]
<1>0. /\ writes' = writes \ {w} /\ known' = TRUE
      /\ recs' = [recs EXCEPT ![n] = Pushed(n, w.block)]
      /\ panel' = IF n \in Addressed THEN Stamped(panel, n, w.block) ELSE panel
      /\ wrote' = [wrote EXCEPT ![n] = w.block]
      /\ readers' = readers \union {r}
      /\ UNCHANGED <<chain, view, epoch, catchup, names, discoveries, verifiers, seen, proved, apart>>
  BY DEF ApplyRecordChange, Told
<1> USE DEF names
<1>1. n \in Names /\ w.block \in Nat
  BY DEF NamesInv, WorldTypes, Writes
<1>2. /\ recs \in [Names -> Records] /\ wrote \in [Names -> Nat]
      /\ panel \in Panels /\ seen \in [Names -> Nat] /\ Sound(panel, seen, apart)
      /\ Written(chain, recs, wrote) /\ Ticked(recs, proved)
  BY DEF NamesInv, ShownTypes, ShownTrue
<1>3. /\ Pushed(n, w.block) \in Records
      /\ Pushed(n, w.block).val = "set" /\ ~Pushed(n, w.block).verified
      /\ Pushed(n, w.block).block >= w.block
  BY <1>1, <1>2 DEF Pushed, Records
<1>4. recs' \in [Names -> Records] /\ wrote' \in [Names -> Nat]
  BY <1>0, <1>1, <1>2, <1>3
<1>5. r \in Readers /\ RecordsRead1(chain, r)
  <2>1. <<>> \in Seq(RecordAnswer) /\ DOMAIN <<>> = {} /\ 0 \in Nat
    OBVIOUS
  <2> QED
    BY <1>1, <2>1 DEF Readers, Stages, NoBlock, RecordsRead1
<1>6. panel' \in Panels /\ Sound(panel', seen', apart')
  BY <1>0, <1>1, <1>2, StampedSound
<1>7. Ticked(recs', proved')
  BY <1>0, <1>1, <1>2, <1>3 DEF Ticked
<1>8. Written(chain, recs', wrote')
  BY <1>0, <1>1, <1>2, <1>3 DEF Written, None
<1> HIDE DEF r
<1>9. WorldTypes' /\ NameTypes' /\ ShownTypes' /\ WorkerTypes'
  BY <1>0, <1>4, <1>5, <1>6 DEF NamesInv, WorldTypes, NameTypes, ShownTypes, WorkerTypes
<1>10. ReadsTrue' /\ ShownTrue' /\ ListedTrue'
  BY <1>0, <1>5, <1>6, <1>7, <1>8 DEF NamesInv, ReadsTrue, ShownTrue, ListedTrue
<1> QED
  BY <1>9, <1>10 DEF NamesInv

-----------------------------------------------------------------------------
(* Every step.                                                             *)

LEMMA NamesNextKeeps == NamesInv /\ [Next]_vars => NamesInv'
<1> SUFFICES ASSUME NamesInv, [Next]_vars PROVE NamesInv'
  OBVIOUS
<1>1. CASE \E a \in Accounts : Load(a)
  BY <1>1, LoadKeeps
<1>2. CASE AddCustom
  BY <1>2, AddCustomKeeps
<1>3. CASE WorkerNext
  <2>1. CASE \E d \in discoveries : DiscoveryReads(d) \/ NamesReady(d)
    BY <2>1, DiscoveryReadsKeeps, NamesReadyKeeps
  <2>2. CASE \E v \in verifiers : \/ FastStates(v) \/ ProvenStates(v)
                                  \/ VerifierEnds(v) \/ OnVerified(v)
    BY <2>2, FastStatesKeeps, ProvenStatesKeeps, VerifierEndsKeeps, OnVerifiedKeeps
  <2>3. CASE \E r \in readers : \/ FastRecords(r) \/ ProvenRecords(r)
                                \/ ReaderEnds(r) \/ OnRecordsReady(r)
    BY <2>3, FastRecordsKeeps, ProvenRecordsKeeps, ReaderEndsKeeps, OnRecordsReadyKeeps
  <2> QED
    BY <1>3, <2>1, <2>2, <2>3 DEF WorkerNext
<1>4. CASE \E n \in Names : RecordsRequested(n)
  BY <1>4, RecordsRequestedKeeps
<1>5. CASE \E n \in Names, kind \in {"add", "remove", "manager", "record"} : WriteMines(kind, n)
  BY <1>5, WriteMinesKeeps
<1>6. CASE \E w \in writes : \/ Reverted(w) \/ MarkAdded(w) \/ MarkRemoved(w)
                             \/ ApplySetManager(w) \/ ApplyRecordChange(w)
  BY <1>6, RevertedKeeps, MarkAddedKeeps, MarkRemovedKeeps, ApplySetManagerKeeps,
     ApplyRecordChangeKeeps
<1>7. CASE ChainMoves
  BY <1>7, ChainMovesKeeps
<1>8. CASE UNCHANGED vars
  BY <1>8 DEF vars, world, names, records, workers, history, NamesInv, WorldTypes, NameTypes,
     ShownTypes, WorkerTypes, ReadsTrue, ShownTrue, ListedTrue
<1> QED
  BY <1>1, <1>2, <1>3, <1>4, <1>5, <1>6, <1>7, <1>8 DEF Next

\* Types, what the workers were told, what is shown and what is listed are an
\* inductive invariant.
THEOREM NamesInvariance == Spec => []NamesInv
<1> QED
  BY NamesStart, NamesNextKeeps, PTL DEF Spec

\* The owners, own records and ticks the panel shows are as they were read, and
\* never go back, for every number of accounts, names, refreshes and blocks.  A row
\* whose aggregate ran at another block than its stamp is excepted for the owner;
\* where a read is one aggregate there is no such row.
\* (mark_verified, is_fresh_block, _on_records_ready, _push_records)
THEOREM ShowsAsRead == Spec => [](ShownIsAsRead /\ (~MorePins => RowNeverPaintedBack))
<1>1. NamesInv => NeverPaintedBack
  BY DEF NamesInv, ShownTrue, Sound, NeverPaintedBack
<1>2. NamesInv => OwnRecordStays
  BY DEF NamesInv, ShownTrue, Written, OwnRecordStays, AnyRecordStays, Height
<1>3. NamesInv => TickIsForProvenValue
  BY DEF NamesInv, ShownTrue, Ticked, TickIsForProvenValue
<1>4. NamesInv => (~MorePins => RowNeverPaintedBack)
  BY <1>1 DEF NamesInv, ShownTrue, NeverPaintedBack, RowNeverPaintedBack
<1>5. NamesInv => ShownIsAsRead /\ (~MorePins => RowNeverPaintedBack)
  BY <1>1, <1>2, <1>3, <1>4 DEF ShownIsAsRead
<1> QED
  BY <1>5, NamesInvariance, PTL

\* What a step has to leave in the cache of the selected account.
KeptInCache(n) ==
    /\ view # None /\ n \in remembered /\ disk[view] # NoFile /\ disk[view][n] # None
    /\ \A b \in 1 .. Height : chain[b].owner[n] = view

LEMMA VerifyKeepsCache ==
    ASSUME NamesInv, NEW n \in Names, KeptInCache(n), NEW v \in verifiers, OnVerified(v)
    PROVE  disk'[view][n] # None
<1> DEFINE m == Head(v.out)
           fresh == {k \in DOMAIN m.states : Accepts(panel, k, m.block)}
           mine == {k \in fresh : m.states[k] = view}
           drawn == fresh \intersect panel.rows
           src(k) == panel.drawn[k]
           dropped == {k \in drawn : /\ Disowned(m.states, k)
                                     /\ \/ src(k) = "cached"
                                        \/ src(k) = "owned" /\ m.verified}
<1>1. \/ UNCHANGED <<denied, disk>>
      \/ /\ denied' = (denied \ mine) \union dropped
         /\ disk' = IF dropped = {} THEN disk
                    ELSE [disk EXCEPT ![view] = Saved(listed, denied')]
  BY DEF OnVerified
<1>2. \A k \in dropped : ~AlwaysOf(chain, view, k)
  <2>1. v.out # <<>>
    BY DEF OnVerified
  <2>2. OwnersTrue(chain, m)
    BY <2>1, TailTold
  <2>3. \A k \in dropped : k \in DOMAIN m.states /\ m.states[k] \notin {Unknown, view}
    BY DEF Disowned
  <2> HIDE DEF m, dropped
  <2> QED
    BY <2>2, <2>3 DEF AlwaysOf, OwnersTrue
<1>3. n \notin denied /\ n \notin dropped
  BY <1>2 DEF KeptInCache, AlwaysOf, Height, NamesInv, ListedTrue, DeniedWasNot
<1>4. listed \in Listings /\ listed[n] # None
  BY DEF KeptInCache, AlwaysOf, Height, NamesInv, NameTypes, ListedTrue, RememberedListed
<1>5. view \in Accounts /\ disk \in [Accounts -> {NoFile} \union Listings]
  BY DEF KeptInCache, NamesInv, NameTypes
<1> HIDE DEF dropped, mine
<1>6. CASE disk' = disk
  BY <1>6 DEF KeptInCache
<1>7. CASE disk' = [disk EXCEPT ![view] = Saved(listed, denied')] /\ n \notin denied'
  BY <1>4, <1>5, <1>7, SavedKeeps
<1> QED
  BY <1>1, <1>3, <1>6, <1>7

LEMMA ListingKeepsCache ==
    ASSUME NamesInv, NEW n \in Names, KeptInCache(n), NEW d \in discoveries, NamesReady(d)
    PROVE  disk'[view][n] # None
<1> DEFINE pend == {k \in added : d.found[k] = None}
           list == Listing(d.found, pend, remembered, denied)
<1>1. disk' = disk \/ disk' = [disk EXCEPT ![view] = Saved(list, denied)]
  BY DEF NamesReady
<1>2. d.found \in Listings
  BY DEF NamesReady, NamesInv, WorkerTypes, Discoverers
<1>3. n \notin denied /\ n \in remembered
  BY DEF KeptInCache, AlwaysOf, Height, NamesInv, ListedTrue, DeniedWasNot
<1>4. list \in Listings /\ list[n] # None
  BY <1>2, <1>3, ListingTyped, ListingKeeps
<1>5. view \in Accounts /\ disk \in [Accounts -> {NoFile} \union Listings]
  BY DEF KeptInCache, NamesInv, NameTypes
<1> HIDE DEF list
<1>6. CASE disk' = disk
  BY <1>6 DEF KeptInCache
<1>7. CASE disk' = [disk EXCEPT ![view] = Saved(list, denied)]
  BY <1>3, <1>4, <1>5, <1>7, SavedKeeps
<1> QED
  BY <1>1, <1>6, <1>7

LEMMA RemovalKeepsCache ==
    ASSUME NamesInv, NEW n \in Names, KeptInCache(n), NEW w \in writes, MarkRemoved(w)
    PROVE  disk'[view][n] # None
<1>1. view \in Accounts /\ disk \in [Accounts -> {NoFile} \union Listings]
  BY DEF KeptInCache, NamesInv, NameTypes
<1>2. w.block \in 1 .. Len(chain) /\ chain[w.block].owner[w.name] = Nobody
  BY DEF MarkRemoved, NamesInv, ReadsTrue, Removed
<1>3. w.name # n
  BY <1>1, <1>2, EnsAssumption DEF KeptInCache, Height
<1>4. disk' = [a \in Accounts |->
          IF disk[a] = NoFile THEN NoFile ELSE [disk[a] EXCEPT ![w.name] = None]]
  BY DEF MarkRemoved
<1>5. disk[view] \in Listings /\ disk[view][n] # None
  BY <1>1 DEF KeptInCache
<1>6. disk'[view] = [disk[view] EXCEPT ![w.name] = None]
  BY <1>1, <1>4 DEF KeptInCache
<1> QED
  BY <1>3, <1>5, <1>6 DEF Listings

\* No step takes a remembered name the account has always owned out of its
\* cache, however few sources return it and however many reads fail.
\* (_on_names_ready, _on_verified, _mark_removed)
THEOREM RemembersOwned == Spec => RememberedStays
<1>1. ASSUME NamesInv, [Next]_vars, NEW n \in Names, KeptInCache(n)
      PROVE  disk'[view][n] # None
  <2>1. CASE UNCHANGED disk
    BY <1>1, <2>1 DEF KeptInCache
  <2>2. \/ UNCHANGED disk
        \/ \E d \in discoveries : NamesReady(d)
        \/ \E v \in verifiers : OnVerified(v)
        \/ \E w \in writes : MarkRemoved(w)
    BY ZenonT(60), <1>1 DEF Next, WorkerNext, Load, AddCustom, DiscoveryReads, FastStates, ProvenStates,
       VerifierEnds, VerifierStep, FastRecords, ProvenRecords, ReaderEnds, ReaderStep,
       OnRecordsReady, RecordsRequested, WriteMines, Reverted, MarkAdded, ApplySetManager,
       ApplyRecordChange, ChainMoves, vars, names
  <2> QED
    BY <1>1, <2>1, <2>2, ListingKeepsCache, VerifyKeepsCache, RemovalKeepsCache
<1>2. NamesInv /\ [Next]_vars =>
        [\A n \in Names :
           /\ view # None /\ n \in remembered /\ disk[view] # NoFile
           /\ disk[view][n] # None
           /\ \A b \in 1 .. Height : chain[b].owner[n] = view
           => disk'[view][n] # None]_vars
  BY <1>1 DEF KeptInCache
<1> QED
  BY <1>2, NamesInvariance, PTL DEF Spec, RememberedStays

-----------------------------------------------------------------------------
(* Writes: the inductive invariant.                                        *)

Roles == [controller : Values, registrant : Values, wrapped : BOOLEAN, current : BOOLEAN,
          resolver : BOOLEAN]
ChainBlocks == [role : [BothNames -> Roles], rec : [BothNames -> [Keys -> Values]], exp : Nat]

RecordOps == {"record", "removeRecord"}
Ops == AccountOps \cup RemoveOps \cup RecordOps \cup {"renew", "setResolver"}
ComposerTypes ==
    [op : Ops, name : BothNames, wrapped : BOOLEAN, row : Keys, key : Keys, base : Nat,
     stage : {"open", "signing"}, changed : Values, input : Values]

WriteTypes ==
    /\ blocks \in Seq(ChainBlocks) /\ blocks # <<>>
    /\ ownership \in [BothNames -> [{"controller", "registrant"} -> [who : Values, at : Nat]]]
    /\ expiry \in [val : Nat, at : Nat]
    /\ recCache \in [BothNames -> [block : Nat, verified : BOOLEAN,
                                   rec : [Keys -> [val : Values, at : Nat]]]]
    /\ lines \subseteq BothNames
    /\ composers \subseteq ComposerTypes /\ sent \in Seq(ComposerTypes)
    /\ \A r \in receipts : r.t \in ComposerTypes

\* The subname's actions are on the subname.
OfSub(c) == c.op \in RemoveOps \cup {"addSubnode"} => c.name = Sub

\* What is signed was noted as it was built.
NotedAsBuilt(c) == Builds(c) /\ c.changed = c.input

\* What a successful transaction did is what its callback will show.
Did(b, t) ==
    /\ t.op \in ManagerOps \cup {"addSubnode"} => b.role[t.name].controller = t.changed
    /\ t.op = "transfer" =>
          /\ b.role[t.name].registrant = t.changed
          /\ t.wrapped => b.role[t.name].controller = t.changed
    /\ t.op = "record" => b.rec[t.name][t.key] = t.changed
    /\ t.op = "removeRecord" => b.rec[t.name][t.key] = Empty

Signed1 ==
    /\ \A c \in composers : OfSub(c) /\ (c.stage = "signing" => NotedAsBuilt(c))
    /\ \A i \in DOMAIN sent : OfSub(sent[i]) /\ NotedAsBuilt(sent[i])

Mined ==
    \A r \in receipts : /\ OfSub(r.t) /\ r.block \in 1 .. Len(blocks)
                        /\ r.ok => Did(blocks[r.block], r.t)

RoleTrue(bs, n, f, s) == s # Unread => s.at \in 1 .. Len(bs) /\ s.who = bs[s.at].role[n][f]
RecordTrue(bs, n, k, s) == s.at # 0 => s.at \in 1 .. Len(bs) /\ s.val = bs[s.at].rec[n][k]
RolesTrue(bs, ow) ==
    \A n \in BothNames : \A f \in {"controller", "registrant"} : RoleTrue(bs, n, f, ow[n][f])
RecordsTrue(bs, rc) ==
    \A n \in BothNames, k \in Keys : RecordTrue(bs, n, k, rc[n].rec[k])

WritesInv ==
    /\ WriteTypes /\ Signed1 /\ Mined
    /\ RolesTrue(blocks, ownership) /\ RecordsTrue(blocks, recCache)

-----------------------------------------------------------------------------
(* What is offered. *)

\* An action offered is one of six kinds, each with the roles it was offered for.
LEMMA OfferKinds ==
    ASSUME NEW g, NEW res, NEW rows, NEW o \in Offers(g, res, rows)
    PROVE  \/ /\ o.op \in RecordOps \cup {"setResolver"}
              /\ o.name \in BothNames /\ o.name \in g.controller /\ o.name \in rows
           \/ o.op = "addSubnode" /\ o.name = Sub /\ Name \in g.controller
           \/ o.op = "renew" /\ o.name = Name
           \/ o.op = "transfer" /\ o.name = Name /\ Name \in g.registrant
           \/ o.name \in rows /\ o.op = ManagerOp(g, o.name) /\ o.op # "none"
           \/ o.name = Sub /\ o.op = RemoveOp(g) /\ o.op # "none"
<1> DEFINE has(n) == n \in g.controller \cap rows
           kind(ops, n) == {[op |-> x, name |-> n] : x \in ops \ {"none"}}
           rec(n) == kind(IF ~has(n) THEN {} ELSE IF n \in res THEN {"record", "removeRecord"}
                                                  ELSE {"setResolver"}, n)
           sub == kind(IF has(Name) THEN {"addSubnode"} ELSE {}, Sub)
           term == kind(IF Name \in g.controller \cup g.registrant THEN {"renew"} ELSE {}, Name)
           give == kind(IF Name \in g.registrant THEN {"transfer"} ELSE {}, Name)
           man(n) == kind({ManagerOp(g, n)}, n)
           rem == IF Sub \in rows THEN kind({RemoveOp(g)}, Sub) ELSE {}
           edits == UNION {rec(n) : n \in BothNames}
           mans == UNION {man(n) : n \in rows}
<1>k. \A ops, n : o \in kind(ops, n) => o.op \in ops /\ o.op # "none" /\ o.name = n
  OBVIOUS
<1>o. Offers(g, res, rows) = edits \cup sub \cup term \cup give \cup mans \cup rem
  BY DEF Offers
<1>h. \A n : has(n) <=> n \in g.controller /\ n \in rows
  OBVIOUS
<1> HIDE DEF kind, has
<1>1. ASSUME NEW n \in BothNames, o \in rec(n)
      PROVE  /\ o.op \in RecordOps \cup {"setResolver"}
             /\ o.name \in BothNames /\ o.name \in g.controller /\ o.name \in rows
  BY <1>1, <1>k, <1>h DEF RecordOps
<1>2. o \in sub => o.op = "addSubnode" /\ o.name = Sub /\ Name \in g.controller
  BY <1>k, <1>h
<1>3. o \in term => o.op = "renew" /\ o.name = Name
  BY <1>k
<1>4. o \in give => o.op = "transfer" /\ o.name = Name /\ Name \in g.registrant
  BY <1>k
<1>5. ASSUME NEW n \in rows, o \in man(n)
      PROVE  o.name \in rows /\ o.op = ManagerOp(g, o.name) /\ o.op # "none"
  BY <1>5, <1>k
<1>6. o \in rem => o.name = Sub /\ o.op = RemoveOp(g) /\ o.op # "none"
  BY <1>k
<1> HIDE DEF rec, sub, term, give, man, rem, edits, mans
<1>7. \/ \E n \in BothNames : o \in rec(n)
      \/ o \in sub \/ o \in term \/ o \in give \/ o \in rem
      \/ \E n \in rows : o \in man(n)
  <2>1. o \in edits => \E n \in BothNames : o \in rec(n)
    BY Zenon DEF edits
  <2>2. o \in mans => \E n \in rows : o \in man(n)
    BY Zenon DEF mans
  <2>4. o \in edits \cup sub \cup term \cup give \cup mans \cup rem
    BY <1>o
  <2> QED
    BY <2>1, <2>2, <2>4
<1> QED
  BY <1>1, <1>2, <1>3, <1>4, <1>5, <1>6, <1>7

\* A manager is set by the builder the account's role allows.
LEMMA ManagerKinds ==
    ASSUME NEW g, NEW n \in BothNames
    PROVE  \/ ManagerOp(g, n) = "setOwner" /\ n \in OwnerSettable(g)
           \/ /\ ManagerOp(g, n) = "reclaim"
              /\ n = Name /\ n \in g.registrant \ g.wrapped
           \/ ManagerOp(g, n) = "setSubnodeOwner" /\ n \in SubnodeManageable(g)
           \/ ManagerOp(g, n) = "setWrappedSubnodeOwner" /\ n \in WrappedSubnodeManageable(g)
           \/ ManagerOp(g, n) = "none"
BY DEF ManagerOp

LEMMA RemoveKinds ==
    ASSUME NEW g
    PROVE  \/ RemoveOp(g) = "removeSubnode" /\ Sub \in SubnodeManageable(g)
           \/ /\ RemoveOp(g) = "removeWrappedSubnode"
              /\ Sub \in g.wrapped /\ Name \in g.controller /\ Name \in g.wrapped
           \/ RemoveOp(g) = "relinquish" /\ Sub \in OwnerSettable(g)
           \/ RemoveOp(g) = "none"
BY DEF RemoveOp

LEMMA WrapType == ASSUME NEW g, NEW o PROVE WrapOf(g, o) \in BOOLEAN
<1>1. CASE o.op = "addSubnode"
  <2>1. WrapOf(g, o) = (Name \in g.wrapped)
    BY <1>1 DEF WrapOf
  <2> QED
    BY <2>1
<1>2. CASE o.op # "addSubnode"
  <2>1. WrapOf(g, o) = (o.name \in g.wrapped)
    BY <1>2 DEF WrapOf
  <2> QED
    BY <2>1
<1> QED
  BY <1>1, <1>2

\* With the roles of the chain, each is a call the contracts let the account make.
LEMMA KindsAuthorised ==
    ASSUME NEW b \in ChainBlocks, NEW res, NEW rows \in SUBSET BothNames,
           NEW o \in Offers(SetsOf(b), res, rows)
    PROVE  \/ Authorised(b, [op |-> o.op, name |-> o.name, wrapped |-> WrapOf(SetsOf(b), o)])
           \/ o.op = "setResolver" \/ (o.op = "addSubnode" /\ Name \notin SetsOf(b).current)
<1> DEFINE g == SetsOf(b)
           w == WrapOf(g, o)
           t == [op |-> o.op, name |-> o.name, wrapped |-> w]
<1>t. t.op = o.op /\ t.name = o.name /\ t.wrapped = w
  OBVIOUS
<1>r. \A n \in BothNames : /\ b.role[n] \in Roles
                           /\ n \in g.controller <=> b.role[n].controller = Me
                           /\ n \in g.registrant <=> b.role[n].registrant = Me
                           /\ n \in g.wrapped <=> b.role[n].wrapped
                           /\ n \in g.current <=> b.role[n].current
  BY DEF ChainBlocks, SetsOf
<1>n. Name \in BothNames /\ Sub \in BothNames /\ Name # Sub
  BY DEF BothNames, Name, Sub
<1>a. t.op = "addSubnode" => (t.wrapped <=> b.role[Name].wrapped)
  BY <1>r, <1>n, <1>t DEF WrapOf
<1>b. t.op # "addSubnode" /\ t.name \in BothNames => (t.wrapped <=> b.role[t.name].wrapped)
  BY <1>r, <1>n, <1>t DEF WrapOf
<1>c. t.wrapped \in BOOLEAN
  <2>1. w \in BOOLEAN
    BY WrapType
  <2> QED
    BY <2>1, <1>t
<1> HIDE DEF g, w, t
<1> SUFFICES \/ Authorised(b, t)
             \/ o.op = "setResolver" \/ (o.op = "addSubnode" /\ Name \notin g.current)
  BY DEF t, w, g
<1>1. CASE o.op \in RecordOps \cup {"setResolver"} /\ o.name \in BothNames /\ o.name \in g.controller
  BY <1>1, <1>r, <1>t DEF Authorised, RecordOps
<1>2. CASE o.op = "addSubnode" /\ o.name = Sub /\ Name \in g.controller
  BY <1>2, <1>r, <1>t, <1>n, <1>a DEF Authorised
<1>3. CASE o.op = "renew" /\ o.name = Name
  BY <1>3, <1>t DEF Authorised
<1>4. CASE o.op = "transfer" /\ o.name = Name /\ Name \in g.registrant
  <2>1. b.role[Name].wrapped \in BOOLEAN
    BY <1>r, <1>n DEF Roles
  <2>2. b.role[Name].wrapped = t.wrapped
    BY <2>1, <1>4, <1>b, <1>c, <1>t, <1>n
  <2> QED
    BY <2>2, <1>4, <1>r, <1>t, <1>n DEF Authorised
<1>5. CASE o.name \in rows /\ o.op = ManagerOp(g, o.name) /\ o.op # "none"
  <2>1. o.name \in BothNames
    BY <1>5
  <2>2. CASE o.op = "setOwner" /\ o.name \in OwnerSettable(g)
    BY <2>1, <2>2, <1>r, <1>t DEF Authorised, OwnerSettable
  <2>3. CASE o.op = "reclaim" /\ o.name = Name /\ o.name \in g.registrant \ g.wrapped
    BY <2>1, <2>3, <1>r, <1>t DEF Authorised
  <2>4. CASE o.op = "setSubnodeOwner" /\ o.name \in SubnodeManageable(g)
    BY <2>1, <2>4, <1>r, <1>t, <1>n DEF Authorised, SubnodeManageable
  <2>5. CASE o.op = "setWrappedSubnodeOwner" /\ o.name \in WrappedSubnodeManageable(g)
    BY <2>1, <2>5, <1>r, <1>t, <1>n DEF Authorised, WrappedSubnodeManageable
  <2> QED
    BY <1>5, <2>1, <2>2, <2>3, <2>4, <2>5, ManagerKinds
<1>6. CASE o.name = Sub /\ o.op = RemoveOp(g) /\ o.op # "none"
  <2>2. CASE o.op = "removeSubnode" /\ Sub \in SubnodeManageable(g)
    BY <1>6, <2>2, <1>r, <1>t, <1>n DEF Authorised, SubnodeManageable
  <2>3. CASE /\ o.op = "removeWrappedSubnode"
             /\ Sub \in g.wrapped /\ Name \in g.controller /\ Name \in g.wrapped
    BY <1>6, <2>3, <1>r, <1>t, <1>n DEF Authorised
  <2>4. CASE o.op = "relinquish" /\ Sub \in OwnerSettable(g)
    BY <1>6, <2>4, <1>r, <1>t, <1>n DEF Authorised, OwnerSettable
  <2> QED
    BY <1>6, <2>2, <2>3, <2>4, RemoveKinds
<1> QED
  BY <1>1, <1>2, <1>3, <1>4, <1>5, <1>6, OfferKinds DEF g

\* What is offered is an action of the tab on a name of it, and the subname's
\* actions are on the subname.
LEMMA OffersOf ==
    ASSUME NEW g, NEW res, NEW rows \in SUBSET BothNames, NEW o \in Offers(g, res, rows)
    PROVE  o.op \in Ops /\ o.name \in BothNames /\ OfSub(o)
<1>n. Name \in BothNames /\ Sub \in BothNames
  BY DEF BothNames
<1>1. CASE o.name \in rows /\ o.op = ManagerOp(g, o.name) /\ o.op # "none"
  BY <1>1, ManagerKinds DEF Ops, AccountOps, ManagerOps, OfSub, RemoveOps
<1>2. CASE o.name = Sub /\ o.op = RemoveOp(g) /\ o.op # "none"
  BY <1>2, <1>n, RemoveKinds DEF Ops, RemoveOps, OfSub
<1> QED
  BY <1>1, <1>2, <1>n, OfferKinds DEF Ops, AccountOps, RecordOps, OfSub, RemoveOps

-----------------------------------------------------------------------------
(* The composer's steps. *)

LEMMA TermType == \A i : Term(i) \in Nat
BY DEF Term

\* A dialog is a typed one, on the subname where its action is the subname's,
\* and what it signs was noted.
GoodComposer(c) == c \in ComposerTypes /\ OfSub(c) /\ (c.stage = "signing" => NotedAsBuilt(c))

LEMMA NotedIs ==
    ASSUME NEW c \in ComposerTypes, OfSub(c)
    PROVE  /\ Noted(c) \in ComposerTypes /\ OfSub(Noted(c))
           /\ Noted(c).stage = c.stage
           /\ Builds(c) => NotedAsBuilt(Noted(c))
<1> DEFINE d == [c EXCEPT !.changed = c.input]
<1>1. /\ d \in ComposerTypes /\ d.op = c.op /\ d.name = c.name /\ d.stage = c.stage
      /\ d.changed = c.input /\ d.input = c.input /\ d.key = c.key
  BY DEF ComposerTypes
<1>2. Noted(c) = d \/ (Noted(c) = c /\ ~Builds(c))
  BY DEF Noted
<1> HIDE DEF d
<1> QED
  BY <1>1, <1>2 DEF OfSub, NotedAsBuilt, Builds

\* Every step of the composers leaves good ones, and sends one that was noted.
ComposersGood == \A c \in composers : GoodComposer(c)
SentGood == sent \in Seq(ComposerTypes) /\ \A i \in DOMAIN sent : OfSub(sent[i]) /\ NotedAsBuilt(sent[i])

LEMMA OpenGood ==
    ASSUME ComposersGood, expiry \in [val : Nat, at : Nat], lines \subseteq BothNames,
           NEW o \in Offers(sets, resolvers, lines), NEW k \in Keys, Open(o, k)
    PROVE  ComposersGood'
<1> DEFINE c == [op |-> o.op, name |-> o.name, wrapped |-> WrapOf(sets, o),
                 row |-> k, key |-> IF o.op = "removeRecord" THEN RowTaken(k) ELSE k,
                 base |-> IF expiry.val = NoExpiry THEN Now ELSE expiry.val,
                 stage |-> "open", changed |-> Bad, input |-> Bad]
<1>1. /\ c.op = o.op /\ c.name = o.name /\ c.stage = "open"
      /\ c \in ComposerTypes
  <2>1. o.op \in Ops /\ o.name \in BothNames
    BY OffersOf
  <2>2. WrapOf(sets, o) \in BOOLEAN
    BY WrapType
  <2>3. RowTaken(k) \in Keys
    BY DEF RowTaken, Keys
  <2>4. (IF expiry.val = NoExpiry THEN Now ELSE expiry.val) \in Nat
    BY DEF Now
  <2>5. Bad \in Values
    BY DEF Values
  <2> QED
    BY <2>1, <2>2, <2>3, <2>4, <2>5 DEF ComposerTypes
<1>2. OfSub(c)
  BY <1>1, OffersOf DEF OfSub
<1>3. \E i \in Inputs(c) : composers' = composers \cup {Noted([c EXCEPT !.input = i])}
  BY DEF Open
<1> HIDE DEF c
<1> PICK i \in Inputs(c) : composers' = composers \cup {Noted([c EXCEPT !.input = i])}
  BY <1>3
<1> DEFINE d == [c EXCEPT !.input = i]
<1>4. i \in Values
  BY <1>1 DEF Inputs, Values
<1>5. d \in ComposerTypes /\ d.op = c.op /\ d.name = c.name /\ d.stage = "open"
  BY <1>1, <1>4 DEF ComposerTypes
<1> HIDE DEF d
<1>6. OfSub(d)
  BY <1>2, <1>5 DEF OfSub
<1>7. GoodComposer(Noted(d))
  BY <1>5, <1>6, NotedIs DEF GoodComposer
<1> QED
  BY <1>7 DEF ComposersGood, d

LEMMA ComposerStep ==
    ASSUME ComposersGood, SentGood, NEW c \in composers,
           Edit(c) \/ Confirm0(c) \/ SigningFails(c) \/ Close(c) \/ Broadcast0(c)
    PROVE  ComposersGood' /\ SentGood'
<1>c. GoodComposer(c) /\ c \in ComposerTypes
  BY DEF ComposersGood, GoodComposer
<1>1. ASSUME NEW d, GoodComposer(d), Become(c, d)
      PROVE  ComposersGood' /\ SentGood'
  BY <1>1 DEF Become, ComposersGood, SentGood
<1>2. CASE Edit(c)
  <2> PICK i \in Inputs(c) \ {c.input} : Become(c, Noted([c EXCEPT !.input = i]))
    BY <1>2 DEF Edit
  <2> DEFINE d == [c EXCEPT !.input = i]
  <2>1. i \in Values
    BY <1>c DEF Inputs, Values, ComposerTypes
  <2>2. d \in ComposerTypes /\ d.op = c.op /\ d.name = c.name /\ d.stage = "open"
    BY <1>2, <1>c, <2>1 DEF ComposerTypes, Edit
  <2>3. Become(c, Noted(d))
    OBVIOUS
  <2> HIDE DEF d
  <2>4. OfSub(d)
    BY <1>c, <2>2 DEF OfSub, GoodComposer
  <2>5. GoodComposer(Noted(d))
    BY <2>2, <2>4, NotedIs DEF GoodComposer
  <2> QED
    BY <2>3, <2>5, <1>1
<1>3. CASE Confirm0(c)
  <2> DEFINE e == Noted(c)
             d == [e EXCEPT !.stage = "signing"]
  <2>1. e \in ComposerTypes /\ OfSub(e) /\ NotedAsBuilt(e)
    BY <1>3, <1>c, NotedIs DEF Confirm0, GoodComposer
  <2>2. Become(c, d)
    BY <1>3 DEF Confirm0
  <2> HIDE DEF e
  <2>3. d \in ComposerTypes /\ d.op = e.op /\ d.name = e.name /\ d.input = e.input
        /\ d.changed = e.changed /\ d.key = e.key
    BY <2>1 DEF ComposerTypes
  <2> HIDE DEF d
  <2>4. GoodComposer(d)
    BY <2>1, <2>3 DEF GoodComposer, OfSub, NotedAsBuilt, Builds
  <2> QED
    BY <2>2, <2>4, <1>1
<1>4. CASE SigningFails(c)
  <2> DEFINE d == [c EXCEPT !.stage = "open"]
  <2>1. d \in ComposerTypes /\ d.op = c.op /\ d.name = c.name /\ d.stage = "open"
    BY <1>c DEF ComposerTypes
  <2>2. Become(c, d)
    BY <1>4 DEF SigningFails
  <2> HIDE DEF d
  <2>3. GoodComposer(d)
    BY <1>c, <2>1 DEF GoodComposer, OfSub
  <2> QED
    BY <2>2, <2>3, <1>1
<1>5. CASE Close(c)
  BY <1>5 DEF Close, ComposersGood, SentGood
<1>6. CASE Broadcast0(c)
  <2>1. sent' = Append(sent, c) /\ composers' = composers \ {c} /\ NotedAsBuilt(c) /\ OfSub(c)
    BY <1>6, <1>c DEF Broadcast0, GoodComposer
  <2>2. sent \in Seq(ComposerTypes) /\ c \in ComposerTypes
    BY <1>c DEF SentGood
  <2>3. /\ Append(sent, c) \in Seq(ComposerTypes)
        /\ \A i \in DOMAIN Append(sent, c) :
              Append(sent, c)[i] = c \/ (i \in DOMAIN sent /\ Append(sent, c)[i] = sent[i])
    BY <2>2, AppendProperties
  <2> QED
    BY <2>1, <2>3 DEF ComposersGood, SentGood
<1> QED
  BY <1>2, <1>3, <1>4, <1>5, <1>6

-----------------------------------------------------------------------------
(* The chain grows: what was true of a block stays true of it. *)

LEMMA EffectDoes ==
    ASSUME NEW b \in ChainBlocks, NEW t \in ComposerTypes, OfSub(t), NotedAsBuilt(t)
    PROVE  Effect(b, t) \in ChainBlocks /\ Did(Effect(b, t), t)
<1>t. /\ t.op \in Ops /\ t.name \in BothNames /\ t.key \in Keys /\ t.input \in Values
      /\ t.wrapped \in BOOLEAN /\ t.changed = t.input /\ Sub \in BothNames
  BY DEF ComposerTypes, NotedAsBuilt, BothNames
<1>b. /\ b.role \in [BothNames -> Roles] /\ b.rec \in [BothNames -> [Keys -> Values]]
      /\ b.exp \in Nat /\ \A n \in BothNames : b.role[n] \in Roles /\ b.rec[n] \in [Keys -> Values]
  BY DEF ChainBlocks
<1>v. Empty \in Values /\ NoOne \in Values
  BY DEF Values
<1> DEFINE set == [b EXCEPT !.rec[t.name][t.key] = t.input]
           unset == [b EXCEPT !.rec[t.name][t.key] = Empty]
           resolved == [b EXCEPT !.role[t.name].resolver = TRUE]
           renewed == [b EXCEPT !.exp = @ + Term(t.input)]
           passed == [b EXCEPT !.role[t.name] =
                        [@ EXCEPT !.registrant = t.input,
                                  !.controller = IF t.wrapped THEN t.input ELSE b.role[t.name].controller]]
           managed == [b EXCEPT !.role[t.name] = [@ EXCEPT !.controller = t.input, !.current = TRUE]]
           new == [Gone EXCEPT !.controller = t.input, !.wrapped = t.wrapped,
                               !.current = TRUE, !.resolver = TRUE]
           subbed == [b EXCEPT !.role[Sub] = new]
           removed == [b EXCEPT !.role[Sub] = Gone]
<1>e. /\ t.op = "record" => Effect(b, t) = set
      /\ t.op = "removeRecord" => Effect(b, t) = unset
      /\ t.op = "setResolver" => Effect(b, t) = resolved
      /\ t.op = "renew" => Effect(b, t) = renewed
      /\ t.op = "transfer" => Effect(b, t) = passed
      /\ t.op \in ManagerOps => Effect(b, t) = managed
      /\ t.op = "addSubnode" => Effect(b, t) = subbed
      /\ t.op \in RemoveOps => Effect(b, t) = removed
  <2>1. Effect(b, t) =
            CASE t.op = "record" -> set
              [] t.op = "removeRecord" -> unset
              [] t.op = "setResolver" -> resolved
              [] t.op = "renew" -> renewed
              [] t.op = "transfer" -> passed
              [] t.op \in ManagerOps -> managed
              [] t.op = "addSubnode" -> subbed
              [] t.op \in RemoveOps -> removed
    BY DEF Effect
  <2> HIDE DEF set, unset, resolved, renewed, passed, managed, subbed, removed
  <2> QED
    BY <2>1 DEF ManagerOps, RemoveOps
<1> HIDE DEF set, unset, resolved, renewed, passed, managed, new, subbed, removed
<1>1. CASE t.op \in RecordOps
  <2>1. set \in ChainBlocks /\ set.rec[t.name][t.key] = t.input
    BY <1>b, <1>t DEF ChainBlocks, set
  <2>2. unset \in ChainBlocks /\ unset.rec[t.name][t.key] = Empty
    BY <1>b, <1>t, <1>v DEF ChainBlocks, unset
  <2> QED
    BY <1>1, <1>e, <1>t, <2>1, <2>2 DEF Did, RecordOps, ManagerOps
<1>2. CASE t.op = "setResolver"
  <2>1. resolved \in ChainBlocks
    BY <1>b, <1>t DEF ChainBlocks, Roles, resolved
  <2> QED
    BY <1>2, <1>e, <2>1 DEF Did, ManagerOps
<1>3. CASE t.op = "renew"
  <2>1. renewed \in ChainBlocks
    BY <1>b, TermType DEF ChainBlocks, renewed
  <2> QED
    BY <1>3, <1>e, <2>1 DEF Did, ManagerOps
<1>4. CASE t.op = "transfer"
  <2> DEFINE c == IF t.wrapped THEN t.input ELSE b.role[t.name].controller
             r == [b.role[t.name] EXCEPT !.registrant = t.input, !.controller = c]
  <2>1. c \in Values /\ (t.wrapped => c = t.changed)
    BY <1>b, <1>t DEF Roles
  <2>2. passed = [b EXCEPT !.role[t.name] = r]
    BY <1>b, <1>t DEF passed
  <2> HIDE DEF c
  <2>3. r \in Roles /\ r.registrant = t.changed /\ r.controller = c
    BY ZenonT(60), <2>1, <1>b, <1>t DEF Roles
  <2> HIDE DEF r
  <2>4. passed \in ChainBlocks /\ passed.role[t.name] = r
    BY <2>2, <2>3, <1>b, <1>t DEF ChainBlocks
  <2> QED
    BY <1>4, <1>e, <2>1, <2>3, <2>4 DEF Did, ManagerOps
<1>5. CASE t.op \in ManagerOps
  <2> DEFINE r == [b.role[t.name] EXCEPT !.controller = t.input, !.current = TRUE]
  <2>1. managed = [b EXCEPT !.role[t.name] = r]
    BY <1>b, <1>t DEF managed
  <2>2. r \in Roles /\ r.controller = t.changed
    BY <1>b, <1>t DEF Roles
  <2> HIDE DEF r
  <2>3. managed \in ChainBlocks /\ managed.role[t.name] = r
    BY <2>1, <2>2, <1>b, <1>t DEF ChainBlocks
  <2> QED
    BY <1>5, <1>e, <2>2, <2>3 DEF Did, ManagerOps
<1>6. CASE t.op \in RemoveOps \cup {"addSubnode"}
  <2>1. Gone \in Roles
    BY <1>v DEF Gone, Roles
  <2>2. new \in Roles /\ new.controller = t.changed
    BY <2>1, <1>t DEF Roles, new
  <2>3. subbed \in ChainBlocks /\ subbed.role[Sub] = new /\ removed \in ChainBlocks
    BY <2>1, <2>2, <1>b, <1>t DEF ChainBlocks, subbed, removed
  <2>4. t.name = Sub
    BY <1>6 DEF OfSub
  <2> QED
    BY <1>6, <1>e, <2>2, <2>3, <2>4 DEF Did, ManagerOps, RemoveOps
<1> QED
  BY <1>1, <1>2, <1>3, <1>4, <1>5, <1>6, <1>t DEF Ops, AccountOps

\* A longer chain says of its earlier blocks what it said.
LEMMA LongerChain ==
    ASSUME blocks \in Seq(ChainBlocks), blocks # <<>>, NEW e \in ChainBlocks,
           blocks' = Append(blocks, e)
    PROVE  /\ blocks' \in Seq(ChainBlocks) /\ blocks' # <<>>
           /\ Len(blocks') = Len(blocks) + 1 /\ blocks'[Len(blocks) + 1] = e
           /\ \A i \in 1 .. Len(blocks) : blocks'[i] = blocks[i] /\ i \in 1 .. Len(blocks')
           /\ RolesTrue(blocks, ownership) => RolesTrue(blocks', ownership)
           /\ RecordsTrue(blocks, recCache) => RecordsTrue(blocks', recCache)
<1>1. /\ blocks' \in Seq(ChainBlocks) /\ blocks' # <<>>
      /\ Len(blocks') = Len(blocks) + 1 /\ blocks'[Len(blocks) + 1] = e
      /\ \A i \in 1 .. Len(blocks) : blocks'[i] = blocks[i] /\ i \in 1 .. Len(blocks')
  BY AppendProperties
<1> QED
  BY <1>1 DEF RolesTrue, RecordsTrue, RoleTrue, RecordTrue

LEMMA WritesInitInv == WritesInit => WritesInv
<1> SUFFICES ASSUME WritesInit
             PROVE  WritesInv
  OBVIOUS
<1> PICK b \in Beginnings : blocks = <<b>>
  BY DEF WritesInit
<1>1. b \in ChainBlocks /\ Top = b /\ Len(blocks) = 1 /\ blocks[1] = b
  BY WritesAssumption DEF ChainBlocks, Roles, Top
<1>2. \A n \in BothNames : b.role[n] \in Roles
  BY <1>1 DEF ChainBlocks
<1>3. /\ ownership \in [BothNames -> [{"controller", "registrant"} -> [who : Values, at : Nat]]]
      /\ RolesTrue(blocks, ownership)
  <2>1. ownership = [n \in BothNames |-> [f \in {"controller", "registrant"} |->
                                             [who |-> b.role[n][f], at |-> 1]]]
    BY <1>1 DEF WritesInit
  <2>2. \A n \in BothNames, f \in {"controller", "registrant"} :
            b.role[n][f] \in Values
    BY <1>2 DEF Roles
  <2>3. ownership \in [BothNames -> [{"controller", "registrant"} -> [who : Values, at : Nat]]]
    BY <2>1, <2>2
  <2>4. \A n \in BothNames, f \in {"controller", "registrant"} :
            ownership[n][f] = [who |-> b.role[n][f], at |-> 1]
    BY <2>1
  <2>5. ASSUME NEW n \in BothNames, NEW f \in {"controller", "registrant"}
        PROVE  RoleTrue(blocks, n, f, ownership[n][f])
    <3> DEFINE s == ownership[n][f]
    <3>0. s = [who |-> b.role[n][f], at |-> 1]
      BY <2>4
    <3>1. s.who = b.role[n][f] /\ s.at = 1
      BY <3>0
    <3> HIDE DEF s
    <3>2. RoleTrue(blocks, n, f, s)
      BY <3>1, <1>1 DEF RoleTrue
    <3> QED
      BY <3>2 DEF s
  <2>6. RolesTrue(blocks, ownership)
    BY <2>5 DEF RolesTrue
  <2> QED
    BY <2>3, <2>6
<1>4. /\ recCache \in [BothNames -> [block : Nat, verified : BOOLEAN,
                                     rec : [Keys -> [val : Values, at : Nat]]]]
      /\ RecordsTrue(blocks, recCache)
  BY DEF WritesInit, RecordsTrue, RecordTrue, NotSet, Values
<1>5. expiry \in [val : Nat, at : Nat]
  BY <1>1 DEF WritesInit, NoExpiry, ChainBlocks
<1>6. lines \subseteq BothNames
  BY DEF WritesInit, BothNames
<1>7. blocks \in Seq(ChainBlocks) /\ blocks # <<>>
  BY <1>1
<1>8. composers = {} /\ sent = <<>> /\ receipts = {}
  BY DEF WritesInit
<1> QED
  BY <1>3, <1>4, <1>5, <1>6, <1>7, <1>8 DEF WritesInv, WriteTypes, Signed1, Mined

\* The parts of the invariant, by the state they speak of.
ChainGood == /\ blocks \in Seq(ChainBlocks) /\ blocks # <<>>
             /\ RolesTrue(blocks, ownership) /\ RecordsTrue(blocks, recCache)
             /\ (\A r \in receipts : r.t \in ComposerTypes) /\ Mined
PaneGood ==
    /\ ownership \in [BothNames -> [{"controller", "registrant"} -> [who : Values, at : Nat]]]
    /\ expiry \in [val : Nat, at : Nat] /\ lines \subseteq BothNames
    /\ recCache \in [BothNames -> [block : Nat, verified : BOOLEAN,
                                   rec : [Keys -> [val : Values, at : Nat]]]]

LEMMA WritesParts == WritesInv <=> ComposersGood /\ SentGood /\ ChainGood /\ PaneGood
BY DEF WritesInv, WriteTypes, Signed1, ComposersGood, SentGood, ChainGood, PaneGood, GoodComposer

LEMMA WritesPartsNext == ComposersGood' /\ SentGood' /\ ChainGood' /\ PaneGood' => WritesInv'
BY DEF WritesInv, WriteTypes, Signed1, ComposersGood, SentGood, ChainGood, PaneGood, GoodComposer

LEMMA ComposerKeeps ==
    ASSUME WritesInv, ComposerNext
    PROVE  WritesInv'
<1>0. ComposersGood /\ SentGood /\ ChainGood /\ PaneGood
  BY WritesParts
<1>1. ASSUME NEW o \in Offers(sets, resolvers, lines), NEW k \in Keys, Open(o, k)
      PROVE  ComposersGood' /\ SentGood' /\ UNCHANGED <<blocks, paneVars, receipts>>
  <2>1. ComposersGood'
    BY <1>0, <1>1, OpenGood DEF PaneGood
  <2> QED
    BY <1>0, <1>1, <2>1 DEF Open, SentGood
<1>2. ASSUME NEW c \in composers,
             Edit(c) \/ Confirm0(c) \/ SigningFails(c) \/ Close(c) \/ Broadcast0(c)
      PROVE  ComposersGood' /\ SentGood' /\ UNCHANGED <<blocks, paneVars, receipts>>
  <2>1. ComposersGood' /\ SentGood'
    BY <1>0, <1>2, ComposerStep
  <2> QED
    BY <1>2, <2>1 DEF Edit, Confirm0, SigningFails, Close, Broadcast0, Become
<1>3. ComposersGood' /\ SentGood' /\ UNCHANGED <<blocks, paneVars, receipts>>
  BY <1>1, <1>2 DEF ComposerNext
<1>4. ChainGood' /\ PaneGood'
  BY <1>0, <1>3 DEF ChainGood, PaneGood, paneVars, Mined
<1> QED
  BY <1>3, <1>4, WritesPartsNext

\* A block is mined: a transaction of the account's does what its callback
\* will show.
LEMMA MineKeeps ==
    ASSUME WritesInv, Mine
    PROVE  WritesInv'
<1>0. ComposersGood /\ SentGood /\ ChainGood /\ PaneGood
  BY WritesParts
<1> DEFINE t == Head(sent)
           ok == Authorised(Top, t)
           e == IF ok THEN Effect(Top, t) ELSE Top
           r == [t |-> t, ok |-> ok, block |-> Len(blocks) + 1]
<1>1. /\ sent # <<>> /\ blocks' = Append(blocks, e)
      /\ receipts' = receipts \cup {r}
      /\ sent' = Tail(sent) /\ UNCHANGED <<paneVars, composers>>
  BY DEF Mine
<1>2. t \in ComposerTypes /\ OfSub(t) /\ NotedAsBuilt(t)
  BY <1>0, <1>1 DEF SentGood
<1>3. Top \in ChainBlocks
  BY <1>0 DEF ChainGood, Top
<1>4. e \in ChainBlocks /\ (ok => Did(e, t))
  BY <1>2, <1>3, EffectDoes
<1>6. r.t = t /\ (r.ok <=> ok) /\ r.block = Len(blocks) + 1
  OBVIOUS
<1> HIDE DEF e, r, ok, t
<1>7. /\ blocks' \in Seq(ChainBlocks) /\ blocks' # <<>>
      /\ Len(blocks') = Len(blocks) + 1 /\ blocks'[Len(blocks) + 1] = e
      /\ \A i \in 1 .. Len(blocks) : blocks'[i] = blocks[i] /\ i \in 1 .. Len(blocks')
      /\ RolesTrue(blocks', ownership) /\ RecordsTrue(blocks', recCache)
  BY <1>0, <1>1, <1>4, LongerChain DEF ChainGood
<1>8. ChainGood'
  <2>1. \A x \in receipts' : x.t \in ComposerTypes
    BY <1>0, <1>1, <1>2, <1>6 DEF ChainGood
  <2>2. OfSub(r.t) /\ r.block \in 1 .. Len(blocks') /\ (r.ok => Did(blocks'[r.block], r.t))
    BY <1>0, <1>2, <1>4, <1>6, <1>7 DEF ChainGood
  <2>3. Mined'
    BY <1>0, <1>1, <1>7, <2>2 DEF ChainGood, Mined
  <2> QED
    BY <1>1, <1>7, <2>1, <2>3 DEF ChainGood, paneVars
<1>9. SentGood'
  <2>1. /\ Tail(sent) \in Seq(ComposerTypes)
        /\ \A i \in DOMAIN Tail(sent) : i + 1 \in DOMAIN sent /\ Tail(sent)[i] = sent[i + 1]
    BY <1>0, <1>1, HeadTailProperties DEF SentGood
  <2> QED
    BY <1>0, <1>1, <2>1 DEF SentGood
<1>10. ComposersGood' /\ PaneGood'
  BY <1>0, <1>1 DEF ComposersGood, PaneGood, paneVars
<1> QED
  BY <1>8, <1>9, <1>10, WritesPartsNext

LEMMA ElsewhereKeeps ==
    ASSUME WritesInv, Elsewhere
    PROVE  WritesInv'
<1>0. ComposersGood /\ SentGood /\ ChainGood /\ PaneGood
  BY WritesParts
<1>t. Top \in ChainBlocks
  BY <1>0 DEF ChainGood, Top
<1>v. Me \in Values /\ You \in Values /\ "w" \in Values /\ "content" \in Keys
  BY DEF Values, Keys
<1>1. \E e \in ChainBlocks : blocks' = Append(blocks, e)
  <2> PICK n \in BothNames, a \in {Me, You} :
          \/ blocks' = Append(blocks,
                   [Top EXCEPT !.role[n] =
                      [@ EXCEPT !.controller = a,
                                !.registrant = IF n = Name /\ Top.role[n].wrapped
                                               THEN a ELSE Top.role[n].registrant]])
          \/ blocks' = Append(blocks, [Top EXCEPT !.rec[n]["content"] = "w"])
    BY DEF Elsewhere
  <2> DEFINE r == [Top.role[n] EXCEPT !.controller = a,
                                      !.registrant = IF n = Name /\ Top.role[n].wrapped
                                                     THEN a ELSE Top.role[n].registrant]
  <2>3. r \in Roles
    BY ZenonT(60), <1>t, <1>v DEF ChainBlocks, Roles
  <2> HIDE DEF r
  <2>4. [Top EXCEPT !.role[n] = r] \in ChainBlocks
    BY <1>t, <2>3 DEF ChainBlocks
  <2>1. [Top EXCEPT !.role[n] =
           [@ EXCEPT !.controller = a,
                     !.registrant = IF n = Name /\ Top.role[n].wrapped
                                    THEN a ELSE Top.role[n].registrant]] \in ChainBlocks
    BY <2>4 DEF r
  <2>2. [Top EXCEPT !.rec[n]["content"] = "w"] \in ChainBlocks
    BY <1>t, <1>v DEF ChainBlocks
  <2> QED
    BY <2>1, <2>2
<1> PICK e \in ChainBlocks : blocks' = Append(blocks, e)
  BY <1>1
<1>2. UNCHANGED <<paneVars, composers, sent, receipts>>
  BY DEF Elsewhere
<1>3. ChainGood'
  BY <1>0, <1>2, LongerChain DEF ChainGood, Mined, paneVars
<1>4. ComposersGood' /\ SentGood' /\ PaneGood'
  BY <1>0, <1>2 DEF ComposersGood, SentGood, PaneGood, paneVars
<1> QED
  BY <1>3, <1>4, WritesPartsNext

-----------------------------------------------------------------------------
(* What is shown of a mined transaction, and what a read shows. *)

\* A role put on display is that of its block, and the others stay.
LEMMA RoleShownTrue ==
    ASSUME ChainGood, PaneGood, NEW n \in BothNames, NEW fields \in SUBSET {"controller", "registrant"},
           NEW who \in Values, NEW b \in 1 .. Len(blocks), RoleShown(n, fields, who, b),
           \A f \in fields : blocks[b].role[n][f] = who
    PROVE  /\ ownership' \in [BothNames -> [{"controller", "registrant"} -> [who : Values, at : Nat]]]
           /\ RolesTrue(blocks, ownership')
<1>1. CASE b < asOf[n]
  BY <1>1 DEF RoleShown, ChainGood, PaneGood
<1>2. CASE ~(b < asOf[n])
  <2> DEFINE old == ownership[n]
             new == [f \in DOMAIN old |-> IF f \in fields THEN [who |-> who, at |-> b] ELSE old[f]]
  <2>1. ownership' = [ownership EXCEPT ![n] = new]
    BY <1>2 DEF RoleShown
  <2>2. old \in [{"controller", "registrant"} -> [who : Values, at : Nat]]
    BY DEF PaneGood
  <2>3. b \in Nat
    BY DEF ChainGood
  <2> HIDE DEF old
  <2>4. /\ new \in [{"controller", "registrant"} -> [who : Values, at : Nat]]
        /\ \A f \in {"controller", "registrant"} :
              \/ f \in fields /\ new[f] = [who |-> who, at |-> b]
              \/ f \notin fields /\ new[f] = old[f]
    BY <2>2, <2>3
  <2> HIDE DEF new
  <2>5. ownership' \in [BothNames -> [{"controller", "registrant"} -> [who : Values, at : Nat]]]
    BY <2>1, <2>4 DEF PaneGood
  <2>6. \A m \in BothNames : ownership'[m] = IF m = n THEN new ELSE ownership[m]
    BY <2>1 DEF PaneGood
  <2>7. ASSUME NEW f \in {"controller", "registrant"}
        PROVE  RoleTrue(blocks, n, f, new[f])
    <3>1. RoleTrue(blocks, n, f, old[f])
      BY DEF ChainGood, RolesTrue, old
    <3>2. f \in fields => RoleTrue(blocks, n, f, [who |-> who, at |-> b])
      BY DEF RoleTrue
    <3> QED
      BY <2>4, <3>1, <3>2
  <2>8. RolesTrue(blocks, ownership')
    BY <2>6, <2>7 DEF ChainGood, RolesTrue
  <2> QED
    BY <2>5, <2>8
<1> QED
  BY <1>1, <1>2

LEMMA PushedTrue ==
    ASSUME ChainGood, PaneGood, NEW n \in BothNames, NEW k \in Keys, NEW v \in Values,
           NEW b \in 1 .. Len(blocks), Pushed0(n, k, v, b), blocks[b].rec[n][k] = v
    PROVE  /\ recCache' \in [BothNames -> [block : Nat, verified : BOOLEAN,
                                           rec : [Keys -> [val : Values, at : Nat]]]]
           /\ RecordsTrue(blocks, recCache')
<1> DEFINE old == recCache[n]
           rec == [old.rec EXCEPT ![k] = [val |-> v, at |-> b]]
           new == [block |-> IF b > old.block THEN b ELSE old.block, verified |-> FALSE,
                   rec |-> rec]
<1>1. recCache' = [recCache EXCEPT ![n] = new]
  BY DEF Pushed0
<1>2. old.block \in Nat /\ old.rec \in [Keys -> [val : Values, at : Nat]] /\ b \in Nat
  BY DEF PaneGood, ChainGood
<1> HIDE DEF old
<1>3. /\ rec \in [Keys -> [val : Values, at : Nat]]
      /\ \A j \in Keys : rec[j] = IF j = k THEN [val |-> v, at |-> b] ELSE old.rec[j]
  BY <1>2
<1> HIDE DEF rec
<1>4. new \in [block : Nat, verified : BOOLEAN, rec : [Keys -> [val : Values, at : Nat]]]
      /\ new.rec = rec
  BY <1>2, <1>3
<1> HIDE DEF new
<1>5. recCache' \in [BothNames -> [block : Nat, verified : BOOLEAN,
                                   rec : [Keys -> [val : Values, at : Nat]]]]
      /\ \A m \in BothNames : recCache'[m] = IF m = n THEN new ELSE recCache[m]
  BY <1>1, <1>4 DEF PaneGood
<1>6. ASSUME NEW j \in Keys
      PROVE  RecordTrue(blocks, n, j, rec[j])
  <2>1. RecordTrue(blocks, n, j, old.rec[j])
    BY DEF ChainGood, RecordsTrue, old
  <2>2. RecordTrue(blocks, n, k, [val |-> v, at |-> b])
    BY DEF RecordTrue
  <2> QED
    BY <1>3, <2>1, <2>2
<1>7. RecordsTrue(blocks, recCache')
  BY <1>4, <1>5, <1>6 DEF ChainGood, RecordsTrue
<1> QED
  BY <1>5, <1>7

LEMMA ConfirmedKeeps ==
    ASSUME WritesInv, NEW r \in receipts, Confirmed(r)
    PROVE  WritesInv'
<1>0. ComposersGood /\ SentGood /\ ChainGood /\ PaneGood
  BY WritesParts
<1> DEFINE t == r.t
           b == r.block
<1>1. t \in ComposerTypes /\ OfSub(t) /\ b \in 1 .. Len(blocks) /\ (r.ok => Did(blocks[b], t))
  BY <1>0 DEF ChainGood, Mined
<1>2. t.name \in BothNames /\ t.key \in Keys /\ t.changed \in Values /\ t.base \in Nat
      /\ Empty \in Values /\ Sub \in BothNames
  BY <1>1 DEF ComposerTypes, Values, BothNames
<1>3. receipts' = receipts \ {r} /\ UNCHANGED <<blocks, composers, sent>>
  BY DEF Confirmed
<1> DEFINE OwnerOk == /\ ownership' \in [BothNames -> [{"controller", "registrant"} -> [who : Values, at : Nat]]]
                      /\ RolesTrue(blocks, ownership')
           RecOk == /\ recCache' \in [BothNames -> [block : Nat, verified : BOOLEAN,
                                                    rec : [Keys -> [val : Values, at : Nat]]]]
                    /\ RecordsTrue(blocks, recCache')
           RestOk == expiry' \in [val : Nat, at : Nat] /\ lines' \subseteq BothNames
<1>4. /\ UNCHANGED ownership => OwnerOk
      /\ UNCHANGED recCache => RecOk
      /\ UNCHANGED <<expiry, lines>> => RestOk
  BY <1>0 DEF ChainGood, PaneGood
<1>5. OwnerOk /\ RecOk /\ RestOk
  <2>1. CASE NothingToShow(r)
    BY <2>1, <1>4 DEF NothingToShow, paneVars
  <2>2. CASE r.ok /\ ApplyRoles(t, b)
    <3> DEFINE fields == IF t.op # "transfer" THEN {"controller"}
                         ELSE IF t.wrapped THEN {"controller", "registrant"} ELSE {"registrant"}
    <3>1. RoleShown(t.name, fields, t.changed, b) /\ t.op \in ManagerOps \cup {"transfer"}
          /\ UNCHANGED <<expiry, lines, recCache>>
      BY <2>2 DEF ApplyRoles
    <3>2. fields \in SUBSET {"controller", "registrant"}
      OBVIOUS
    <3>3. \A f \in fields : blocks[b].role[t.name][f] = t.changed
      BY <1>1, <2>2, <3>1 DEF Did, ManagerOps
    <3> HIDE DEF fields, t, b
    <3>4. OwnerOk
      BY <1>0, <1>1, <1>2, <3>1, <3>2, <3>3, RoleShownTrue
    <3> QED
      BY <3>1, <3>4, <1>4
  <2>3. CASE r.ok /\ ApplyRecord(t, b)
    <3> DEFINE v == IF t.op = "record" THEN t.changed ELSE Empty
    <3>1. Pushed0(t.name, t.key, v, b) /\ t.op \in RecordOps
          /\ UNCHANGED <<expiry, lines, ownership>>
      BY <2>3 DEF ApplyRecord, RecordOps
    <3>2. v \in Values
      BY <1>2
    <3>3. blocks[b].rec[t.name][t.key] = v
      BY <1>1, <2>3, <3>1 DEF Did, RecordOps
    <3> HIDE DEF v, t, b
    <3>4. RecOk
      BY <1>0, <1>1, <1>2, <3>1, <3>2, <3>3, PushedTrue
    <3> QED
      BY <3>1, <3>4, <1>4
  <2>4. CASE r.ok /\ ApplyRenew(t, b)
    <3>1. expiry' = expiry \/ expiry' = [val |-> t.base + Term(t.changed), at |-> b]
      BY <2>4 DEF ApplyRenew
    <3>2. UNCHANGED <<lines, ownership, recCache>>
      BY <2>4 DEF ApplyRenew
    <3>3. [val |-> t.base + Term(t.changed), at |-> b] \in [val : Nat, at : Nat]
      BY <1>0, <1>1, <1>2, TermType DEF ChainGood
    <3>4. RestOk
      BY <1>0, <3>1, <3>2, <3>3 DEF PaneGood
    <3> QED
      BY <3>2, <3>4, <1>4
  <2>5. CASE r.ok /\ MarkSubAdded(t, b)
    <3>1. RoleShown(Sub, {"controller"}, t.changed, b) /\ t.op = "addSubnode"
          /\ UNCHANGED <<expiry, recCache>> /\ lines' = lines \cup {Sub}
      BY <2>5 DEF MarkSubAdded
    <3>2. blocks[b].role[Sub]["controller"] = t.changed
      BY <1>1, <2>5, <3>1 DEF Did, OfSub
    <3> HIDE DEF t, b
    <3>3. OwnerOk
      BY <1>0, <1>1, <1>2, <3>1, <3>2, RoleShownTrue
    <3>4. RestOk
      BY <1>0, <1>2, <3>1 DEF PaneGood
    <3> QED
      BY <3>1, <3>3, <3>4, <1>4
  <2>6. CASE r.ok /\ MarkSubRemoved(t, b)
    <3> DEFINE new == [f \in DOMAIN ownership[Sub] |-> Unread]
    <3>1. ownership' = [ownership EXCEPT ![Sub] = new]
          /\ UNCHANGED <<expiry, recCache>> /\ lines' = lines \ {Sub}
      BY <2>6 DEF MarkSubRemoved
    <3>2. new \in [{"controller", "registrant"} -> [who : Values, at : Nat]]
          /\ \A f \in {"controller", "registrant"} : new[f] = Unread
      BY <1>0, <1>2 DEF PaneGood, Unread, Values
    <3> HIDE DEF new
    <3>3. ownership' \in [BothNames -> [{"controller", "registrant"} -> [who : Values, at : Nat]]]
          /\ \A m \in BothNames : ownership'[m] = IF m = Sub THEN new ELSE ownership[m]
      BY <1>0, <1>2, <3>1, <3>2 DEF PaneGood
    <3>4. RolesTrue(blocks, ownership')
      BY <1>0, <3>2, <3>3 DEF ChainGood, RolesTrue, RoleTrue
    <3>5. RestOk
      BY <1>0, <3>1 DEF PaneGood
    <3> QED
      BY <3>1, <3>3, <3>4, <3>5, <1>4
  <2> QED
    BY <2>1, <2>2, <2>3, <2>4, <2>5, <2>6 DEF Confirmed
<1>6. ChainGood' /\ PaneGood'
  BY <1>0, <1>3, <1>5 DEF ChainGood, PaneGood, Mined
<1>7. ComposersGood' /\ SentGood'
  BY <1>0, <1>3 DEF ComposersGood, SentGood
<1> QED
  BY <1>6, <1>7, WritesPartsNext

LEMMA RolesReadKeeps ==
    ASSUME WritesInv, NEW b \in 1 .. Len(blocks), RolesRead(b)
    PROVE  WritesInv'
<1>0. ComposersGood /\ SentGood /\ ChainGood /\ PaneGood
  BY WritesParts
<1> DEFINE fresh == {n \in BothNames : b >= asOf[n]}
           read(n) == [f \in DOMAIN ownership[n] |-> [who |-> blocks[b].role[n][f], at |-> b]]
<1>1. /\ ownership' = [n \in BothNames |-> IF n \notin fresh \cap lines THEN ownership[n]
                                           ELSE read(n)]
      /\ expiry' = IF Name \in fresh THEN [val |-> blocks[b].exp, at |-> b] ELSE expiry
      /\ UNCHANGED <<blocks, recCache, lines, composers, sent, receipts>>
  BY DEF RolesRead
<1> HIDE DEF fresh
<1>b. b \in Nat /\ blocks[b] \in ChainBlocks
  BY <1>0 DEF ChainGood
<1>2. \A n \in BothNames : blocks[b].role[n] \in Roles
  BY <1>b DEF ChainBlocks
<1>3. ASSUME NEW n \in BothNames
      PROVE  /\ read(n) \in [{"controller", "registrant"} -> [who : Values, at : Nat]]
             /\ \A f \in {"controller", "registrant"} : RoleTrue(blocks, n, f, read(n)[f])
  <2>1. DOMAIN ownership[n] = {"controller", "registrant"}
    BY <1>0 DEF PaneGood
  <2>2. \A f \in {"controller", "registrant"} : blocks[b].role[n][f] \in Values
    BY <1>2 DEF Roles
  <2>3. \A f \in {"controller", "registrant"} :
            read(n)[f] = [who |-> blocks[b].role[n][f], at |-> b]
    BY <2>1
  <2>4. read(n) \in [{"controller", "registrant"} -> [who : Values, at : Nat]]
    BY <2>1, <2>2, <1>b
  <2> QED
    BY <2>3, <2>4 DEF RoleTrue
<1> HIDE DEF read
<1>4. ownership' \in [BothNames -> [{"controller", "registrant"} -> [who : Values, at : Nat]]]
  BY <1>0, <1>1, <1>3 DEF PaneGood
<1>5. RolesTrue(blocks, ownership')
  BY <1>0, <1>1, <1>3 DEF ChainGood, RolesTrue
<1>6. expiry' \in [val : Nat, at : Nat]
  BY <1>0, <1>1, <1>b DEF PaneGood, ChainBlocks
<1>7. ChainGood' /\ PaneGood'
  BY <1>0, <1>1, <1>4, <1>5, <1>6 DEF ChainGood, PaneGood, Mined
<1>8. ComposersGood' /\ SentGood'
  BY <1>0, <1>1 DEF ComposersGood, SentGood
<1> QED
  BY <1>7, <1>8, WritesPartsNext

LEMMA RecordsReadKeeps ==
    ASSUME WritesInv, NEW b \in 1 .. Len(blocks), NEW n \in BothNames, NEW proven \in BOOLEAN,
           RecordsRead(n, b, proven)
    PROVE  WritesInv'
<1>0. ComposersGood /\ SentGood /\ ChainGood /\ PaneGood
  BY WritesParts
<1> DEFINE rec == [k \in Keys |-> IF k = "coin" THEN NotSet
                                  ELSE [val |-> blocks[b].rec[n][k], at |-> b]]
           new == [block |-> b, verified |-> proven, rec |-> rec]
<1>1. /\ recCache' = [recCache EXCEPT ![n] = new]
      /\ UNCHANGED <<blocks, ownership, expiry, lines, composers, sent, receipts>>
  BY DEF RecordsRead
<1>b. b \in Nat /\ blocks[b] \in ChainBlocks
  BY <1>0 DEF ChainGood
<1>2. \A k \in Keys : blocks[b].rec[n][k] \in Values
  BY <1>b DEF ChainBlocks
<1>3. rec \in [Keys -> [val : Values, at : Nat]]
  BY <1>b, <1>2 DEF NotSet, Values
<1>4. \A k \in Keys : RecordTrue(blocks, n, k, rec[k])
  BY DEF RecordTrue, NotSet
<1> HIDE DEF rec
<1>5. new \in [block : Nat, verified : BOOLEAN, rec : [Keys -> [val : Values, at : Nat]]]
      /\ new.rec = rec
  BY <1>3, <1>b
<1> HIDE DEF new
<1>6. recCache' \in [BothNames -> [block : Nat, verified : BOOLEAN,
                                   rec : [Keys -> [val : Values, at : Nat]]]]
      /\ \A m \in BothNames : recCache'[m] = IF m = n THEN new ELSE recCache[m]
  BY <1>0, <1>1, <1>5 DEF PaneGood
<1>7. RecordsTrue(blocks, recCache')
  BY <1>0, <1>4, <1>5, <1>6 DEF ChainGood, RecordsTrue
<1>8. ChainGood' /\ PaneGood'
  BY <1>0, <1>1, <1>6, <1>7 DEF ChainGood, PaneGood, Mined
<1>9. ComposersGood' /\ SentGood'
  BY <1>0, <1>1 DEF ComposersGood, SentGood
<1> QED
  BY <1>8, <1>9, WritesPartsNext

\* The invariant of the writes holds: every dialog's request was noted as it was
\* built, every receipt's transaction did what its callback will show, and what
\* is shown of a role or a record is what the chain said at its block.
\* (_open_composer's changed dict, _on_confirmed, _apply_*)
THEOREM WritesInvariance == WritesSpec => []WritesInv
<1>1. WritesInit => WritesInv
  BY WritesInitInv
<1>2. WritesInv /\ [WritesNext]_writesVars => WritesInv'
  <2> SUFFICES ASSUME WritesInv, [WritesNext]_writesVars
               PROVE  WritesInv'
    OBVIOUS
  <2>1. CASE UNCHANGED writesVars
    BY <2>1 DEF writesVars, WritesInv, WriteTypes, Signed1, Mined
  <2>2. CASE WritesNext
    BY <2>2, ComposerKeeps, MineKeeps, ElsewhereKeeps, ConfirmedKeeps, RolesReadKeeps,
       RecordsReadKeeps DEF WritesNext
  <2> QED
    BY <2>1, <2>2
<1> QED
  BY <1>1, <1>2, PTL DEF WritesSpec

\* Every role and record on display was that of the chain at the block it was
\* read at or its transaction was mined in. (changed, _apply_*)
THEOREM ShownIsOfTheChain == WritesSpec => []ShownWasTrue
<1>1. WritesInv => ShownWasTrue
  BY ZenonT(60) DEF WritesInv, WriteTypes, RolesTrue, RecordsTrue, RoleTrue, RecordTrue, ShownWasTrue
<1> QED
  BY <1>1, WritesInvariance, PTL

\* With the roles as the chain has them, the contracts let the account make every
\* call a composer is opened for. (_refresh_writable, _set_manager, _remove_subdomain)
THEOREM OffersAreAuthorised == WritesSpec => []RolesAuthorise
<1>1. WritesInv => RolesAuthorise
  <2> SUFFICES ASSUME WritesInv, sets = SetsOf(Top), NEW o \in Offers(sets, resolvers, lines)
               PROVE
            \/ Authorised(Top, [op |-> o.op, name |-> o.name, wrapped |-> WrapOf(sets, o)])
            \/ o.op = "setResolver" \/ (o.op = "addSubnode" /\ Name \notin sets.current)
    BY DEF RolesAuthorise
  <2>1. Top \in ChainBlocks /\ lines \in SUBSET BothNames
    BY DEF WritesInv, WriteTypes, Top
  <2> QED
    BY <2>1, KindsAuthorised
<1> QED
  BY <1>1, WritesInvariance, PTL

==============================================================================
