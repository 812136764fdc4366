---------------------------- MODULE WalletProofs ----------------------------
(***************************************************************************)
(* Proofs about the wallet's accounts (Accounts): the saved config follows *)
(* the one in memory, and a family's default is the address of a record;   *)
(* and about the devices behind them (DeviceWallets): a signature is of    *)
(* the account it was asked for, and a tree of node-derived accounts is of *)
(* one seed and passphrase.  The two models share no variable: each has    *)
(* its own inductive invariant.                                            *)
(***************************************************************************)
EXTENDS Accounts, DeviceWallets, TLAPS, WellFoundedInduction,
        SequenceTheorems, FiniteSetTheorems

-----------------------------------------------------------------------------
(* The accounts: the inductive invariant.                                  *)

Pointers == [addr : {r.addr : r \in Candidates} \cup {NoAddr},
             path : {r.path : r \in Candidates} \cup {NoPath}]

Cfgs == [accounts : Seq(Candidates), default : [Families -> Pointers],
         chains : SUBSET NewChains]

AccountTypes ==
    /\ accounts \in Seq(Candidates) /\ default \in [Families -> Pointers]
    /\ chains \subseteq NewChains /\ disk \in Cfgs
    /\ saving \in [Threads -> {"no", "snapshot", "write"}]
    /\ snap \in [Threads -> {NoSnap} \cup [seq : Nat, cfg : Cfgs]]
    /\ \A t \in Threads : saving[t] = "write" => snap[t] \in [seq : Nat, cfg : Cfgs]
    /\ saveSeq \in Nat /\ lastWritten \in Nat /\ failed \in BOOLEAN
    /\ gui.at = "imported" => gui.rec \in Candidates

\* A family has a default exactly when a record works on it, and then it is the
\* address of such a record, the one it names if it names one.
Pointed(cfg) ==
    \A f \in Families :
        LET d == cfg.default[f]
            usable == {r \in ToSet(cfg.accounts) : f \in AccountFamilies(r)}
        IN  IF usable = {} THEN d.addr = NoAddr
            ELSE \E r \in usable : r.addr = d.addr /\ d.path \in {NoPath, r.path}

\* An address and a path are held once.
OncePerPath(cfg) ==
    \A i, j \in DOMAIN cfg.accounts :
        /\ cfg.accounts[i].addr = cfg.accounts[j].addr
        /\ cfg.accounts[i].path = cfg.accounts[j].path
        => i = j

Sound(cfg) == Pointed(cfg) /\ OncePerPath(cfg)

\* ... in memory, in the file, and in what is on its way to it.
AllSound ==
    /\ Sound(Config) /\ Sound(disk)
    /\ \A t \in Threads : saving[t] = "write" => Sound(snap[t].cfg)

\* Snapshots are numbered apart.
Numbered ==
    /\ lastWritten <= saveSeq
    /\ \A t \in Threads : saving[t] = "write" =>
         /\ snap[t].seq <= saveSeq /\ snap[t].seq # lastWritten
         /\ \A u \in Threads : saving[u] = "write" /\ snap[t].seq = snap[u].seq => t = u

\* Unless a thread has yet to copy it, what is in memory is in the newest
\* snapshot, which waits for the file or was the last one tried.
NewestIsCurrent ==
    (\A t \in Threads : saving[t] # "snapshot") =>
        \/ \E t \in Threads :
             saving[t] = "write" /\ snap[t].seq = saveSeq /\ snap[t].cfg = Config
        \/ lastWritten = saveSeq /\ (~failed => disk = Config)

AccountsInv == AccountTypes /\ AllSound /\ Numbered /\ NewestIsCurrent

-----------------------------------------------------------------------------
(* The accounts: lemmas about the helpers. *)

LEMMA Least ==
    ASSUME NEW T \in SUBSET Nat, T # {}
    PROVE  \E x \in T : \A y \in T : x <= y
<1>1. PICK x \in T : \A y \in T : <<y, x>> \notin OpToRel(<, Nat)
  BY NatLessThanWellFounded, WFMin
<1>2. \A y \in T : ~(y < x)
  BY <1>1 DEF OpToRel
<1> QED
  BY <1>2

\* Earliest is one of the positions it chooses from.
LEMMA EarliestIsOne ==
    ASSUME NEW seq \in Seq(Candidates), NEW here \in SUBSET (DOMAIN seq), here # {}
    PROVE  \E i \in here : Earliest(seq, here) = seq[i]
<1>1. here \in SUBSET Nat
  OBVIOUS
<1>2. \E x \in here : \A y \in here : x <= y
  BY <1>1, Least
<1> QED
  BY <1>2 DEF Earliest

\* Without drops nothing but the pair it is told.
LEMMA WithoutOne ==
    ASSUME NEW seq \in Seq(Candidates), NEW a, NEW path
    PROVE  /\ Without(seq, a, path) \in Seq(Candidates)
           /\ ToSet(Without(seq, a, path)) \subseteq ToSet(seq)
           /\ \A r \in ToSet(seq) :
                 ~(r.addr = a /\ r.path = path) => r \in ToSet(Without(seq, a, path))
           /\ \A i, j \in DOMAIN Without(seq, a, path) : i # j =>
                 \E k, l \in DOMAIN seq : k # l /\ Without(seq, a, path)[i] = seq[k]
                                        /\ Without(seq, a, path)[j] = seq[l]
<1> DEFINE here == {i \in DOMAIN seq : seq[i].addr = a /\ seq[i].path = path}
<1>1. CASE here = {}
  <2>1. Without(seq, a, path) = seq
    BY <1>1 DEF Without
  <2> QED
    BY <2>1
<1>2. CASE here # {}
  <2>1. PICK n \in here : Without(seq, a, path) = RemoveAt(seq, n)
    BY <1>2 DEF Without
  <2> DEFINE t == RemoveAt(seq, n)
  <2>2. n \in 1 .. Len(seq) /\ seq[n].addr = a /\ seq[n].path = path
    OBVIOUS
  <2>3. /\ t \in Seq(Candidates) /\ Len(t) = Len(seq) - 1
        /\ \A i \in 1 .. Len(t) : t[i] = IF i < n THEN seq[i] ELSE seq[i + 1]
    <3> DEFINE u == SubSeq(seq, 1, n - 1)
    <3> DEFINE v == SubSeq(seq, n + 1, Len(seq))
    <3>1. /\ u \in Seq(Candidates) /\ Len(u) = n - 1
          /\ \A i \in 1 .. n - 1 : u[i] = seq[i]
      BY <2>2
    <3>2. /\ v \in Seq(Candidates) /\ Len(v) = Len(seq) - n
          /\ \A i \in 1 .. Len(seq) - n : v[i] = seq[n + i]
      BY <2>2
    <3>3. t = u \o v
      BY DEF RemoveAt
    <3> HIDE DEF u, v, t
    <3>4. t \in Seq(Candidates) /\ Len(t) = Len(seq) - 1
      BY <2>2, <3>1, <3>2, <3>3
    <3>5. ASSUME NEW i \in 1 .. Len(t)
          PROVE  t[i] = IF i < n THEN seq[i] ELSE seq[i + 1]
      <4>1. CASE i < n
        BY <2>2, <3>1, <3>2, <3>3, <3>4, <4>1
      <4>2. CASE i >= n
        <5> DEFINE k == i - Len(u)
        <5>1. k \in 1 .. Len(seq) - n /\ n + k = i + 1
          BY <2>2, <3>1, <3>4, <4>2
        <5>2. t[i] = v[k]
          <6>1. i \in 1 .. Len(u) + Len(v) /\ ~(i <= Len(u))
            BY <2>2, <3>1, <3>2, <3>4, <4>2
          <6>2. (u \o v)[i] = v[i - Len(u)]
            BY <3>1, <3>2, <6>1, ConcatProperties
          <6> QED
            BY <3>3, <6>2
        <5> HIDE DEF k
        <5>3. v[k] = seq[n + k]
          BY <3>2, <5>1
        <5>4. ~(i < n)
          BY <2>2, <3>4, <4>2
        <5> QED
          BY <5>1, <5>2, <5>3, <5>4
      <4> QED
        BY <2>2, <3>4, <4>1, <4>2
    <3> QED
      BY <3>4, <3>5
  <2> HIDE DEF t
  <2>4. \A i \in DOMAIN t : t[i] = seq[i] \/ (i + 1 \in DOMAIN seq /\ t[i] = seq[i + 1])
    BY <2>2, <2>3
  <2>5. ToSet(t) \subseteq ToSet(seq)
    BY <2>2, <2>3 DEF ToSet
  <2>6. ASSUME NEW k \in DOMAIN seq, k # n
        PROVE  seq[k] \in ToSet(t)
    <3>1. CASE k < n
      BY <2>2, <2>3, <2>6, <3>1 DEF ToSet
    <3>2. CASE k > n
      <4>1. k - 1 \in 1 .. Len(t) /\ t[k - 1] = seq[k]
        BY <2>2, <2>3, <2>6, <3>2
      <4> QED
        BY <2>3, <4>1 DEF ToSet
    <3> QED
      BY <2>2, <2>6, <3>1, <3>2
  <2>7. \A r \in ToSet(seq) : ~(r.addr = a /\ r.path = path) => r \in ToSet(t)
    BY <2>2, <2>6 DEF ToSet
  <2>8. ASSUME NEW i \in DOMAIN t, NEW j \in DOMAIN t, i # j
        PROVE  \E k, l \in DOMAIN seq : k # l /\ t[i] = seq[k] /\ t[j] = seq[l]
    <3> DEFINE From(x) == IF x < n THEN x ELSE x + 1
    <3>1. From(i) \in DOMAIN seq /\ From(j) \in DOMAIN seq /\ From(i) # From(j)
      BY <2>2, <2>3, <2>8
    <3>2. t[i] = seq[From(i)] /\ t[j] = seq[From(j)]
      BY <2>2, <2>3
    <3> QED
      BY <3>1, <3>2
  <2> QED
    BY <2>1, <2>3, <2>5, <2>7, <2>8 DEF t
<1> QED
  BY <1>1, <1>2

\* FirstOf is the address of a record that works on the family, if there is one.
LEMMA FirstIsUsable ==
    ASSUME NEW seq \in Seq(Candidates), NEW f \in Families
    PROVE  IF {r \in ToSet(seq) : f \in AccountFamilies(r)} = {}
           THEN FirstOf(seq, f) = NoAddr
           ELSE \E r \in ToSet(seq) : f \in AccountFamilies(r) /\ FirstOf(seq, f) = r.addr
<1>1. CASE Usable(seq, f) = {}
  <2>1. {r \in ToSet(seq) : f \in AccountFamilies(r)} = {}
    BY <1>1 DEF Usable, ToSet
  <2> QED
    BY <1>1, <2>1 DEF FirstOf
<1>2. CASE Usable(seq, f) # {}
  <2>1. PICK i \in Usable(seq, f) : Earliest(seq, Usable(seq, f)) = seq[i]
    BY <1>2, EarliestIsOne DEF Usable
  <2>2. seq[i] \in ToSet(seq) /\ f \in AccountFamilies(seq[i])
    BY DEF Usable, ToSet
  <2> QED
    BY <1>2, <2>1, <2>2 DEF FirstOf
<1> QED
  BY <1>1, <1>2

-----------------------------------------------------------------------------
(* The accounts: what an operation leaves is sound.                        *)

LEMMA AddedIsSound ==
    ASSUME NEW cfg \in Cfgs, Sound(cfg), NEW new \in Cfgs, NEW r \in Candidates,
           ~\E a \in ToSet(cfg.accounts) : a.addr = r.addr /\ a.path = r.path,
           new.accounts = Append(cfg.accounts, r),
           new.default = [f \in Families |->
                IF f \in AccountFamilies(r) /\ cfg.default[f].addr = NoAddr
                THEN [addr |-> r.addr, path |-> NoPath] ELSE cfg.default[f]]
    PROVE  Sound(new)
<1>1. cfg.accounts \in Seq(Candidates)
  BY DEF Cfgs
<1>2. ToSet(new.accounts) = ToSet(cfg.accounts) \cup {r}
  <2>1. \A x \in ToSet(new.accounts) : x \in ToSet(cfg.accounts) \cup {r}
    BY <1>1 DEF ToSet
  <2>2. r \in ToSet(new.accounts)
    <3>1. Len(cfg.accounts) + 1 \in DOMAIN new.accounts
          /\ new.accounts[Len(cfg.accounts) + 1] = r
      BY <1>1
    <3> QED
      BY <3>1 DEF ToSet
  <2>3. \A i \in DOMAIN cfg.accounts : i \in DOMAIN new.accounts
                                     /\ new.accounts[i] = cfg.accounts[i]
    BY <1>1
  <2>4. \A x \in ToSet(cfg.accounts) : x \in ToSet(new.accounts)
    BY <2>3 DEF ToSet
  <2> QED
    BY <2>1, <2>2, <2>4
<1>3. Pointed(new)
  <2> SUFFICES ASSUME NEW f \in Families
               PROVE  LET d == new.default[f]
                          usable == {x \in ToSet(new.accounts) : f \in AccountFamilies(x)}
                      IN  IF usable = {} THEN d.addr = NoAddr
                          ELSE \E x \in usable : x.addr = d.addr /\ d.path \in {NoPath, x.path}
    BY DEF Pointed
  <2> DEFINE old == {x \in ToSet(cfg.accounts) : f \in AccountFamilies(x)}
  <2>1. IF old = {} THEN cfg.default[f].addr = NoAddr
        ELSE \E x \in old : x.addr = cfg.default[f].addr
                           /\ cfg.default[f].path \in {NoPath, x.path}
    BY DEF Sound, Pointed
  <2>2. CASE f \in AccountFamilies(r) /\ cfg.default[f].addr = NoAddr
    BY <1>2, <2>2
  <2>3. CASE ~(f \in AccountFamilies(r) /\ cfg.default[f].addr = NoAddr)
    <3>1. new.default[f] = cfg.default[f]
      BY <2>3
    <3>2. CASE old = {}
      BY <1>2, <2>1, <2>3, <3>1, <3>2
    <3>3. CASE old # {}
      BY <1>2, <2>1, <3>1, <3>3
    <3> QED
      BY <3>2, <3>3
  <2> QED
    BY <2>2, <2>3
<1>4. OncePerPath(new)
  <2> SUFFICES ASSUME NEW i \in DOMAIN new.accounts, NEW j \in DOMAIN new.accounts, i < j,
                      new.accounts[i].addr = new.accounts[j].addr,
                      new.accounts[i].path = new.accounts[j].path
               PROVE  FALSE
    BY <1>1 DEF OncePerPath
  <2>1. i \in DOMAIN cfg.accounts /\ new.accounts[i] = cfg.accounts[i]
    BY <1>1
  <2>2. cfg.accounts[i] \in ToSet(cfg.accounts)
    BY <2>1 DEF ToSet
  <2>3. CASE j = Len(cfg.accounts) + 1
    BY <1>1, <2>1, <2>2, <2>3
  <2>4. CASE j # Len(cfg.accounts) + 1
    <3>1. j \in DOMAIN cfg.accounts /\ new.accounts[j] = cfg.accounts[j]
      BY <1>1, <2>4
    <3> QED
      BY <1>1, <2>1, <3>1 DEF Sound, OncePerPath
  <2> QED
    BY <2>3, <2>4
<1> QED
  BY <1>3, <1>4 DEF Sound

\* Repointed, of any default.
Moved(d, seq, f, a, path) ==
    IF d.addr # a THEN d
    ELSE IF \E r \in ToSet(seq) : r.addr = a /\ f \in AccountFamilies(r)
         THEN IF d.path = path THEN [d EXCEPT !.path = NoPath] ELSE d
         ELSE [addr |-> FirstOf(seq, f), path |-> NoPath]

LEMMA RemovedIsSound ==
    ASSUME NEW cfg \in Cfgs, Sound(cfg), NEW new \in Cfgs, NEW a, NEW path,
           new.accounts = Without(cfg.accounts, a, path),
           \A f \in Families :
               new.default[f] = Moved(cfg.default[f], new.accounts, f, a, path)
    PROVE  Sound(new)
<1>1. cfg.accounts \in Seq(Candidates) /\ new.accounts \in Seq(Candidates)
  BY DEF Cfgs
<1>2. /\ ToSet(new.accounts) \subseteq ToSet(cfg.accounts)
      /\ \A r \in ToSet(cfg.accounts) :
            ~(r.addr = a /\ r.path = path) => r \in ToSet(new.accounts)
  BY <1>1, WithoutOne
<1>3. Pointed(new)
  <2> SUFFICES ASSUME NEW f \in Families
               PROVE  LET d == new.default[f]
                          usable == {x \in ToSet(new.accounts) : f \in AccountFamilies(x)}
                      IN  IF usable = {} THEN d.addr = NoAddr
                          ELSE \E x \in usable : x.addr = d.addr /\ d.path \in {NoPath, x.path}
    BY DEF Pointed
  <2> DEFINE old == {x \in ToSet(cfg.accounts) : f \in AccountFamilies(x)}
  <2> DEFINE d == cfg.default[f]
  <2>1. IF old = {} THEN d.addr = NoAddr
        ELSE \E x \in old : x.addr = d.addr /\ d.path \in {NoPath, x.path}
    BY DEF Sound, Pointed
  <2>2. d = [addr |-> d.addr, path |-> d.path]
    BY DEF Cfgs, Pointers
  <2>3. CASE d.addr # a
    <3>1. new.default[f] = d
      BY <2>3 DEF Moved
    <3> QED
      BY <1>2, <2>1, <2>3, <3>1
  <2>4. CASE d.addr = a /\ \E r \in ToSet(new.accounts) : r.addr = a /\ f \in AccountFamilies(r)
    <3>1. PICK r \in ToSet(new.accounts) : r.addr = a /\ f \in AccountFamilies(r)
      BY <2>4
    <3>2. PICK x \in old : x.addr = a /\ d.path \in {NoPath, x.path}
      BY <1>2, <2>1, <2>4, <3>1
    <3>3. CASE d.path = path
      <4>1. new.default[f] = [addr |-> a, path |-> NoPath]
        BY <2>2, <2>4, <3>3 DEF Moved
      <4> QED
        BY <3>1, <4>1
    <3>4. CASE d.path # path
      <4>1. new.default[f] = d
        BY <2>4, <3>4 DEF Moved
      <4>2. CASE d.path = NoPath
        BY <2>4, <3>1, <4>1, <4>2
      <4>3. CASE d.path = x.path
        BY <1>2, <2>4, <3>2, <3>4, <4>1, <4>3
      <4> QED
        BY <3>2, <4>2, <4>3
    <3> QED
      BY <3>3, <3>4
  <2>5. CASE d.addr = a /\ ~\E r \in ToSet(new.accounts) : r.addr = a /\ f \in AccountFamilies(r)
    <3>1. new.default[f] = [addr |-> FirstOf(new.accounts, f), path |-> NoPath]
      BY <2>5 DEF Moved
    <3> QED
      BY <1>1, <3>1, FirstIsUsable
  <2> QED
    BY <2>3, <2>4, <2>5
<1>4. OncePerPath(new)
  <2>1. \A i, j \in DOMAIN new.accounts : i # j =>
          \E k, l \in DOMAIN cfg.accounts : k # l /\ new.accounts[i] = cfg.accounts[k]
                                         /\ new.accounts[j] = cfg.accounts[l]
    BY <1>1, WithoutOne
  <2> QED
    BY <2>1 DEF Sound, OncePerPath
<1> QED
  BY <1>3, <1>4 DEF Sound

LEMMA ReorderedIsSound ==
    ASSUME NEW cfg \in Cfgs, Sound(cfg), NEW new \in Cfgs,
           NEW order \in Bijection(DOMAIN cfg.accounts, DOMAIN cfg.accounts),
           new.accounts = [i \in DOMAIN cfg.accounts |-> cfg.accounts[order[i]]],
           new.default = cfg.default
    PROVE  Sound(new)
<1>1. /\ order \in [DOMAIN cfg.accounts -> DOMAIN cfg.accounts]
      /\ \A i, j \in DOMAIN cfg.accounts : order[i] = order[j] => i = j
      /\ \A k \in DOMAIN cfg.accounts : \E i \in DOMAIN cfg.accounts : order[i] = k
  BY DEF Bijection, Injection, Surjection, IsInjective
<1>2. ToSet(new.accounts) = ToSet(cfg.accounts)
  BY <1>1 DEF ToSet
<1>3. Pointed(new)
  BY <1>2 DEF Sound, Pointed
<1>4. OncePerPath(new)
  <2>1. \A i \in DOMAIN new.accounts :
          i \in DOMAIN cfg.accounts /\ new.accounts[i] = cfg.accounts[order[i]]
    BY <1>1
  <2> QED
    BY <1>1, <2>1 DEF Sound, OncePerPath
<1> QED
  BY <1>3, <1>4 DEF Sound

LEMMA ConnectedIsSound ==
    ASSUME NEW cfg \in Cfgs, Sound(cfg), NEW new \in Cfgs, NEW g \in Families,
           NEW r \in ToSet(cfg.accounts), g \in AccountFamilies(r),
           new.accounts = cfg.accounts,
           new.default = [cfg.default EXCEPT ![g] = [addr |-> r.addr, path |-> r.path]]
    PROVE  Sound(new)
<1>1. \A f \in Families : new.default[f] = IF f = g THEN [addr |-> r.addr, path |-> r.path]
                                          ELSE cfg.default[f]
  BY DEF Cfgs
<1>2. Pointed(new)
  <2> SUFFICES ASSUME NEW f \in Families
               PROVE  LET d == new.default[f]
                          usable == {x \in ToSet(new.accounts) : f \in AccountFamilies(x)}
                      IN  IF usable = {} THEN d.addr = NoAddr
                          ELSE \E x \in usable : x.addr = d.addr /\ d.path \in {NoPath, x.path}
    BY DEF Pointed
  <2>1. CASE f = g
    BY <1>1, <2>1
  <2>2. CASE f # g
    BY <1>1, <2>2 DEF Sound, Pointed
  <2> QED
    BY <2>1, <2>2
<1> QED
  BY <1>2 DEF Sound, OncePerPath

-----------------------------------------------------------------------------
(* The accounts: the steps.                                                *)

LEMMA AccountsInit == Init => AccountsInv
<1> SUFFICES ASSUME Init
             PROVE  AccountsInv
  OBVIOUS
<1>1. Fresh \in Cfgs /\ Config = Fresh /\ disk = Fresh
  BY DEF Init, Fresh, Cfgs, Pointers, Config
<1>2. AccountTypes
  BY <1>1 DEF Init, Fresh, AccountTypes, Cfgs, Idle
<1>3. Sound(Fresh)
  BY DEF Fresh, Sound, Pointed, OncePerPath, ToSet
<1>4. AllSound /\ Numbered /\ NewestIsCurrent
  BY <1>1, <1>3 DEF Init, AllSound, Numbered, NewestIsCurrent
<1> QED
  BY <1>2, <1>4 DEF AccountsInv

\* A thread that was not saving changed the config and goes on to save it.
LEMMA ChangeKeeps ==
    ASSUME AccountsInv, NEW t \in Threads, saving[t] = "no", Saves(t),
           Config' \in Cfgs, Sound(Config'),
           (gui.at = "imported" => gui.rec \in Candidates)'
    PROVE  AccountsInv'
<1>1. /\ saving' = [saving EXCEPT ![t] = "snapshot"]
      /\ UNCHANGED <<snap, saveSeq, lastWritten, disk, failed>>
  BY DEF Saves
<1>2. saving' \in [Threads -> {"no", "snapshot", "write"}] /\ saving'[t] = "snapshot"
      /\ \A u \in Threads : saving'[u] = "write" => saving[u] = "write"
  BY <1>1 DEF AccountsInv, AccountTypes
<1>3. AccountTypes'
  BY <1>1, <1>2 DEF AccountsInv, AccountTypes, Config, Cfgs
<1>4. AllSound'
  BY <1>1, <1>2 DEF AccountsInv, AllSound
<1>5. Numbered'
  BY <1>1, <1>2 DEF AccountsInv, Numbered
<1>6. NewestIsCurrent'
  BY <1>2 DEF NewestIsCurrent
<1> QED
  BY <1>3, <1>4, <1>5, <1>6 DEF AccountsInv

\* The config and the savers are left alone.
LEMMA IdleKeeps ==
    ASSUME AccountsInv, UNCHANGED <<memory, io>>,
           (gui.at = "imported" => gui.rec \in Candidates)'
    PROVE  AccountsInv'
<1>1. Config' = Config
  BY DEF Config, memory
<1>2. AccountTypes'
  BY DEF AccountsInv, AccountTypes, memory, io
<1>3. AllSound' /\ Numbered' /\ NewestIsCurrent'
  BY <1>1 DEF AccountsInv, AllSound, Numbered, NewestIsCurrent, io
<1> QED
  BY <1>2, <1>3 DEF AccountsInv

LEMMA ConfigIsTyped ==
    AccountTypes => Config \in Cfgs
BY DEF AccountTypes, Config, Cfgs

LEMMA AddAccountKeeps ==
    ASSUME AccountsInv, NEW r \in Candidates, Free, AddAccount(r),
           (gui.at = "imported" => gui.rec \in Candidates)'
    PROVE  AccountsInv'
<1>1. CASE \E a \in Held : a.addr = r.addr /\ a.path = r.path
  BY <1>1, IdleKeeps DEF AddAccount
<1>2. CASE ~\E a \in Held : a.addr = r.addr /\ a.path = r.path
  <2>1. /\ accounts' = Append(accounts, r)
        /\ default' = [f \in Families |->
                IF f \in AccountFamilies(r) /\ default[f].addr = NoAddr
                THEN [addr |-> r.addr, path |-> NoPath] ELSE default[f]]
        /\ Saves(Gui) /\ chains' = chains
    BY <1>2 DEF AddAccount
  <2>2. [addr |-> r.addr, path |-> NoPath] \in Pointers
    BY DEF Pointers
  <2>3. default' \in [Families -> Pointers]
    BY <2>1, <2>2 DEF AccountsInv, AccountTypes
  <2>4. accounts' \in Seq(Candidates) /\ chains' \subseteq NewChains
    BY <2>1 DEF AccountsInv, AccountTypes
  <2>5. Config' \in Cfgs
    BY <2>3, <2>4 DEF Config, Cfgs
  <2>6. /\ Config'.accounts = Append(Config.accounts, r)
        /\ Config'.default = [f \in Families |->
                IF f \in AccountFamilies(r) /\ Config.default[f].addr = NoAddr
                THEN [addr |-> r.addr, path |-> NoPath] ELSE Config.default[f]]
        /\ ToSet(Config.accounts) = Held
    BY <2>1 DEF Config, Held
  <2>7. Sound(Config')
    BY <1>2, <2>5, <2>6, AddedIsSound, ConfigIsTyped DEF AccountsInv, AllSound
  <2> QED
    BY <2>1, <2>5, <2>7, ChangeKeeps DEF Free, Threads
<1> QED
  BY <1>1, <1>2

LEMMA RemoveRowKeeps ==
    ASSUME AccountsInv, RemoveRow
    PROVE  AccountsInv'
<1>1. PICK row \in gui.rows :
        LET rest == Without(accounts, row.addr, row.path)
        IN  /\ accounts' = rest
            /\ default' = [f \in Families |-> Repointed(rest, f, row.addr, row.path)]
            /\ gui' = [gui EXCEPT !.rows = @ \ {row},
                           !.hot = IF row.source = "hot"
                                   THEN @ \union {row.addr} ELSE @]
  BY DEF RemoveRow
<1>2. saving[Gui] = "no" /\ Saves(Gui) /\ chains' = chains /\ gui.at = "removing"
  BY DEF RemoveRow, Free
<1>3. gui'.at # "imported"
  BY <1>1, <1>2
<1> DEFINE rest == Without(accounts, row.addr, row.path)
<1>4. rest \in Seq(Candidates) /\ accounts' = rest
  BY <1>1, WithoutOne DEF AccountsInv, AccountTypes
<1>5. \A f \in Families :
        default'[f] = Moved(default[f], rest, f, row.addr, row.path)
  BY <1>1 DEF Repointed, Moved
<1> HIDE DEF rest
<1>6. \A f \in Families : FirstOf(rest, f) \in {r.addr : r \in Candidates} \cup {NoAddr}
  <2>1. \A r \in ToSet(rest) : r \in Candidates
    BY <1>4 DEF ToSet
  <2> QED
    BY <1>4, <2>1, FirstIsUsable
<1>7. default' \in [Families -> Pointers]
  <2>1. ASSUME NEW f \in Families
        PROVE  default'[f] \in Pointers
    <3>1. default[f] \in Pointers
      BY DEF AccountsInv, AccountTypes
    <3>2. [default[f] EXCEPT !.path = NoPath] \in Pointers
      BY <3>1 DEF Pointers
    <3>3. [addr |-> FirstOf(rest, f), path |-> NoPath] \in Pointers
      BY <1>6 DEF Pointers
    <3> QED
      BY <1>5, <3>1, <3>2, <3>3 DEF Moved
  <2>2. default' = [f \in Families |-> default'[f]]
    BY <1>1
  <2> QED
    BY <2>1, <2>2
<1>8. Config' \in Cfgs
  BY <1>2, <1>4, <1>7 DEF AccountsInv, AccountTypes, Config, Cfgs
<1>9. Sound(Config')
  <2>1. /\ Config'.accounts = Without(Config.accounts, row.addr, row.path)
        /\ Config'.accounts = rest
    BY <1>4 DEF Config, rest
  <2>2. /\ Config'.default = default' /\ Config.default = default
    BY DEF Config
  <2>3. Sound(Config) /\ Config \in Cfgs
    BY ConfigIsTyped DEF AccountsInv, AllSound
  <2>4. \A f \in Families : Config'.default[f] =
          Moved(Config.default[f], Config'.accounts, f, row.addr, row.path)
    BY <1>5, <2>1, <2>2
  <2> QED
    BY <1>8, <2>1, <2>3, <2>4, RemovedIsSound
<1> QED
  BY <1>2, <1>3, <1>8, <1>9, ChangeKeeps DEF Threads

LEMMA ConnectKeeps ==
    ASSUME AccountsInv, NEW r \in Held, NEW f \in Families, Connect(r, f)
    PROVE  AccountsInv'
<1>1. /\ f \in AccountFamilies(r) /\ saving[Gui] = "no" /\ Saves(Gui)
      /\ default' = [default EXCEPT ![f] = [addr |-> r.addr, path |-> r.path]]
      /\ accounts' = accounts /\ chains' = chains /\ gui' = gui
  BY DEF Connect, Ready, Free
<1>2. r \in Candidates
  BY DEF Held, ToSet, AccountsInv, AccountTypes
<1>3. [addr |-> r.addr, path |-> r.path] \in Pointers
  BY <1>2 DEF Pointers
<1>4. default' \in [Families -> Pointers]
  BY <1>1, <1>3 DEF AccountsInv, AccountTypes
<1>5. Config' \in Cfgs
  BY <1>1, <1>4 DEF AccountsInv, AccountTypes, Config, Cfgs
<1>6. /\ Config'.accounts = Config.accounts /\ r \in ToSet(Config.accounts)
      /\ Config'.default = [Config.default EXCEPT ![f] = [addr |-> r.addr, path |-> r.path]]
  BY <1>1 DEF Config, Held
<1>7. Sound(Config')
  BY <1>1, <1>5, <1>6, ConnectedIsSound, ConfigIsTyped DEF AccountsInv, AllSound
<1> QED
  BY <1>1, <1>5, <1>7, ChangeKeeps DEF Threads, AccountsInv, AccountTypes

LEMMA ReorderKeeps ==
    ASSUME AccountsInv, NEW f \in Families, Reorder(f)
    PROVE  AccountsInv'
<1>1. PICK order \in Bijection(DOMAIN accounts, DOMAIN accounts) :
        accounts' = [i \in DOMAIN accounts |-> accounts[order[i]]]
  BY DEF Reorder
<1>2. /\ saving[Gui] = "no" /\ Saves(Gui)
      /\ default' = default /\ chains' = chains /\ gui' = gui
  BY DEF Reorder, Ready, Free
<1>3. order \in [DOMAIN accounts -> DOMAIN accounts]
  BY DEF Bijection, Injection
<1>4. accounts' \in Seq(Candidates)
  BY SMTT(60), <1>1, <1>3 DEF AccountsInv, AccountTypes
<1>5. Config' \in Cfgs
  BY <1>2, <1>4 DEF AccountsInv, AccountTypes, Config, Cfgs
<1>6. /\ order \in Bijection(DOMAIN Config.accounts, DOMAIN Config.accounts)
      /\ Config'.accounts = [i \in DOMAIN Config.accounts |-> Config.accounts[order[i]]]
      /\ Config'.default = Config.default
  BY <1>1, <1>2 DEF Config
<1>7. Sound(Config')
  BY <1>5, <1>6, ReorderedIsSound, ConfigIsTyped DEF AccountsInv, AllSound
<1> QED
  BY <1>2, <1>5, <1>7, ChangeKeeps DEF Threads, AccountsInv, AccountTypes

LEMMA SnapshotKeeps ==
    ASSUME AccountsInv, NEW t \in Threads, Snapshot(t)
    PROVE  AccountsInv'
<1> DEFINE s == [seq |-> saveSeq + 1, cfg |-> Config]
<1>1. /\ saving[t] = "snapshot" /\ saveSeq' = saveSeq + 1
      /\ snap' = [snap EXCEPT ![t] = s] /\ saving' = [saving EXCEPT ![t] = "write"]
      /\ UNCHANGED <<accounts, default, chains, gui, lastWritten, disk, failed>>
  BY DEF Snapshot, memory
<1>2. s \in [seq : Nat, cfg : Cfgs] /\ s.seq = saveSeq + 1 /\ s.cfg = Config
  BY ConfigIsTyped DEF AccountsInv, AccountTypes
<1> HIDE DEF s
<1>3. /\ saving' \in [Threads -> {"no", "snapshot", "write"}] /\ saving'[t] = "write"
      /\ \A u \in Threads : u # t => saving'[u] = saving[u] /\ snap'[u] = snap[u]
      /\ snap'[t] = s /\ Config' = Config
  BY <1>1 DEF AccountsInv, AccountTypes, Config
<1>4. AccountTypes'
  BY <1>1, <1>2, <1>3 DEF AccountsInv, AccountTypes
<1>5. AllSound'
  BY <1>1, <1>2, <1>3 DEF AccountsInv, AllSound
<1>6. Numbered'
  BY <1>1, <1>2, <1>3 DEF AccountsInv, Numbered, AccountTypes
<1>7. NewestIsCurrent'
  BY <1>1, <1>2, <1>3 DEF NewestIsCurrent
<1> QED
  BY <1>4, <1>5, <1>6, <1>7 DEF AccountsInv

LEMMA WriteKeeps ==
    ASSUME AccountsInv, NEW t \in Threads, Write(t)
    PROVE  AccountsInv'
<1>1. /\ saving[t] = "write" /\ saving' = [saving EXCEPT ![t] = "no"]
      /\ snap' = [snap EXCEPT ![t] = NoSnap]
      /\ UNCHANGED <<accounts, default, chains, saveSeq>>
  BY DEF Write, memory
<1>2. /\ saving' \in [Threads -> {"no", "snapshot", "write"}] /\ saving'[t] = "no"
      /\ \A u \in Threads : u # t => saving'[u] = saving[u] /\ snap'[u] = snap[u]
      /\ snap' \in [Threads -> {NoSnap} \cup [seq : Nat, cfg : Cfgs]]
      /\ Config' = Config
  BY <1>1 DEF AccountsInv, AccountTypes, Config
<1>3. snap[t] \in [seq : Nat, cfg : Cfgs] /\ snap[t].seq <= saveSeq
      /\ snap[t].seq # lastWritten /\ Sound(snap[t].cfg) /\ lastWritten <= saveSeq
      /\ saveSeq \in Nat /\ lastWritten \in Nat
  BY <1>1 DEF AccountsInv, AccountTypes, AllSound, Numbered
<1>4. gui' = gui \/ gui' = Idle
  BY DEF Write
<1>5. CASE Stale(snap[t]) /\ UNCHANGED <<lastWritten, disk, failed, gui>>
  <2>1. snap[t].seq < lastWritten
    BY <1>5 DEF Stale
  <2>2. AccountTypes' /\ AllSound' /\ Numbered'
    BY <1>1, <1>2, <1>5 DEF AccountsInv, AccountTypes, AllSound, Numbered
  <2>3. NewestIsCurrent'
    BY <1>1, <1>2, <1>3, <1>5, <2>1 DEF AccountsInv, NewestIsCurrent
  <2> QED
    BY <2>2, <2>3 DEF AccountsInv
<1>6. CASE /\ ~Stale(snap[t]) /\ lastWritten' = snap[t].seq
           /\ disk' = snap[t].cfg /\ failed' = FALSE
  <2>1. AccountTypes'
    <3>1. disk' \in Cfgs /\ lastWritten' \in Nat
      BY <1>3, <1>6
    <3>2. gui'.at = "imported" => gui'.rec \in Candidates
      BY <1>4 DEF AccountsInv, AccountTypes, Idle
    <3>3. failed' \in BOOLEAN
      BY <1>6
    <3>4. \A u \in Threads : saving'[u] = "write" => snap'[u] \in [seq : Nat, cfg : Cfgs]
      BY <1>2 DEF AccountsInv, AccountTypes
    <3> QED
      BY <1>1, <1>2, <3>1, <3>2, <3>3, <3>4 DEF AccountsInv, AccountTypes
  <2>2. AllSound'
    BY <1>2, <1>3, <1>6 DEF AccountsInv, AllSound
  <2>3. Numbered'
    BY <1>1, <1>2, <1>3, <1>6 DEF AccountsInv, Numbered
  <2>4. NewestIsCurrent'
    <3> SUFFICES ASSUME \A u \in Threads : saving'[u] # "snapshot"
                 PROVE  \/ \E u \in Threads : saving'[u] = "write" /\ snap'[u].seq = saveSeq
                                             /\ snap'[u].cfg = Config
                        \/ snap[t].seq = saveSeq /\ snap[t].cfg = Config
      BY <1>1, <1>2, <1>6 DEF NewestIsCurrent
    <3>1. \A u \in Threads : saving[u] # "snapshot"
      BY <1>1, <1>2
    <3>2. lastWritten # saveSeq
      BY <1>3, <1>6 DEF Stale
    <3>3. PICK u \in Threads : saving[u] = "write" /\ snap[u].seq = saveSeq
                             /\ snap[u].cfg = Config
      BY <3>1, <3>2 DEF AccountsInv, NewestIsCurrent
    <3> QED
      BY <1>2, <3>3
  <2> QED
    BY <2>1, <2>2, <2>3, <2>4 DEF AccountsInv
<1>7. CASE /\ ~Stale(snap[t]) /\ lastWritten' = snap[t].seq
           /\ disk' = disk /\ failed' = TRUE
  <2>1. AccountTypes'
    BY <1>1, <1>2, <1>3, <1>4, <1>7 DEF AccountsInv, AccountTypes, Idle
  <2>2. AllSound' /\ Numbered'
    BY <1>1, <1>2, <1>3, <1>7 DEF AccountsInv, AllSound, Numbered
  <2>3. NewestIsCurrent'
    <3> SUFFICES ASSUME \A u \in Threads : saving'[u] # "snapshot"
                 PROVE  \/ \E u \in Threads : saving'[u] = "write" /\ snap'[u].seq = saveSeq
                                             /\ snap'[u].cfg = Config
                        \/ snap[t].seq = saveSeq
      BY <1>1, <1>2, <1>7 DEF NewestIsCurrent
    <3>1. \A u \in Threads : saving[u] # "snapshot"
      BY <1>1, <1>2
    <3>2. lastWritten # saveSeq
      BY <1>3, <1>7 DEF Stale
    <3>3. PICK u \in Threads : saving[u] = "write" /\ snap[u].seq = saveSeq
                             /\ snap[u].cfg = Config
      BY <3>1, <3>2 DEF AccountsInv, NewestIsCurrent
    <3> QED
      BY <1>2, <3>3
  <2> QED
    BY <2>1, <2>2, <2>3 DEF AccountsInv
<1> QED
  BY <1>5, <1>6, <1>7 DEF Write

LEMMA CrashKeeps ==
    ASSUME AccountsInv, Crash
    PROVE  AccountsInv'
<1>1. Config' = disk /\ disk' = disk
  BY DEF Crash, Config, AccountsInv, AccountTypes, Cfgs
<1>2. AccountTypes'
  BY DEF Crash, AccountsInv, AccountTypes, Cfgs, Idle
<1>3. AllSound' /\ Numbered' /\ NewestIsCurrent'
  BY <1>1 DEF Crash, AccountsInv, AllSound, Numbered, NewestIsCurrent
<1> QED
  BY <1>2, <1>3 DEF AccountsInv

LEMMA AccountsNextKeeps ==
    ASSUME AccountsInv, [Next]_vars
    PROVE  AccountsInv'
<1>1. ASSUME NEW t \in Threads, Snapshot(t) \/ Write(t)
      PROVE  AccountsInv'
  BY <1>1, SnapshotKeeps, WriteKeeps
<1>2. ASSUME NEW r \in Candidates, AddRecord(r)
      PROVE  AccountsInv'
  BY <1>2, AddAccountKeeps DEF AddRecord, Ready, AccountsInv, AccountTypes
<1>3. ASSUME NEW r \in Candidates, ImportKeystore(r)
      PROVE  AccountsInv'
  BY <1>3, IdleKeeps DEF ImportKeystore
<1>4. CASE ImportRecord
  <2>1. gui.rec \in Candidates /\ gui'.at # "imported" /\ Free /\ AddAccount(gui.rec)
    BY <1>4 DEF ImportRecord, Idle, AccountsInv, AccountTypes
  <2> QED
    BY <2>1, AddAccountKeeps
<1>5. CASE \E rows \in SUBSET Held : RemoveSelected(rows)
  BY <1>5, IdleKeeps DEF RemoveSelected
<1>6. CASE RemoveRow
  BY <1>6, RemoveRowKeeps
<1>7. CASE DeleteKeystore
  <2>1. gui'.at # "imported" /\ UNCHANGED <<memory, io>>
    BY <1>7 DEF DeleteKeystore, RemovalDone
  <2> QED
    BY <2>1, IdleKeeps
<1>8. CASE RemoveEnds
  BY <1>8, IdleKeeps DEF RemoveEnds, Idle
<1>9. ASSUME NEW r \in Held, NEW f \in Families, Connect(r, f)
      PROVE  AccountsInv'
  BY <1>9, ConnectKeeps
<1>10. ASSUME NEW f \in Families, Reorder(f)
       PROVE  AccountsInv'
  BY <1>10, ReorderKeeps
<1>11. ASSUME NEW c \in NewChains, AddChain(c)
       PROVE  AccountsInv'
  <2>1. /\ saving[Rpc] = "no" /\ Saves(Rpc) /\ chains' = chains \cup {c}
        /\ UNCHANGED <<accounts, default, gui>>
    BY <1>11 DEF AddChain
  <2>2. Config' \in Cfgs
    BY <2>1 DEF Config, Cfgs, AccountsInv, AccountTypes
  <2>3. Sound(Config')
    <3>1. Config'.accounts = Config.accounts /\ Config'.default = Config.default
      BY <2>1 DEF Config
    <3> QED
      BY <3>1 DEF AccountsInv, AllSound, Sound, Pointed, OncePerPath
  <2> QED
    BY <2>1, <2>2, <2>3, ChangeKeeps DEF Threads, AccountsInv, AccountTypes
<1>12. CASE Crash
  BY <1>12, CrashKeeps
<1>13. CASE UNCHANGED vars
  BY <1>13, IdleKeeps DEF vars, AccountsInv, AccountTypes
<1> QED
  BY <1>1, <1>2, <1>3, <1>4, <1>5, <1>6, <1>7, <1>8, <1>9, <1>10, <1>11, <1>12, <1>13 DEF Next

\* The types, and that the config is sound and numbered wherever it is kept,
\* are an inductive invariant.
THEOREM AccountsInvariance == Spec => []AccountsInv
<1> QED
  BY AccountsInit, AccountsNextKeeps, PTL DEF Spec

\* Whatever the order in which two threads' saves reach the disk, and whichever
\* of them fail, a quiet program's file holds what its memory holds.
\* (Store.save)
THEOREM SavedWhenQuiet == Spec => []QuietMeansSaved
<1>1. AccountsInv => QuietMeansSaved
  BY DEF AccountsInv, NewestIsCurrent, QuietMeansSaved, Threads
<1> QED
  BY <1>1, AccountsInvariance, PTL

\* In memory and in what a restart would load, a family's default is held, and
\* the record that signs for it is the connected one.
\* (add_account, remove_account, set_default_account, account_for_signing)
THEOREM DefaultsAreHeld == Spec => []DefaultIsHeld
<1>1. AccountsInv => DefaultIsHeld
  <2> SUFFICES ASSUME AccountsInv
               PROVE  DefaultIsHeld
    OBVIOUS
  <2>1. Pointed(Config) /\ Pointed(disk)
    BY DEF AccountsInv, AllSound, Sound
  <2>2. ASSUME NEW f \in Families, default[f].addr # NoAddr, default[f].path # NoPath,
               NEW r \in AccountForSigning(default[f].addr, NoPath, f)
        PROVE  r.path = default[f].path
    <3> DEFINE d == default[f]
    <3> DEFINE pool == {i \in Usable(accounts, f) : accounts[i].addr = d.addr}
    <3> DEFINE At(p) == {accounts[i] : i \in {j \in pool : accounts[j].path = p}}
    <3>1. PICK x \in ToSet(accounts) : /\ f \in AccountFamilies(x)
                                       /\ x.addr = d.addr /\ d.path \in {NoPath, x.path}
      BY <2>1, <2>2 DEF Pointed, Config
    <3>2. PICK i \in DOMAIN accounts : accounts[i] = x
      BY DEF ToSet
    <3>3. x \in At(d.path)
      BY <2>2, <3>1, <3>2 DEF Usable
    <3>4. AccountForSigning(d.addr, NoPath, f) = At(d.path)
      BY <2>2, <3>3 DEF AccountForSigning
    <3> QED
      BY <2>2, <3>4
  <2> QED
    BY <2>1, <2>2 DEF DefaultIsHeld, Configs, Pointed
<1> QED
  BY <1>1, AccountsInvariance, PTL

\* An address and a path are held once, so a signer is told by them.
\* (Store.add_account)
THEOREM HeldOnce == Spec => []OncePerPath(Config)
<1>1. AccountsInv => OncePerPath(Config)
  BY DEF AccountsInv, AllSound, Sound
<1> QED
  BY <1>1, AccountsInvariance, PTL

-----------------------------------------------------------------------------
(* The devices: the inductive invariant.                                   *)

Paths == [scheme : Schemes \cup {"none"}, index : Int]
Addresses == [wallet : Wallets, path : Paths]
Someone == Wallets \cup {Nobody}
Recs == [address : Addresses, path : Paths, scheme : Schemes, xfp : Someone,
         tree : Addresses]
Jobs == {j \in [by : Dialogs \cup {NoDialog}, what : {"first", "batch", "sign"},
                record : Recs \cup {Nobody}, heard : BOOLEAN] :
            j.what = "sign" => j.record \in Recs}
Rows == [address : Addresses, used : BOOLEAN]
Scans == [stage : {"no", "first", "more", "batch", "derive", "done", "failed"},
          scheme : Schemes \cup {"none"}, auto : BOOLEAN, next : Int, zeros : Int,
          xfp : Someone, rows : SUBSET Rows]
Tried == [stage : {"no", "queued", "failed", "signed"}, record : Recs \cup {Nobody},
          by : Addresses \cup {Nobody}]

DeviceTypes ==
    /\ kind \in {"trezor", "ledger"} /\ combo \in Schemes
    /\ session \in Someone
    /\ at \in [step : {"idle", "open", "talk", "confirm"}, again : BOOLEAN]
    /\ jobs \in Seq(Jobs)
    /\ scan \in [Dialogs -> Scans]
    /\ attempt \in Tried
    /\ records \subseteq Recs

\* The job in front: it has a session from when it talks to the device, and is
\* at its confirmation once the session's wallet was seen to own the account.
JobInFront ==
    /\ at.step # "idle" => jobs # <<>>
    /\ at.step \in {"talk", "confirm"} => session \in Wallets
    /\ at.step = "confirm" =>
         /\ Head(jobs).what = "sign"
         /\ Address(session, Head(jobs).record.path) = Head(jobs).record.address

\* A job somebody waits for is the one its caller is at; no caller waits for two.
Awaited(j, scans, tried) ==
    /\ j.what = "sign" => tried.stage = "queued" /\ tried.record = j.record
    /\ j.what # "sign" => scans[j.by].stage = j.what

Heard ==
    /\ \A i \in DOMAIN jobs :
         /\ jobs[i].what = "sign" <=> jobs[i].by = NoDialog
         /\ jobs[i].heard => Awaited(jobs[i], scan, attempt)
    /\ \A i, j \in DOMAIN jobs :
         jobs[i].heard /\ jobs[j].heard /\ jobs[i].by = jobs[j].by => i = j

\* A scan's rows are of its scheme; on a Trezor they follow the fingerprint, and
\* those of a node are of the fingerprint's wallet.
ScanIsOfNode(s) ==
    /\ \A x \in s.rows : x.address.path.scheme = s.scheme
    /\ s.stage \in {"no", "first"} => s.rows = {}
    /\ s.stage = "derive" => s.xfp \in Wallets
    /\ kind = "trezor" =>
         /\ s.rows # {} \/ s.stage \in {"more", "batch"} => s.xfp \in Wallets
         /\ s.scheme \in Direct =>
              /\ s.stage \notin {"more", "batch"}
              /\ \A x \in s.rows : x.address.wallet = s.xfp

OfNodes == \A d \in Dialogs : ScanIsOfNode(scan[d])

AllDirect(tree) == \A q \in records : q.tree = tree => q.path.scheme \in Direct

\* An account derived from a node is of its fingerprint's wallet, a tree is named
\* after one of its accounts, and a tree of nodes has one fingerprint.
Trees ==
    /\ \A r \in records : r.path = r.address.path
    /\ \A r \in records : \E s \in records : r.tree = s.address
    /\ kind = "trezor" =>
         /\ \A r \in records : r.path.scheme \in Direct => r.address.wallet = r.xfp
         /\ \A r, s \in records : r.tree = s.tree /\ AllDirect(r.tree) => r.xfp = s.xfp

DevicesInv == DeviceTypes /\ JobInFront /\ Heard /\ SignedByOwner /\ OfNodes /\ Trees

-----------------------------------------------------------------------------
(* The devices: lemmas.                                                    *)

LEMMA Latest ==
    ASSUME NEW T \in SUBSET Nat, NEW N \in Nat, T # {}, \A x \in T : x <= N
    PROVE  \E x \in T : \A y \in T : y <= x
<1> DEFINE D == {m \in 0 .. N : N - m \in T}
<1>1. \A x \in T : N - x \in 0 .. N /\ N - (N - x) = x
  OBVIOUS
<1>2. D \in SUBSET Nat /\ D # {}
  <2>1. PICK x \in T : TRUE
    OBVIOUS
  <2>2. N - x \in D
    BY <1>1
  <2>3. \A m \in D : m \in Nat
    OBVIOUS
  <2> HIDE DEF D
  <2> QED
    BY <2>2, <2>3
<1>3. PICK m \in D : \A k \in D : m <= k
  BY <1>2, Least
<1>4. N - m \in T /\ m \in 0 .. N
  OBVIOUS
<1>5. \A y \in T : N - y \in D
  BY <1>1
<1>6. \A y \in T : y <= N - m
  BY <1>3, <1>4, <1>5
<1> QED
  BY <1>4, <1>6

LEMMA ZerosIsNumber ==
    ASSUME DeviceTypes, NEW d \in Dialogs, NEW used \in SUBSET Nat, NEW i \in Int
    PROVE  Zeros(d, used, i) \in Int
<1> DEFINE before == {k \in used : k <= i}
<1>1. scan[d].zeros \in Int /\ scan[d].next \in Int
  BY DEF DeviceTypes, Scans
<1>2. CASE before = {}
  BY <1>1, <1>2 DEF Zeros
<1>3. CASE before # {}
  <2>1. i \in Nat /\ before \in SUBSET Nat
    <3>1. PICK k \in used : k <= i
      BY <1>3
    <3>2. i \in Nat
      BY <3>1
    <3>3. before \in SUBSET Nat
      OBVIOUS
    <3> QED
      BY <3>2, <3>3
  <2>2. \E k \in before : \A x \in before : x <= k
    BY <1>3, <2>1, Latest
  <2>3. (CHOOSE k \in before : \A x \in before : x <= k) \in before
    BY <2>2
  <2>4. (CHOOSE k \in before : \A x \in before : x <= k) \in Int
    BY <2>1, <2>3
  <2>5. Zeros(d, used, i) = i - (CHOOSE k \in before : \A x \in before : x <= k)
    BY <1>3 DEF Zeros
  <2> QED
    BY <2>4, <2>5
<1> QED
  BY <1>2, <1>3

\* A batch adds rows of the wallet it is read from, of the scan's own scheme.
LEMMA ListedFacts ==
    ASSUME DeviceTypes, NEW d \in Dialogs, NEW w \in Wallets,
           NEW used \in SUBSET (Enabled \cap Batch(d))
    PROVE  /\ Listed(d, w, used) \in Scans
           /\ Listed(d, w, used).scheme = scan[d].scheme
           /\ Listed(d, w, used).xfp = scan[d].xfp
           /\ Listed(d, w, used).stage \in
                {"done", IF scan[d].stage = "derive" THEN "derive" ELSE "more"}
           /\ \A x \in Listed(d, w, used).rows :
                 \/ x \in scan[d].rows
                 \/ x.address.wallet = w /\ x.address.path.scheme = scan[d].scheme
<1> DEFINE stops == {i \in Batch(d) : scan[d].auto /\ Zeros(d, used, i) >= StopAfter}
<1> DEFINE new == {i \in Batch(d) : \A x \in stops : i <= x}
<1> DEFINE next == scan[d].next + Cardinality(Batch(d))
<1> DEFINE ends == stops # {} \/ next >= HardCap
<1> DEFINE added == {[address |-> Address(w, Path(scan[d].scheme, i)),
                      used |-> i \in used] : i \in new}
<1> DEFINE stage == IF ends THEN "done" ELSE IF scan[d].stage = "derive" THEN "derive" ELSE "more"
<1>1. scan[d] \in Scans
  BY DEF DeviceTypes
<1>2. Listed(d, w, used) = [scan[d] EXCEPT !.rows = @ \cup added,
                               !.zeros = Zeros(d, used, next - 1),
                               !.next = next, !.stage = stage]
  BY DEF Listed
<1>3. Batch(d) \subseteq Int /\ Cardinality(Batch(d)) \in Nat
  <2>1. PICK size \in Nat :
          Batch(d) = {i \in scan[d].next .. scan[d].next + size - 1 : i < HardCap}
    BY DevicesAssumption DEF Batch
  <2>2. scan[d].next \in Int /\ scan[d].next + size - 1 \in Int
    BY <1>1 DEF Scans
  <2>3. IsFiniteSet(scan[d].next .. scan[d].next + size - 1)
    BY <2>2, FS_Interval
  <2>4. Batch(d) \subseteq scan[d].next .. scan[d].next + size - 1
    BY <2>1
  <2>5. IsFiniteSet(Batch(d))
    BY <2>3, <2>4, FS_Subset
  <2> QED
    BY <2>2, <2>4, <2>5, FS_CardinalityType
<1>4. next \in Int
  BY <1>1, <1>3 DEF Scans
<1>5. Zeros(d, used, next - 1) \in Int
  BY <1>4, ZerosIsNumber, DevicesAssumption
<1>6. added \subseteq Rows
  <2>1. ASSUME NEW i \in new
        PROVE  [address |-> Address(w, Path(scan[d].scheme, i)), used |-> i \in used] \in Rows
    <3>1. Path(scan[d].scheme, i) \in Paths
      BY <1>1, <1>3 DEF Scans, Path, Paths
    <3>2. Address(w, Path(scan[d].scheme, i)) \in Addresses
      BY <3>1 DEF Address, Addresses
    <3>3. (i \in used) \in BOOLEAN
      OBVIOUS
    <3> QED
      BY <3>2, <3>3 DEF Rows
  <2> QED
    BY <2>1
<1>7. \A x \in added : x.address.wallet = w /\ x.address.path.scheme = scan[d].scheme
  BY DEF Address, Path
<1>8. stage \in {"done", IF scan[d].stage = "derive" THEN "derive" ELSE "more"}
  OBVIOUS
<1> HIDE DEF added, next, stage
<1> DEFINE s == Listed(d, w, used)
<1>9. /\ s.rows = scan[d].rows \cup added /\ s.stage = stage
      /\ s.scheme = scan[d].scheme /\ s.xfp = scan[d].xfp
  BY <1>1, <1>2 DEF Scans
<1>10. s \in Scans
  BY <1>1, <1>2, <1>4, <1>5, <1>6, <1>8 DEF Scans
<1> QED
  BY <1>7, <1>8, <1>9, <1>10

\* What a job tells, it tells its own caller, if that still waits.
TellsCaller(j) ==
    /\ ~j.heard \/ j.by # NoDialog => attempt' = attempt
    /\ \A d \in Dialogs : ~(j.heard /\ j.by = d) => scan'[d] = scan[d]

\* The queue without the job in front.
LEMMA Popped ==
    ASSUME DeviceTypes, jobs # <<>>, jobs' = Tail(jobs)
    PROVE  /\ jobs' \in Seq(Jobs) /\ Head(jobs) \in Jobs
           /\ 1 \in DOMAIN jobs /\ Head(jobs) = jobs[1]
           /\ \A i \in DOMAIN jobs' : i + 1 \in DOMAIN jobs /\ jobs'[i] = jobs[i + 1]
<1>1. jobs \in Seq(Jobs)
  BY DEF DeviceTypes
<1> QED
  BY <1>1

\* The queue with a job behind the others.
LEMMA Pushed ==
    ASSUME DeviceTypes, NEW j \in Jobs, jobs' = Append(jobs, j)
    PROVE  /\ jobs' \in Seq(Jobs)
           /\ jobs # <<>> => Head(jobs') = Head(jobs)
           /\ jobs' # <<>>
           /\ \A i \in DOMAIN jobs' : \/ i \in DOMAIN jobs /\ jobs'[i] = jobs[i]
                                      \/ i = Len(jobs) + 1 /\ jobs'[i] = j
<1>1. jobs \in Seq(Jobs)
  BY DEF DeviceTypes
<1>2. /\ jobs' \in Seq(Jobs) /\ Len(jobs') = Len(jobs) + 1
      /\ \A i \in 1 .. Len(jobs) : jobs'[i] = jobs[i]
      /\ jobs'[Len(jobs) + 1] = j
  BY <1>1, AppendProperties
<1>3. \A i \in DOMAIN jobs' : \/ i \in DOMAIN jobs /\ jobs'[i] = jobs[i]
                              \/ i = Len(jobs) + 1 /\ jobs'[i] = j
  BY <1>1, <1>2
<1>4. jobs' # <<>> /\ (jobs # <<>> => Head(jobs') = Head(jobs))
  BY <1>1, <1>2
<1> QED
  BY <1>2, <1>3, <1>4

LEMMA PopKeepsHeard ==
    ASSUME DeviceTypes, Heard, jobs # <<>>, jobs' = Tail(jobs), TellsCaller(Head(jobs))
    PROVE  Heard'
<1>1. /\ jobs' \in Seq(Jobs) /\ 1 \in DOMAIN jobs /\ Head(jobs) = jobs[1]
      /\ \A i \in DOMAIN jobs' : i + 1 \in DOMAIN jobs /\ jobs'[i] = jobs[i + 1]
  BY Popped
<1>2. \A i \in DOMAIN jobs' : i \in Nat \ {0}
  BY <1>1
<1>3. ASSUME NEW i \in DOMAIN jobs'
      PROVE  /\ jobs'[i].what = "sign" <=> jobs'[i].by = NoDialog
             /\ jobs'[i].heard => Awaited(jobs'[i], scan', attempt')
  <2> DEFINE j == jobs[i + 1]
  <2>1. j \in Jobs /\ i + 1 # 1 /\ i + 1 \in DOMAIN jobs /\ jobs'[i] = j
    BY <1>1, <1>2 DEF DeviceTypes
  <2>2. (j.what = "sign" <=> j.by = NoDialog) /\ (j.heard => Awaited(j, scan, attempt))
    BY <2>1 DEF Heard
  <2>3. j.heard /\ Head(jobs).heard => Head(jobs).by # j.by
    BY <1>1, <2>1 DEF Heard
  <2> HIDE DEF j
  <2>4. ASSUME j.heard
        PROVE  Awaited(j, scan', attempt')
    <3>1. CASE j.what = "sign"
      <4>1. attempt' = attempt
        BY <2>2, <2>3, <2>4, <3>1 DEF TellsCaller
      <4> QED
        BY <2>2, <2>4, <3>1, <4>1 DEF Awaited
    <3>2. CASE j.what # "sign"
      <4>1. j.by \in Dialogs
        BY <2>1, <2>2, <3>2 DEF Jobs
      <4>2. scan'[j.by] = scan[j.by]
        BY <2>3, <2>4, <4>1 DEF TellsCaller
      <4> QED
        BY <2>2, <2>4, <3>2, <4>2 DEF Awaited
    <3> QED
      BY <3>1, <3>2
  <2> QED
    BY <2>1, <2>2, <2>4 DEF Awaited
<1>4. ASSUME NEW i \in DOMAIN jobs', NEW k \in DOMAIN jobs', jobs'[i].heard,
             jobs'[k].heard, jobs'[i].by = jobs'[k].by
      PROVE  i = k
  <2>1. i + 1 = k + 1
    BY <1>1, <1>4 DEF Heard
  <2> QED
    BY <1>2, <2>1
<1> QED
  BY <1>3, <1>4 DEF Heard

LEMMA PushKeepsHeard ==
    ASSUME DeviceTypes, Heard, NEW j \in Jobs, jobs' = Append(jobs, j),
           j.what = "sign" <=> j.by = NoDialog, Awaited(j, scan', attempt'), TellsCaller(j),
           \A i \in DOMAIN jobs : jobs[i].heard => jobs[i].by # j.by
    PROVE  Heard'
<1>1. \A i \in DOMAIN jobs' : \/ i \in DOMAIN jobs /\ jobs'[i] = jobs[i]
                              \/ i = Len(jobs) + 1 /\ jobs'[i] = j
  BY Pushed
<1>2. ASSUME NEW i \in DOMAIN jobs
      PROVE  jobs[i].heard => Awaited(jobs[i], scan', attempt')
  <2> DEFINE k == jobs[i]
  <2>1. /\ k \in Jobs /\ (k.what = "sign" <=> k.by = NoDialog)
        /\ k.heard => Awaited(k, scan, attempt) /\ k.by # j.by
    BY DEF Heard, DeviceTypes
  <2> HIDE DEF k
  <2>2. ASSUME k.heard
        PROVE  Awaited(k, scan', attempt')
    <3>1. CASE k.what = "sign"
      <4>1. attempt' = attempt
        BY <2>1, <2>2, <3>1 DEF TellsCaller
      <4> QED
        BY <2>1, <2>2, <3>1, <4>1 DEF Awaited
    <3>2. CASE k.what # "sign"
      <4>1. k.by \in Dialogs
        BY <2>1, <3>2 DEF Jobs
      <4>2. scan'[k.by] = scan[k.by]
        BY <2>1, <2>2, <4>1 DEF TellsCaller
      <4> QED
        BY <2>1, <2>2, <3>2, <4>2 DEF Awaited
    <3> QED
      BY <3>1, <3>2
  <2> QED
    BY <2>2 DEF k, Awaited
<1>3. ASSUME NEW i \in DOMAIN jobs'
      PROVE  /\ jobs'[i].what = "sign" <=> jobs'[i].by = NoDialog
             /\ jobs'[i].heard => Awaited(jobs'[i], scan', attempt')
  <2>1. CASE i \in DOMAIN jobs /\ jobs'[i] = jobs[i]
    BY <1>2, <2>1 DEF Heard, Awaited
  <2>2. CASE i = Len(jobs) + 1 /\ jobs'[i] = j
    BY <2>2 DEF Awaited
  <2> QED
    BY <1>1, <2>1, <2>2
<1>4. ASSUME NEW i \in DOMAIN jobs', NEW k \in DOMAIN jobs', jobs'[i].heard,
             jobs'[k].heard, jobs'[i].by = jobs'[k].by
      PROVE  i = k
  BY <1>1, <1>4 DEF Heard
<1> QED
  BY <1>3, <1>4 DEF Heard

\* Nobody that waits is told anything.
LEMMA SameHeard ==
    ASSUME Heard, UNCHANGED <<jobs, scan, attempt>>
    PROVE  Heard'
BY DEF Heard, Awaited

LEMMA SameFront ==
    ASSUME JobInFront, UNCHANGED <<jobs, at, session>>
    PROVE  JobInFront'
BY DEF JobInFront

LEMMA PushKeepsFront ==
    ASSUME DeviceTypes, JobInFront, NEW j \in Jobs, jobs' = Append(jobs, j),
           UNCHANGED <<at, session>>
    PROVE  JobInFront'
BY Pushed DEF JobInFront

LEMMA DoneKeepsFront ==
    ASSUME at' = Waiting
    PROVE  JobInFront'
BY DEF Waiting, JobInFront

\* A failure is told to the job's caller, who stops there.
LEMMA FailureTold ==
    ASSUME DeviceTypes, NEW j \in Jobs, Failed(j)
    PROVE  /\ TellsCaller(j)
           /\ scan' \in [Dialogs -> Scans] /\ attempt' \in Tried
           /\ \A d \in Dialogs : \/ scan'[d] = scan[d]
                                 \/ scan'[d] = [scan[d] EXCEPT !.stage = "failed"]
           /\ attempt' = attempt \/ attempt'.stage = "failed"
<1>1. j.by \in Dialogs \cup {NoDialog} /\ NoDialog \notin Dialogs
  BY DevicesAssumption DEF Jobs, NoDialog
<1>2. scan \in [Dialogs -> Scans] /\ attempt \in Tried
  BY DEF DeviceTypes
<1>3. /\ scan' = IF j.heard /\ j.by \in Dialogs
                 THEN [scan EXCEPT ![j.by].stage = "failed"] ELSE scan
      /\ attempt' = IF j.heard /\ j.by \notin Dialogs
                    THEN [attempt EXCEPT !.stage = "failed"] ELSE attempt
  BY DEF Failed
<1>4. \A s \in Scans : [s EXCEPT !.stage = "failed"] \in Scans
  BY DEF Scans
<1>5. scan' \in [Dialogs -> Scans]
      /\ \A d \in Dialogs : \/ scan'[d] = scan[d]
                            \/ j.heard /\ d = j.by /\ scan'[d] = [scan[d] EXCEPT !.stage = "failed"]
  BY <1>2, <1>3, <1>4
<1>6. attempt' \in Tried /\ (attempt' = attempt \/ attempt'.stage = "failed")
  BY <1>2, <1>3 DEF Tried
<1>7. ~j.heard \/ j.by # NoDialog => attempt' = attempt
  BY <1>1, <1>3
<1> QED
  BY <1>5, <1>6, <1>7 DEF TellsCaller

LEMMA FailureKeepsScans ==
    ASSUME DeviceTypes, OfNodes, kind' = kind,
           \A d \in Dialogs : \/ scan'[d] = scan[d]
                              \/ scan'[d] = [scan[d] EXCEPT !.stage = "failed"]
    PROVE  OfNodes'
<1> SUFFICES ASSUME NEW d \in Dialogs
             PROVE  ScanIsOfNode(scan[d])'
  BY DEF OfNodes
<1>1. scan[d] \in Scans /\ ScanIsOfNode(scan[d])
  BY DEF DeviceTypes, OfNodes
<1>2. CASE scan'[d] = scan[d]
  BY <1>1, <1>2 DEF ScanIsOfNode
<1>3. CASE scan'[d] = [scan[d] EXCEPT !.stage = "failed"]
  <2>1. /\ scan'[d].stage = "failed" /\ scan'[d].rows = scan[d].rows
        /\ scan'[d].scheme = scan[d].scheme /\ scan'[d].xfp = scan[d].xfp
    BY <1>1, <1>3 DEF Scans
  <2> QED
    BY <1>1, <2>1 DEF ScanIsOfNode
<1> QED
  BY <1>2, <1>3

LEMMA NodesKept ==
    ASSUME kind' = kind, \A d \in Dialogs : ScanIsOfNode(scan'[d])
    PROVE  OfNodes'
BY DEF OfNodes, ScanIsOfNode

LEMMA SameTrees ==
    ASSUME Trees, UNCHANGED <<kind, records>>
    PROVE  Trees'
BY DEF Trees, AllDirect

-----------------------------------------------------------------------------
(* The devices: the steps of the thread.                                   *)

LEMMA DevicesStart == DevicesInit => DevicesInv
<1> SUFFICES ASSUME DevicesInit
             PROVE  DevicesInv
  OBVIOUS
<1>1. /\ kind \in {"trezor", "ledger"} /\ session = Nobody /\ combo \in Schemes
      /\ jobs = <<>> /\ at = Waiting /\ records = {}
      /\ scan = [d \in Dialogs |-> NoScan]
      /\ attempt = [stage |-> "no", record |-> Nobody, by |-> Nobody]
  BY DEF DevicesInit, Known
<1>2. NoScan \in Scans
  BY DEF NoScan, Scans, Someone
<1>3. DeviceTypes
  BY <1>1, <1>2 DEF DeviceTypes, Someone, Waiting, Tried
<1>4. JobInFront /\ Heard /\ SignedByOwner /\ Trees
  BY <1>1 DEF JobInFront, Heard, SignedByOwner, Trees, Waiting
<1>5. OfNodes
  BY <1>1 DEF OfNodes, ScanIsOfNode, NoScan
<1> QED
  BY <1>3, <1>4, <1>5 DEF DevicesInv

LEMMA SameDevices ==
    ASSUME DevicesInv, UNCHANGED <<kind, session, at, jobs, scan, attempt, records>>,
           combo' \in Schemes
    PROVE  DevicesInv'
<1>1. DeviceTypes' /\ SignedByOwner'
  BY DEF DevicesInv, DeviceTypes, SignedByOwner
<1>2. JobInFront' /\ Heard' /\ Trees'
  BY SameHeard, SameFront, SameTrees DEF DevicesInv
<1>3. OfNodes'
  BY DEF DevicesInv, OfNodes, ScanIsOfNode
<1> QED
  BY <1>1, <1>2, <1>3 DEF DevicesInv

\* The thread opens or ends a session; no job is done.
LEMMA SessionKeeps ==
    ASSUME DevicesInv, Begin \/ Open \/ Reconnect
    PROVE  DevicesInv'
<1>1. UNCHANGED <<kind, jobs, scan, attempt, records, combo>>
  BY DEF Begin, Open, Reconnect, dialogVars
<1>2. /\ session' \in Someone
      /\ at' \in [step : {"idle", "open", "talk", "confirm"}, again : BOOLEAN]
  <2>1. CASE Begin
    BY <2>1 DEF Begin, DevicesInv, DeviceTypes, Someone, FirstStep
  <2>2. CASE Open
    <3>1. at' = [at EXCEPT !.step = "talk"]
      BY <2>2 DEF Open, FromTheStart
    <3>2. session' \in Someone
      BY <2>2 DEF Open, DevicesInv, DeviceTypes, Someone
    <3> QED
      BY <3>1, <3>2 DEF DevicesInv, DeviceTypes
  <2>3. CASE Reconnect
    BY <2>3 DEF Reconnect, Someone
  <2> QED
    BY <2>1, <2>2, <2>3
<1>3. JobInFront'
  <2>1. CASE Begin
    BY <1>1, <2>1 DEF Begin, FirstStep, JobInFront
  <2>2. CASE Open
    <3>1. session' \in Wallets
      BY <2>2 DEF Open, DevicesInv, DeviceTypes, Someone
    <3>2. jobs # <<>> /\ at'.step = "talk"
      BY <2>2 DEF Open, FromTheStart, DevicesInv, JobInFront, DeviceTypes
    <3> QED
      BY <1>1, <3>1, <3>2 DEF JobInFront
  <2>3. CASE Reconnect
    BY <1>1, <2>3 DEF Reconnect, JobInFront, DevicesInv
  <2> QED
    BY <2>1, <2>2, <2>3
<1>4. DeviceTypes' /\ SignedByOwner' /\ OfNodes'
  BY <1>1, <1>2 DEF DevicesInv, DeviceTypes, SignedByOwner, OfNodes, ScanIsOfNode
<1>5. Heard' /\ Trees'
  BY <1>1, SameHeard, SameTrees DEF DevicesInv
<1> QED
  BY <1>3, <1>4, <1>5 DEF DevicesInv

\* The job in front ends as a failure.
LEMMA FailsKeeps ==
    ASSUME DevicesInv, at.step # "idle", JobDone, Failed(Head(jobs)),
           session' \in Someone, UNCHANGED <<kind, combo, records>>
    PROVE  DevicesInv'
<1>1. jobs # <<>> /\ jobs' = Tail(jobs) /\ at' = Waiting
  BY DEF DevicesInv, JobInFront, JobDone
<1>2. jobs' \in Seq(Jobs) /\ Head(jobs) \in Jobs
  BY <1>1, Popped DEF DevicesInv
<1>3. /\ TellsCaller(Head(jobs))
      /\ scan' \in [Dialogs -> Scans] /\ attempt' \in Tried
      /\ \A d \in Dialogs : \/ scan'[d] = scan[d]
                            \/ scan'[d] = [scan[d] EXCEPT !.stage = "failed"]
      /\ attempt' = attempt \/ attempt'.stage = "failed"
  BY <1>2, FailureTold DEF DevicesInv
<1>4. DeviceTypes'
  BY <1>1, <1>2, <1>3 DEF DevicesInv, DeviceTypes, Waiting
<1>5. Heard' /\ JobInFront' /\ Trees'
  BY <1>1, <1>3, PopKeepsHeard, DoneKeepsFront, SameTrees DEF DevicesInv
<1>6. SignedByOwner'
  BY <1>3 DEF DevicesInv, SignedByOwner
<1>7. OfNodes'
  BY <1>3, FailureKeepsScans DEF DevicesInv
<1> QED
  BY <1>4, <1>5, <1>6, <1>7 DEF DevicesInv

LEMMA CallTimesOutKeeps ==
    ASSUME DevicesInv, CallTimesOut
    PROVE  DevicesInv'
<1>1. PICK n \in DOMAIN jobs : /\ jobs[n].heard
                               /\ jobs' = [jobs EXCEPT ![n].heard = FALSE]
                               /\ Failed(jobs[n])
  BY DEF CallTimesOut
<1>2. UNCHANGED <<kind, session, at, combo, records>>
  BY DEF CallTimesOut, deviceVars, dialogVars
<1>3. jobs \in Seq(Jobs) /\ jobs[n] \in Jobs
  BY DEF DevicesInv, DeviceTypes
<1> DEFINE old == jobs[n]
<1> DEFINE new == [old EXCEPT !.heard = FALSE]
<1>4. /\ new \in Jobs /\ new.heard = FALSE /\ new.by = old.by /\ new.what = old.what
      /\ new.record = old.record
  BY <1>3 DEF Jobs
<1>5. jobs' = [jobs EXCEPT ![n] = new]
  BY <1>1
<1>6. /\ TellsCaller(old)
      /\ scan' \in [Dialogs -> Scans] /\ attempt' \in Tried
      /\ \A d \in Dialogs : \/ scan'[d] = scan[d]
                            \/ scan'[d] = [scan[d] EXCEPT !.stage = "failed"]
      /\ attempt' = attempt \/ attempt'.stage = "failed"
  BY <1>1, <1>3, FailureTold DEF DevicesInv
<1> HIDE DEF new
<1>7. /\ jobs' \in Seq(Jobs) /\ DOMAIN jobs' = DOMAIN jobs /\ jobs' # <<>>
      /\ \A i \in DOMAIN jobs : jobs'[i] = IF i = n THEN new ELSE jobs[i]
  BY <1>3, <1>4, <1>5
<1>8. DeviceTypes'
  BY <1>2, <1>6, <1>7 DEF DevicesInv, DeviceTypes
<1>9. JobInFront'
  <2>1. 1 \in DOMAIN jobs /\ Head(jobs) = jobs[1] /\ Head(jobs') = jobs'[1]
    BY <1>3, <1>7
  <2>2. Head(jobs').what = Head(jobs).what /\ Head(jobs').record = Head(jobs).record
    BY <1>4, <1>7, <2>1
  <2> QED
    BY <1>2, <1>7, <2>2 DEF DevicesInv, JobInFront
<1>10. Heard'
  <2>1. ASSUME NEW i \in DOMAIN jobs'
        PROVE  /\ jobs'[i].what = "sign" <=> jobs'[i].by = NoDialog
               /\ jobs'[i].heard => Awaited(jobs'[i], scan', attempt')
    <3>1. i \in DOMAIN jobs
      BY <1>7
    <3> DEFINE j == jobs[i]
    <3>2. /\ j \in Jobs /\ (j.what = "sign" <=> j.by = NoDialog)
          /\ j.heard => Awaited(j, scan, attempt) /\ (i # n => j.by # old.by)
      BY <1>1, <1>3, <3>1 DEF DevicesInv, Heard
    <3> HIDE DEF j
    <3>3. CASE i = n
      BY <1>4, <1>7, <3>1, <3>2, <3>3 DEF j
    <3>4. CASE i # n
      <4>1. jobs'[i] = j
        BY <1>7, <3>1, <3>4 DEF j
      <4>2. ASSUME j.heard
            PROVE  Awaited(j, scan', attempt')
        <5>1. CASE j.what = "sign"
          <6>1. attempt' = attempt
            BY <1>6, <3>2, <3>4, <4>2, <5>1 DEF TellsCaller
          <6> QED
            BY <3>2, <4>2, <5>1, <6>1 DEF Awaited
        <5>2. CASE j.what # "sign"
          <6>1. j.by \in Dialogs
            BY <3>2, <5>2 DEF Jobs
          <6>2. scan'[j.by] = scan[j.by]
            BY <1>6, <3>2, <3>4, <4>2, <6>1 DEF TellsCaller
          <6> QED
            BY <3>2, <4>2, <5>2, <6>2 DEF Awaited
        <5> QED
          BY <5>1, <5>2
      <4> QED
        BY <3>2, <4>1, <4>2
    <3> QED
      BY <3>3, <3>4
  <2>2. ASSUME NEW i \in DOMAIN jobs', NEW k \in DOMAIN jobs', jobs'[i].heard,
               jobs'[k].heard, jobs'[i].by = jobs'[k].by
        PROVE  i = k
    BY <1>4, <1>7, <2>2 DEF DevicesInv, Heard
  <2> QED
    BY <2>1, <2>2 DEF Heard
<1>11. SignedByOwner'
  BY <1>6 DEF DevicesInv, SignedByOwner
<1>12. OfNodes' /\ Trees'
  BY <1>2, <1>6, FailureKeepsScans, SameTrees DEF DevicesInv
<1> QED
  BY <1>8, <1>9, <1>10, <1>11, <1>12 DEF DevicesInv

LEMMA CheckKeeps ==
    ASSUME DevicesInv, Check
    PROVE  DevicesInv'
<1>1. /\ at.step = "talk" /\ Head(jobs).what = "sign" /\ jobs # <<>>
      /\ UNCHANGED <<kind, combo, records>>
  BY DEF Check, Signing, dialogVars, DevicesInv, JobInFront
<1>2. CASE Address(session, Target.path) = Target.address
  <2>1. /\ at' = [at EXCEPT !.step = "confirm"]
        /\ UNCHANGED <<session, jobs, scan, attempt>>
    BY <1>2 DEF Check
  <2>2. at'.step = "confirm"
        /\ at' \in [step : {"idle", "open", "talk", "confirm"}, again : BOOLEAN]
    BY <2>1 DEF DevicesInv, DeviceTypes
  <2>3. JobInFront'
    BY <1>1, <1>2, <2>1, <2>2 DEF JobInFront, DevicesInv, Target
  <2>4. DeviceTypes' /\ SignedByOwner' /\ OfNodes'
    BY <1>1, <2>1, <2>2 DEF DevicesInv, DeviceTypes, SignedByOwner, OfNodes, ScanIsOfNode
  <2>5. Heard' /\ Trees'
    BY <1>1, <2>1, SameHeard, SameTrees DEF DevicesInv
  <2> QED
    BY <2>3, <2>4, <2>5 DEF DevicesInv
<1>3. CASE Address(session, Target.path) # Target.address
  <2>1. JobDone /\ Failed(Head(jobs)) /\ session' = After(LetGo(session))
    BY <1>3 DEF Check
  <2>2. session' \in Someone
    BY <2>1 DEF After, LetGo, Someone
  <2> QED
    BY <1>1, <2>1, <2>2, FailsKeeps
<1> QED
  BY <1>2, <1>3

LEMMA ConfirmKeeps ==
    ASSUME DevicesInv, Confirm
    PROVE  DevicesInv'
<1>1. /\ at.step = "confirm" /\ Head(jobs).what = "sign" /\ jobs # <<>>
      /\ jobs' = Tail(jobs) /\ at' = Waiting /\ session' = After(session)
      /\ UNCHANGED <<kind, combo, records, scan>>
      /\ session \in Wallets
      /\ Address(session, Head(jobs).record.path) = Head(jobs).record.address
  BY DEF Confirm, Signing, JobDone, dialogVars, DevicesInv, JobInFront
<1>2. /\ jobs' \in Seq(Jobs) /\ Head(jobs) \in Jobs /\ 1 \in DOMAIN jobs
      /\ Head(jobs) = jobs[1]
  BY <1>1, Popped DEF DevicesInv
<1>3. /\ Head(jobs).by = NoDialog
      /\ Head(jobs).heard => attempt.record = Head(jobs).record
  BY <1>1, <1>2 DEF DevicesInv, Heard, Awaited
<1>4. session' \in Someone
  BY <1>1 DEF After, Someone
<1>5. CASE Head(jobs).heard
  <2> DEFINE owner == Head(jobs).record.address
  <2>1. attempt' = [attempt EXCEPT !.stage = "signed", !.by = owner]
    BY <1>1, <1>5 DEF Confirm, Target
  <2>2. owner \in Addresses
    BY <1>1, <1>2 DEF Jobs, Recs
  <2> HIDE DEF owner
  <2>3. /\ attempt' \in Tried /\ attempt'.by = owner /\ attempt'.record = attempt.record
    BY <2>1, <2>2 DEF DevicesInv, DeviceTypes, Tried
  <2>4. SignedByOwner'
    BY <1>3, <1>5, <2>3 DEF SignedByOwner, owner
  <2>5. TellsCaller(Head(jobs))
    BY <1>1, <1>3, <1>5 DEF TellsCaller
  <2>6. DeviceTypes'
    BY <1>1, <1>2, <1>4, <2>3 DEF DevicesInv, DeviceTypes, Waiting
  <2>7. Heard' /\ JobInFront' /\ Trees'
    BY <1>1, <2>5, PopKeepsHeard, DoneKeepsFront, SameTrees DEF DevicesInv
  <2>8. OfNodes'
    BY <1>1 DEF DevicesInv, OfNodes, ScanIsOfNode
  <2> QED
    BY <2>4, <2>6, <2>7, <2>8 DEF DevicesInv
<1>6. CASE ~Head(jobs).heard
  <2>1. attempt' = attempt
    BY <1>6 DEF Confirm
  <2>2. TellsCaller(Head(jobs))
    BY <1>1, <2>1 DEF TellsCaller
  <2>3. DeviceTypes' /\ SignedByOwner'
    BY <1>1, <1>2, <1>4, <2>1 DEF DevicesInv, DeviceTypes, Waiting, SignedByOwner
  <2>4. Heard' /\ JobInFront' /\ Trees'
    BY <1>1, <2>2, PopKeepsHeard, DoneKeepsFront, SameTrees DEF DevicesInv
  <2>5. OfNodes'
    BY <1>1 DEF DevicesInv, OfNodes, ScanIsOfNode
  <2> QED
    BY <2>3, <2>4, <2>5 DEF DevicesInv
<1> QED
  BY <1>5, <1>6

LEMMA ReadFirstKeeps ==
    ASSUME DevicesInv, NEW d \in Dialogs, ReadFirst(d)
    PROVE  DevicesInv'
<1>1. /\ at.step = "talk" /\ Head(jobs).what = "first" /\ Head(jobs).by = d /\ jobs # <<>>
      /\ jobs' = Tail(jobs) /\ at' = Waiting
      /\ UNCHANGED <<kind, combo, records, session, attempt>>
      /\ session \in Wallets
  BY DEF ReadFirst, JobDone, dialogVars, deviceVars, DevicesInv, JobInFront, Undisturbed
<1>2. /\ jobs' \in Seq(Jobs) /\ Head(jobs) \in Jobs /\ 1 \in DOMAIN jobs
      /\ Head(jobs) = jobs[1]
  BY <1>1, Popped DEF DevicesInv
<1>3. scan \in [Dialogs -> Scans] /\ scan[d] \in Scans /\ d # NoDialog
  BY DevicesAssumption DEF DevicesInv, DeviceTypes, NoDialog
<1>4. CASE ~Head(jobs).heard
  <2>1. scan' = scan
    BY <1>4 DEF ReadFirst
  <2>2. TellsCaller(Head(jobs))
    BY <1>1, <2>1 DEF TellsCaller
  <2>3. DeviceTypes' /\ SignedByOwner'
    BY <1>1, <1>2, <2>1 DEF DevicesInv, DeviceTypes, Waiting, SignedByOwner
  <2>4. Heard' /\ JobInFront' /\ Trees'
    BY <1>1, <2>2, PopKeepsHeard, DoneKeepsFront, SameTrees DEF DevicesInv
  <2>5. OfNodes'
    BY <1>1, <2>1 DEF DevicesInv, OfNodes, ScanIsOfNode
  <2> QED
    BY <2>3, <2>4, <2>5 DEF DevicesInv
<1>5. CASE Head(jobs).heard
  <2> DEFINE stage == IF scan[d].scheme \in Direct THEN "derive" ELSE "more"
  <2> DEFINE s == [scan[d] EXCEPT !.xfp = session, !.stage = stage]
  <2>1. scan' = [scan EXCEPT ![d] = s]
    BY <1>5 DEF ReadFirst, NodeRead
  <2>2. /\ s \in Scans /\ s.xfp = session /\ s.stage = stage /\ s.rows = scan[d].rows
        /\ s.scheme = scan[d].scheme
    BY <1>1, <1>3 DEF Scans, Someone
  <2>3. scan[d].stage = "first"
    BY <1>1, <1>2, <1>5 DEF DevicesInv, Heard, Awaited
  <2>4. scan[d].rows = {}
    BY <2>3 DEF DevicesInv, OfNodes, ScanIsOfNode
  <2> HIDE DEF s
  <2>5. /\ scan' \in [Dialogs -> Scans] /\ scan'[d] = s
        /\ \A e \in Dialogs : e # d => scan'[e] = scan[e]
    BY <1>3, <2>1, <2>2
  <2>6. TellsCaller(Head(jobs))
    BY <1>1, <1>3, <1>5, <2>5 DEF TellsCaller
  <2>7. DeviceTypes' /\ SignedByOwner'
    BY <1>1, <1>2, <2>5 DEF DevicesInv, DeviceTypes, Waiting, SignedByOwner
  <2>8. Heard' /\ JobInFront' /\ Trees'
    BY <1>1, <2>6, PopKeepsHeard, DoneKeepsFront, SameTrees DEF DevicesInv
  <2>9. OfNodes'
    <3>1. ScanIsOfNode(s)
      BY <1>1, <2>2, <2>4 DEF ScanIsOfNode
    <3>2. \A e \in Dialogs : ScanIsOfNode(scan'[e])
      BY <2>5, <3>1 DEF DevicesInv, OfNodes
    <3> QED
      BY <1>1, <3>2, NodesKept
  <2> QED
    BY <2>7, <2>8, <2>9 DEF DevicesInv
<1> QED
  BY <1>4, <1>5

LEMMA ReadBatchKeeps ==
    ASSUME DevicesInv, NEW d \in Dialogs, ReadBatch(d)
    PROVE  DevicesInv'
<1>1. /\ at.step = "talk" /\ Head(jobs).what = "batch" /\ Head(jobs).by = d /\ jobs # <<>>
      /\ jobs' = Tail(jobs) /\ at' = Waiting /\ session' = After(session)
      /\ UNCHANGED <<kind, combo, records, attempt>>
      /\ session \in Wallets
  BY DEF ReadBatch, JobDone, dialogVars, DevicesInv, JobInFront
<1>2. /\ jobs' \in Seq(Jobs) /\ Head(jobs) \in Jobs /\ 1 \in DOMAIN jobs
      /\ Head(jobs) = jobs[1] /\ session' \in Someone
  BY <1>1, Popped DEF DevicesInv, After, Someone
<1>3. scan \in [Dialogs -> Scans] /\ scan[d] \in Scans /\ d # NoDialog
  BY DevicesAssumption DEF DevicesInv, DeviceTypes, NoDialog
<1>4. CASE ~Head(jobs).heard
  <2>1. scan' = scan
    BY <1>4 DEF ReadBatch
  <2>2. TellsCaller(Head(jobs))
    BY <1>1, <2>1 DEF TellsCaller
  <2>3. DeviceTypes' /\ SignedByOwner'
    BY <1>1, <1>2, <2>1 DEF DevicesInv, DeviceTypes, Waiting, SignedByOwner
  <2>4. Heard' /\ JobInFront' /\ Trees'
    BY <1>1, <2>2, PopKeepsHeard, DoneKeepsFront, SameTrees DEF DevicesInv
  <2>5. OfNodes'
    BY <1>1, <2>1 DEF DevicesInv, OfNodes, ScanIsOfNode
  <2> QED
    BY <2>3, <2>4, <2>5 DEF DevicesInv
<1>5. CASE Head(jobs).heard
  <2>1. PICK used \in SUBSET (Enabled \cap Batch(d)) :
          scan' = [scan EXCEPT ![d] = Listed(d, session, used)]
    BY <1>5 DEF ReadBatch
  <2> DEFINE s == Listed(d, session, used)
  <2>2. scan[d].stage = "batch"
    BY <1>1, <1>2, <1>5 DEF DevicesInv, Heard, Awaited
  <2>3. /\ s \in Scans /\ s.scheme = scan[d].scheme /\ s.xfp = scan[d].xfp
        /\ s.stage \in {"done", "more"}
        /\ \A x \in s.rows :
              \/ x \in scan[d].rows
              \/ x.address.wallet = session /\ x.address.path.scheme = scan[d].scheme
    BY <1>1, <2>2, ListedFacts DEF DevicesInv
  <2> HIDE DEF s
  <2>4. /\ scan' \in [Dialogs -> Scans] /\ scan'[d] = s
        /\ \A e \in Dialogs : e # d => scan'[e] = scan[e]
    BY <1>3, <2>1, <2>3 DEF s
  <2>5. TellsCaller(Head(jobs))
    BY <1>1, <1>3, <1>5, <2>4 DEF TellsCaller
  <2>6. DeviceTypes' /\ SignedByOwner'
    BY <1>1, <1>2, <2>4 DEF DevicesInv, DeviceTypes, Waiting, SignedByOwner
  <2>7. Heard' /\ JobInFront' /\ Trees'
    BY <1>1, <2>5, PopKeepsHeard, DoneKeepsFront, SameTrees DEF DevicesInv
  <2>8. OfNodes'
    <3>1. ScanIsOfNode(scan[d])
      BY DEF DevicesInv, OfNodes
    <3>2. ScanIsOfNode(s)
      BY <2>2, <2>3, <3>1 DEF ScanIsOfNode
    <3>3. \A e \in Dialogs : ScanIsOfNode(scan'[e])
      BY <2>4, <3>2 DEF DevicesInv, OfNodes
    <3> QED
      BY <1>1, <3>3, NodesKept
  <2> QED
    BY <2>6, <2>7, <2>8 DEF DevicesInv
<1> QED
  BY <1>4, <1>5

-----------------------------------------------------------------------------
(* The devices: the steps of the host.                                     *)

LEMMA SignKeeps ==
    ASSUME DevicesInv, NEW r \in records, Sign(r)
    PROVE  DevicesInv'
<1> DEFINE j == Job(NoDialog, "sign", r)
<1>1. /\ attempt.stage \in {"no", "failed"}
      /\ attempt' = [stage |-> "queued", record |-> r, by |-> Nobody]
      /\ jobs' = Append(jobs, j)
      /\ UNCHANGED <<kind, session, at, combo, scan, records>>
  BY DEF Sign, deviceVars, dialogVars
<1>2. /\ j \in Jobs /\ j.what = "sign" /\ j.by = NoDialog /\ j.record = r /\ r \in Recs
  BY DEF Job, Jobs, DevicesInv, DeviceTypes
<1> HIDE DEF j
<1>3. DeviceTypes' /\ SignedByOwner'
  <2>1. attempt' \in Tried /\ attempt'.stage = "queued"
    BY <1>1, <1>2 DEF Tried
  <2> QED
    BY <1>1, <1>2, <2>1, Pushed DEF DevicesInv, DeviceTypes, SignedByOwner
<1>4. JobInFront' /\ Trees'
  BY <1>1, <1>2, PushKeepsFront, SameTrees DEF DevicesInv
<1>5. OfNodes'
  BY <1>1 DEF DevicesInv, OfNodes, ScanIsOfNode
<1>6. Heard'
  <2>1. \A i \in DOMAIN jobs : jobs[i].heard => jobs[i].by # j.by
    BY <1>1, <1>2 DEF DevicesInv, Heard, Awaited
  <2>2. Awaited(j, scan', attempt')
    BY <1>1, <1>2 DEF Awaited
  <2>3. TellsCaller(j)
    <3>1. j.heard
      BY DEF j, Job
    <3> QED
      BY <1>1, <1>2, <3>1 DEF TellsCaller
  <2> QED
    BY <1>1, <1>2, <2>1, <2>2, <2>3, PushKeepsHeard DEF DevicesInv
<1> QED
  BY <1>3, <1>4, <1>5, <1>6 DEF DevicesInv

LEMMA NextRequestKeeps ==
    ASSUME DevicesInv, NextRequest
    PROVE  DevicesInv'
<1>1. /\ attempt.stage = "signed" /\ attempt' = [attempt EXCEPT !.stage = "no", !.by = Nobody]
      /\ UNCHANGED <<kind, session, at, jobs, combo, scan, records>>
  BY DEF NextRequest, deviceVars, threadVars, dialogVars
<1>2. attempt' \in Tried /\ attempt'.stage = "no"
  BY <1>1 DEF DevicesInv, DeviceTypes, Tried
<1>3. DeviceTypes' /\ SignedByOwner' /\ OfNodes'
  BY <1>1, <1>2 DEF DevicesInv, DeviceTypes, SignedByOwner, OfNodes, ScanIsOfNode
<1>4. JobInFront' /\ Trees'
  BY <1>1, SameFront, SameTrees DEF DevicesInv
<1>5. Heard'
  BY <1>1 DEF DevicesInv, Heard, Awaited
<1> QED
  BY <1>3, <1>4, <1>5 DEF DevicesInv

\* A scan starts, or asks for its next batch: it waits for the job it submits.
LEMMA AskKeeps ==
    ASSUME DevicesInv, NEW d \in Dialogs, NEW s \in Scans, ScanIsOfNode(s),
           scan[d].stage \notin {"first", "batch"}, scan' = [scan EXCEPT ![d] = s],
           \/ UNCHANGED jobs
           \/ /\ s.stage \in {"first", "batch"}
              /\ jobs' = Append(jobs, Job(d, s.stage, Nobody)),
           UNCHANGED <<kind, session, at, combo, attempt, records>>
    PROVE  DevicesInv'
<1> DEFINE j == Job(d, s.stage, Nobody)
<1>1. scan \in [Dialogs -> Scans] /\ d # NoDialog
  BY DevicesAssumption DEF DevicesInv, DeviceTypes, NoDialog
<1>2. /\ scan' \in [Dialogs -> Scans] /\ scan'[d] = s
      /\ \A e \in Dialogs : e # d => scan'[e] = scan[e]
  BY <1>1
<1>3. OfNodes'
  <2>1. \A e \in Dialogs : ScanIsOfNode(scan'[e])
    BY <1>2 DEF DevicesInv, OfNodes
  <2> QED
    BY <2>1, NodesKept
<1>4. \A i \in DOMAIN jobs : jobs[i].heard => jobs[i].by # d
  <2> SUFFICES ASSUME NEW i \in DOMAIN jobs, jobs[i].heard, jobs[i].by = d
               PROVE  FALSE
    OBVIOUS
  <2>1. jobs[i] \in Jobs
    BY DEF DevicesInv, DeviceTypes
  <2>2. jobs[i].what # "sign" /\ scan[d].stage = jobs[i].what
    BY <1>1 DEF DevicesInv, Heard, Awaited
  <2> QED
    BY <2>1, <2>2 DEF Jobs
<1>5. CASE UNCHANGED jobs
  <2>1. DeviceTypes' /\ SignedByOwner'
    BY <1>2, <1>5 DEF DevicesInv, DeviceTypes, SignedByOwner
  <2>2. JobInFront' /\ Trees'
    BY <1>5, SameFront, SameTrees DEF DevicesInv
  <2>3. Heard'
    <3>1. ASSUME NEW i \in DOMAIN jobs, jobs[i].heard
          PROVE  Awaited(jobs[i], scan', attempt')
      <4>1. jobs[i] \in Jobs /\ jobs[i].by # d /\ Awaited(jobs[i], scan, attempt)
            /\ (jobs[i].what = "sign" <=> jobs[i].by = NoDialog)
        BY <1>4, <3>1 DEF DevicesInv, DeviceTypes, Heard
      <4>2. jobs[i].what # "sign" => scan'[jobs[i].by] = scan[jobs[i].by]
        BY <1>2, <4>1 DEF Jobs
      <4> QED
        BY <4>1, <4>2 DEF Awaited
    <3> QED
      BY <1>5, <3>1 DEF DevicesInv, Heard
  <2> QED
    BY <1>3, <2>1, <2>2, <2>3 DEF DevicesInv
<1>6. CASE s.stage \in {"first", "batch"} /\ jobs' = Append(jobs, j)
  <2>1. /\ j \in Jobs /\ j.what = s.stage /\ j.what # "sign" /\ j.by = d /\ j.heard
    BY <1>6 DEF Job, Jobs
  <2> HIDE DEF j
  <2>2. DeviceTypes' /\ SignedByOwner'
    BY <1>2, <1>6, <2>1, Pushed DEF DevicesInv, DeviceTypes, SignedByOwner
  <2>3. JobInFront' /\ Trees'
    BY <1>6, <2>1, PushKeepsFront, SameTrees DEF DevicesInv
  <2>4. Awaited(j, scan', attempt')
    BY <1>2, <2>1 DEF Awaited
  <2>5. TellsCaller(j)
    BY <1>2, <2>1 DEF TellsCaller
  <2>6. Heard'
    BY <1>1, <1>4, <1>6, <2>1, <2>4, <2>5, PushKeepsHeard DEF DevicesInv
  <2> QED
    BY <1>3, <2>2, <2>3, <2>6 DEF DevicesInv
<1> QED
  BY <1>5, <1>6

LEMMA ScanKeeps ==
    ASSUME DevicesInv, NEW d \in Dialogs, NEW auto \in BOOLEAN, Scan(d, auto)
    PROVE  DevicesInv'
<1> DEFINE stage == IF kind = "trezor" THEN "first" ELSE "more"
<1> DEFINE s == [scan[d] EXCEPT !.stage = stage, !.scheme = combo, !.auto = auto]
<1>1. /\ scan[d].stage = "no" /\ scan' = [scan EXCEPT ![d] = s]
      /\ jobs' = IF kind = "trezor" THEN Append(jobs, Job(d, "first", Nobody)) ELSE jobs
      /\ UNCHANGED <<kind, session, at, combo, attempt, records>>
  BY DEF Scan, dialogVars, Undisturbed, deviceVars
<1>2. scan[d] \in Scans /\ combo \in Schemes /\ ScanIsOfNode(scan[d])
  BY DEF DevicesInv, DeviceTypes, OfNodes
<1>3. /\ s \in Scans /\ s.stage = stage /\ s.scheme = combo /\ s.rows = scan[d].rows
      /\ s.xfp = scan[d].xfp
  BY <1>2 DEF Scans
<1> HIDE DEF s
<1>4. ScanIsOfNode(s)
  BY <1>1, <1>2, <1>3 DEF ScanIsOfNode
<1> QED
  BY <1>1, <1>3, <1>4, AskKeeps

LEMMA AskBatchKeeps ==
    ASSUME DevicesInv, NEW d \in Dialogs, AskBatch(d)
    PROVE  DevicesInv'
<1> DEFINE s == [scan[d] EXCEPT !.stage = "batch"]
<1>1. /\ scan[d].stage = "more" /\ scan' = [scan EXCEPT ![d] = s]
      /\ jobs' = Append(jobs, Job(d, "batch", Nobody))
      /\ UNCHANGED <<kind, session, at, combo, attempt, records>>
  BY DEF AskBatch, dialogVars, Undisturbed, deviceVars
<1>2. scan[d] \in Scans /\ ScanIsOfNode(scan[d])
  BY DEF DevicesInv, DeviceTypes, OfNodes
<1>3. /\ s \in Scans /\ s.stage = "batch" /\ s.scheme = scan[d].scheme
      /\ s.rows = scan[d].rows /\ s.xfp = scan[d].xfp
  BY <1>2 DEF Scans
<1> HIDE DEF s
<1>4. ScanIsOfNode(s)
  BY <1>1, <1>2, <1>3 DEF ScanIsOfNode
<1> QED
  BY <1>1, <1>3, <1>4, AskKeeps

LEMMA DeriveKeeps ==
    ASSUME DevicesInv, NEW d \in Dialogs, Derive(d)
    PROVE  DevicesInv'
<1>1. /\ scan[d].stage = "derive"
      /\ UNCHANGED <<kind, session, at, jobs, combo, attempt, records>>
  BY DEF Derive, dialogVars, threadVars, Undisturbed, deviceVars
<1>2. PICK used \in SUBSET (Enabled \cap Batch(d)) :
        scan' = [scan EXCEPT ![d] = Listed(d, scan[d].xfp, used)]
  BY DEF Derive
<1> DEFINE s == Listed(d, scan[d].xfp, used)
<1>3. ScanIsOfNode(scan[d]) /\ scan[d].xfp \in Wallets
  BY <1>1 DEF DevicesInv, OfNodes, ScanIsOfNode
<1>4. /\ s \in Scans /\ s.scheme = scan[d].scheme /\ s.xfp = scan[d].xfp
      /\ s.stage \in {"done", "derive"}
      /\ \A x \in s.rows :
            \/ x \in scan[d].rows
            \/ x.address.wallet = scan[d].xfp /\ x.address.path.scheme = scan[d].scheme
  BY <1>1, <1>3, ListedFacts DEF DevicesInv
<1>5. scan' = [scan EXCEPT ![d] = s]
  BY <1>2
<1> HIDE DEF s
<1>6. ScanIsOfNode(s)
  BY <1>1, <1>3, <1>4 DEF ScanIsOfNode
<1> QED
  BY <1>1, <1>4, <1>5, <1>6, AskKeeps

\* The rows a dialog adds are of its scan's fingerprint, and so is the tree of
\* nodes they join.
LEMMA AcceptKeeps ==
    ASSUME DevicesInv, NEW d \in Dialogs, NEW chosen \in SUBSET scan[d].rows,
           Accept(d, chosen)
    PROVE  DevicesInv'
<1>1. /\ chosen # {}
      /\ \A x \in chosen : \A r \in records : r.address # x.address
      /\ UNCHANGED <<kind, session, at, jobs, combo, scan, attempt>>
  BY DEF Accept, deviceVars, threadVars
<1>2. PICK x \in chosen, tree \in {y.address : y \in chosen} \cup Resolved(d) :
        /\ IF Resolved(d) = {} THEN tree = x.address ELSE tree \in Resolved(d)
        /\ records' = records \cup
             {[address |-> y.address, path |-> y.address.path, scheme |-> combo,
               xfp |-> scan[d].xfp, tree |-> tree] : y \in chosen}
  BY DEF Accept
<1> DEFINE Added(y) == [address |-> y.address, path |-> y.address.path, scheme |-> combo,
                        xfp |-> scan[d].xfp, tree |-> tree]
<1> DEFINE added == {Added(y) : y \in chosen}
<1>3. scan[d] \in Scans /\ ScanIsOfNode(scan[d])
  BY DEF DevicesInv, DeviceTypes, OfNodes
<1>4. \A y \in chosen : y \in scan[d].rows /\ y.address \in Addresses /\ y.address.path \in Paths
  BY <1>3 DEF Scans, Rows, Addresses
<1>5. records \subseteq Recs /\ scan[d].xfp \in Someone /\ combo \in Schemes
  BY <1>3 DEF DevicesInv, DeviceTypes, Scans
<1>6. Resolved(d) \subseteq {r.tree : r \in {s \in records : s.scheme = combo}}
  BY DEF Resolved
<1>7. tree \in Addresses
  BY <1>2, <1>4, <1>5, <1>6 DEF Recs
<1>8. records' = records \cup added
  BY <1>2
<1>9. \A y \in chosen : Added(y) \in Recs
  BY <1>4, <1>5, <1>7 DEF Recs
<1>10. \A r \in added : /\ r.path = r.address.path /\ r.tree = tree /\ r.xfp = scan[d].xfp
                        /\ \E y \in chosen : r.address = y.address
  OBVIOUS
<1>11. Added(x) \in added /\ Added(x).address = x.address
  OBVIOUS
<1>12. DeviceTypes'
  BY <1>1, <1>8, <1>9 DEF DevicesInv, DeviceTypes
<1> HIDE DEF added, Added
<1>13. SignedByOwner' /\ OfNodes' /\ JobInFront' /\ Heard'
  BY <1>1, SameHeard, SameFront DEF DevicesInv, SignedByOwner, OfNodes, ScanIsOfNode
<1>14. \A r \in records : r.path = r.address.path /\ \E s \in records : r.tree = s.address
  BY DEF DevicesInv, Trees
<1>15. \A r \in records' : r.path = r.address.path
  BY <1>8, <1>10, <1>14
<1>16. \A r \in records' : \E s \in records' : r.tree = s.address
  <2>1. \E s \in records' : tree = s.address
    <3>1. CASE Resolved(d) = {}
      BY <1>2, <1>8, <1>11, <3>1
    <3>2. CASE Resolved(d) # {}
      BY <1>2, <1>6, <1>8, <1>14, <3>2
    <3> QED
      BY <3>1, <3>2
  <2> QED
    BY <1>8, <1>10, <1>14, <2>1
<1>17. ASSUME kind = "trezor"
       PROVE  \A r \in records' : r.path.scheme \in Direct => r.address.wallet = r.xfp
  <2>1. \A y \in chosen : y.address.path.scheme = scan[d].scheme
                          /\ (scan[d].scheme \in Direct => y.address.wallet = scan[d].xfp)
    BY <1>3, <1>17 DEF ScanIsOfNode
  <2>2. \A r \in added : r.path.scheme \in Direct => r.address.wallet = r.xfp
    BY <1>10, <2>1
  <2> QED
    BY <1>8, <1>17, <2>2 DEF DevicesInv, Trees
<1>18. ASSUME kind = "trezor",
              NEW r \in records', NEW s \in records', r.tree = s.tree, AllDirect(r.tree)'
       PROVE  r.xfp = s.xfp
  <2>1. \A q \in records' : q.tree = r.tree => q.path.scheme \in Direct
    BY <1>18 DEF AllDirect
  <2>2. AllDirect(r.tree)
    BY <1>8, <2>1 DEF AllDirect
  <2>3. ASSUME r.tree = tree, NEW q \in records, q.tree = tree
        PROVE  q.xfp = scan[d].xfp
    <3>1. scan[d].xfp \in Wallets
      BY <1>2, <1>3, <1>18 DEF ScanIsOfNode
    <3>2. Resolved(d) # {}
      <4>1. tree # x.address
        BY <1>1, <1>14, <2>3
      <4> QED
        BY <1>2, <4>1
    <3> DEFINE same == {p \in records : p.scheme = combo}
    <3> DEFINE print == {p \in same : scan[d].xfp # Nobody /\ p.xfp = scan[d].xfp}
    <3> DEFINE overlap == {p \in same : \E y \in scan[d].rows : y.address = p.address}
    <3>3. PICK p \in IF print # {} THEN print ELSE overlap : p.tree = tree
      BY <1>2, <3>2 DEF Resolved
    <3>4. p \in records /\ p.scheme = combo /\ p.path.scheme \in Direct
      BY <1>8, <2>1, <2>3, <3>3
    <3>5. p.xfp = scan[d].xfp
      <4>1. CASE print # {}
        BY <3>3, <4>1
      <4>2. CASE print = {}
        <5>1. PICK y \in scan[d].rows : y.address = p.address
          BY <3>3, <4>2
        <5>2. p.path = p.address.path /\ p.address.wallet = p.xfp
          BY <1>14, <1>18, <3>4 DEF DevicesInv, Trees
        <5>3. scan[d].scheme \in Direct
          BY <1>3, <3>4, <5>1, <5>2 DEF ScanIsOfNode
        <5> QED
          BY <1>3, <1>18, <5>1, <5>2, <5>3 DEF ScanIsOfNode
      <4> QED
        BY <4>1, <4>2
    <3> QED
      BY <1>18, <2>2, <2>3, <3>3, <3>4, <3>5 DEF DevicesInv, Trees
  <2>4. CASE r.tree = tree
    BY <1>8, <1>10, <1>18, <2>3, <2>4
  <2>5. CASE r.tree # tree
    BY <1>8, <1>10, <1>18, <2>2, <2>5 DEF DevicesInv, Trees
  <2> QED
    BY <2>4, <2>5
<1>19. Trees'
  BY <1>1, <1>15, <1>16, <1>17, <1>18 DEF Trees
<1> QED
  BY <1>12, <1>13, <1>19 DEF DevicesInv

LEMMA DevicesNextKeeps ==
    ASSUME DevicesInv, [DevicesNext]_devicesVars
    PROVE  DevicesInv'
<1>0. combo \in Schemes /\ session \in Someone
  BY DEF DevicesInv, DeviceTypes
<1>1. CASE Begin \/ Open \/ Reconnect
  BY <1>1, SessionKeeps
<1>2. CASE JobFails
  <2>1. session' \in Someone
    BY <1>0, <1>2 DEF JobFails, After, Someone
  <2> QED
    BY <1>2, <2>1, FailsKeeps DEF JobFails, dialogVars
<1>3. CASE CallTimesOut
  BY <1>3, CallTimesOutKeeps
<1>4. CASE Check
  BY <1>4, CheckKeeps
<1>5. CASE Confirm
  BY <1>5, ConfirmKeeps
<1>6. ASSUME NEW d \in Dialogs, ReadFirst(d) \/ ReadBatch(d)
      PROVE  DevicesInv'
  BY <1>6, ReadFirstKeeps, ReadBatchKeeps
<1>7. ASSUME NEW r \in records, Sign(r)
      PROVE  DevicesInv'
  BY <1>7, SignKeeps
<1>8. CASE NextRequest
  BY <1>8, NextRequestKeeps
<1>9. ASSUME NEW d \in Dialogs, OpenDialog(d) \/ Close(d)
      PROVE  DevicesInv'
  BY <1>0, <1>9, SameDevices DEF OpenDialog, Close, threadVars, Undisturbed, deviceVars
<1>10. ASSUME NEW d \in Dialogs, AskBatch(d) \/ Derive(d)
       PROVE  DevicesInv'
  BY <1>10, AskBatchKeeps, DeriveKeeps
<1>11. ASSUME NEW d \in Dialogs, NEW auto \in BOOLEAN, Scan(d, auto)
       PROVE  DevicesInv'
  BY <1>11, ScanKeeps
<1>12. ASSUME NEW d \in Dialogs, NEW chosen \in SUBSET scan[d].rows, Accept(d, chosen)
       PROVE  DevicesInv'
  BY <1>12, AcceptKeeps
<1>13. ASSUME NEW c \in Schemes, PickScheme(c)
       PROVE  DevicesInv'
  BY <1>13, SameDevices DEF PickScheme, threadVars, Undisturbed, deviceVars
<1>14. ASSUME NEW seed \in Seeds \cup {"none"}, Replug(seed)
       PROVE  DevicesInv'
  BY <1>0, <1>14, SameDevices DEF Replug, threadVars, dialogVars
<1>15. CASE UNCHANGED devicesVars
  BY <1>0, <1>15, SameDevices DEF devicesVars, deviceVars, threadVars, dialogVars
<1> QED
  BY <1>1, <1>2, <1>3, <1>4, <1>5, <1>6, <1>7, <1>8, <1>9, <1>10, <1>11, <1>12, <1>13,
     <1>14, <1>15 DEF DevicesNext, Thread, Host

\* What the thread, its callers, the scans and the trees are at belongs together.
THEOREM DevicesInvariance == DevicesSpec => []DevicesInv
<1> QED
  BY DevicesStart, DevicesNextKeeps, PTL DEF DevicesSpec

\* A signature is of the account it was asked for, whatever is plugged in,
\* unplugged and typed meanwhile, and however late the device answers.
\* (_require_holds, _verify_device_holds_on_hid, run_trezor_job)
THEOREM OwnerSigns == DevicesSpec => []SignedByOwner
<1>1. DevicesInv => SignedByOwner
  BY DEF DevicesInv
<1> QED
  BY <1>1, DevicesInvariance, PTL

\* A tree whose accounts are all derived from nodes is of one seed and passphrase.
\* (_address_source, resolve_tree)
THEOREM NodeTreesAgree == DevicesSpec => []NodeTreesAreOneWallet
<1>1. DevicesInv => NodeTreesAreOneWallet
  <2> SUFFICES ASSUME DevicesInv, NEW r \in records, NEW s \in records, r.tree = s.tree,
                      kind = "trezor",
                      \A q \in records : q.tree = r.tree => q.path.scheme \in Direct
               PROVE  r.address.wallet = s.address.wallet
    BY DEF NodeTreesAreOneWallet
  <2>1. r.xfp = s.xfp
    BY DEF DevicesInv, Trees, AllDirect
  <2>2. r.address.wallet = r.xfp /\ s.address.wallet = s.xfp
    BY DEF DevicesInv, Trees
  <2> QED
    BY <2>1, <2>2
<1> QED
  BY <1>1, DevicesInvariance, PTL
=============================================================================
