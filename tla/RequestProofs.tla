---------------------------- MODULE RequestProofs ----------------------------
(***************************************************************************)
(* Proofs about requests on their way and what comes back: the endpoints a *)
(* proxied JSON-RPC call passes over (RpcProxy), what the Send dialog      *)
(* shows next to an enabled Confirm (SendForm), the exchange with an       *)
(* air-gapped signer (QrExchange), and the events that tell a dapp its     *)
(* chain (RpcServer).  The four models share no variable: each has its own *)
(* inductive invariant.                                                    *)
(***************************************************************************)
EXTENDS RpcServer, RpcProxy, SendForm, QrExchange, TLAPS, SequenceTheorems,
        NaturalsInduction, FiniteSetTheorems, WellFoundedInduction

-----------------------------------------------------------------------------
(* The proxy: the inductive invariant.                                     *)

HostSet == ToSet(Hosts)
Posts == [stage : {"no", "posted", "done"}, left : Seq(HostSet), host : HostSet \cup {NoHost},
          since : Nat,
          reply : {NoHost, "unavailable", "unreachable", "provider", "result", "error"}]
Exchanged == [how : {NoHost, "answered", "failed"}, posted : Nat, ended : Nat]

ProxyTypes ==
    /\ clock \in Nat /\ mark \in [HostSet -> SUBSET Nat] /\ last \in [HostSet -> Exchanged]
    /\ req \in [Requests -> Posts] /\ skipped \subseteq HostSet
    /\ \A r \in Requests : req[r].stage = "posted" => req[r].host \in HostSet

\* A host's mark is the time its last exchange was posted, which failed.
MarkIsLast(m, l) == \A h \in HostSet : \A t \in m[h] : l[h].how = "failed" /\ l[h].posted = t

ProxyInv == ProxyTypes /\ MarkIsLast(mark, last) /\ PassedOverIsFailing

-----------------------------------------------------------------------------
(* The loop. *)

LEMMA LeastIndex ==
    ASSUME NEW S \in SUBSET Nat, S # {}
    PROVE  Min(S) \in S /\ \A j \in S : Min(S) <= j
<1>1. \E i \in S : \A j \in S : i <= j
  <2>1. PICK i \in S : \A j \in S : <<j, i>> \notin OpToRel(<, Nat)
    BY NatLessThanWellFounded, WFMin
  <2>2. \A j \in S : ~(j < i)
    BY <2>1 DEF OpToRel
  <2> QED
    BY <2>2
<1> QED
  BY <1>1 DEF Min

LEMMA UrlsAreHosts == ASSUME NEW r \in Requests PROVE Urls(r) \in Seq(HostSet)
<1>1. \A i \in DOMAIN Hosts : Hosts[i] \in HostSet
  BY DEF HostSet, ToSet
<1>2. Hosts \in Seq(HostSet) /\ Head(Hosts) \in HostSet
  BY <1>1, ProxyAssumption
<1> QED
  BY <1>2 DEF Urls

\* A step of the loop passes over hosts that are on their cooldown only, and
\* posts the request to a host or replies.
LEMMA TriesHosts ==
    ASSUME ProxyTypes, NEW r \in Requests, NEW left \in Seq(HostSet),
           NEW error \in {NoHost, "unreachable", "provider"}, NEW m, Tries(r, left, error, m)
    PROVE  /\ mark' = m /\ skipped' \subseteq HostSet
           /\ \A h \in skipped' : Cooling(r, h, m)
           /\ req' \in [Requests -> Posts]
           /\ \A q \in Requests : req'[q].stage = "posted" => req'[q].host \in HostSet
<1> DEFINE open == {j \in DOMAIN left : ~Cooling(r, left[j], m)}
           i == IF open = {} THEN 0 ELSE Min(open)
           passed == IF i = 0 THEN left ELSE SubSeq(left, 1, i - 1)
           new == IF i = 0 THEN Replied(IF error = NoHost THEN "unavailable" ELSE error)
                  ELSE [stage |-> "posted", left |-> SubSeq(left, i + 1, Len(left)),
                        host |-> left[i], since |-> clock, reply |-> error]
<1>1. mark' = m /\ skipped' = ToSet(passed) /\ req' = [req EXCEPT ![r] = new]
  BY DEF Tries
<1>2. open \subseteq 1 .. Len(left) /\ open \subseteq Nat
  OBVIOUS
<1>3. /\ open = {} => i = 0
      /\ open # {} => i \in open /\ i \in 1 .. Len(left) /\ \A j \in open : i <= j
  BY <1>2, LeastIndex
<1>4. \A j \in DOMAIN left : j \notin open => Cooling(r, left[j], m)
  OBVIOUS
<1> HIDE DEF open, i
<1>5. \A j \in DOMAIN passed : \E k \in DOMAIN left : k \notin open /\ passed[j] = left[k]
  <2>1. CASE open = {}
    BY <2>1, <1>3
  <2>2. CASE open # {}
    <3>1. passed = SubSeq(left, 1, i - 1) /\ i - 1 \in 0 .. Len(left)
      BY <2>2, <1>3
    <3>2. DOMAIN passed = 1 .. i - 1 /\ \A j \in 1 .. i - 1 : passed[j] = left[j]
      BY <3>1, SubSeqProperties
    <3> QED
      BY <3>2, <2>2, <1>3
  <2> QED
    BY <2>1, <2>2
<1>6. ASSUME NEW h \in skipped'
      PROVE  h \in HostSet /\ Cooling(r, h, m)
  <2> PICK j \in DOMAIN passed : h = passed[j]
    BY <1>1 DEF ToSet
  <2> PICK k \in DOMAIN left : k \notin open /\ passed[j] = left[k]
    BY <1>5
  <2> HIDE DEF passed
  <2> QED
    BY <1>4
<1>7. new \in Posts /\ (new.stage = "posted" => new.host \in HostSet)
  <2>1. CASE open = {}
    BY <2>1, <1>3 DEF Replied, Posts, NoHost
  <2>2. CASE open # {}
    <3>1. SubSeq(left, i + 1, Len(left)) \in Seq(HostSet) /\ left[i] \in HostSet
      BY <2>2, <1>3, SubSeqProperties
    <3> QED
      BY <3>1, <2>2, <1>3 DEF Posts, ProxyTypes, NoHost
  <2> QED
    BY <2>1, <2>2
<1> HIDE DEF new
<1> QED
  BY <1>1, <1>6, <1>7 DEF ProxyTypes

-----------------------------------------------------------------------------
(* The proxy's theorem. *)

LEMMA ProxyInitInv == ProxyInit => ProxyInv
BY DEF ProxyInit, ProxyInv, ProxyTypes, MarkIsLast, PassedOverIsFailing, HostSet, Posts,
       Exchanged, NoHost

\* What was cooling with the marks was failing.
LEMMA CoolingIsFailing ==
    ASSUME NEW m, NEW l, MarkIsLast(m, l), NEW r, NEW h \in HostSet, Cooling(r, h, m)
    PROVE  l[h].how = "failed" /\ clock - l[h].posted < FailFast
BY DEF MarkIsLast, Cooling

LEMMA ProxyStep ==
    ASSUME ProxyInv, ProxyNext
    PROVE  ProxyInv'
<1>0. ProxyTypes /\ MarkIsLast(mark, last)
  BY DEF ProxyInv
<1>1. ASSUME NEW r \in Requests, Arrives(r)
      PROVE  ProxyInv'
  <2>1. Tries(r, Urls(r), NoHost, mark) /\ UNCHANGED <<clock, last>>
    BY <1>1 DEF Arrives
  <2>2. /\ mark' = mark /\ skipped' \subseteq HostSet
        /\ \A h \in skipped' : Cooling(r, h, mark)
        /\ req' \in [Requests -> Posts]
        /\ \A q \in Requests : req'[q].stage = "posted" => req'[q].host \in HostSet
    BY <2>1, <1>0, UrlsAreHosts, TriesHosts
  <2>3. \A h \in skipped' : last[h].how = "failed" /\ clock - last[h].posted < FailFast
    BY <1>0, <2>2, CoolingIsFailing
  <2> QED
    BY <1>0, <2>1, <2>2, <2>3 DEF ProxyInv, ProxyTypes, MarkIsLast, PassedOverIsFailing
<1>2. ASSUME NEW r \in Requests, HostAnswers(r)
      PROVE  ProxyInv'
  <2> DEFINE h == req[r].host
             e == [how |-> "answered", posted |-> req[r].since, ended |-> clock]
  <2>1. /\ h \in HostSet /\ mark' = [mark EXCEPT ![h] = {}] /\ skipped' = {} /\ clock' = clock
        /\ last' = [last EXCEPT ![h] = e]
        /\ \E reply \in {"result", "error"} : req' = [req EXCEPT ![r] = Replied(reply)]
    BY <1>0, <1>2 DEF HostAnswers, Ended, Cleared, ProxyTypes
  <2>2. e \in Exchanged
    BY <1>0 DEF ProxyTypes, Posts, Exchanged
  <2>3. \A reply \in {"result", "error"} :
            Replied(reply) \in Posts /\ Replied(reply).stage = "done"
    BY DEF Replied, Posts, NoHost
  <2> HIDE DEF h, e
  <2>4. /\ req' \in [Requests -> Posts]
        /\ \A q \in Requests : req'[q].stage = "posted" => req'[q].host \in HostSet
    BY <1>0, <2>1, <2>3 DEF ProxyTypes
  <2> QED
    BY <1>0, <2>1, <2>2, <2>4 DEF ProxyInv, ProxyTypes, MarkIsLast, PassedOverIsFailing
<1>3. ASSUME NEW r \in Requests, HostFails(r)
      PROVE  ProxyInv'
  <2> DEFINE h == req[r].host
             e == [how |-> "failed", posted |-> req[r].since, ended |-> clock]
  <2>1. /\ h \in HostSet /\ clock' = clock /\ last' = [last EXCEPT ![h] = e]
        /\ \E error \in {"unreachable", "provider"} : Tries(r, req[r].left, error, Marked(r))
    BY <1>0, <1>3 DEF HostFails, Ended, ProxyTypes
  <2>2. /\ e \in Exchanged /\ e.how = "failed" /\ e.posted = req[r].since
        /\ req[r].left \in Seq(HostSet) /\ req[r].since \in Nat
    BY <1>0 DEF ProxyTypes, Posts, Exchanged
  <2>3. Marked(r) = [mark EXCEPT ![h] = {req[r].since}]
    BY DEF Marked
  <2> HIDE DEF h, e
  <2>4. /\ mark' = Marked(r) /\ skipped' \subseteq HostSet
        /\ \A x \in skipped' : Cooling(r, x, Marked(r))
        /\ req' \in [Requests -> Posts]
        /\ \A q \in Requests : req'[q].stage = "posted" => req'[q].host \in HostSet
    BY <1>0, <2>1, <2>2, TriesHosts
  <2>5. MarkIsLast(Marked(r), last')
    BY <1>0, <2>1, <2>2, <2>3 DEF MarkIsLast, ProxyTypes
  <2>6. \A x \in skipped' : last'[x].how = "failed" /\ clock - last'[x].posted < FailFast
    BY <2>4, <2>5, CoolingIsFailing
  <2>7. mark' \in [HostSet -> SUBSET Nat]
    BY <1>0, <2>1, <2>2, <2>3, <2>4 DEF ProxyTypes
  <2> QED
    BY <1>0, <2>1, <2>2, <2>4, <2>5, <2>6, <2>7 DEF ProxyInv, ProxyTypes, PassedOverIsFailing, MarkIsLast
<1>4. ASSUME NEW r \in Requests, HostRefuses(r)
      PROVE  ProxyInv'
  <2>1. Tries(r, req[r].left, "provider", mark) /\ UNCHANGED <<clock, last>>
    BY <1>4 DEF HostRefuses
  <2>2. req[r].left \in Seq(HostSet)
    BY <1>0 DEF ProxyTypes, Posts
  <2>3. /\ mark' = mark /\ skipped' \subseteq HostSet
        /\ \A h \in skipped' : Cooling(r, h, mark)
        /\ req' \in [Requests -> Posts]
        /\ \A q \in Requests : req'[q].stage = "posted" => req'[q].host \in HostSet
    BY <2>1, <2>2, <1>0, TriesHosts
  <2>4. \A h \in skipped' : last[h].how = "failed" /\ clock - last[h].posted < FailFast
    BY <1>0, <2>3, CoolingIsFailing
  <2> QED
    BY <1>0, <2>1, <2>3, <2>4 DEF ProxyInv, ProxyTypes, MarkIsLast, PassedOverIsFailing
<1>5. ASSUME Tick
      PROVE  ProxyInv'
  BY <1>0, <1>5 DEF Tick, ProxyInv, ProxyTypes, MarkIsLast, PassedOverIsFailing
<1> QED
  BY <1>1, <1>2, <1>3, <1>4, <1>5 DEF ProxyNext

\* The invariant of the proxy holds: a mark is the time the last exchange with
\* its host was posted, and that exchange failed. (_proxy, _host_last_fail)
THEOREM ProxyInvariance == ProxySpec => []ProxyInv
<1>1. ProxyInv /\ [ProxyNext]_proxyVars => ProxyInv'
  <2>1. ProxyInv /\ UNCHANGED proxyVars => ProxyInv'
    BY DEF proxyVars, ProxyInv, ProxyTypes, MarkIsLast, PassedOverIsFailing
  <2> QED
    BY <2>1, ProxyStep
<1> QED
  BY <1>1, ProxyInitInv, PTL DEF ProxySpec

\* A read passes a host over only when the last exchange with it that ended was
\* a failure, and of a request posted less than FailFast ago. (_proxy)
THEOREM PassesOverFailing == ProxySpec => []PassedOverIsFailing
<1>1. ProxyInv => PassedOverIsFailing
  BY DEF ProxyInv
<1> QED
  BY <1>1, ProxyInvariance, PTL

-----------------------------------------------------------------------------
(* The Send dialog: the inductive invariant. *)

Target(t) == IF t \in Names THEN Registry[t] ELSE t
Rows == [ens : Addrs \cup {None, "resolving", "not found"},
         ident : Addrs \cup {None, "looking up"}, hint : Addrs \cup {None},
         call : (Addrs \cup {None}) \X Nat]

FormTypes ==
    /\ text \in Addrs \cup Names \cup {Blank} /\ amount \in Nat
    /\ ensInput \in Names \cup {Blank} /\ ensResolved \in Addrs \cup {None}
    /\ identAddr \in Addrs \cup {None} /\ shown \in Rows

\* The rows are about what the fields stand for, also while Confirm is off: the
\* resolver's answer is kept for the name in the field only, and the identity
\* row is of the address the dialog last asked for.
RowsAgree ==
    /\ ensInput = IF text \in Names THEN text ELSE Blank
    /\ ensResolved # None => /\ ensInput \in Names /\ ensResolved = Registry[ensInput]
                             /\ shown.ens = ensResolved
    /\ shown.call = <<Parsed, amount>> /\ shown.hint = Parsed /\ identAddr = Parsed
    /\ Parsed # None => shown.ident \in {Parsed, "looking up"}
    /\ confirmOn => Parsed # None /\ amount # 0

\* What the preview shows is of the request it was last asked for, and once no
\* debounce is pending that is the one the fields stand for, or will stand for
\* when the name resolves.
PreviewAgrees ==
    /\ banner \in {NoReq, simKey} /\ view.of \in {NoReq, simKey}
    /\ ~simDue => simKey \in {NoReq, <<Target(text), amount>>}

FormInv == FormTypes /\ RowsAgree /\ PreviewAgrees

-----------------------------------------------------------------------------
(* What the fields stand for. *)

LEMMA Disjoint == /\ None \notin Addrs /\ Blank \notin Addrs /\ Blank \notin Names /\ None \notin Names
                  /\ None # Blank /\ Addrs \cap Names = {}
                  /\ \A n \in Names : Registry[n] \in Addrs
BY FormAssumption DEF None, Blank

LEMMA RecipientIs ==
    ASSUME NEW t \in Addrs \cup Names \cup {Blank}, NEW n, NEW r \in Addrs \cup {None}
    PROVE  /\ Recipient(t, n, r) \in Addrs \cup {None}
           /\ t \in Addrs => Recipient(t, n, r) = t
           /\ t \in Names => Recipient(t, n, r) = IF t = n THEN r ELSE None
           /\ t = Blank => Recipient(t, n, r) = None
BY Disjoint DEF Recipient

LEMMA RequestIs ==
    ASSUME NEW r \in Addrs \cup {None}, NEW a
    PROVE  /\ Request(r, a) # NoReq <=> r # None /\ a # 0
           /\ Request(r, a) # NoReq => Request(r, a) = <<r, a>>
<1>1. r # None => <<r, a>> # NoReq
  BY DEF NoReq
<1> QED
  BY <1>1 DEF Request

\* The fields stand for the name's own address, or for nothing.
LEMMA ParsedIsTarget ==
    ASSUME FormTypes, RowsAgree
    PROVE  Parsed \in Addrs \cup {None} /\ (Parsed # None => Parsed = Target(text))
<1>1. /\ text \in Addrs \cup Names \cup {Blank} /\ ensResolved \in Addrs \cup {None}
      /\ text \in Names /\ ensResolved # None => ensResolved = Registry[text]
  BY Disjoint DEF FormTypes, RowsAgree
<1>2. /\ Parsed \in Addrs \cup {None}
      /\ text \in Addrs => Parsed = text
      /\ text \in Names => Parsed \in {ensResolved, None}
      /\ text = Blank => Parsed = None
  BY <1>1, RecipientIs DEF Parsed
<1> QED
  BY <1>1, <1>2, Disjoint DEF Target

LEMMA FormInvImplies == FormInv => ConfirmShowsWhatItSends /\ PreviewIsCurrent
<1> SUFFICES ASSUME FormInv
             PROVE  ConfirmShowsWhatItSends /\ PreviewIsCurrent
  OBVIOUS
<1>1. FormTypes /\ RowsAgree /\ PreviewAgrees
  BY DEF FormInv
<1>2. Parsed \in Addrs \cup {None} /\ (Parsed # None => Parsed = Target(text))
  BY <1>1, ParsedIsTarget
<1>3. confirmOn => Params = <<Parsed, amount>> /\ Parsed # None
  BY <1>1, <1>2, RequestIs DEF RowsAgree, Params
<1>4. confirmOn /\ text \in Names => shown.ens = Parsed
  BY <1>1, <1>2, <1>3, Disjoint, RecipientIs DEF FormTypes, RowsAgree, Parsed
<1>5. ConfirmShowsWhatItSends
  BY <1>1, <1>2, <1>3, <1>4 DEF ConfirmShowsWhatItSends, RowsAgree, Target
<1>6. PreviewIsCurrent
  BY <1>1, <1>2, <1>3 DEF PreviewIsCurrent, PreviewAgrees
<1> QED
  BY <1>5, <1>6

LEMMA FormInitInv == Init => FormInv
<1> SUFFICES ASSUME Init
             PROVE  FormInv
  OBVIOUS
<1>1. Parsed = None
  BY Disjoint, RecipientIs DEF Init, Parsed
<1>2. shown = [ens |-> None, ident |-> None, hint |-> None, call |-> <<None, 0>>]
  BY DEF Init, NothingShown
<1>3. FormTypes
  BY <1>2 DEF Init, FormTypes, Rows
<1>4. RowsAgree
  BY <1>1, <1>2, Disjoint DEF Init, RowsAgree
<1>5. PreviewAgrees
  BY DEF Init, PreviewAgrees, Placeholder
<1> QED
  BY <1>3, <1>4, <1>5 DEF FormInv

-----------------------------------------------------------------------------
(* The rows. *)

FieldsSame == UNCHANGED <<text, amount>>
RowsSame == UNCHANGED <<text, amount, ensInput, ensResolved, identAddr, shown, confirmOn>>
PreviewSame == UNCHANGED <<banner, view, simKey, simDue>>

LEMMA SameRows == FormTypes /\ RowsAgree /\ RowsSame => FormTypes' /\ RowsAgree'
<1> SUFFICES ASSUME FormTypes, RowsAgree, RowsSame
             PROVE  FormTypes' /\ RowsAgree'
  OBVIOUS
<1>1. Parsed' = Parsed
  BY DEF RowsSame, Parsed
<1>2. FormTypes'
  BY DEF FormTypes, RowsSame
<1>3. RowsAgree'
  BY <1>1, Zenon DEF RowsAgree, RowsSame
<1> QED
  BY <1>2, <1>3

LEMMA SamePreview == PreviewAgrees /\ FieldsSame /\ PreviewSame => PreviewAgrees'
BY DEF PreviewAgrees, FieldsSame, PreviewSame

\* The identity row of a recipient is that recipient's, or being looked up.
LEMMA IdentifiedIs ==
    ASSUME FormTypes, RowsAgree, NEW r \in Addrs \cup {None}
    PROVE  /\ Identified(r).addr = r
           /\ Identified(r).row \in Addrs \cup {None, "looking up"}
           /\ r # None => Identified(r).row \in {r, "looking up"}
<1>1. shown.ident \in Addrs \cup {None, "looking up"}
  BY DEF FormTypes, Rows
<1>2. r # None /\ r = identAddr => shown.ident \in {r, "looking up"}
  BY DEF RowsAgree
<1> QED
  BY <1>1, <1>2 DEF Identified

LEMMA NewRows ==
    ASSUME FormTypes, RowsAgree, NEW r \in Addrs \cup {None}, NEW a \in Nat,
           NEW row \in Addrs \cup {None, "resolving", "not found"}, Refreshed(r, a, row)
    PROVE  /\ shown' \in Rows /\ shown'.ens = row /\ shown'.hint = r /\ shown'.call = <<r, a>>
           /\ identAddr' = r
           /\ r # None => shown'.ident \in {r, "looking up"}
           /\ confirmOn' => r # None /\ a # 0
<1>1. /\ shown' = [ens |-> row, ident |-> Identified(r).row, hint |-> r, call |-> <<r, a>>]
      /\ identAddr' = Identified(r).addr
      /\ confirmOn' = (gasReady /\ Request(r, a) # NoReq)
  BY DEF Refreshed, UpdateState
<1> QED
  BY <1>1, IdentifiedIs, RequestIs DEF Rows

LEMMA EditRecipientKeeps ==
    ASSUME FormInv, NEW t \in Texts, EditRecipient(t)
    PROVE  FormInv'
<1>0. FormTypes /\ RowsAgree /\ PreviewAgrees
  BY DEF FormInv
<1> DEFINE n == Named(t)
           r == Recipient(t, n.input, n.resolved)
<1>t. t \in Addrs \cup Names \cup {Blank}
  BY DEF Texts
<1>n. /\ n.input = IF t \in Names THEN t ELSE Blank
      /\ n.resolved = None /\ n.row \in {"resolving", None}
  BY DEF Named
<1>1. /\ text' = t /\ amount' = amount /\ ensInput' = n.input /\ ensResolved' = n.resolved
      /\ Refreshed(r, amount, n.row) /\ simDue' = TRUE
      /\ UNCHANGED <<banner, view, simKey>>
  BY DEF EditRecipient, runVars
<1> HIDE DEF n
<1>2. r \in Addrs \cup {None} /\ r = Parsed'
  BY <1>t, <1>n, <1>1, RecipientIs DEF Parsed
<1>3. amount \in Nat
  BY <1>0 DEF FormTypes
<1> HIDE DEF r
<1>4. /\ shown' \in Rows /\ shown'.hint = r /\ shown'.call = <<r, amount>>
      /\ identAddr' = r
      /\ r # None => shown'.ident \in {r, "looking up"}
      /\ confirmOn' => r # None /\ amount # 0
  BY <1>0, <1>1, <1>2, <1>3, <1>n, NewRows
<1>5. FormTypes'
  BY <1>0, <1>1, <1>2, <1>3, <1>4, <1>t, <1>n DEF FormTypes
<1>6. RowsAgree'
  BY <1>1, <1>2, <1>4, <1>n DEF RowsAgree
<1>7. PreviewAgrees'
  BY <1>0, <1>1 DEF PreviewAgrees
<1> QED
  BY <1>5, <1>6, <1>7 DEF FormInv

LEMMA EditAmountKeeps ==
    ASSUME FormInv, NEW a \in Amounts \cup {0}, EditAmount(a)
    PROVE  FormInv'
<1>0. FormTypes /\ RowsAgree /\ PreviewAgrees
  BY DEF FormInv
<1>1. /\ amount' = a /\ shown' = [shown EXCEPT !.call = <<Parsed, a>>]
      /\ confirmOn' = (gasReady /\ Request(Parsed, a) # NoReq) /\ simDue' = TRUE
      /\ UNCHANGED <<text, ensInput, ensResolved, identAddr, banner, view, simKey>>
  BY DEF EditAmount, UpdateState, nameVars, identVars, runVars
<1>2. a \in Nat /\ Parsed \in Addrs \cup {None} /\ Parsed' = Parsed
  BY <1>0, <1>1, ParsedIsTarget, FormAssumption DEF Parsed
<1>3. /\ shown' \in Rows /\ shown'.call = <<Parsed, a>> /\ shown'.ens = shown.ens
      /\ shown'.hint = shown.hint /\ shown'.ident = shown.ident
  BY <1>0, <1>1, <1>2 DEF FormTypes, Rows
<1>4. confirmOn' => Parsed # None /\ a # 0
  BY <1>1, <1>2, RequestIs
<1>5. FormTypes'
  BY <1>0, <1>1, <1>2, <1>3 DEF FormTypes
<1>6. RowsAgree'
  BY <1>0, <1>1, <1>2, <1>3, <1>4 DEF RowsAgree
<1>7. PreviewAgrees'
  BY <1>0, <1>1 DEF PreviewAgrees
<1> QED
  BY <1>5, <1>6, <1>7 DEF FormInv

LEMMA EnsResolvedKeeps ==
    ASSUME FormInv, NEW n \in Names, EnsResolved(n)
    PROVE  FormInv'
<1>0. FormTypes /\ RowsAgree /\ PreviewAgrees
  BY DEF FormInv
<1>1. UNCHANGED <<text, amount, ensInput, banner, view, simKey, simDue>>
  BY DEF EnsResolved, inputVars, runVars
<1>p. PreviewAgrees'
  BY <1>0, <1>1, SamePreview DEF FieldsSame, PreviewSame
<1>2. CASE n # ensInput
  <2>1. RowsSame
    BY <1>1, <1>2 DEF EnsResolved, ForThisName, RowsSame, identVars
  <2> QED
    BY <1>0, <1>p, <2>1, SameRows DEF FormInv
<1>3. CASE n = ensInput
  <2> PICK r \in {Registry[n], None} :
            /\ ensResolved' = r
            /\ Refreshed(Recipient(text, ensInput, r), amount, IF r = None THEN "not found" ELSE r)
    BY <1>3 DEF EnsResolved, ForThisName
  <2> DEFINE p == Recipient(text, ensInput, r)
             row == IF r = None THEN "not found" ELSE r
  <2>1. r \in Addrs \cup {None} /\ text \in Addrs \cup Names \cup {Blank} /\ amount \in Nat
    BY <1>0, Disjoint DEF FormTypes
  <2>2. p \in Addrs \cup {None} /\ p = Parsed'
    BY <1>1, <2>1, RecipientIs DEF Parsed
  <2>3. row \in Addrs \cup {None, "resolving", "not found"} /\ (r # None => row = r)
    BY <2>1
  <2> HIDE DEF p, row
  <2>4. /\ shown' \in Rows /\ shown'.hint = p /\ shown'.call = <<p, amount>>
        /\ shown'.ens = row /\ identAddr' = p
        /\ p # None => shown'.ident \in {p, "looking up"}
        /\ confirmOn' => p # None /\ amount # 0
    BY <1>0, <2>1, <2>2, <2>3, NewRows DEF p, row
  <2>5. FormTypes'
    BY <1>0, <1>1, <2>1, <2>2, <2>4 DEF FormTypes
  <2>6. RowsAgree'
    BY <1>0, <1>1, <1>3, <2>2, <2>3, <2>4 DEF RowsAgree
  <2> QED
    BY <2>5, <2>6, <1>p DEF FormInv
<1> QED
  BY <1>2, <1>3

LEMMA IdentityReadyKeeps ==
    ASSUME FormInv, NEW a \in Addrs, IdentityReady(a)
    PROVE  FormInv'
<1>0. FormTypes /\ RowsAgree /\ PreviewAgrees
  BY DEF FormInv
<1>1. /\ UNCHANGED <<text, amount, ensInput, ensResolved, identAddr, confirmOn, banner, view,
                     simKey, simDue>>
      /\ shown' = IF a = identAddr THEN [shown EXCEPT !.ident = a] ELSE shown
  BY DEF IdentityReady, inputVars, nameVars, runVars
<1>2. /\ shown' \in Rows /\ shown'.call = shown.call /\ shown'.ens = shown.ens
      /\ shown'.hint = shown.hint
      /\ shown'.ident = IF a = identAddr THEN a ELSE shown.ident
  BY <1>0, <1>1 DEF FormTypes, Rows
<1>3. FormTypes' /\ RowsAgree'
  BY <1>0, <1>1, <1>2 DEF FormTypes, RowsAgree, Parsed
<1>4. PreviewAgrees'
  BY <1>0, <1>1, SamePreview DEF FieldsSame, PreviewSame
<1> QED
  BY <1>3, <1>4 DEF FormInv

-----------------------------------------------------------------------------
(* The answers of the fee workers, and the preview. *)

\* The decoded call is refreshed and Confirm set again, with the fields as
\* they are.
CallRefreshed(ready) ==
    /\ shown' = [shown EXCEPT !.call = <<Parsed, amount>>]
    /\ UpdateState(ready, Parsed, amount)

LEMMA CallRefreshedRows ==
    ASSUME FormTypes, RowsAgree, UNCHANGED <<text, amount, ensInput, ensResolved, identAddr>>,
           NEW ready, CallRefreshed(ready) \/ (UNCHANGED shown /\ UpdateState(ready, Parsed, amount))
    PROVE  FormTypes' /\ RowsAgree'
<1>1. Parsed' = Parsed /\ Parsed \in Addrs \cup {None}
  BY ParsedIsTarget DEF Parsed
<1>2. shown \in Rows /\ shown.call = <<Parsed, amount>>
  BY DEF FormTypes, RowsAgree
<1>3. [shown EXCEPT !.call = <<Parsed, amount>>] = shown
  BY <1>2 DEF Rows
<1>4. shown' = shown
  BY <1>3 DEF CallRefreshed
<1>5. confirmOn' = (ready /\ Request(Parsed, amount) # NoReq)
  BY DEF CallRefreshed, UpdateState
<1>6. confirmOn' => Parsed # None /\ amount # 0
  BY <1>1, <1>5, RequestIs
<1>7. FormTypes'
  BY <1>4 DEF FormTypes
<1>8. RowsAgree'
  BY <1>1, <1>4, <1>6 DEF RowsAgree
<1> QED
  BY <1>7, <1>8

LEMMA FeeKeeps ==
    ASSUME FormInv, NEW p, GasSuggested(p) \/ GasFailed(p)
    PROVE  FormInv'
<1>0. FormTypes /\ RowsAgree /\ PreviewAgrees
  BY DEF FormInv
<1>1. UNCHANGED <<text, amount, ensInput, ensResolved, identAddr, banner, view, simKey, simDue>>
  BY DEF GasSuggested, GasFailed, inputVars, nameVars, identVars, runVars
<1>2. UNCHANGED <<shown, confirmOn>> \/ CallRefreshed(TRUE) \/ CallRefreshed(FALSE)
  BY DEF GasSuggested, GasFailed, CallRefreshed
<1>3. FormTypes' /\ RowsAgree'
  <2>1. CASE UNCHANGED <<shown, confirmOn>>
    BY <1>0, <1>1, <2>1, SameRows DEF RowsSame
  <2>2. CASE CallRefreshed(TRUE)
    BY <1>0, <1>1, <2>2, CallRefreshedRows
  <2>3. CASE CallRefreshed(FALSE)
    BY <1>0, <1>1, <2>3, CallRefreshedRows
  <2> QED
    BY <1>2, <2>1, <2>2, <2>3
<1>4. PreviewAgrees'
  BY <1>0, <1>1, SamePreview DEF FieldsSame, PreviewSame
<1> QED
  BY <1>3, <1>4 DEF FormInv

LEMMA SignFailsKeeps ==
    ASSUME FormInv, SignFails
    PROVE  FormInv'
<1>0. FormTypes /\ RowsAgree /\ PreviewAgrees
  BY DEF FormInv
<1>1. /\ UNCHANGED <<text, amount, ensInput, ensResolved, identAddr, shown, banner, view,
                     simKey, simDue>>
      /\ UpdateState(gasReady, Parsed, amount)
  BY DEF SignFails, inputVars, nameVars, identVars, runVars
<1>2. FormTypes' /\ RowsAgree'
  BY <1>0, <1>1, CallRefreshedRows
<1>3. PreviewAgrees'
  BY <1>0, <1>1, SamePreview DEF FieldsSame, PreviewSame
<1> QED
  BY <1>2, <1>3 DEF FormInv

\* Steps that touch neither the rows nor the preview.
LEMMA QuietKeeps ==
    ASSUME FormInv, ReestimateGas \/ RefreshTronFee \/ \E w \in sims : SimAnswers(w)
    PROVE  FormInv'
<1>1. RowsSame /\ PreviewSame
  BY DEF ReestimateGas, RefreshTronFee, SimAnswers, RowsSame, PreviewSame, inputVars, nameVars,
         identVars, runVars
<1>2. FieldsSame
  BY <1>1 DEF RowsSame, FieldsSame
<1> QED
  BY <1>1, <1>2, SameRows, SamePreview DEF FormInv

LEMMA SimulateKeeps ==
    ASSUME FormInv, Simulate, RowsSame
    PROVE  FormInv'
<1>0. FormTypes /\ RowsAgree /\ PreviewAgrees
  BY DEF FormInv
<1>1. Params \in {NoReq, <<Target(text), amount>>}
  BY <1>0, ParsedIsTarget, RequestIs DEF Params
<1>2. banner' \in {NoReq, simKey'} /\ view'.of \in {NoReq, simKey'} /\ simKey' = Params
  <2>1. CASE Params = NoReq
    BY <2>1 DEF Simulate, Placeholder
  <2>2. CASE Params # NoReq /\ Params = simKey
    BY <1>0, <2>2 DEF Simulate, runVars, PreviewAgrees
  <2>3. CASE Params # NoReq /\ Params # simKey
    <3>1. simKey' = Params /\ banner' = NoReq /\ (view' = Busy \/ view' = Placeholder)
      BY <2>3 DEF Simulate
    <3> QED
      BY <3>1 DEF Busy, Placeholder
  <2> QED
    BY <2>1, <2>2, <2>3
<1>3. PreviewAgrees'
  BY <1>1, <1>2 DEF PreviewAgrees, RowsSame
<1> QED
  BY <1>0, <1>3, SameRows DEF FormInv

LEMMA PreviewKeeps ==
    ASSUME FormInv, SimDebounced \/ EventsTabOpened
    PROVE  FormInv'
BY SimulateKeeps DEF SimDebounced, EventsTabOpened, RowsSame, inputVars, nameVars, identVars

LEMMA SimReadyKeeps ==
    ASSUME FormInv, NEW w, SimReady(w) \/ SimTimeout
    PROVE  FormInv'
<1>0. FormTypes /\ RowsAgree /\ PreviewAgrees
  BY DEF FormInv
<1>1. RowsSame /\ UNCHANGED <<simKey, simDue>>
  BY DEF SimReady, SimTimeout, RowsSame, inputVars, nameVars, identVars
<1>2. banner' \in {NoReq, simKey} /\ view'.of \in {NoReq, simKey}
  <2>1. CASE SimReady(w) /\ Expected(w)
    <3>1. /\ banner' = IF w.says = "reverts" THEN w.of ELSE NoReq
          /\ view' = IF w.says = "logs" THEN Listed(w.of) ELSE Placeholder
          /\ w.of = simKey
      BY <2>1 DEF SimReady, Expected
    <3> QED
      BY <3>1 DEF Listed, Placeholder
  <2>2. CASE SimReady(w) /\ ~Expected(w)
    BY <1>0, <2>2 DEF SimReady, PreviewAgrees
  <2>3. CASE SimTimeout
    <3>1. banner' = banner /\ (view' = view \/ view' = Placeholder)
      BY <2>3 DEF SimTimeout
    <3> QED
      BY <1>0, <3>1 DEF PreviewAgrees, Placeholder
  <2> QED
    BY <2>1, <2>2, <2>3
<1>3. PreviewAgrees'
  BY <1>0, <1>1, <1>2 DEF PreviewAgrees, RowsSame
<1> QED
  BY <1>0, <1>1, <1>3, SameRows DEF FormInv

\* Confirm sends and switches itself off; nothing is left of a deleted dialog.
LEMMA EndKeeps ==
    ASSUME FormInv, Confirm \/ Broadcast \/ Cancel
    PROVE  FormInv'
<1>0. FormTypes /\ RowsAgree /\ PreviewAgrees
  BY DEF FormInv
<1>1. CASE Confirm
  <2>1. /\ UNCHANGED <<text, amount, ensInput, ensResolved, identAddr, shown, banner, view,
                       simKey, simDue>>
        /\ confirmOn' = FALSE
    BY <1>1 DEF Confirm, inputVars, nameVars, identVars, runVars
  <2>2. FormTypes' /\ RowsAgree'
    BY <1>0, <2>1 DEF FormTypes, RowsAgree, Parsed
  <2>3. PreviewAgrees'
    BY <1>0, <2>1, SamePreview DEF FieldsSame, PreviewSame
  <2> QED
    BY <2>2, <2>3 DEF FormInv
<1>2. CASE Deleted
  <2>1. /\ text' = Blank /\ amount' = 0 /\ ensInput' = Blank /\ ensResolved' = None
        /\ identAddr' = None /\ shown' = NothingShown /\ confirmOn' = FALSE
        /\ simKey' = NoReq /\ banner' = NoReq /\ view' = Placeholder
    BY <1>2 DEF Deleted
  <2>2. Parsed' = None
    BY <2>1, Disjoint, RecipientIs DEF Parsed
  <2>3. shown' = [ens |-> None, ident |-> None, hint |-> None, call |-> <<None, 0>>]
    BY <2>1 DEF NothingShown
  <2>4. FormTypes'
    BY <2>1, <2>3 DEF FormTypes, Rows
  <2>5. RowsAgree'
    BY <2>1, <2>2, <2>3, Disjoint DEF RowsAgree
  <2>6. PreviewAgrees'
    BY <2>1 DEF PreviewAgrees, Placeholder
  <2> QED
    BY <2>4, <2>5, <2>6 DEF FormInv
<1> QED
  BY <1>1, <1>2 DEF Broadcast, Cancel

\* The invariant of the Send dialog holds. (SendTokenDialog, _TxComposerDialog,
\* _EventPreviewMixin)
THEOREM FormInvariance == Spec => []FormInv
<1>1. FormInv /\ [Next]_vars => FormInv'
  <2> SUFFICES ASSUME FormInv, [Next]_vars
               PROVE  FormInv'
    OBVIOUS
  <2>1. CASE UNCHANGED vars
    <3>1. RowsSame /\ PreviewSame /\ FieldsSame
      BY <2>1 DEF vars, RowsSame, PreviewSame, FieldsSame, inputVars, nameVars, identVars, runVars
    <3> QED
      BY <3>1, SameRows, SamePreview DEF FormInv
  <2>2. CASE User
    BY <2>2, EditRecipientKeeps, EditAmountKeeps, PreviewKeeps, EndKeeps DEF User
  <2>3. CASE Answered
    BY <2>3, EnsResolvedKeeps, IdentityReadyKeeps, FeeKeeps, QuietKeeps, SimReadyKeeps, EndKeeps,
       SignFailsKeeps DEF Answered
  <2>4. CASE Timers
    BY <2>4, QuietKeeps, PreviewKeeps, SimReadyKeeps DEF Timers
  <2> QED
    BY <2>1, <2>2, <2>3, <2>4 DEF Next
<1> QED
  BY <1>1, FormInitInv, PTL DEF Spec

\* While Confirm can be clicked, every row speaks of the transaction it would
\* send. (_on_ens_resolved, _on_identity_ready, _update_recipient_hint)
THEOREM ConfirmIsHonest == Spec => []ConfirmShowsWhatItSends
BY FormInvariance, FormInvImplies, PTL

\* Once the debounce of the last edit has run, the preview next to an enabled
\* Confirm is of the transaction it would send. (_maybe_simulate, _on_sim_ready)
THEOREM PreviewIsHonest == Spec => []PreviewIsCurrent
BY FormInvariance, FormInvImplies, PTL

-----------------------------------------------------------------------------
(* The air-gapped exchange: the inductive invariant.                       *)

Frame == [kind : {"none", "part", "static", "error"}, carries : SUBSET Nat, mask : Nat]

ExchangeTypes ==
    /\ asked \in 0..LastRequest
    /\ dialog \in {"closed", "open", "done"}
    /\ dialog # "closed" => asked \in Exchanges
    /\ outcome \in [Exchanges -> {"none", "cancelled", "refused", "signed"}]
    /\ used \in [Exchanges -> 0..LastRequest]
    /\ size \in [Exchanges -> 1..MaxFragments]

SourceTypes ==
    /\ produced \in Nat /\ pure \in Nat /\ slots \in Nat
    /\ prep \in {"idle", "encoding", "over"} /\ made \in Frame /\ frames \in Seq(Frame)
    /\ dialog = "open" => visits \in [Fragments(asked) -> Nat] /\ pure \in Fragments(asked)

\* Every frame in the queue, and the one being encoded, was reserved a slot.
Reserved ==
    slots + Len(frames) + (IF prep = "encoding" THEN 1 ELSE 0) <= PreparedFrames

\* A camera is wanted, and one runs, for the dialog on the screen only.
CameraHeld == wanted \cup running \subseteq (IF dialog = "open" THEN {asked} ELSE {})

ExchangeInv ==
    /\ ExchangeTypes /\ SourceTypes /\ Reserved /\ CameraHeld
    /\ EchoesId => SignedForItsRequest

LEMMA QrBounds ==
    /\ LastRequest \in Nat /\ LastRequest >= 1 /\ MaxFragments \in Nat /\ MaxFragments >= 1
    /\ PreparedFrames \in Nat /\ PreparedFrames >= 1 /\ Masks \in Nat /\ Masks >= 1
BY QrAssumption

LEMMA RemainderOf ==
    ASSUME NEW a \in Nat, NEW b \in Nat, b >= 1
    PROVE  a % b \in 0..b - 1
OBVIOUS

LEMMA NoFrameIs == NoFrame \in Frame
BY DEF NoFrame, Frame

LEMMA ExchangeInvImplies ==
    ExchangeInv => /\ PutFindsRoom
                   /\ CameraOnlyWhileShown
                   /\ EchoesId => SignedForItsRequest
<1> SUFFICES ASSUME ExchangeInv
             PROVE  /\ PutFindsRoom
                    /\ CameraOnlyWhileShown
                    /\ EchoesId => SignedForItsRequest
  OBVIOUS
<1>1. PutFindsRoom
  <2> SUFFICES ASSUME prep = "encoding" PROVE Len(frames) < PreparedFrames
    BY DEF PutFindsRoom
  <2>1. slots \in Nat /\ Len(frames) \in Nat
    BY LenProperties DEF ExchangeInv, SourceTypes
  <2>2. slots + Len(frames) + 1 <= PreparedFrames
    BY DEF ExchangeInv, Reserved
  <2> QED
    BY <2>1, <2>2, QrBounds
<1> QED
  BY <1>1 DEF ExchangeInv, CameraHeld, CameraOnlyWhileShown

LEMMA ExchangeInitInv == ExchangeInit => ExchangeInv
<1> SUFFICES ASSUME ExchangeInit PROVE ExchangeInv
  OBVIOUS
<1>1. ExchangeTypes
  BY QrBounds DEF ExchangeInit, ExchangeTypes
<1>2. /\ produced = 0 /\ pure = 0 /\ slots = 0 /\ prep = "over" /\ made = NoFrame
      /\ frames = <<>> /\ wanted = {} /\ running = {} /\ dialog = "closed"
  BY DEF ExchangeInit, Idle
<1>3. SourceTypes
  BY <1>2, NoFrameIs DEF SourceTypes
<1>4. Reserved
  BY <1>2, QrBounds DEF Reserved
<1>5. CameraHeld
  BY <1>2 DEF CameraHeld
<1>6. SignedForItsRequest
  BY DEF ExchangeInit, SignedForItsRequest
<1> QED
  BY <1>1, <1>3, <1>4, <1>5, <1>6 DEF ExchangeInv

-----------------------------------------------------------------------------
(* The steps.  Each leaves some parts of the invariant as they are.        *)

TypesSame == UNCHANGED <<asked, dialog, outcome, used, size>>
SourceSame == UNCHANGED <<produced, pure, slots, prep, made, frames, visits>>
CameraSame == UNCHANGED <<wanted, running>>

LEMMA TypesKept ==
    ASSUME ExchangeInv, TypesSame
    PROVE  ExchangeTypes' /\ (EchoesId => SignedForItsRequest')
BY DEF ExchangeInv, TypesSame, ExchangeTypes, SignedForItsRequest

LEMMA SourceKept ==
    ASSUME ExchangeInv, TypesSame, SourceSame
    PROVE  SourceTypes' /\ Reserved'
BY DEF ExchangeInv, TypesSame, SourceSame, SourceTypes, Reserved, Fragments

LEMMA CameraKept ==
    ASSUME ExchangeInv, TypesSame, CameraSame
    PROVE  CameraHeld'
BY DEF ExchangeInv, TypesSame, CameraSame, CameraHeld

LEMMA AllKept ==
    ASSUME ExchangeInv, TypesSame, SourceSame, CameraSame
    PROVE  ExchangeInv'
BY TypesKept, SourceKept, CameraKept DEF ExchangeInv

\* What the preparer encodes has its type, whatever parts the source makes.
LEMMA EncodedIsFrame ==
    ASSUME ExchangeInv, dialog = "open", NEW part \in SUBSET Fragments(asked), Encoded(part)
    PROVE  made' \in Frame /\ visits' \in [Fragments(asked) -> Nat]
<1>1. asked \in Exchanges /\ size[asked] \in Nat /\ Fragments(asked) \subseteq Nat
  BY QrBounds DEF ExchangeInv, ExchangeTypes, Fragments
<1>2. visits \in [Fragments(asked) -> Nat]
  BY DEF ExchangeInv, SourceTypes
<1> DEFINE mask == IF Cardinality(part) = 1 THEN visits[CHOOSE i \in part : TRUE] ELSE 0
<1>3. mask \in Nat
  <2>1. CASE Cardinality(part) = 1
    <3>1. part # {}
      BY <2>1, FS_EmptySet
    <3>2. (CHOOSE i \in part : TRUE) \in part
      BY <3>1
    <3> QED
      BY <2>1, <3>2, <1>2
  <2> QED
    BY <2>1
<1>4. made' = [kind |-> "part", carries |-> part, mask |-> mask]
  BY DEF Encoded
<1> HIDE DEF mask
<1>5. made' \in Frame
  BY <1>1, <1>3, <1>4 DEF Frame
<1>6. visits' = [i \in Fragments(asked) |->
                   IF part = {i} THEN (visits[i] + 1) % Masks ELSE visits[i]]
  BY <1>2 DEF Encoded
<1>7. \A i \in Fragments(asked) : (visits[i] + 1) % Masks \in Nat
  <2> SUFFICES ASSUME NEW i \in Fragments(asked) PROVE (visits[i] + 1) % Masks \in Nat
    OBVIOUS
  <2>1. visits[i] + 1 \in Nat
    BY <1>2
  <2> QED
    BY <2>1, QrBounds, RemainderOf
<1>8. visits' \in [Fragments(asked) -> Nat]
  BY <1>2, <1>6, <1>7
<1> QED
  BY <1>5, <1>8

\* Once a slot is reserved, the source only has to hand out numbers and a frame.
LEMMA ReserveKeeps ==
    ASSUME ExchangeInv, Reserve,
           made' \in Frame, visits' \in [Fragments(asked) -> Nat], produced' \in Nat,
           pure' \in Fragments(asked)
    PROVE  ExchangeInv'
<1>1. /\ dialog = "open" /\ prep = "idle" /\ slots \in Nat /\ slots > 0
      /\ slots' = slots - 1 /\ prep' = "encoding" /\ frames' = frames
      /\ TypesSame /\ CameraSame
  BY DEF ExchangeInv, SourceTypes, Reserve, TypesSame, CameraSame, exchangeVars, cameraVars
<1>2. Len(frames) \in Nat /\ frames \in Seq(Frame)
  BY LenProperties DEF ExchangeInv, SourceTypes
<1>3. SourceTypes'
  <2>1. visits' \in [Fragments(asked)' -> Nat] /\ pure' \in Fragments(asked)'
    BY <1>1 DEF TypesSame, Fragments
  <2>3. pure' \in Nat
    BY <1>1, QrBounds DEF Fragments, ExchangeInv, ExchangeTypes
  <2>2. slots' \in Nat
    BY <1>1
  <2> QED
    BY <1>1, <1>2, <2>1, <2>2, <2>3 DEF SourceTypes
<1>4. Reserved'
  <2>1. slots + Len(frames) <= PreparedFrames
    BY <1>1, <1>2, QrBounds DEF ExchangeInv, Reserved
  <2>2. slots' + Len(frames') + 1 <= PreparedFrames
    BY <1>1, <1>2, <2>1, QrBounds
  <2> QED
    BY <1>1, <2>2 DEF Reserved
<1> QED
  BY <1>1, <1>3, <1>4, TypesKept, CameraKept DEF ExchangeInv

\* A shuffled group starts with some of the request's fragments.
LEMMA OrderStarts ==
    ASSUME ExchangeInv, dialog = "open", NEW order \in Orders
    PROVE  Head(order) \in SUBSET Fragments(asked)
<1>1. /\ asked \in Exchanges /\ size[asked] \in Nat /\ size[asked] >= 1
      /\ pure \in Fragments(asked) /\ pure + 1 \in Nat
  BY QrBounds DEF ExchangeInv, ExchangeTypes, SourceTypes
<1>2. PICK mix \in Mixes(asked) : order \in Retries(asked, mix)
  BY DEF Orders
<1> DEFINE parts == <<PlainRetry(pure), PlainRetry((pure + 1) % size[asked]), mix>>
<1>3. PICK p \in Bijection(DOMAIN parts, DOMAIN parts) : order = [i \in DOMAIN parts |-> parts[p[i]]]
  BY <1>2 DEF Retries, Shuffled
<1>4. DOMAIN parts = 1..3
  OBVIOUS
<1>5. Head(order) \in {parts[1], parts[2], parts[3]}
  <2>1. p \in [1..3 -> 1..3]
    BY <1>4 DEF Bijection, Injection
  <2> DEFINE S == {parts[1], parts[2], parts[3]}
  <2>2. \A i \in 1..3 : parts[p[i]] \in S
    BY <2>1
  <2> HIDE DEF parts
  <2>3. order \in [1..3 -> S]
    BY <1>3, <1>4, <2>2
  <2> HIDE DEF S
  <2>4. order \in Seq(S) /\ Len(order) = 3
    <3>1. order \in Seq(S)
      <4>1. order \in UNION {[1..n -> S] : n \in Nat}
        BY <2>3
      <4> QED
        BY <4>1, SeqDef
    <3> QED
      BY <2>3, <3>1, LenProperties
  <2>5. Head(order) = order[1]
    BY <2>4
  <2> QED
    BY <2>3, <2>5 DEF S
<1>6. mix \in SUBSET Fragments(asked)
  BY <1>2 DEF Mixes
<1>7. (pure + 1) % size[asked] \in Fragments(asked)
  BY <1>1, RemainderOf DEF Fragments
<1> QED
  BY <1>1, <1>5, <1>6, <1>7 DEF PlainRetry

LEMMA PrepareKeeps ==
    ASSUME ExchangeInv, NEW order
    PROVE  /\ PrepareStatic => ExchangeInv'
           /\ PrepareNext => ExchangeInv'
           /\ order \in Orders /\ PrepareGroup(order) => ExchangeInv'
           /\ PrepareFails => ExchangeInv'
<1>1. /\ produced \in Nat
      /\ dialog = "open" => /\ visits \in [Fragments(asked) -> Nat] /\ pure \in Fragments(asked)
                            /\ asked \in Exchanges /\ size[asked] \in Nat /\ size[asked] >= 1
  BY QrBounds DEF ExchangeInv, ExchangeTypes, SourceTypes
<1>2. ASSUME Reserve PROVE dialog = "open"
  BY <1>2 DEF Reserve
<1>3. ASSUME PrepareStatic PROVE ExchangeInv'
  <2>1. Reserve /\ UNCHANGED <<produced, pure, group, visits>>
    BY <1>3 DEF PrepareStatic, sourceVars
  <2>2. made' \in Frame
    BY <1>3 DEF PrepareStatic, Frame
  <2> QED
    BY <1>1, <1>2, <2>1, <2>2, ReserveKeeps
<1>4. ASSUME PrepareNext PROVE ExchangeInv'
  <2>1. Reserve
    BY <1>4 DEF PrepareNext
  <2>2. PICK part \in SUBSET Fragments(asked) :
          (FirstPass(part) \/ InGroup(part)) /\ Encoded(part)
    BY <1>4 DEF PrepareNext
  <2>3. produced' \in Nat /\ pure' = pure
    BY <1>1, <2>2 DEF FirstPass, InGroup
  <2>4. made' \in Frame /\ visits' \in [Fragments(asked) -> Nat]
    BY <1>2, <2>1, <2>2, EncodedIsFrame
  <2> QED
    BY <1>1, <1>2, <2>1, <2>3, <2>4, ReserveKeeps
<1>5. ASSUME order \in Orders, PrepareGroup(order) PROVE ExchangeInv'
  <2>1. Reserve /\ NewGroup(order) /\ Encoded(Head(order))
    BY <1>5 DEF PrepareGroup
  <2>2. Head(order) \in SUBSET Fragments(asked)
    BY <1>2, <1>5, <2>1, OrderStarts
  <2>3. made' \in Frame /\ visits' \in [Fragments(asked) -> Nat]
    BY <1>2, <2>1, <2>2, EncodedIsFrame
  <2>4. pure + 2 \in Nat /\ size[asked] \in Nat /\ size[asked] >= 1
    BY <1>1, <1>2, <2>1, QrBounds DEF Fragments
  <2>5. pure' \in Fragments(asked)
    BY <2>1, <2>4, RemainderOf DEF NewGroup, NextPure, Fragments
  <2>6. produced' \in Nat
    BY <1>1, <2>1 DEF NewGroup
  <2> QED
    BY <2>1, <2>3, <2>5, <2>6, ReserveKeeps
<1>6. ASSUME PrepareFails PROVE ExchangeInv'
  <2>1. Reserve /\ UNCHANGED <<produced, pure, group, visits>>
    BY <1>6 DEF PrepareFails, sourceVars
  <2>2. made' \in Frame
    BY <1>6 DEF PrepareFails, NoFrame, Frame
  <2> QED
    BY <1>1, <1>2, <2>1, <2>2, ReserveKeeps
<1> QED
  BY <1>3, <1>4, <1>5, <1>6

LEMMA PutKeeps == ExchangeInv /\ Put => ExchangeInv'
<1> SUFFICES ASSUME ExchangeInv, Put PROVE ExchangeInv'
  OBVIOUS
<1>1. /\ TypesSame /\ CameraSame /\ UNCHANGED <<produced, pure, visits, slots>>
      /\ prep = "encoding" /\ made' = NoFrame
  BY DEF Put, TypesSame, CameraSame, sourceVars, exchangeVars, cameraVars
<1>2. slots \in Nat /\ Len(frames) \in Nat /\ frames \in Seq(Frame) /\ made \in Frame
  BY LenProperties DEF ExchangeInv, SourceTypes
<1>3. frames' \in Seq(Frame) /\ Len(frames') \in Nat /\ Len(frames') <= Len(frames) + 1
  <2>1. frames' \in {frames, Append(frames, made)}
    BY DEF Put
  <2> QED
    BY <1>2, <2>1, AppendProperties
<1>4. prep' \in {"idle", "over"}
  BY DEF Put
<1>5. SourceTypes'
  BY <1>1, <1>2, <1>3, <1>4, NoFrameIs DEF ExchangeInv, SourceTypes, TypesSame, Fragments
<1>6. Reserved'
  <2>1. slots + Len(frames) + 1 <= PreparedFrames
    BY <1>1 DEF ExchangeInv, Reserved
  <2>2. slots' + Len(frames') <= PreparedFrames
    BY <1>1, <1>2, <1>3, <2>1, QrBounds
  <2> QED
    BY <1>1, <1>2, <1>3, <1>4, <2>2, QrBounds DEF Reserved
<1> QED
  BY <1>1, <1>5, <1>6, TypesKept, CameraKept DEF ExchangeInv

LEMMA ShowFrameKeeps == ExchangeInv /\ ShowFrame => ExchangeInv'
<1> SUFFICES ASSUME ExchangeInv, ShowFrame PROVE ExchangeInv'
  OBVIOUS
<1>1. TypesSame /\ CameraSame /\ UNCHANGED <<produced, pure, visits, prep, made>>
  BY DEF ShowFrame, TypesSame, CameraSame, sourceVars, exchangeVars, cameraVars
<1>2. slots \in Nat /\ Len(frames) \in Nat /\ frames \in Seq(Frame)
  BY LenProperties DEF ExchangeInv, SourceTypes
<1>3. /\ slots' \in Nat /\ frames' \in Seq(Frame) /\ Len(frames') \in Nat
      /\ slots' + Len(frames') = slots + Len(frames)
  <2>1. CASE frames = <<>>
    BY <1>2, <2>1 DEF ShowFrame, SlotsAfterTake
  <2>2. CASE frames # <<>>
    <3>1. slots' = slots + 1 /\ frames' = Tail(frames)
      BY <2>2 DEF ShowFrame, SlotsAfterTake
    <3>2. Tail(frames) \in Seq(Frame) /\ Len(Tail(frames)) = Len(frames) - 1
      BY <1>2, <2>2, HeadTailProperties
    <3>3. Len(Tail(frames)) \in Nat
      BY <3>2, LenProperties
    <3> QED
      BY <1>2, <3>1, <3>2, <3>3
  <2> QED
    BY <2>1, <2>2
<1>4. SourceTypes'
  BY <1>1, <1>3 DEF ExchangeInv, SourceTypes, TypesSame, Fragments
<1>5. Reserved'
  BY <1>1, <1>2, <1>3, QrBounds DEF ExchangeInv, Reserved
<1> QED
  BY <1>1, <1>4, <1>5, TypesKept, CameraKept DEF ExchangeInv

LEMMA OpenExchangeKeeps == ExchangeInv /\ OpenExchange => ExchangeInv'
<1> SUFFICES ASSUME ExchangeInv, OpenExchange PROVE ExchangeInv'
  OBVIOUS
<1>1. /\ asked' = asked + 1 /\ asked' \in Exchanges /\ dialog = "closed" /\ dialog' = "open"
      /\ UNCHANGED <<outcome, used, size>>
  BY QrBounds DEF OpenExchange, ExchangeInv, ExchangeTypes, Exchanges
<1>2. ExchangeTypes'
  BY <1>1, QrBounds DEF ExchangeInv, ExchangeTypes, Exchanges
<1>3. /\ produced' = 0 /\ pure' = 0 /\ slots' = PreparedFrames /\ prep' = "idle"
      /\ made' = NoFrame /\ frames' = <<>> /\ visits' = [i \in Fragments(asked') |-> 0]
  BY DEF OpenExchange
<1>4. Fragments(asked') = 0..size[asked'] - 1 /\ Fragments(asked)' = 0..size[asked'] - 1
  BY <1>1 DEF Fragments
<1>5. size[asked'] \in Nat /\ size[asked'] >= 1
  BY <1>1, QrBounds DEF ExchangeInv, ExchangeTypes
<1>6. SourceTypes'
  BY <1>3, <1>4, <1>5, NoFrameIs, QrBounds DEF SourceTypes
<1>7. Reserved'
  BY <1>3, QrBounds DEF Reserved
<1>8. CameraHeld'
  <2>1. wanted = {} /\ running = {}
    BY <1>1 DEF ExchangeInv, CameraHeld
  <2>2. wanted' \subseteq {asked'} /\ running' \subseteq {asked'}
    BY <2>1 DEF OpenExchange, StartCamera
  <2> QED
    BY <1>1, <2>2 DEF CameraHeld
<1>9. EchoesId => SignedForItsRequest'
  BY <1>1 DEF ExchangeInv, SignedForItsRequest
<1> QED
  BY <1>2, <1>6, <1>7, <1>8, <1>9 DEF ExchangeInv

LEMMA CameraKeeps ==
    ASSUME ExchangeInv, NEW r
    PROVE  /\ ShownAgain => ExchangeInv'
           /\ UserDecides => ExchangeInv'
           /\ PermissionDecided(r) => ExchangeInv'
           /\ CameraSees(r) => ExchangeInv'
<1>1. ASSUME ShownAgain PROVE ExchangeInv'
  <2>1. TypesSame /\ SourceSame
    BY <1>1 DEF ShownAgain, TypesSame, SourceSame, exchangeVars, prepVars, sourceVars
  <2>2. CameraHeld'
    BY <1>1, <2>1 DEF ShownAgain, StartCamera, ExchangeInv, CameraHeld, TypesSame
  <2> QED
    BY <2>1, <2>2, TypesKept, SourceKept DEF ExchangeInv
<1>2. ASSUME UserDecides PROVE ExchangeInv'
  <2>1. TypesSame /\ SourceSame /\ CameraSame
    BY <1>2 DEF UserDecides, TypesSame, SourceSame, CameraSame, exchangeVars, prepVars, sourceVars
  <2> QED
    BY <2>1, AllKept
<1>3. ASSUME PermissionDecided(r) PROVE ExchangeInv'
  <2>1. TypesSame /\ SourceSame /\ wanted' = wanted
    BY <1>3 DEF PermissionDecided, TypesSame, SourceSame, exchangeVars, prepVars, sourceVars
  <2>2. CameraHeld'
    BY <1>3, <2>1 DEF PermissionDecided, StillWanted, ExchangeInv, CameraHeld, TypesSame
  <2> QED
    BY <2>1, <2>2, TypesKept, SourceKept DEF ExchangeInv
<1>4. ASSUME CameraSees(r) PROVE ExchangeInv'
  <2>1. TypesSame /\ SourceSame /\ CameraSame
    BY <1>4 DEF CameraSees, TypesSame, SourceSame, CameraSame, exchangeVars, prepVars, sourceVars,
                cameraVars
  <2> QED
    BY <2>1, AllKept
<1> QED
  BY <1>1, <1>2, <1>3, <1>4

LEMMA QuietStepsKeep ==
    ASSUME ExchangeInv
    PROVE  /\ DeviceSigns => ExchangeInv'
           /\ Decode => ExchangeInv'
           /\ Deliver => ExchangeInv'
           /\ UNCHANGED qrVars => ExchangeInv'
<1>1. ASSUME DeviceSigns \/ Decode \/ Deliver \/ UNCHANGED qrVars
      PROVE  TypesSame /\ SourceSame /\ CameraSame
  <2>1. ASSUME DeviceSigns PROVE TypesSame /\ SourceSame /\ CameraSame
    BY <2>1 DEF DeviceSigns, TypesSame, SourceSame, CameraSame, exchangeVars, prepVars,
                sourceVars, cameraVars
  <2>2. ASSUME Decode PROVE TypesSame /\ SourceSame /\ CameraSame
    BY <2>2 DEF Decode, TypesSame, SourceSame, CameraSame, exchangeVars, prepVars, sourceVars,
                cameraVars
  <2>3. ASSUME Deliver PROVE TypesSame /\ SourceSame /\ CameraSame
    BY <2>3 DEF Deliver, TypesSame, SourceSame, CameraSame, prepVars, sourceVars, cameraVars
  <2>4. ASSUME UNCHANGED qrVars PROVE TypesSame /\ SourceSame /\ CameraSame
    BY <2>4 DEF qrVars, TypesSame, SourceSame, CameraSame, exchangeVars, prepVars, sourceVars,
                cameraVars
  <2> QED
    BY <1>1, <2>1, <2>2, <2>3, <2>4
<1> QED
  BY <1>1, AllKept

\* done() leaves no camera wanted and gives no slot back.
LEMMA DoneKeeps == ASSUME ExchangeInv, NEW who, Done(who) PROVE ExchangeInv'
<1>1. /\ dialog = "open" /\ dialog' = "done" /\ asked \in Exchanges
      /\ UNCHANGED <<asked, outcome, used, size>> /\ SourceSame
      /\ wanted' = wanted \ {asked} /\ running' = running \ {asked}
  BY DEF Done, ExchangeInv, ExchangeTypes, SourceSame, prepVars, sourceVars
<1>2. ExchangeTypes'
  BY <1>1 DEF ExchangeInv, ExchangeTypes
<1>3. SourceTypes' /\ Reserved'
  BY <1>1 DEF ExchangeInv, SourceTypes, SourceSame, Reserved
<1>4. CameraHeld'
  BY <1>1 DEF ExchangeInv, CameraHeld
<1>5. EchoesId => SignedForItsRequest'
  BY <1>1 DEF ExchangeInv, SignedForItsRequest
<1> QED
  BY <1>2, <1>3, <1>4, <1>5 DEF ExchangeInv

LEMMA ReturnKeeps == ExchangeInv /\ Return => ExchangeInv'
<1> SUFFICES ASSUME ExchangeInv, Return PROVE ExchangeInv'
  OBVIOUS
<1>1. /\ dialog = "done" /\ dialog' = "closed" /\ asked \in Exchanges
      /\ UNCHANGED <<asked, size, wanted, running>>
  BY DEF Return, ExchangeInv, ExchangeTypes, cameraVars
<1> DEFINE how == IF scanned = Nothing THEN "cancelled"
                  ELSE IF AnswersIt(scanned) THEN "signed" ELSE "refused"
           given == IF AnswersIt(scanned) THEN scanned ELSE used[asked]
<1>2. /\ outcome' = [outcome EXCEPT ![asked] = how]
      /\ used' = [used EXCEPT ![asked] = given]
  BY DEF Return
<1>3. how \in {"cancelled", "refused", "signed"} /\ given \in 0..LastRequest
  BY <1>1, QrBounds DEF ExchangeInv, ExchangeTypes, AnswersIt, Exchanges
<1>4. EchoesId /\ how = "signed" => given = asked
  BY DEF AnswersIt
<1> HIDE DEF how, given
<1>5. ExchangeTypes'
  BY <1>1, <1>2, <1>3 DEF ExchangeInv, ExchangeTypes
<1>6. EchoesId => SignedForItsRequest'
  BY <1>1, <1>2, <1>4 DEF ExchangeInv, ExchangeTypes, SignedForItsRequest
<1>7. /\ produced' = 0 /\ pure' = 0 /\ slots' = 0 /\ prep' = "over" /\ made' = NoFrame
      /\ frames' = <<>>
  BY DEF Return
<1>8. SourceTypes'
  BY <1>1, <1>7, NoFrameIs DEF SourceTypes
<1>9. Reserved'
  BY <1>7, QrBounds DEF Reserved
<1>10. CameraHeld'
  BY <1>1 DEF ExchangeInv, CameraHeld
<1> QED
  BY <1>5, <1>6, <1>8, <1>9, <1>10 DEF ExchangeInv

\* The invariant of the air-gapped exchange holds. (qr_exchange_dialog.py,
\* qr_animation.py, qr_scan.py)
THEOREM ExchangeInvariance == ExchangeSpec => []ExchangeInv
<1>1. ExchangeInv /\ [ExchangeNext]_qrVars => ExchangeInv'
  <2> SUFFICES ASSUME ExchangeInv, [ExchangeNext]_qrVars
               PROVE  ExchangeInv'
    OBVIOUS
  <2>1. CASE OpenExchange
    BY <2>1, OpenExchangeKeeps
  <2>2. CASE CancelExchange \/ Accept
    BY <2>2, DoneKeeps DEF CancelExchange, Accept
  <2>3. CASE Return
    BY <2>3, ReturnKeeps
  <2>4. CASE \/ PrepareStatic \/ PrepareNext \/ PrepareFails
             \/ \E order \in Orders : PrepareGroup(order)
    BY <2>4, PrepareKeeps
  <2>5. CASE Put \/ ShowFrame
    BY <2>5, PutKeeps, ShowFrameKeeps
  <2>6. CASE \/ ShownAgain \/ UserDecides \/ \E r \in Exchanges : PermissionDecided(r)
             \/ \E image \in 0..Barcode : CameraSees(image)
    BY <2>6, CameraKeeps
  <2>7. CASE Deliver \/ DeviceSigns \/ Decode \/ UNCHANGED qrVars
    BY <2>7, QuietStepsKeep
  <2> QED
    BY <2>1, <2>2, <2>3, <2>4, <2>5, <2>6, <2>7 DEF ExchangeNext
<1> QED
  BY <1>1, ExchangeInitInv, PTL DEF ExchangeSpec

\* The preparer's put_nowait never finds its queue full. (FramePreparer._run,
\* take)
THEOREM QueueHasRoom == ExchangeSpec => []PutFindsRoom
BY ExchangeInvariance, ExchangeInvImplies, PTL

\* No camera runs unless its dialog is on the screen. (QrScanner.start, stop,
\* _permission_decided)
THEOREM CameraIsReleased == ExchangeSpec => []CameraOnlyWhileShown
BY ExchangeInvariance, ExchangeInvImplies, PTL

\* A device that echoes request ids never has a signature put on a request it
\* was not made for. (_request_signature, exchange_qr)
THEOREM SignatureAnswers ==
    ASSUME EchoesId
    PROVE  ExchangeSpec => []SignedForItsRequest
<1>1. ExchangeInv => SignedForItsRequest
  BY ExchangeInvImplies
<1> QED
  BY <1>1, ExchangeInvariance, PTL

-----------------------------------------------------------------------------
(* The server's events: what is on its way to a subscription.              *)

Sends(e) == e.sending # Nobody
To(e) == SocketOf[e.sending]
In(q, t) == \E i \in DOMAIN q : q[i] = t
Before(q, t, u) == \E i, j \in DOMAIN q : i < j /\ q[i] = t /\ q[j] = u

\* What e sends to at its socket whatever dapps are pinned meanwhile, and what
\* it owes.
Held(e) == {e.sending} \cup (IF e.scope = "unscoped" THEN {} ELSE e.left)
Owes(e, s) == Sends(e) /\ (s = e.sending \/ s \in e.left \/ SocketOf[s] \in e.sockets)

\* Subscriptions and sockets are numbered as they came.
Numbered ==
    /\ \A s \in Subs : came[s] <= arrivals
    /\ \A w \in Sockets : opened[w] <= arrivals
    /\ \A r, s \in Subs : came[r] = came[s] /\ came[r] # 0 => r = s
    /\ \A v, w \in Sockets : opened[v] = opened[w] /\ opened[v] # 0 => v = w
    /\ \A s \in subs : came[s] # 0 /\ SocketOf[s] \in live /\ opened[SocketOf[s]] # 0

\* A task that sends has its subscriptions and sockets still before it.
Walks(e) ==
    /\ e.value # Nobody /\ e.scope \in Origins \cup {"unscoped", "all"}
    /\ e.sending \in Subs /\ came[e.sending] # 0 /\ opened[To(e)] # 0
    /\ e.scope \in Origins => OriginOf[e.sending] = e.scope
    /\ \A r \in e.left : /\ r \in Subs /\ SocketOf[r] = To(e) /\ came[e.sending] < came[r]
                         /\ e.scope \in Origins => OriginOf[r] = e.scope
    /\ \A v \in e.sockets : opened[To(e)] < opened[v]

TasksWalk ==
    /\ \A t \in Tasks : IF Sends(task[t]) THEN Walks(task[t])
                        ELSE task[t].left = {} /\ task[t].sockets = {}
    /\ \A t \in Tasks : task[t].scope \in Origins => pin[task[t].scope] # Nobody
    /\ \A t, u \in Tasks : u < t /\ task[t] # Unused => task[u] # Unused
    /\ \A t \in Tasks : task[t] = Unused <=> task[t].value = Nobody

\* Who sends waits once, for the lock of its socket.
QueuesHold ==
    /\ \A w \in Sockets : \A i, j \in DOMAIN waiting[w] : waiting[w][i] = waiting[w][j] => i = j
    /\ \A w \in Sockets, t \in Tasks :
          In(waiting[w], t) <=> Sends(task[t]) /\ To(task[t]) = w

\* An origin's own events hold no subscription that ended, and no event is for
\* every dapp, unless there is a gap.
Unbroken ==
    /\ \A t \in Tasks : Sends(task[t]) /\ task[t].scope \in Origins \ cut =>
                          Held(task[t]) \subseteq subs
    /\ \A t \in Tasks : Sends(task[t]) /\ task[t].scope = "all" => Origins \subseteq cut

\* f, the task u, comes after e, the task t, wherever e still goes.
Behind(e, f, q, sockets, t, u) ==
    /\ Sends(f)
    /\ \/ To(e) \in f.sockets
       \/ /\ To(f) = To(e) /\ Held(e) \subseteq Held(f)
          /\ f.sending \in Held(e) => f.sending = e.sending /\ Before(q[To(e)], t, u)
    /\ e.scope # "unscoped" => e.sockets \cap sockets \subseteq f.sockets

Follows(e, f, t, u) ==
    /\ Sends(e) /\ e.sending \in subs /\ f.scope = OriginOf[e.sending]
    /\ e.scope = "unscoped" \/ (e.scope = f.scope /\ f.scope \notin cut /\ t < u)

\* No event overtakes an older one on its way to a dapp that chose its chain: one
\* of the wallet's chain never, one of the dapp's own unless there is a gap.
NoOvertaking ==
    \A t, u \in Tasks :
        Follows(task[t], task[u], t, u) => Behind(task[t], task[u], waiting, live, t, u)

Latest(o, u) == task[u].scope = o /\ \A v \in Tasks : task[v].scope = o => v <= u

\* Without a gap, the latest event of a pinned origin is of its pin, and each of its
\* subscriptions was told the pin or is still to be told by that event.
LatestTells ==
    \A o \in Origins \ cut : pin[o] # Nobody =>
        \E u \in Tasks :
            /\ Latest(o, u) /\ task[u].value = pin[o]
            /\ \A s \in subs : OriginOf[s] = o => told[s] = pin[o] \/ Owes(task[u], s)

-----------------------------------------------------------------------------
(* Orders and queues.                                                      *)

LEMMA FirstIsFirst ==
    ASSUME NEW S, NEW at, S # {}, \A x \in S : at[x] \in Nat
    PROVE  First(S, at) \in S /\ \A y \in S : at[First(S, at)] <= at[y]
<1> DEFINE N == {at[x] : x \in S}
<1>1. PICK n \in N : \A m \in N : <<m, n>> \notin OpToRel(<, Nat)
  <2>1. N \in SUBSET Nat /\ N # {}
    OBVIOUS
  <2> QED
    BY <2>1, NatLessThanWellFounded, WFMin
<1>2. \A m \in N : n <= m
  <2> SUFFICES ASSUME NEW m \in N PROVE n <= m
    OBVIOUS
  <2>1. ~(m < n)
    BY <1>1 DEF OpToRel
  <2> QED
    BY <2>1
<1>3. \E x \in S : \A y \in S : at[x] <= at[y]
  BY <1>2
<1> QED
  BY <1>3 DEF First

Once(q) == \A i, j \in DOMAIN q : q[i] = q[j] => i = j

LEMMA HeadServed ==
    ASSUME NEW S, NEW q \in Seq(S), q # <<>>, Once(q)
    PROVE  /\ Tail(q) \in Seq(S) /\ Once(Tail(q)) /\ Head(q) \in S /\ In(q, Head(q))
           /\ \A x : In(Tail(q), x) <=> In(q, x) /\ x # Head(q)
           /\ \A x, y : Before(q, x, y) /\ x # Head(q) => Before(Tail(q), x, y)
           /\ \A x : ~Before(q, x, Head(q))
<1>1. /\ Len(q) \in Nat /\ Len(q) > 0 /\ DOMAIN q = 1..Len(q) /\ Head(q) = q[1]
      /\ Tail(q) \in Seq(S) /\ Len(Tail(q)) = Len(q) - 1 /\ DOMAIN Tail(q) = 1..(Len(q) - 1)
      /\ \A i \in 1..(Len(q) - 1) : Tail(q)[i] = q[i + 1]
  BY HeadTailProperties, LenProperties, EmptySeq
<1>2. Once(Tail(q))
  <2> SUFFICES ASSUME NEW i \in 1..(Len(q) - 1), NEW j \in 1..(Len(q) - 1),
                      q[i + 1] = q[j + 1]
               PROVE  i = j
    BY <1>1 DEF Once
  <2>1. i + 1 \in DOMAIN q /\ j + 1 \in DOMAIN q
    BY <1>1
  <2>2. i + 1 = j + 1
    BY <2>1 DEF Once
  <2> QED
    BY <2>2
<1>3. 1 \in DOMAIN q /\ Head(q) \in S /\ In(q, Head(q))
  BY <1>1, ElementOfSeq DEF In
<1>4. ASSUME NEW x PROVE In(Tail(q), x) <=> In(q, x) /\ x # Head(q)
  <2>1. ASSUME In(Tail(q), x) PROVE In(q, x) /\ x # Head(q)
    <3>1. PICK i \in 1..(Len(q) - 1) : q[i + 1] = x
      BY <1>1, <2>1 DEF In
    <3>2. i + 1 \in DOMAIN q /\ i + 1 # 1
      BY <1>1
    <3> QED
      BY <1>1, <1>3, <3>1, <3>2 DEF In, Once
  <2>2. ASSUME In(q, x), x # Head(q) PROVE In(Tail(q), x)
    <3>1. PICK i \in DOMAIN q : q[i] = x
      BY <2>2 DEF In
    <3>2. i - 1 \in 1..(Len(q) - 1) /\ (i - 1) + 1 = i
      BY <1>1, <2>2, <3>1
    <3> QED
      BY <1>1, <3>1, <3>2 DEF In
  <2> QED
    BY <2>1, <2>2
<1>5. ASSUME NEW x, NEW y, Before(q, x, y), x # Head(q) PROVE Before(Tail(q), x, y)
  <2>1. PICK i \in DOMAIN q, j \in DOMAIN q : i < j /\ q[i] = x /\ q[j] = y
    BY <1>5 DEF Before
  <2>2. /\ i - 1 \in 1..(Len(q) - 1) /\ (i - 1) + 1 = i /\ i - 1 < j - 1
        /\ j - 1 \in 1..(Len(q) - 1) /\ (j - 1) + 1 = j
    BY <1>1, <1>5, <2>1
  <2>3. Tail(q)[i - 1] = x /\ Tail(q)[j - 1] = y
    BY <1>1, <2>1, <2>2
  <2> QED
    BY <1>1, <2>2, <2>3 DEF Before
<1>6. ASSUME NEW x, Before(q, x, Head(q)) PROVE FALSE
  <2>1. PICK i \in DOMAIN q, j \in DOMAIN q : i < j /\ q[j] = q[1]
    BY <1>1, <1>6 DEF Before
  <2>2. j = 1
    BY <1>3, <2>1 DEF Once
  <2> QED
    BY <1>1, <2>1, <2>2
<1> QED
  BY <1>1, <1>2, <1>3, <1>4, <1>5, <1>6

LEMMA JoinsLast ==
    ASSUME NEW S, NEW q \in Seq(S), NEW t \in S, Once(q), ~In(q, t)
    PROVE  /\ Joins(q, t) \in Seq(S) /\ Once(Joins(q, t))
           /\ \A x : In(Joins(q, t), x) <=> In(q, x) \/ x = t
           /\ \A x, y : Before(q, x, y) => Before(Joins(q, t), x, y)
           /\ \A x : In(q, x) => Before(Joins(q, t), x, t)
<1> DEFINE p == Joins(q, t)
<1>1. /\ Len(q) \in Nat /\ DOMAIN q = 1..Len(q) /\ p \in Seq(S)
      /\ DOMAIN p = 1..(Len(q) + 1) /\ p[Len(q) + 1] = t
      /\ \A i \in 1..Len(q) : p[i] = q[i]
  BY AppendProperties, LenProperties DEF Joins
<1> HIDE DEF p
<1>2. \A i \in DOMAIN q : i \in DOMAIN p /\ i < Len(q) + 1 /\ p[i] = q[i] /\ q[i] # t
  BY <1>1 DEF In
<1>3. \A i \in DOMAIN p : i = Len(q) + 1 \/ i \in DOMAIN q
  BY <1>1
<1>4. Len(q) + 1 \in DOMAIN p
  BY <1>1
<1>5. Once(p)
  BY <1>1, <1>2, <1>3 DEF Once
<1>6. \A x : In(p, x) <=> In(q, x) \/ x = t
  BY <1>1, <1>2, <1>3, <1>4 DEF In
<1>7. \A x, y : Before(q, x, y) => Before(p, x, y)
  BY <1>2 DEF Before
<1>8. \A x : In(q, x) => Before(p, x, t)
  BY <1>1, <1>2, <1>4 DEF In, Before
<1> QED
  BY <1>1, <1>5, <1>6, <1>7, <1>8 DEF p

-----------------------------------------------------------------------------
(* The loops of _broadcast_event.                                          *)

Events == [value : Chains \cup {New, Nobody}, scope : Origins \cup {Nobody, "all", "unscoped"},
           sockets : SUBSET Sockets, left : SUBSET Subs, sending : Subs \cup {Nobody}]

\* The subscriptions a task can still come to at a socket.
Theirs(e, w) == {s \in subs : SocketOf[s] = w /\ ForSub(e, s)}
StillOpen(e) == {w \in e.sockets \cap live : Theirs(e, w) # {}}
Here(e) == {s \in e.left : ForSub(e, s)}

\* a is e at its next send, at the same socket or at another, or e that ends.
Stays(e, a) ==
    /\ a.sockets = e.sockets
    /\ a.sending \in Here(e) /\ a.left = Here(e) \ {a.sending}
    /\ \A s \in Here(e) : came[a.sending] <= came[s]

Moves(e, a) ==
    /\ Here(e) = {}
    /\ a.sending \in Theirs(e, To(a)) /\ a.left = Theirs(e, To(a)) \ {a.sending}
    /\ \A s \in Theirs(e, To(a)) : came[a.sending] <= came[s]
    /\ To(a) \in StillOpen(e) /\ \A w \in StillOpen(e) : opened[To(a)] <= opened[w]
    /\ a.sockets = {w \in e.sockets : opened[w] > opened[To(a)]}

Ends(e, a) ==
    /\ Here(e) = {} /\ StillOpen(e) = {}
    /\ a.sending = Nobody /\ a.left = {} /\ a.sockets = {}

LEMMA NextSend ==
    ASSUME RpcTypeOK, NEW e \in Events
    PROVE  /\ Advanced(e) \in Events
           /\ Advanced(e).value = e.value /\ Advanced(e).scope = e.scope
           /\ \/ Stays(e, Advanced(e)) \/ Moves(e, Advanced(e)) \/ Ends(e, Advanced(e))
<1> DEFINE a == Advanced(e)
           next == First(StillOpen(e), opened)
           turn == IF Here(e) # {} THEN Here(e) ELSE Theirs(e, next)
           kept == IF Here(e) # {} THEN e.sockets ELSE {w \in e.sockets : opened[w] > opened[next]}
<1>1. /\ came \in [Subs -> Nat] /\ opened \in [Sockets -> Nat] /\ subs \subseteq Subs
      /\ e.left \subseteq Subs /\ e.sockets \subseteq Sockets
  BY DEF RpcTypeOK, Events
<1>2. a = IF Here(e) = {} /\ StillOpen(e) = {}
          THEN [e EXCEPT !.sockets = {}, !.left = {}, !.sending = Nobody]
          ELSE [e EXCEPT !.sockets = kept, !.left = turn \ {First(turn, came)},
                         !.sending = First(turn, came)]
  BY DEF Advanced, Here, StillOpen, Theirs
<1>3. ASSUME Here(e) # {} PROVE First(turn, came) \in Here(e) /\ turn = Here(e)
                              /\ \A s \in Here(e) : came[First(turn, came)] <= came[s]
  <2>1. \A s \in Here(e) : came[s] \in Nat
    BY <1>1 DEF Here
  <2> QED
    BY <1>3, <2>1, FirstIsFirst
<1>4. ASSUME Here(e) = {}, StillOpen(e) # {}
      PROVE  /\ next \in StillOpen(e) /\ \A w \in StillOpen(e) : opened[next] <= opened[w]
             /\ turn = Theirs(e, next) /\ First(turn, came) \in turn
             /\ \A s \in turn : came[First(turn, came)] <= came[s]
  <2>1. \A w \in StillOpen(e) : opened[w] \in Nat
    BY <1>1 DEF StillOpen
  <2>2. next \in StillOpen(e) /\ \A w \in StillOpen(e) : opened[next] <= opened[w]
    BY <1>4, <2>1, FirstIsFirst
  <2>3. turn = Theirs(e, next) /\ turn # {}
    BY <1>4, <2>2 DEF StillOpen
  <2>4. \A s \in turn : came[s] \in Nat
    BY <1>1, <2>3 DEF Theirs
  <2> HIDE DEF turn
  <2> QED
    BY <2>2, <2>3, <2>4, FirstIsFirst
<1>5. ASSUME ~(Here(e) = {} /\ StillOpen(e) = {})
      PROVE  kept \subseteq Sockets /\ turn \subseteq Subs /\ First(turn, came) \in turn
  BY <1>1, <1>3, <1>4, <1>5 DEF Here, Theirs
<1> HIDE DEF turn, kept, next, a
<1>6. a \in Events /\ a.value = e.value /\ a.scope = e.scope
  <2>1. CASE Here(e) = {} /\ StillOpen(e) = {}
    <3>1. a = [e EXCEPT !.sockets = {}, !.left = {}, !.sending = Nobody]
      BY <1>2, <2>1
    <3> QED
      BY <3>1 DEF Events
  <2>2. CASE ~(Here(e) = {} /\ StillOpen(e) = {})
    <3>1. a = [e EXCEPT !.sockets = kept, !.left = turn \ {First(turn, came)},
                        !.sending = First(turn, came)]
      BY <1>2, <2>2
    <3> QED
      BY <1>5, <2>2, <3>1 DEF Events
  <2> QED
    BY <2>1, <2>2
<1>7. ASSUME ~(Here(e) = {} /\ StillOpen(e) = {})
      PROVE  /\ a.sockets = kept /\ a.left = turn \ {First(turn, came)}
             /\ a.sending = First(turn, came)
  BY <1>2, <1>7 DEF Events
<1>8. CASE Here(e) # {}
  <2>1. kept = e.sockets
    BY <1>8 DEF kept
  <2> QED
    BY <1>3, <1>6, <1>7, <1>8, <2>1 DEF Stays, a
<1>9. CASE Here(e) = {} /\ StillOpen(e) # {}
  <2>1. kept = {w \in e.sockets : opened[w] > opened[next]}
    BY <1>9 DEF kept
  <2>2. To(a) = next
    BY <1>4, <1>7, <1>9 DEF To, Theirs
  <2>3. Moves(e, a)
    BY <1>4, <1>7, <1>9, <2>1, <2>2 DEF Moves
  <2> QED
    BY <1>6, <2>3 DEF a
<1>10. CASE Here(e) = {} /\ StillOpen(e) = {}
  <2>1. a.sockets = {} /\ a.left = {} /\ a.sending = Nobody
    BY <1>2, <1>10 DEF Events
  <2> QED
    BY <1>6, <1>10, <2>1 DEF Ends, a
<1> QED
  BY <1>8, <1>9, <1>10

LEMMA OriginsScope ==
    /\ \A s \in Subs : OriginOf[s] \in Origins /\ SocketOf[s] \in Sockets
    /\ \A o \in Origins : o \notin {Nobody, "all", "unscoped"}
  BY RpcAssumption DEF Origins

LEMMA WhoIsTold ==
    ASSUME NEW e, e.scope \in Origins \cup {"unscoped"}, NEW s \in Subs
    PROVE  ForSub(e, s) <=> \/ e.scope = OriginOf[s]
                            \/ e.scope = "unscoped" /\ pin[OriginOf[s]] = Nobody
  BY OriginsScope DEF ForSub

LEMMA QueuedFacts ==
    ASSUME NEW W \in [Sockets -> Seq(Tasks)], NEW t \in Tasks, NEW a,
           Sends(a) => To(a) \in Sockets,
           \A v \in Sockets : Once(W[v]) /\ ~In(W[v], t)
    PROVE  /\ Queued(W, a, t) \in [Sockets -> Seq(Tasks)]
           /\ \A v \in Sockets :
                /\ Once(Queued(W, a, t)[v])
                /\ In(Queued(W, a, t)[v], t) <=> Sends(a) /\ To(a) = v
                /\ \A x : x # t => (In(Queued(W, a, t)[v], x) <=> In(W[v], x))
                /\ \A x, y : Before(W[v], x, y) => Before(Queued(W, a, t)[v], x, y)
                /\ \A x : In(W[v], x) /\ Sends(a) /\ To(a) = v => Before(Queued(W, a, t)[v], x, t)
<1>1. CASE ~Sends(a)
  BY <1>1 DEF Queued, Sends
<1>2. CASE Sends(a)
  <2>1. Queued(W, a, t) = [W EXCEPT ![To(a)] = Joins(W[To(a)], t)]
    BY <1>2 DEF Queued, Sends, To
  <2>2. /\ Joins(W[To(a)], t) \in Seq(Tasks) /\ Once(Joins(W[To(a)], t))
        /\ \A x : In(Joins(W[To(a)], t), x) <=> In(W[To(a)], x) \/ x = t
        /\ \A x, y : Before(W[To(a)], x, y) => Before(Joins(W[To(a)], t), x, y)
        /\ \A x : In(W[To(a)], x) => Before(Joins(W[To(a)], t), x, t)
    BY <1>2, JoinsLast
  <2>3. \A v \in Sockets : Queued(W, a, t)[v] = IF v = To(a) THEN Joins(W[To(a)], t) ELSE W[v]
    BY <1>2, <2>1
  <2>4. Queued(W, a, t) \in [Sockets -> Seq(Tasks)]
    BY <1>2, <2>1, <2>2
  <2> QED
    BY <1>2, <2>2, <2>3, <2>4
<1> QED
  BY <1>1, <1>2

\* A task goes on to subscriptions that came later, or to a later socket.
LEMMA GoesOn ==
    ASSUME RpcTypeOK, Numbered, NEW e \in Events,
           e.value # Nobody, e.scope \in Origins \cup {"unscoped", "all"}, NEW w \in Sockets,
           \A r \in e.left : r \in Subs /\ SocketOf[r] = w /\ came[r] # 0,
           e.left # {} => opened[w] # 0 /\ \A v \in e.sockets : opened[w] < opened[v]
    PROVE  IF Sends(Advanced(e)) THEN Walks(Advanced(e))
           ELSE Advanced(e).left = {} /\ Advanced(e).sockets = {}
<1> DEFINE a == Advanced(e)
<1>1. /\ a \in Events /\ a.value = e.value /\ a.scope = e.scope
      /\ Stays(e, a) \/ Moves(e, a) \/ Ends(e, a)
  BY NextSend
<1> HIDE DEF a
<1>2. /\ came \in [Subs -> Nat] /\ opened \in [Sockets -> Nat] /\ subs \subseteq Subs
      /\ \A r, s \in Subs : came[r] = came[s] /\ came[r] # 0 => r = s
      /\ \A s \in subs : s \in Subs /\ came[s] # 0 /\ opened[SocketOf[s]] # 0
  BY DEF RpcTypeOK, Numbered
<1>3. \A s \in Subs : e.scope \in Origins /\ ForSub(e, s) => OriginOf[s] = e.scope
  BY WhoIsTold, OriginsScope
<1>4. CASE Stays(e, a)
  <2>1. a.sending \in e.left /\ ForSub(e, a.sending)
        /\ \A r \in a.left : r \in e.left /\ r # a.sending /\ ForSub(e, r)
                             /\ came[a.sending] <= came[r]
    BY <1>4 DEF Stays, Here
  <2>2. \A r \in a.left : came[a.sending] < came[r]
    <3> SUFFICES ASSUME NEW r \in a.left PROVE came[a.sending] < came[r]
      OBVIOUS
    <3>1. /\ r \in Subs /\ a.sending \in Subs /\ r # a.sending /\ came[a.sending] <= came[r]
          /\ came[r] \in Nat /\ came[a.sending] \in Nat /\ came[r] # 0
      BY <1>2, <2>1
    <3>2. came[a.sending] # came[r]
      BY <1>2, <3>1
    <3> QED
      BY <3>1, <3>2
  <2>3. To(a) = w /\ opened[w] # 0 /\ \A v \in a.sockets : opened[w] < opened[v]
    BY <1>4, <2>1 DEF Stays, To
  <2>4. /\ a.sending \in Subs /\ came[a.sending] # 0
        /\ \A r \in a.left : r \in Subs /\ SocketOf[r] = w
    BY <2>1
  <2>5. e.scope \in Origins => /\ OriginOf[a.sending] = e.scope
                               /\ \A r \in a.left : OriginOf[r] = e.scope
    BY <1>3, <2>1, <2>4
  <2>6. Walks(a)
    BY <1>1, <2>2, <2>3, <2>4, <2>5 DEF Walks
  <2>7. Sends(a)
    BY <1>2, <2>4, RpcAssumption DEF Sends
  <2> QED
    BY <2>6, <2>7 DEF a
<1>5. CASE Moves(e, a)
  <2>1. /\ a.sending \in Subs /\ came[a.sending] # 0 /\ opened[To(a)] # 0
        /\ ForSub(e, a.sending)
        /\ \A r \in a.left : /\ r \in Subs /\ came[r] # 0 /\ SocketOf[r] = To(a)
                             /\ r # a.sending /\ ForSub(e, r) /\ came[a.sending] <= came[r]
    BY <1>2, <1>5 DEF Moves, Theirs, To
  <2>2. \A r \in a.left : came[a.sending] < came[r]
    <3> SUFFICES ASSUME NEW r \in a.left PROVE came[a.sending] < came[r]
      OBVIOUS
    <3>1. /\ r \in Subs /\ a.sending \in Subs /\ r # a.sending /\ came[a.sending] <= came[r]
          /\ came[r] \in Nat /\ came[a.sending] \in Nat /\ came[r] # 0
      BY <1>2, <2>1
    <3>2. came[a.sending] # came[r]
      BY <1>2, <3>1
    <3> QED
      BY <3>1, <3>2
  <2>3. To(a) \in Sockets /\ \A v \in a.sockets : opened[To(a)] < opened[v]
    <3>1. To(a) \in Sockets /\ e.sockets \subseteq Sockets
      BY <1>5 DEF Moves, StillOpen, Events
    <3>2. \A v \in a.sockets : v \in Sockets /\ opened[v] > opened[To(a)]
      BY <1>5, <3>1 DEF Moves
    <3> QED
      BY <1>2, <3>1, <3>2
  <2>4. e.scope \in Origins => /\ OriginOf[a.sending] = e.scope
                               /\ \A r \in a.left : OriginOf[r] = e.scope
    BY <1>2, <1>3, <2>1
  <2>5. Walks(a)
    BY <1>1, <2>1, <2>2, <2>3, <2>4 DEF Walks
  <2>6. Sends(a)
    BY <1>2, <2>1, RpcAssumption DEF Sends
  <2> QED
    BY <2>5, <2>6 DEF a
<1>6. CASE Ends(e, a)
  BY <1>6 DEF Ends, Sends, a
<1> QED
  BY <1>1, <1>4, <1>5, <1>6

\* The later event f goes on: it still comes after e.
LEMMA ComesAfter ==
    ASSUME RpcTypeOK, Numbered, NEW e \in Events, NEW f \in Events,
           Sends(e), Walks(e), f.scope = OriginOf[e.sending], e.sending \in subs,
           e.scope # "all", Held(e) \subseteq subs, \A r \in f.left : OriginOf[r] = f.scope,
           \/ To(e) \in f.sockets
           \/ Held(e) \subseteq f.left /\ \A r \in f.left : SocketOf[r] = To(e),
           e.scope # "unscoped" => e.sockets \cap live \subseteq f.sockets
    PROVE  LET b == Advanced(f) IN
           /\ Sends(b)
           /\ \/ To(e) \in b.sockets
              \/ /\ To(b) = To(e) /\ Held(e) \subseteq Held(b)
                 /\ b.sending \in Held(e) => b.sending = e.sending
           /\ e.scope # "unscoped" => e.sockets \cap live \subseteq b.sockets
<1> DEFINE b == Advanced(f)
<1>1. /\ b \in Events /\ b.value = f.value /\ b.scope = f.scope
      /\ Stays(f, b) \/ Moves(f, b) \/ Ends(f, b)
  BY NextSend
<1> HIDE DEF b
<1>2. /\ came \in [Subs -> Nat] /\ opened \in [Sockets -> Nat] /\ subs \subseteq Subs
      /\ live \subseteq Sockets /\ e.sending \in subs /\ e.sending \in Held(e)
      /\ To(e) \in live /\ To(e) \in Sockets /\ opened[To(e)] # 0
      /\ f.scope \in Origins /\ f.scope # "unscoped" /\ f.left \subseteq Subs
  BY OriginsScope DEF RpcTypeOK, Numbered, Walks, Held, To, Events
<1>3. \A s \in Subs : ForSub(f, s) <=> OriginOf[s] = f.scope
  BY <1>2, WhoIsTold
<1>4. Here(f) = f.left
  BY <1>2, <1>3 DEF Here
<1>5. \A r \in Held(e) : /\ r \in subs /\ SocketOf[r] = To(e) /\ OriginOf[r] = f.scope
                         /\ r # e.sending => came[e.sending] < came[r]
  <2> SUFFICES ASSUME NEW r \in Held(e), r # e.sending
               PROVE  /\ r \in subs /\ SocketOf[r] = To(e) /\ OriginOf[r] = f.scope
                      /\ came[e.sending] < came[r]
    BY <1>2 DEF To
  <2>1. r \in e.left /\ e.scope # "unscoped"
    BY DEF Held
  <2>2. e.scope \in Origins
    BY <2>1 DEF Walks
  <2> QED
    BY <2>1, <2>2 DEF Walks
<1>6. Held(b) = {b.sending} \cup b.left
  BY <1>1, <1>2 DEF Held
<1>7. CASE Stays(f, b)
  <2>1. b.sending \in f.left /\ b.sockets = f.sockets /\ Held(b) = f.left
        /\ \A s \in f.left : came[b.sending] <= came[s]
    BY <1>4, <1>6, <1>7 DEF Stays
  <2>2. Sends(b)
    BY <1>2, <2>1, RpcAssumption DEF Sends
  <2>3. CASE To(e) \in f.sockets
    BY <2>1, <2>2, <2>3 DEF b
  <2>4. CASE Held(e) \subseteq f.left /\ \A r \in f.left : SocketOf[r] = To(e)
    <3>1. To(b) = To(e)
      BY <2>1, <2>4 DEF To
    <3>2. ASSUME b.sending \in Held(e), b.sending # e.sending PROVE FALSE
      <4>1. came[e.sending] < came[b.sending] /\ came[b.sending] <= came[e.sending]
        BY <1>2, <1>5, <2>1, <2>4, <3>2
      <4>2. came[e.sending] \in Nat /\ came[b.sending] \in Nat
        BY <1>2, <1>5, <3>2
      <4> QED
        BY <4>1, <4>2
    <3> QED
      BY <2>1, <2>2, <2>4, <3>1, <3>2 DEF b
  <2> QED
    BY <2>3, <2>4
<1>8. ASSUME f.left = {} PROVE To(e) \in f.sockets /\ To(e) \in StillOpen(f)
  <2>1. To(e) \in f.sockets
    BY <1>2, <1>8
  <2>2. e.sending \in Theirs(f, To(e))
    BY <1>2, <1>3 DEF Theirs, To
  <2> QED
    BY <1>2, <2>1, <2>2 DEF StillOpen
<1>9. CASE Moves(f, b)
  <2>1. /\ b.sending \in Theirs(f, To(b)) /\ Held(b) = Theirs(f, To(b))
        /\ \A s \in Theirs(f, To(b)) : came[b.sending] <= came[s]
        /\ To(b) \in StillOpen(f) /\ opened[To(b)] <= opened[To(e)]
        /\ b.sockets = {w \in f.sockets : opened[w] > opened[To(b)]}
    BY <1>4, <1>6, <1>8, <1>9 DEF Moves
  <2>2. Sends(b) /\ To(b) \in Sockets
    BY <1>2, <2>1, RpcAssumption DEF Sends, Theirs, StillOpen
  <2>3. \A v \in e.sockets : v \in Sockets /\ opened[To(e)] < opened[v]
    BY DEF Walks, Events
  <2>4. e.scope # "unscoped" => e.sockets \cap live \subseteq b.sockets
    <3> SUFFICES ASSUME e.scope # "unscoped", NEW v \in e.sockets \cap live PROVE v \in b.sockets
      OBVIOUS
    <3>1. v \in f.sockets /\ opened[v] \in Nat /\ opened[To(b)] \in Nat /\ opened[To(e)] \in Nat
      BY <1>2, <2>2, <2>3
    <3>2. opened[v] > opened[To(b)]
      BY <2>1, <2>3, <3>1
    <3> QED
      BY <2>1, <3>1, <3>2
  <2>5. CASE To(b) = To(e)
    <3>1. Held(e) \subseteq Held(b)
      BY <1>2, <1>3, <1>5, <2>1, <2>5 DEF Theirs
    <3>2. ASSUME b.sending \in Held(e), b.sending # e.sending PROVE FALSE
      <4>1. came[e.sending] < came[b.sending] /\ came[b.sending] <= came[e.sending]
        BY <1>2, <1>5, <2>1, <3>1, <3>2
      <4>2. came[e.sending] \in Nat /\ came[b.sending] \in Nat
        BY <1>2, <1>5, <3>2
      <4> QED
        BY <4>1, <4>2
    <3> QED
      BY <2>2, <2>4, <2>5, <3>1, <3>2 DEF b
  <2>6. CASE To(b) # To(e)
    <3>1. opened[To(b)] # opened[To(e)]
      BY <1>2, <2>2, <2>6 DEF Numbered
    <3>2. opened[To(e)] > opened[To(b)]
      BY <1>2, <2>1, <2>2, <3>1
    <3>3. f.left = {}
      BY <1>4, <1>9 DEF Moves
    <3>4. To(e) \in b.sockets
      BY <1>8, <2>1, <3>2, <3>3
    <3> QED
      BY <2>2, <2>4, <3>4 DEF b
  <2> QED
    BY <2>5, <2>6
<1>10. CASE Ends(f, b)
  BY <1>4, <1>8, <1>10 DEF Ends
<1> QED
  BY <1>1, <1>7, <1>9, <1>10

\* What the event f of an origin still owes to a subscription it does not send
\* to now, it owes when it goes on.
LEMMA StillOwes ==
    ASSUME RpcTypeOK, Numbered, NEW f \in Events, f.scope \in Origins,
           NEW s \in subs, OriginOf[s] = f.scope,
           s \in f.left \/ SocketOf[s] \in f.sockets
    PROVE  Owes(Advanced(f), s)
<1> DEFINE b == Advanced(f)
<1>1. Stays(f, b) \/ Moves(f, b) \/ Ends(f, b)
  BY NextSend
<1> HIDE DEF b
<1>2. /\ opened \in [Sockets -> Nat] /\ subs \subseteq Subs /\ s \in Subs
      /\ SocketOf[s] \in live /\ SocketOf[s] \in Sockets /\ opened[SocketOf[s]] # 0
  BY OriginsScope DEF RpcTypeOK, Numbered
<1>3. ForSub(f, s)
  BY <1>2, WhoIsTold
<1>4. s \in f.left => s \in Here(f)
  BY <1>3 DEF Here
<1>5. s \in Theirs(f, SocketOf[s])
  BY <1>3 DEF Theirs
<1>6. SocketOf[s] \in f.sockets => SocketOf[s] \in StillOpen(f)
  BY <1>2, <1>5 DEF StillOpen
<1>7. CASE Stays(f, b)
  <2>1. b.sending \in Subs
    BY <1>7 DEF Stays, Here, Events
  <2>2. Sends(b)
    BY <2>1, RpcAssumption DEF Sends
  <2> QED
    BY <1>4, <1>7, <2>2 DEF Stays, Owes, b
<1>8. CASE Moves(f, b)
  <2>1. b.sending \in subs /\ To(b) \in Sockets
    BY <1>8, <1>2, OriginsScope DEF Moves, Theirs, To
  <2>2. Sends(b)
    BY <1>2, <2>1, RpcAssumption DEF Sends
  <2>3. s \notin f.left /\ SocketOf[s] \in StillOpen(f) /\ SocketOf[s] \in f.sockets
    BY <1>4, <1>6, <1>8 DEF Moves
  <2>4. CASE To(b) = SocketOf[s]
    <3>1. s = b.sending \/ s \in b.left
      BY <1>5, <1>8, <2>4 DEF Moves
    <3> QED
      BY <2>2, <3>1 DEF Owes, b
  <2>5. CASE To(b) # SocketOf[s]
    <3>1. opened[To(b)] <= opened[SocketOf[s]] /\ opened[To(b)] # opened[SocketOf[s]]
      BY <1>2, <1>8, <2>1, <2>3, <2>5 DEF Moves, Numbered
    <3>2. opened[SocketOf[s]] > opened[To(b)]
      BY <1>2, <2>1, <3>1
    <3>3. SocketOf[s] \in b.sockets
      BY <1>8, <2>3, <3>2 DEF Moves
    <3> QED
      BY <2>2, <3>3 DEF Owes, b
  <2> QED
    BY <2>4, <2>5
<1>9. CASE Ends(f, b)
  BY <1>4, <1>6, <1>9 DEF Ends
<1> QED
  BY <1>1, <1>7, <1>8, <1>9

-----------------------------------------------------------------------------
(* The steps of the server.                                                *)

\* The parts of the invariant that no step of a request to add a chain, or of
\* the wallet's own chain, can disturb.
EventsHold ==
    Numbered /\ TasksWalk /\ QueuesHold /\ Unbroken /\ NoOvertaking /\ LatestTells

LEMMA EventsUntouched ==
    ASSUME EventsHold, UNCHANGED <<pin, subVars, task, waiting, told, cut>>
    PROVE  EventsHold'
<1>1. UNCHANGED <<pin, live, subs, came, opened, arrivals, task, waiting, told, cut>>
  BY DEF subVars
<1> QED
  BY <1>1 DEF EventsHold, Numbered, TasksWalk, QueuesHold, Unbroken, NoOvertaking,
       LatestTells, Walks, Latest, Follows

\* A send ends, and its task goes on.
LEMMA SendKeeps ==
    ASSUME RpcTypeOK, EventsHold, NEW w \in Sockets, SendEnds(w)
    PROVE  RpcTypeOK' /\ EventsHold'
<1> DEFINE t == Head(waiting[w])
           e == task[t]
           kept == IF w \in live THEN e.left ELSE {}
           k == [e EXCEPT !.left = kept]
           a == Advanced(k)
           W == [waiting EXCEPT ![w] = Tail(waiting[w])]
<1>1. /\ waiting \in [Sockets -> Seq(Tasks)] /\ waiting[w] # <<>>
      /\ task \in [Tasks -> Events]
  BY DEF SendEnds, RpcTypeOK, Events
<1>2. \A v \in Sockets : Once(waiting[v])
  BY DEF EventsHold, QueuesHold, Once
<1>3. /\ Tail(waiting[w]) \in Seq(Tasks) /\ Once(Tail(waiting[w]))
      /\ t \in Tasks /\ In(waiting[w], t)
      /\ \A x : In(Tail(waiting[w]), x) <=> In(waiting[w], x) /\ x # t
      /\ \A x, y : Before(waiting[w], x, y) /\ x # t => Before(Tail(waiting[w]), x, y)
      /\ \A x : ~Before(waiting[w], x, t)
  BY <1>1, <1>2, HeadServed
<1>4. e \in Events /\ Sends(e) /\ To(e) = w /\ Walks(e) /\ e.value # Nobody
      /\ e.scope \in Origins \cup {"unscoped", "all"}
  BY <1>1, <1>3 DEF EventsHold, QueuesHold, TasksWalk, Walks
<1>5. /\ subs \subseteq Subs /\ e.sending \in Subs
      /\ e.sending \in subs => w \in live
  BY <1>4 DEF Walks, EventsHold, Numbered, RpcTypeOK, To
<1>6. /\ task' = [task EXCEPT ![t] = a] /\ waiting' = Queued(W, a, t)
      /\ told' = IF w \in live THEN [told EXCEPT ![e.sending] = e.value] ELSE told
      /\ UNCHANGED <<current, endpoint, pin, live, subs, came, opened, arrivals, due, cut,
                     adding, prompt, shared>>
  BY DEF SendEnds, storeVars, subVars, addVars
<1>20. /\ k \in Events /\ k.value = e.value /\ k.scope = e.scope /\ k.sockets = e.sockets
       /\ k.left = kept /\ k.left \subseteq e.left
       /\ w \in live => k = e
  BY <1>4 DEF Events
<1> HIDE DEF k
<1>7. /\ a \in Events /\ a.value = e.value /\ a.scope = e.scope
      /\ Stays(k, a) \/ Moves(k, a) \/ Ends(k, a)
  BY <1>20, NextSend
<1>8. IF Sends(a) THEN Walks(a) ELSE a.left = {} /\ a.sockets = {}
  <2>1. /\ \A r \in k.left : r \in Subs /\ SocketOf[r] = w /\ came[r] # 0
        /\ opened[w] # 0 /\ \A v \in k.sockets : opened[w] < opened[v]
    <3>1. \A r \in e.left : r \in Subs /\ SocketOf[r] = w /\ came[r] # 0
      <4> SUFFICES ASSUME NEW r \in e.left
                   PROVE  r \in Subs /\ SocketOf[r] = w /\ came[r] # 0
        OBVIOUS
      <4>1. r \in Subs /\ SocketOf[r] = w /\ came[e.sending] < came[r]
        BY <1>4 DEF Walks
      <4>2. came[e.sending] \in Nat /\ came[r] \in Nat
        BY <1>5, <4>1 DEF RpcTypeOK
      <4> QED
        BY <4>1, <4>2
    <3> QED
      BY <1>4, <1>20, <3>1 DEF Walks
  <2> HIDE DEF t, e, kept, W
  <2> QED
    BY <1>4, <1>20, <2>1, GoesOn DEF EventsHold
<1>9. \A v \in Sockets : /\ W[v] = IF v = w THEN Tail(waiting[w]) ELSE waiting[v]
                         /\ Once(W[v]) /\ ~In(W[v], t)
                         /\ \A x : x # t => (In(W[v], x) <=> In(waiting[v], x))
                         /\ \A x, y : Before(waiting[v], x, y) /\ x # t => Before(W[v], x, y)
  <2> SUFFICES ASSUME NEW v \in Sockets
               PROVE  /\ W[v] = IF v = w THEN Tail(waiting[w]) ELSE waiting[v]
                      /\ Once(W[v]) /\ ~In(W[v], t)
                      /\ \A x : x # t => (In(W[v], x) <=> In(waiting[v], x))
                      /\ \A x, y : Before(waiting[v], x, y) /\ x # t => Before(W[v], x, y)
    OBVIOUS
  <2>1. W[v] = IF v = w THEN Tail(waiting[w]) ELSE waiting[v]
    BY <1>1
  <2>2. CASE v = w
    BY <1>3, <2>1, <2>2
  <2>3. CASE v # w
    <3>1. ~In(waiting[v], t)
      BY <1>3, <1>4, <2>3 DEF EventsHold, QueuesHold
    <3> QED
      BY <1>2, <2>1, <2>3, <3>1
  <2> QED
    BY <2>2, <2>3
<1>10. W \in [Sockets -> Seq(Tasks)]
  BY <1>1, <1>3
<1>11. Sends(a) => To(a) \in Sockets
  BY <1>7, OriginsScope DEF Events, Sends, To
<1> HIDE DEF t, e, kept, a, W
<1>12. /\ waiting' \in [Sockets -> Seq(Tasks)]
       /\ \A v \in Sockets :
            /\ Once(waiting'[v])
            /\ In(waiting'[v], t) <=> Sends(a) /\ To(a) = v
            /\ \A x : x # t => (In(waiting'[v], x) <=> In(waiting[v], x))
            /\ \A x, y : Before(waiting[v], x, y) /\ x # t => Before(waiting'[v], x, y)
            /\ \A x : In(waiting[v], x) /\ x # t /\ Sends(a) /\ To(a) = v => Before(waiting'[v], x, t)
  <2>1. \A v \in Sockets : Once(W[v]) /\ ~In(W[v], t)
    BY <1>9
  <2>2. /\ Queued(W, a, t) \in [Sockets -> Seq(Tasks)]
        /\ \A v \in Sockets :
             /\ Once(Queued(W, a, t)[v])
             /\ In(Queued(W, a, t)[v], t) <=> Sends(a) /\ To(a) = v
             /\ \A x : x # t => (In(Queued(W, a, t)[v], x) <=> In(W[v], x))
             /\ \A x, y : Before(W[v], x, y) => Before(Queued(W, a, t)[v], x, y)
             /\ \A x : In(W[v], x) /\ Sends(a) /\ To(a) = v => Before(Queued(W, a, t)[v], x, t)
    BY ZenonT(60), <1>3, <1>10, <1>11, <2>1, QueuedFacts
  <2> QED
    BY <1>6, <1>9, <2>2
<1>13. \A x \in Tasks : task'[x] = IF x = t THEN a ELSE task[x]
  BY <1>1, <1>6
<1>14. RpcTypeOK'
  <2>1. task' \in [Tasks -> Events]
    BY <1>1, <1>6, <1>7
  <2>2. told' \in [Subs -> Chains \cup {New, Nobody}]
    BY <1>4, <1>5, <1>6 DEF RpcTypeOK, Events
  <2> QED
    BY <1>6, <1>12, <2>1, <2>2 DEF RpcTypeOK, Events
<1>15. Numbered'
  BY <1>6 DEF EventsHold, Numbered
<1>16. TasksWalk'
  <2>1. ASSUME NEW x \in Tasks
        PROVE  (IF Sends(task[x]) THEN Walks(task[x])
                ELSE task[x].left = {} /\ task[x].sockets = {})'
    <3>1. IF Sends(task'[x]) THEN Walks(task'[x]) ELSE task'[x].left = {} /\ task'[x].sockets = {}
      BY <1>8, <1>13 DEF EventsHold, TasksWalk
    <3> QED
      BY <1>6, <3>1 DEF Walks, Sends, To
  <2>2. \A x \in Tasks : task'[x].scope = task[x].scope /\ task'[x].value = task[x].value
    BY <1>7, <1>13 DEF e
  <2>3. \A x \in Tasks : task'[x] = Unused <=> task[x] = Unused
    <3>1. a # Unused /\ e # Unused
      BY <1>4, <1>7 DEF Unused
    <3> QED
      BY <1>13, <3>1 DEF e
  <2>4. /\ \A x \in Tasks : task'[x].scope \in Origins => pin'[task'[x].scope] # Nobody
        /\ \A x, y \in Tasks : y < x /\ task'[x] # Unused => task'[y] # Unused
        /\ \A x \in Tasks : task'[x] = Unused <=> task'[x].value = Nobody
    BY <1>6, <2>2, <2>3 DEF EventsHold, TasksWalk
  <2>5. \A x \in Tasks : (IF Sends(task[x]) THEN Walks(task[x])
                          ELSE task[x].left = {} /\ task[x].sockets = {})'
    BY <2>1
  <2> QED
    BY <2>4, <2>5 DEF TasksWalk
<1>17. QueuesHold'
  <2>1. \A v \in Sockets : \A i, j \in DOMAIN waiting'[v] : waiting'[v][i] = waiting'[v][j] => i = j
    BY <1>12 DEF Once
  <2>2. ASSUME NEW v \in Sockets, NEW x \in Tasks
        PROVE  In(waiting'[v], x) <=> Sends(task'[x]) /\ To(task'[x]) = v
    BY <1>12, <1>13 DEF EventsHold, QueuesHold
  <2> QED
    BY <2>1, <2>2 DEF QueuesHold
<1>21. Unbroken'
  <2>1. ASSUME NEW x \in Tasks, Sends(task'[x]), task'[x].scope \in Origins \ cut
        PROVE  Held(task'[x]) \subseteq subs
    <3>1. CASE x # t
      BY <1>13, <2>1, <3>1 DEF EventsHold, Unbroken
    <3>2. CASE x = t
      <4>1. Sends(a) /\ e.scope \in Origins \ cut /\ a.scope # "unscoped" /\ task'[x] = a
        BY <1>7, <1>13, <2>1, <3>2, OriginsScope
      <4>2. Held(e) \subseteq subs
        BY <1>3, <1>4, <4>1 DEF EventsHold, Unbroken, e
      <4>3. e.left \subseteq subs
        BY <1>7, <4>1, <4>2 DEF Held
      <4>4. a.sending \in subs /\ a.left \subseteq subs
        BY <1>7, <1>20, <4>1, <4>3 DEF Stays, Moves, Ends, Here, Theirs, Sends
      <4> QED
        BY <4>1, <4>4 DEF Held
    <3> QED
      BY <3>1, <3>2
  <2>2. ASSUME NEW x \in Tasks, Sends(task'[x]), task'[x].scope = "all" PROVE Origins \subseteq cut
    BY <1>3, <1>4, <1>7, <1>13, <2>2 DEF EventsHold, Unbroken, e
  <2> QED
    BY <1>6, <2>1, <2>2 DEF Unbroken
<1>18. NoOvertaking'
  <2> SUFFICES ASSUME NEW x \in Tasks, NEW y \in Tasks, Follows(task'[x], task'[y], x, y)
               PROVE  Behind(task'[x], task'[y], waiting', live', x, y)
    BY <1>6 DEF NoOvertaking, Follows
  <2>0. \A z \in Tasks : /\ task[z] \in Events
                         /\ Sends(task[z]) => /\ Walks(task[z]) /\ To(task[z]) \in Sockets
                                              /\ OriginOf[task[z].sending] \in Origins
    BY <1>1, OriginsScope DEF EventsHold, TasksWalk, RpcTypeOK, Walks, To
  <2>1. CASE x # t /\ y # t
    <3>1. task'[x] = task[x] /\ task'[y] = task[y]
      BY <1>13, <2>1
    <3>2. Behind(task[x], task[y], waiting, live, x, y)
      BY <3>1 DEF EventsHold, NoOvertaking
    <3>3. Sends(task[x])
      BY <3>1 DEF Follows
    <3>4. Before(waiting[To(task[x])], x, y) => Before(waiting'[To(task[x])], x, y)
      BY <1>12, <2>0, <2>1, <3>3
    <3> QED
      BY <1>6, <3>1, <3>2, <3>4 DEF Behind
  <2>2. CASE x # t /\ y = t
    <3>1. task'[x] = task[x] /\ task'[y] = a /\ task[y] = e
      BY <1>13, <2>2 DEF e
    <3>2. Follows(task[x], e, x, y)
      BY <1>7, <3>1 DEF Follows
    <3>3. Behind(task[x], e, waiting, live, x, y)
      BY <3>1, <3>2 DEF EventsHold, NoOvertaking
    <3>4. /\ Sends(task[x]) /\ e.scope = OriginOf[task[x].sending] /\ e.scope \in Origins
          /\ task[x].sending \in subs /\ task[x].scope # "all"
      BY <2>0, <3>2, OriginsScope DEF Follows
    <3>12. Held(task[x]) \subseteq subs
      <4>1. CASE task[x].scope = "unscoped"
        BY <3>4, <4>1 DEF Held
      <4>2. CASE task[x].scope # "unscoped"
        <5>1. task[x].scope \in Origins \ cut
          BY <3>2, <3>4, <4>2 DEF Follows
        <5> QED
          BY <3>4, <5>1 DEF EventsHold, Unbroken
      <4> QED
        BY <4>1, <4>2
    <3>5. Held(e) = {e.sending} \cup e.left
      BY <3>4, OriginsScope DEF Held
    <3>6. ASSUME To(task[x]) \notin k.sockets
          PROVE  Held(task[x]) \subseteq k.left /\ \A r \in k.left : SocketOf[r] = To(task[x])
      <4>1. /\ To(e) = To(task[x]) /\ Held(task[x]) \subseteq Held(e)
            /\ e.sending \in Held(task[x]) => Before(waiting[To(task[x])], x, t)
        BY <1>20, <2>2, <3>3, <3>6 DEF Behind
      <4>2. e.sending \notin Held(task[x])
        BY <1>3, <1>4, <4>1
      <4>3. \A r \in e.left : SocketOf[r] = To(e)
        BY <1>4 DEF Walks
      <4>4. w \in live
        BY <1>4, <3>4, <4>1 DEF EventsHold, Numbered, To
      <4>5. k = e
        BY <1>20, <4>4
      <4> QED
        BY <3>5, <4>1, <4>2, <4>3, <4>5
    <3>7. \A r \in k.left : OriginOf[r] = e.scope
      BY <1>4, <1>20, <3>4 DEF Walks
    <3>8. task[x].scope # "unscoped" => task[x].sockets \cap live \subseteq k.sockets
      BY <1>20, <3>3 DEF Behind
    <3>9. /\ Sends(a)
          /\ \/ To(task[x]) \in a.sockets
             \/ /\ To(a) = To(task[x]) /\ Held(task[x]) \subseteq Held(a)
                /\ a.sending \in Held(task[x]) => a.sending = task[x].sending
          /\ task[x].scope # "unscoped" => task[x].sockets \cap live \subseteq a.sockets
      BY <1>20, <2>0, <3>4, <3>6, <3>7, <3>8, <3>12, ComesAfter DEF EventsHold, a
    <3>10. In(waiting[To(task[x])], x)
      BY <2>0, <3>4 DEF EventsHold, QueuesHold
    <3>11. To(a) = To(task[x]) => Before(waiting'[To(task[x])], x, t)
      BY <1>12, <2>0, <2>2, <3>4, <3>9, <3>10
    <3> QED
      BY <1>6, <2>2, <3>1, <3>9, <3>11 DEF Behind
  <2>3. CASE x = t /\ y # t
    <3>1. task'[x] = a /\ task[x] = e /\ task'[y] = task[y]
      BY <1>13, <2>3 DEF e
    <3>2. Follows(a, task[y], x, y) /\ Sends(a) /\ Walks(a) /\ a.sending \in Subs
      BY <1>8, <3>1 DEF Follows, Walks
    <3>3. a.scope # "unscoped"
      <4> SUFFICES ASSUME a.scope = "unscoped" PROVE FALSE
        OBVIOUS
      <4>1. ForSub(k, a.sending)
        BY <1>7, <3>2 DEF Stays, Moves, Ends, Here, Theirs, Sends
      <4>2. pin[OriginOf[a.sending]] = Nobody
        BY <1>7, <1>20, <3>2, <4>1, WhoIsTold, OriginsScope
      <4>3. task[y].scope \in Origins /\ pin[task[y].scope] = Nobody
        BY <3>2, <4>2, OriginsScope DEF Follows
      <4> QED
        BY <4>3 DEF EventsHold, TasksWalk
    <3>4. a.scope = task[y].scope /\ t < y /\ e.scope \in Origins \ cut
      BY <1>7, <2>3, <3>2, <3>3, OriginsScope DEF Follows
    <3>10. e.sending \in subs
      BY <1>3, <1>4, <3>4 DEF EventsHold, Unbroken, Held, e
    <3>11. k = e
      BY <1>5, <1>20, <3>10
    <3>5. Follows(e, task[y], x, y)
      BY <1>4, <1>7, <2>3, <3>4, <3>10 DEF Follows, Walks
    <3>6. Behind(e, task[y], waiting, live, x, y)
      BY <3>1, <3>5 DEF EventsHold, NoOvertaking
    <3>7. e.sockets \cap live \subseteq task[y].sockets
      BY <1>7, <3>3, <3>6 DEF Behind
    <3>8. CASE Stays(e, a)
      <4>1. a.sending \in e.left /\ a.left \subseteq e.left /\ a.sockets = e.sockets
        BY <3>8, <3>11 DEF Stays, Here
      <4>2. To(a) = To(e)
        BY <1>4, <4>1 DEF Walks, To
      <4>3. Held(a) \subseteq Held(e) /\ e.sending \notin Held(a)
        <5>1. e.sending \notin e.left
          <6>1. came[e.sending] \in Nat
            BY <1>5 DEF RpcTypeOK
          <6> QED
            BY <1>4, <6>1 DEF Walks
        <5> QED
          BY <1>7, <3>3, <4>1, <5>1 DEF Held
      <4> QED
        BY <1>6, <3>1, <3>6, <3>7, <4>1, <4>2, <4>3 DEF Behind
    <3>9. CASE Moves(e, a)
      <4>1. To(a) \in e.sockets \cap live /\ a.sockets \subseteq e.sockets
        BY <3>9, <3>11 DEF Moves, StillOpen
      <4> QED
        BY <1>6, <3>1, <3>6, <3>7, <4>1 DEF Behind
    <3> QED
      BY <1>7, <3>2, <3>8, <3>9, <3>11 DEF Ends, Sends
  <2>4. CASE x = t /\ y = t
    <3>1. Sends(a) /\ a.scope = OriginOf[a.sending] /\ (a.scope = "unscoped" \/ t < t)
      BY <1>13, <2>4 DEF Follows
    <3>2. a.scope \in Origins /\ t \in Nat
      BY <1>3, <1>7, <3>1, OriginsScope, RpcAssumption DEF Events, Sends
    <3> QED
      BY <3>1, <3>2, OriginsScope
  <2> QED
    BY <2>1, <2>2, <2>3, <2>4
<1>19. LatestTells'
  <2> SUFFICES ASSUME NEW o \in Origins \ cut, pin[o] # Nobody
               PROVE  \E u \in Tasks :
                         /\ Latest(o, u)' /\ task'[u].value = pin[o]
                         /\ \A s \in subs : OriginOf[s] = o => told'[s] = pin[o] \/ Owes(task'[u], s)
    BY <1>6 DEF LatestTells
  <2>1. PICK u \in Tasks :
           /\ Latest(o, u) /\ task[u].value = pin[o]
           /\ \A s \in subs : OriginOf[s] = o => told[s] = pin[o] \/ Owes(task[u], s)
    BY DEF EventsHold, LatestTells
  <2>2. \A x \in Tasks : task'[x].scope = task[x].scope /\ task'[x].value = task[x].value
    BY <1>7, <1>13 DEF e
  <2>3. Latest(o, u)' /\ task'[u].value = pin[o]
    BY <2>1, <2>2 DEF Latest
  <2>4. ASSUME NEW s \in subs, OriginOf[s] = o PROVE told'[s] = pin[o] \/ Owes(task'[u], s)
    <3>1. /\ s \in Subs
          /\ s # e.sending => told'[s] = told[s]
          /\ s = e.sending => told'[s] = e.value
      BY <1>5, <1>6 DEF RpcTypeOK
    <3>2. CASE u = t /\ s = e.sending
      BY <2>1, <3>1, <3>2 DEF e
    <3>3. CASE u = t /\ s # e.sending
      <4>1. told[s] = pin[o] \/ Owes(e, s)
        BY <2>1, <2>4, <3>3 DEF e
      <4>2. e.scope = o
        BY <2>1, <3>3 DEF Latest, e
      <4>3. ASSUME Owes(e, s) PROVE Owes(a, s)
        <5>1. s \in k.left \/ SocketOf[s] \in k.sockets
          <6>1. CASE s \in e.left
            <7>1. SocketOf[s] = w
              BY <1>4, <6>1 DEF Walks
            <7>2. w \in live
              BY <7>1 DEF EventsHold, Numbered
            <7> QED
              BY <1>20, <6>1, <7>2
          <6> QED
            BY <1>20, <3>3, <4>3, <6>1 DEF Owes
        <5> QED
          BY <1>20, <2>4, <4>2, <5>1, StillOwes DEF EventsHold, a
      <4> QED
        BY <1>13, <3>1, <3>3, <4>1, <4>3
    <3>4. CASE u # t /\ s # e.sending
      BY <1>13, <2>1, <2>4, <3>1, <3>4
    <3>5. CASE u # t /\ s = e.sending
      <4>1. task[u].scope = o /\ (task[t].scope = o => t < u)
        BY <1>3, <2>1, <3>5, RpcAssumption DEF Latest
      <4>6. e.scope # "all"
        BY <1>3, <1>4 DEF EventsHold, Unbroken, e
      <4>2. Follows(e, task[u], t, u)
        BY <1>4, <2>4, <3>5, <4>1, <4>6 DEF Follows, Walks, e
      <4>3. Behind(e, task[u], waiting, live, t, u)
        BY <1>3, <4>2 DEF EventsHold, NoOvertaking, e
      <4>4. Held(task[u]) = {task[u].sending} \cup task[u].left /\ s \in Held(e)
        BY <3>5, <4>1, OriginsScope DEF Held
      <4>5. Owes(task[u], s)
        BY <3>5, <4>3, <4>4 DEF Behind, Owes, To
      <4> QED
        BY <1>13, <3>5, <4>5
    <3> QED
      BY <3>2, <3>3, <3>4, <3>5
  <2> QED
    BY <2>3, <2>4
<1> QED
  BY <1>14, <1>15, <1>16, <1>17, <1>18, <1>19, <1>21 DEF EventsHold

\* e is on its way to a subscription of the origin o, and nothing it holds ended.
Meets(e, o) ==
    /\ Sends(e) /\ e.sending \in subs /\ o = OriginOf[e.sending]
    /\ e.scope # "all" /\ Held(e) \subseteq subs

\* A new event is the last to come to each of the subscriptions it is for.
LEMMA NewEvent ==
    ASSUME RpcTypeOK, EventsHold, NEW value \in Chains \cup {New},
           NEW scope \in Origins \cup {"unscoped", "all"}, StartEvent(value, scope)
    PROVE  \E t \in Tasks, a \in Events :
             /\ task[t] = Unused /\ \A u \in Tasks : task[u] # Unused <=> u < t
             /\ a.value = value /\ a.scope = scope
             /\ IF Sends(a) THEN Walks(a) ELSE a.left = {} /\ a.sockets = {}
             /\ task' = [task EXCEPT ![t] = a]
             /\ waiting' \in [Sockets -> Seq(Tasks)]
             /\ \A v \in Sockets :
                  /\ Once(waiting'[v])
                  /\ In(waiting'[v], t) <=> Sends(a) /\ To(a) = v
                  /\ \A x : x # t => (In(waiting'[v], x) <=> In(waiting[v], x))
                  /\ \A x, y : Before(waiting[v], x, y) => Before(waiting'[v], x, y)
             /\ scope = "unscoped" /\ Sends(a) => pin[OriginOf[a.sending]] = Nobody
             /\ scope \in Origins => \A s \in subs : OriginOf[s] = scope => Owes(a, s)
             /\ \A x \in Tasks :
                  Meets(task[x], scope) => Behind(task[x], a, waiting', live, x, t)
             /\ Sends(a) /\ scope # "unscoped" => Held(a) \subseteq subs
<1>1. PICK t \in Tasks :
         /\ task[t] = Unused
         /\ \A u \in Tasks : u < t => task[u] # Unused
         /\ LET open == {w \in live : opened[w] # 0}
                e == Advanced([Unused EXCEPT !.value = value, !.scope = scope, !.sockets = open])
            IN  /\ task' = [task EXCEPT ![t] = e]
                /\ waiting' = Queued(waiting, e, t)
  BY DEF StartEvent
<1> DEFINE open == {w \in live : opened[w] # 0}
           e == [Unused EXCEPT !.value = value, !.scope = scope, !.sockets = open]
           a == Advanced(e)
<1>2. /\ e \in Events /\ e.value = value /\ e.scope = scope /\ e.sockets = open /\ e.left = {}
      /\ value # Nobody
  BY RpcAssumption DEF Unused, Events, RpcTypeOK
<1>3. task' = [task EXCEPT ![t] = a] /\ waiting' = Queued(waiting, a, t)
  BY <1>1
<1> HIDE DEF e
<1>4. /\ a \in Events /\ a.value = value /\ a.scope = scope
      /\ Stays(e, a) \/ Moves(e, a) \/ Ends(e, a)
  BY <1>2, NextSend
<1>5. IF Sends(a) THEN Walks(a) ELSE a.left = {} /\ a.sockets = {}
  <2>1. CASE Sockets = {}
    <3>1. StillOpen(e) = {} /\ Here(e) = {}
      BY <1>2, <2>1 DEF StillOpen, Here, Events
    <3> QED
      BY <1>4, <3>1 DEF Stays, Moves, Ends, Sends
  <2>2. CASE Sockets # {}
    <3>1. PICK w \in Sockets : TRUE
      BY <2>2
    <3> QED
      BY <1>2, <3>1, GoesOn DEF EventsHold
  <2> QED
    BY <2>1, <2>2
<1>6. \A u \in Tasks : task[u] # Unused <=> u < t
  <2> SUFFICES ASSUME NEW u \in Tasks, task[u] # Unused PROVE u < t
    BY <1>1
  <2>1. ~(t < u)
    BY <1>1 DEF EventsHold, TasksWalk
  <2>2. u # t /\ u \in Nat /\ t \in Nat
    BY <1>1, RpcAssumption
  <2> QED
    BY <2>1, <2>2
<1>7. /\ waiting \in [Sockets -> Seq(Tasks)] /\ task \in [Tasks -> Events]
      /\ \A v \in Sockets : Once(waiting[v]) /\ ~In(waiting[v], t)
  <2>1. ~Sends(task[t])
    BY <1>1 DEF Unused, Sends
  <2> QED
    BY <2>1 DEF EventsHold, QueuesHold, Once, RpcTypeOK, Events
<1>8. Sends(a) => To(a) \in Sockets
  BY <1>4, OriginsScope DEF Events, Sends, To
<1>9. /\ waiting' \in [Sockets -> Seq(Tasks)]
      /\ \A v \in Sockets :
           /\ Once(waiting'[v])
           /\ In(waiting'[v], t) <=> Sends(a) /\ To(a) = v
           /\ \A x : x # t => (In(waiting'[v], x) <=> In(waiting[v], x))
           /\ \A x, y : Before(waiting[v], x, y) => Before(waiting'[v], x, y)
           /\ \A x : In(waiting[v], x) /\ Sends(a) /\ To(a) = v => Before(waiting'[v], x, t)
  <2> HIDE DEF a
  <2>1. /\ Queued(waiting, a, t) \in [Sockets -> Seq(Tasks)]
        /\ \A v \in Sockets :
             /\ Once(Queued(waiting, a, t)[v])
             /\ In(Queued(waiting, a, t)[v], t) <=> Sends(a) /\ To(a) = v
             /\ \A x : x # t => (In(Queued(waiting, a, t)[v], x) <=> In(waiting[v], x))
             /\ \A x, y : Before(waiting[v], x, y) => Before(Queued(waiting, a, t)[v], x, y)
             /\ \A x : In(waiting[v], x) /\ Sends(a) /\ To(a) = v => Before(Queued(waiting, a, t)[v], x, t)
    BY <1>7, <1>8, QueuedFacts
  <2> QED
    BY <1>3, <2>1
<1>10. ASSUME scope = "unscoped", Sends(a) PROVE pin[OriginOf[a.sending]] = Nobody
  <2>1. ForSub(e, a.sending) /\ a.sending \in Subs
    <3>1. a.sending \in Subs
      BY <1>4, <1>10 DEF Events, Sends
    <3> QED
      BY <1>4, <1>10, <3>1 DEF Stays, Moves, Ends, Here, Theirs, Sends
  <2> QED
    BY <1>2, <1>10, <2>1, WhoIsTold, OriginsScope
<1>11. ASSUME scope \in Origins, NEW s \in subs, OriginOf[s] = scope PROVE Owes(a, s)
  <2>1. SocketOf[s] \in e.sockets
    BY <1>2 DEF EventsHold, Numbered
  <2> QED
    BY <1>2, <1>11, <2>1, StillOwes DEF EventsHold
<1>12. ASSUME NEW x \in Tasks, Meets(task[x], scope)
       PROVE  Behind(task[x], a, waiting', live, x, t)
  <2>1. /\ task[x] \in Events /\ Walks(task[x]) /\ To(task[x]) \in Sockets
        /\ task[x].sending \in subs /\ Sends(task[x])
    BY <1>7, <1>12, OriginsScope DEF EventsHold, TasksWalk, Walks, RpcTypeOK, To, Meets
  <2>2. To(task[x]) \in e.sockets
    BY <1>2, <2>1 DEF EventsHold, Numbered, To
  <2>3. task[x].sockets \cap live \subseteq e.sockets
    <3> SUFFICES ASSUME NEW v \in task[x].sockets \cap live PROVE opened[v] # 0
      BY <1>2
    <3>1. opened[To(task[x])] < opened[v] /\ v \in Sockets /\ opened \in [Sockets -> Nat]
      BY <2>1 DEF Walks, RpcTypeOK
    <3> QED
      BY <2>1, <3>1
  <2>4. /\ Sends(a)
        /\ \/ To(task[x]) \in a.sockets
           \/ /\ To(a) = To(task[x]) /\ Held(task[x]) \subseteq Held(a)
              /\ a.sending \in Held(task[x]) => a.sending = task[x].sending
        /\ task[x].scope # "unscoped" => task[x].sockets \cap live \subseteq a.sockets
    BY <1>2, <1>12, <2>1, <2>2, <2>3, ComesAfter DEF EventsHold, Meets
  <2>5. In(waiting[To(task[x])], x)
    BY <2>1 DEF EventsHold, QueuesHold
  <2>6. To(a) = To(task[x]) => Before(waiting'[To(task[x])], x, t)
    BY <1>9, <2>1, <2>4, <2>5
  <2> QED
    BY <2>4, <2>6 DEF Behind
<1>13. ASSUME Sends(a), scope # "unscoped" PROVE Held(a) \subseteq subs
  <2>1. a.sending \in subs /\ a.left \subseteq subs
    BY <1>2, <1>4, <1>13 DEF Stays, Moves, Ends, Here, Theirs, Sends
  <2> QED
    BY <1>4, <1>13, <2>1 DEF Held
<1> HIDE DEF a
<1> QED
  BY <1>1, <1>3, <1>4, <1>5, <1>6, <1>9, <1>10, <1>11, <1>12, <1>13

\* The event of a dapp's own switch, of the wallet's chain, or for everyone.
LEMMA StartKeeps ==
    ASSUME RpcTypeOK, EventsHold, NEW value \in Chains \cup {New},
           NEW scope \in Origins \cup {"unscoped", "all"}, StartEvent(value, scope),
           \A o \in Origins :
             pin'[o] = IF o = scope \/ (scope = "all" /\ o = NoOrigin) THEN value ELSE pin[o],
           cut' = CASE scope = "all" -> Origins [] scope = "unscoped" -> cut
                    [] OTHER -> Mended(scope),
           scope # NoOrigin, UNCHANGED <<subVars, told>>
    PROVE  /\ task' \in [Tasks -> Events] /\ waiting' \in [Sockets -> Seq(Tasks)]
           /\ cut' \subseteq Origins /\ EventsHold'
<1>1. PICK t \in Tasks, a \in Events :
             /\ task[t] = Unused /\ \A u \in Tasks : task[u] # Unused <=> u < t
             /\ a.value = value /\ a.scope = scope
             /\ IF Sends(a) THEN Walks(a) ELSE a.left = {} /\ a.sockets = {}
             /\ task' = [task EXCEPT ![t] = a]
             /\ waiting' \in [Sockets -> Seq(Tasks)]
             /\ \A v \in Sockets :
                  /\ Once(waiting'[v])
                  /\ In(waiting'[v], t) <=> Sends(a) /\ To(a) = v
                  /\ \A x : x # t => (In(waiting'[v], x) <=> In(waiting[v], x))
                  /\ \A x, y : Before(waiting[v], x, y) => Before(waiting'[v], x, y)
             /\ scope = "unscoped" /\ Sends(a) => pin[OriginOf[a.sending]] = Nobody
             /\ scope \in Origins => \A s \in subs : OriginOf[s] = scope => Owes(a, s)
             /\ \A x \in Tasks :
                  Meets(task[x], scope) => Behind(task[x], a, waiting', live, x, t)
             /\ Sends(a) /\ scope # "unscoped" => Held(a) \subseteq subs
  BY ZenonT(60), NewEvent
<1>2. /\ task \in [Tasks -> Events] /\ pin \in [Origins -> Chains \cup {New, Nobody}]
      /\ value # Nobody /\ UNCHANGED <<live, subs, came, opened, arrivals, told>>
  BY RpcAssumption DEF RpcTypeOK, Events, subVars
<1>3. /\ task' \in [Tasks -> Events] /\ "all" \notin Origins /\ "unscoped" \notin Origins
      /\ \A o \in Origins : pin[o] # Nobody => pin'[o] # Nobody
      /\ scope # "all" => \A o \in Origins : pin'[o] = IF o = scope THEN value ELSE pin[o]
  BY <1>1, <1>2, OriginsScope
<1>11. /\ cut' \subseteq Origins
       /\ scope = "all" => cut' = Origins
       /\ \A o \in cut \ cut' :
            o = scope /\ \A x \in Tasks : Sends(task[x]) => task[x].scope \notin {o, "all"}
       /\ scope # "all" => cut' \subseteq cut
  <2>1. CASE scope \in {"all", "unscoped"}
    BY <2>1 DEF RpcTypeOK
  <2>2. CASE scope \notin {"all", "unscoped"}
    <3>1. cut' = Mended(scope)
      BY <2>2
    <3> QED
      BY <2>2, <3>1 DEF RpcTypeOK, Mended, Sends
  <2> QED
    BY <2>1, <2>2
<1>4. \A x \in Tasks : task'[x] = IF x = t THEN a ELSE task[x]
  BY <1>1, <1>2
<1>5. task[t].scope = Nobody /\ ~Sends(task[t]) /\ a # Unused
  BY <1>1, <1>2 DEF Unused, Sends
<1>6. Numbered'
  BY <1>2 DEF EventsHold, Numbered
<1>7. TasksWalk'
  <2>1. ASSUME NEW x \in Tasks
        PROVE  (IF Sends(task[x]) THEN Walks(task[x])
                ELSE task[x].left = {} /\ task[x].sockets = {})'
    <3>1. IF Sends(task'[x]) THEN Walks(task'[x]) ELSE task'[x].left = {} /\ task'[x].sockets = {}
      BY <1>1, <1>4 DEF EventsHold, TasksWalk
    <3> QED
      BY <1>2, <3>1 DEF Walks, Sends, To
  <2>2. \A x \in Tasks : (IF Sends(task[x]) THEN Walks(task[x])
                          ELSE task[x].left = {} /\ task[x].sockets = {})'
    BY <2>1
  <2>3. \A x \in Tasks : task'[x].scope \in Origins => pin'[task'[x].scope] # Nobody
    BY <1>1, <1>2, <1>3, <1>4 DEF EventsHold, TasksWalk
  <2>4. \A x, y \in Tasks : y < x /\ task'[x] # Unused => task'[y] # Unused
    <3> SUFFICES ASSUME NEW x \in Tasks, NEW y \in Tasks, y < x, task'[x] # Unused
                 PROVE  task'[y] # Unused
      OBVIOUS
    <3>1. CASE y = t
      BY <1>4, <1>5, <3>1
    <3>2. CASE y # t /\ x # t
      BY <1>4, <3>2 DEF EventsHold, TasksWalk
    <3>3. CASE y # t /\ x = t
      BY <1>1, <1>4, <3>3
    <3> QED
      BY <3>1, <3>2, <3>3
  <2>5. \A x \in Tasks : task'[x] = Unused <=> task'[x].value = Nobody
    BY <1>1, <1>2, <1>4, <1>5 DEF EventsHold, TasksWalk
  <2> QED
    BY <2>2, <2>3, <2>4, <2>5 DEF TasksWalk
<1>8. QueuesHold'
  <2>1. \A v \in Sockets : \A i, j \in DOMAIN waiting'[v] : waiting'[v][i] = waiting'[v][j] => i = j
    BY <1>1 DEF Once
  <2>2. ASSUME NEW v \in Sockets, NEW x \in Tasks
        PROVE  In(waiting'[v], x) <=> Sends(task'[x]) /\ To(task'[x]) = v
    BY <1>1, <1>4 DEF EventsHold, QueuesHold
  <2> QED
    BY <2>1, <2>2 DEF QueuesHold
<1>12. Unbroken'
  <2>1. ASSUME NEW x \in Tasks, Sends(task'[x]), task'[x].scope \in Origins \ cut'
        PROVE  Held(task'[x]) \subseteq subs
    <3>1. CASE x # t
      <4>1. task'[x] = task[x] /\ task[x].scope \notin cut
        BY <1>4, <1>11, <2>1, <3>1
      <4> QED
        BY <2>1, <4>1 DEF EventsHold, Unbroken
    <3>2. CASE x = t
      BY <1>1, <1>3, <1>4, <2>1, <3>2
    <3> QED
      BY <3>1, <3>2
  <2>2. ASSUME NEW x \in Tasks, Sends(task'[x]), task'[x].scope = "all" PROVE Origins \subseteq cut'
    <3>1. CASE x # t
      <4>1. task'[x] = task[x] /\ Origins \subseteq cut
        BY <1>4, <2>2, <3>1 DEF EventsHold, Unbroken
      <4> QED
        BY <1>11, <2>2, <4>1
    <3>2. CASE x = t
      BY <1>1, <1>4, <1>11, <2>2, <3>2
    <3> QED
      BY <3>1, <3>2
  <2> QED
    BY <1>2, <2>1, <2>2 DEF Unbroken
<1>9. NoOvertaking'
  <2> SUFFICES ASSUME NEW x \in Tasks, NEW y \in Tasks, Follows(task[x], task[y], x, y)'
               PROVE  Behind(task'[x], task'[y], waiting', live', x, y)
    BY DEF NoOvertaking
  <2>0. \A z \in Tasks : Sends(task[z]) => To(task[z]) \in Sockets
    BY <1>2, OriginsScope DEF Events, Sends, To
  <2>5. /\ Sends(task'[x]) /\ task'[x].sending \in subs
        /\ task'[y].scope = OriginOf[task'[x].sending] /\ task'[y].scope \in Origins
        /\ \/ task'[x].scope = "unscoped"
           \/ task'[x].scope = task'[y].scope /\ task'[y].scope \notin cut' /\ x < y
    BY <1>2, OriginsScope DEF Follows, Sends, RpcTypeOK
  <2>1. CASE x # t /\ y # t
    <3>1. task'[x] = task[x] /\ task'[y] = task[y]
      BY <1>4, <2>1
    <3>4. task[x].scope = "unscoped" \/ task[y].scope \notin cut
      BY <1>11, <2>5, <3>1
    <3>5. Follows(task[x], task[y], x, y)
      BY <2>5, <3>1, <3>4 DEF Follows
    <3>2. Behind(task[x], task[y], waiting, live, x, y) /\ Sends(task[x])
      BY <2>5, <3>1, <3>5 DEF EventsHold, NoOvertaking
    <3>3. Before(waiting[To(task[x])], x, y) => Before(waiting'[To(task[x])], x, y)
      BY <1>1, <2>0, <3>2
    <3> QED
      BY <1>2, <3>1, <3>2, <3>3 DEF Behind
  <2>2. CASE x # t /\ y = t
    <3>1. /\ Sends(task[x]) /\ scope = OriginOf[task[x].sending] /\ task[x].sending \in subs
          /\ task'[x] = task[x] /\ task'[y] = a
          /\ task[x].scope = "unscoped" \/ (task[x].scope = scope /\ scope \notin cut')
      BY <1>1, <1>4, <2>2, <2>5
    <3>2. Held(task[x]) \subseteq subs /\ task[x].scope # "all"
      <4>1. CASE task[x].scope = "unscoped"
        BY <3>1, <4>1 DEF Held
      <4>2. CASE task[x].scope # "unscoped"
        <5>1. task[x].scope \in Origins \ cut
          BY <1>1, <1>4, <1>11, <2>2, <2>5, <3>1, <4>2
        <5> QED
          BY <1>3, <3>1, <5>1 DEF EventsHold, Unbroken
      <4> QED
        BY <4>1, <4>2
    <3>3. Meets(task[x], scope)
      BY <3>1, <3>2 DEF Meets
    <3> QED
      BY <1>1, <1>2, <2>2, <3>1, <3>3
  <2>3. CASE x = t /\ y # t
    <3>1. /\ Sends(a) /\ task[y].scope = OriginOf[a.sending] /\ a.sending \in Subs
          /\ scope = "unscoped" \/ t < y
      BY <1>1, <1>2, <1>4, <2>3, <2>5 DEF RpcTypeOK
    <3>2. task[y].scope \in Origins /\ pin[task[y].scope] # Nobody
      BY <3>1, OriginsScope DEF EventsHold, TasksWalk
    <3>3. task[y] # Unused /\ y < t
      BY <1>1, <3>2, OriginsScope DEF Unused
    <3>4. y \in Nat /\ t \in Nat
      BY RpcAssumption
    <3> QED
      BY <1>1, <3>1, <3>2, <3>3, <3>4
  <2>4. CASE x = t /\ y = t
    <3>1. scope \in Origins /\ (scope = "unscoped" \/ t < t)
      BY <1>1, <1>4, <2>4, <2>5
    <3>2. t \in Nat
      BY RpcAssumption
    <3> QED
      BY <1>3, <3>1, <3>2
  <2> QED
    BY <2>1, <2>2, <2>3, <2>4
<1>10. LatestTells'
  <2> SUFFICES ASSUME NEW o \in Origins \ cut', pin'[o] # Nobody
               PROVE  \E u \in Tasks :
                         /\ Latest(o, u)' /\ task'[u].value = pin'[o]
                         /\ \A s \in subs : OriginOf[s] = o => told[s] = pin'[o] \/ Owes(task'[u], s)
    BY <1>2 DEF LatestTells
  <2>3. scope # "all"
    BY <1>11
  <2>1. CASE o = scope
    <3>1. Latest(o, t)'
      <4> SUFFICES ASSUME NEW v \in Tasks, task'[v].scope = o PROVE v <= t
        BY <1>1, <1>4, <2>1 DEF Latest
      <4>1. CASE v = t
        BY <4>1, RpcAssumption
      <4>2. CASE v # t
        <5>1. task[v] # Unused
          BY <1>4, <4>2, OriginsScope DEF Unused
        <5> QED
          BY <1>1, <5>1, RpcAssumption
      <4> QED
        BY <4>1, <4>2
    <3> QED
      BY <1>1, <1>3, <1>4, <2>1, <2>3, <3>1
  <2>2. CASE o # scope
    <3>1. PICK u \in Tasks :
             /\ Latest(o, u) /\ task[u].value = pin[o]
             /\ \A s \in subs : OriginOf[s] = o => told[s] = pin[o] \/ Owes(task[u], s)
      BY <1>3, <1>11, <2>2, <2>3 DEF EventsHold, LatestTells
    <3>2. u # t /\ task'[u] = task[u] /\ pin'[o] = pin[o]
      BY <1>3, <1>4, <1>5, <2>2, <2>3, <3>1, OriginsScope DEF Latest
    <3>3. Latest(o, u)'
      BY <1>1, <1>4, <2>2, <3>1, <3>2 DEF Latest
    <3> QED
      BY <3>1, <3>2, <3>3
  <2> QED
    BY <2>1, <2>2
<1> QED
  BY <1>1, <1>3, <1>6, <1>7, <1>8, <1>9, <1>10, <1>11, <1>12 DEF EventsHold

\* eth_subscribe
LEMMA SubscribeKeeps ==
    ASSUME RpcTypeOK, EventsHold, NEW s \in Subs, Subscribe(s)
    PROVE  RpcTypeOK' /\ EventsHold'
<1> DEFINE w == SocketOf[s]
           n == arrivals + 1
<1>1. /\ w \in live /\ came[s] = 0 /\ subs' = subs \cup {s} /\ arrivals' = n
      /\ came' = [came EXCEPT ![s] = n]
      /\ opened' = IF opened[w] # 0 THEN opened ELSE [opened EXCEPT ![w] = n]
      /\ told' = [told EXCEPT ![s] = ChainFor(OriginOf[s])]
      /\ UNCHANGED <<current, endpoint, pin, live, due, task, waiting, cut, adding, prompt, shared>>
  BY DEF Subscribe, storeVars, addVars
<1>2. /\ came \in [Subs -> Nat] /\ opened \in [Sockets -> Nat] /\ arrivals \in Nat
      /\ subs \subseteq Subs /\ told \in [Subs -> Chains \cup {New, Nobody}]
      /\ w \in Sockets /\ OriginOf[s] \in Origins /\ n \in Nat /\ n > arrivals /\ n # 0
  BY OriginsScope DEF RpcTypeOK
<1> HIDE DEF n
<1>3. /\ \A r \in Subs : came'[r] = IF r = s THEN n ELSE came[r]
      /\ \A v \in Sockets : opened'[v] = IF v = w /\ opened[w] = 0 THEN n ELSE opened[v]
      /\ \A r \in Subs : told'[r] = IF r = s THEN ChainFor(OriginOf[s]) ELSE told[r]
      /\ came' \in [Subs -> Nat] /\ opened' \in [Sockets -> Nat]
  BY <1>1, <1>2
<1>4. ChainFor(OriginOf[s]) \in Chains \cup {New, Nobody}
  BY <1>2 DEF ChainFor, RpcTypeOK
<1>5. RpcTypeOK'
  <2>1. told' \in [Subs -> Chains \cup {New, Nobody}]
    BY <1>1, <1>2, <1>4
  <2> QED
    BY <1>1, <1>2, <1>3, <2>1 DEF RpcTypeOK
<1>6. s \notin subs
  BY <1>1 DEF EventsHold, Numbered
<1>7. Numbered'
  <2>1. \A r \in Subs : came'[r] <= arrivals'
    BY <1>1, <1>2, <1>3 DEF EventsHold, Numbered
  <2>2. \A v \in Sockets : opened'[v] <= arrivals'
    BY <1>1, <1>2, <1>3 DEF EventsHold, Numbered
  <2>3. \A r, q \in Subs : came'[r] = came'[q] /\ came'[r] # 0 => r = q
    <3>1. \A r \in Subs : came[r] # n
      BY <1>2 DEF EventsHold, Numbered
    <3> QED
      BY <1>3, <3>1 DEF EventsHold, Numbered
  <2>4. \A v, u \in Sockets : opened'[v] = opened'[u] /\ opened'[v] # 0 => v = u
    <3>1. \A v \in Sockets : opened[v] # n
      BY <1>2 DEF EventsHold, Numbered
    <3> QED
      BY <1>3, <3>1 DEF EventsHold, Numbered
  <2>5. \A r \in subs' : came'[r] # 0 /\ SocketOf[r] \in live' /\ opened'[SocketOf[r]] # 0
    <3>1. \A r \in subs : SocketOf[r] \in Sockets
      BY <1>2, OriginsScope
    <3> QED
      BY <1>1, <1>2, <1>3, <3>1 DEF EventsHold, Numbered
  <2> QED
    BY <2>1, <2>2, <2>3, <2>4, <2>5 DEF Numbered
<1>8. TasksWalk'
  <2>1. ASSUME NEW x \in Tasks
        PROVE  (IF Sends(task[x]) THEN Walks(task[x])
                ELSE task[x].left = {} /\ task[x].sockets = {})'
    <3>1. CASE ~Sends(task[x])
      BY <1>1, <3>1 DEF EventsHold, TasksWalk, Sends
    <3>2. CASE Sends(task[x])
      <4>1. Walks(task[x]) /\ task[x] \in Events
        BY <3>2 DEF EventsHold, TasksWalk, RpcTypeOK, Events
      <4>2. /\ task[x].sending \in Subs /\ To(task[x]) \in Sockets /\ opened[To(task[x])] # 0
            /\ task[x].left \subseteq Subs /\ task[x].sockets \subseteq Sockets
        BY <1>2, <4>1, OriginsScope DEF Walks, To, Events
      <4>3. opened'[To(task[x])] = opened[To(task[x])]
        BY <1>3, <4>2
      <4>4. \A v \in task[x].sockets : opened'[v] = opened[v]
        <5> SUFFICES ASSUME NEW v \in task[x].sockets PROVE opened[v] # 0
          BY <1>3, <4>2
        <5>1. opened[To(task[x])] < opened[v] /\ v \in Sockets
          BY <4>1, <4>2 DEF Walks
        <5> QED
          BY <1>2, <4>2, <5>1
      <4>5. \A r \in {task[x].sending} \cup task[x].left : came'[r] = came[r]
        <5>1. task[x].sending # s
          BY <1>1, <4>1 DEF Walks
        <5>2. ASSUME NEW r \in task[x].left PROVE r # s
          <6>1. came[task[x].sending] < came[r] /\ came[task[x].sending] \in Nat
            BY <1>2, <4>1, <4>2 DEF Walks
          <6> QED
            BY <1>1, <6>1
        <5> QED
          BY <1>3, <4>2, <5>1, <5>2
      <4>6. Walks(task[x])'
        BY <1>1, <4>1, <4>2, <4>3, <4>4, <4>5 DEF Walks, To
      <4> QED
        BY <1>1, <3>2, <4>6 DEF Sends
    <3> QED
      BY <3>1, <3>2
  <2>2. \A x \in Tasks : (IF Sends(task[x]) THEN Walks(task[x])
                          ELSE task[x].left = {} /\ task[x].sockets = {})'
    BY <2>1
  <2> QED
    BY <1>1, <2>2 DEF EventsHold, TasksWalk
<1>9. QueuesHold' /\ Unbroken'
  BY <1>1 DEF EventsHold, QueuesHold, Unbroken
<1>11. NoOvertaking'
  <2> SUFFICES ASSUME NEW x \in Tasks, NEW y \in Tasks, Follows(task[x], task[y], x, y)'
               PROVE  Behind(task[x], task[y], waiting, live, x, y)
    BY <1>1 DEF NoOvertaking
  <2>1. Sends(task[x]) /\ task[x].sending \in subs'
    BY <1>1 DEF Follows
  <2>2. task[x].sending # s
    BY <1>1, <2>1 DEF EventsHold, TasksWalk, Walks
  <2>3. Follows(task[x], task[y], x, y)
    BY <1>1, <2>1, <2>2 DEF Follows
  <2> QED
    BY <2>3 DEF EventsHold, NoOvertaking
<1>10. LatestTells'
  <2> SUFFICES ASSUME NEW o \in Origins \ cut, pin[o] # Nobody
               PROVE  \E u \in Tasks :
                         /\ Latest(o, u) /\ task[u].value = pin[o]
                         /\ \A r \in subs' : OriginOf[r] = o => told'[r] = pin[o] \/ Owes(task[u], r)
    BY <1>1 DEF LatestTells, Latest
  <2>1. PICK u \in Tasks :
           /\ Latest(o, u) /\ task[u].value = pin[o]
           /\ \A r \in subs : OriginOf[r] = o => told[r] = pin[o] \/ Owes(task[u], r)
    BY DEF EventsHold, LatestTells
  <2>2. ASSUME NEW r \in subs', OriginOf[r] = o PROVE told'[r] = pin[o] \/ Owes(task[u], r)
    <3>1. CASE r = s
      BY <1>3, <2>2, <3>1 DEF ChainFor
    <3>2. CASE r # s
      BY <1>1, <1>2, <1>3, <2>1, <2>2, <3>2
    <3> QED
      BY <3>1, <3>2
  <2> QED
    BY <2>1, <2>2
<1> QED
  BY <1>5, <1>7, <1>8, <1>9, <1>10, <1>11 DEF EventsHold

\* Subscriptions end; the events of an origin that held one of them have a gap.
LEMMA LeaveKeeps ==
    ASSUME RpcTypeOK, EventsHold, NEW gone \in SUBSET Subs, NEW closed \in SUBSET Sockets,
           subs' = subs \ gone, live' = live \ closed, cut' = cut \cup CutShort(subs \cap gone),
           \A s \in subs : SocketOf[s] \in closed => s \in gone,
           UNCHANGED <<storeVars, pin, came, opened, arrivals, due, task, waiting, told, addVars>>
    PROVE  RpcTypeOK' /\ EventsHold'
<1>1. UNCHANGED <<current, endpoint, pin, came, opened, arrivals, due, task, waiting, told,
                  adding, prompt, shared>>
  BY DEF storeVars, addVars
<1>2. cut \subseteq cut' /\ cut' \subseteq Origins
  BY DEF CutShort, RpcTypeOK
<1>3. RpcTypeOK'
  BY <1>1, <1>2 DEF RpcTypeOK
<1>4. Numbered'
  BY <1>1 DEF EventsHold, Numbered
<1>5. TasksWalk' /\ QueuesHold'
  BY <1>1 DEF EventsHold, TasksWalk, QueuesHold, Walks
<1>6. Unbroken'
  <2>1. ASSUME NEW t \in Tasks, Sends(task[t]), task[t].scope \in Origins \ cut'
        PROVE  Held(task[t]) \subseteq subs'
    <3>1. Held(task[t]) \subseteq subs
      BY <1>2, <2>1 DEF EventsHold, Unbroken
    <3>2. ({task[t].sending} \cup task[t].left) \cap (subs \cap gone) = {}
      BY <2>1 DEF CutShort
    <3> QED
      BY <3>1, <3>2 DEF Held
  <2>2. \A t \in Tasks : Sends(task[t]) /\ task[t].scope = "all" => Origins \subseteq cut'
    BY <1>2 DEF EventsHold, Unbroken
  <2> QED
    BY <1>1, <2>1, <2>2 DEF Unbroken
<1>7. NoOvertaking'
  <2> SUFFICES ASSUME NEW x \in Tasks, NEW y \in Tasks, Follows(task[x], task[y], x, y)'
               PROVE  Behind(task[x], task[y], waiting, live', x, y)
    BY <1>1 DEF NoOvertaking
  <2>1. Follows(task[x], task[y], x, y)
    BY <1>1, <1>2 DEF Follows
  <2>2. Behind(task[x], task[y], waiting, live, x, y)
    BY <2>1 DEF EventsHold, NoOvertaking
  <2> QED
    BY <2>2 DEF Behind
<1>8. LatestTells'
  <2> SUFFICES ASSUME NEW o \in Origins \ cut, pin[o] # Nobody
               PROVE  \E u \in Tasks :
                         /\ Latest(o, u) /\ task[u].value = pin[o]
                         /\ \A r \in subs' : OriginOf[r] = o => told[r] = pin[o] \/ Owes(task[u], r)
    BY <1>1, <1>2 DEF LatestTells, Latest
  <2>1. PICK u \in Tasks :
           /\ Latest(o, u) /\ task[u].value = pin[o]
           /\ \A r \in subs : OriginOf[r] = o => told[r] = pin[o] \/ Owes(task[u], r)
    BY DEF EventsHold, LatestTells
  <2> QED
    BY <2>1
<1> QED
  BY <1>3, <1>4, <1>5, <1>6, <1>7, <1>8 DEF EventsHold

LEMMA RpcInitInv == ASSUME RpcInit PROVE RpcTypeOK /\ EventsHold
<1>1. /\ current = Home /\ endpoint = Nobody /\ pin = [o \in Origins |-> Nobody]
      /\ live = Sockets /\ subs = {} /\ arrivals = Cardinality({})
      /\ came = [s \in Subs |-> 0] /\ opened = [w \in Sockets |-> 0] /\ due = <<>>
      /\ task = [t \in Tasks |-> Unused] /\ waiting = [w \in Sockets |-> <<>>]
      /\ told = [s \in Subs |-> Nobody] /\ adding = [a \in Adders |-> "no"]
      /\ prompt = {} /\ shared = Nobody /\ cut = {}
  BY DEF RpcInit, Start
<1>2. arrivals = 0
  BY <1>1, FS_EmptySet
<1>3. Unused \in Events /\ ~Sends(Unused) /\ Unused.scope = Nobody
  BY DEF Unused, Events, Sends
<1>4. RpcTypeOK
  <2>1. task \in [Tasks -> Events] /\ waiting \in [Sockets -> Seq(Tasks)]
    BY <1>1, <1>3
  <2> QED
    BY <1>1, <1>2, <2>1, RpcAssumption DEF RpcTypeOK, Events
<1>5. Numbered
  BY <1>1, <1>2 DEF Numbered
<1>6. TasksWalk
  BY <1>1, <1>3, OriginsScope DEF TasksWalk, Unused
<1>7. QueuesHold
  BY <1>1, <1>3 DEF QueuesHold, In
<1>8. Unbroken /\ NoOvertaking /\ LatestTells
  BY <1>1, <1>3 DEF Unbroken, NoOvertaking, LatestTells, Follows
<1> QED
  BY <1>4, <1>5, <1>6, <1>7, <1>8 DEF EventsHold

LEMMA RpcNextInv ==
    ASSUME RpcTypeOK, EventsHold, [RpcNext]_rpcVars
    PROVE  RpcTypeOK' /\ EventsHold'
<1>0. Configured \subseteq Chains \cup {New}
  BY DEF Configured
<1>1. CASE UNCHANGED rpcVars
  <2>1. EventsHold'
    BY <1>1, EventsUntouched DEF rpcVars, eventVars
  <2> QED
    BY <1>1, <2>1 DEF RpcTypeOK, rpcVars, storeVars, subVars, eventVars, addVars
<1>2. ASSUME NEW c, FlipChain(c) PROVE RpcTypeOK' /\ EventsHold'
  <2>1. c \in Chains \cup {New} /\ current' = c /\ due' = Append(due, c)
        /\ UNCHANGED <<endpoint, pin, subVars, task, waiting, told, cut, addVars>>
    BY <1>0, <1>2 DEF FlipChain
  <2>2. due' \in Seq(Chains \cup {New})
    BY <2>1 DEF RpcTypeOK
  <2> QED
    BY <2>1, <2>2, EventsUntouched DEF RpcTypeOK, subVars, addVars
<1>3. CASE EventStarts
  <2>1. /\ Head(due) \in Chains \cup {New} /\ due' \in Seq(Chains \cup {New})
        /\ StartEvent(Head(due), "unscoped")
        /\ UNCHANGED <<storeVars, pin, subVars, told, cut, addVars>>
    BY <1>3 DEF EventStarts, RpcTypeOK
  <2>2. "unscoped" \notin Origins /\ "unscoped" # NoOrigin /\ "unscoped" # "all"
    BY OriginsScope, RpcAssumption
  <2>3. /\ task' \in [Tasks -> Events] /\ waiting' \in [Sockets -> Seq(Tasks)]
        /\ EventsHold'
    BY <2>1, <2>2, StartKeeps
  <2> QED
    BY <2>1, <2>3 DEF RpcTypeOK, Events, storeVars, subVars, addVars
<1>4. ASSUME NEW o, NEW c, SwitchChain(o, c) PROVE RpcTypeOK' /\ EventsHold'
  <2>1. /\ o \in Origins /\ c \in Chains \cup {New} /\ pin' = [pin EXCEPT ![o] = c]
        /\ StartEvent(c, SwitchScope(o)) /\ cut' = Mended(o)
        /\ UNCHANGED <<storeVars, subVars, due, told, addVars>>
    BY <1>0, <1>4 DEF SwitchChain, Pinned, Origins
  <2>2. /\ pin' \in [Origins -> Chains \cup {New, Nobody}]
        /\ \A p \in Origins : pin'[p] = IF p = o THEN c ELSE pin[p]
        /\ o \notin {"all", "unscoped"} /\ "all" \notin Origins
    BY <2>1, OriginsScope DEF RpcTypeOK
  <2>3. /\ task' \in [Tasks -> Events] /\ waiting' \in [Sockets -> Seq(Tasks)]
        /\ cut' \subseteq Origins /\ EventsHold'
    <3>1. CASE o = NoOrigin
      <4>1. /\ StartEvent(c, "all") /\ cut' = Origins /\ "all" # NoOrigin
            /\ \A p \in Origins : pin'[p] = IF p = "all" \/ p = NoOrigin THEN c ELSE pin[p]
        BY <2>1, <2>2, <3>1 DEF SwitchScope, Mended
      <4> QED
        BY <2>1, <4>1, StartKeeps
    <3>2. CASE o # NoOrigin
      <4>1. StartEvent(c, o)
        BY <2>1, <3>2 DEF SwitchScope
      <4> QED
        BY <2>1, <2>2, <3>2, <4>1, StartKeeps
    <3> QED
      BY <3>1, <3>2
  <2> QED
    BY <2>1, <2>2, <2>3 DEF RpcTypeOK, Events, storeVars, subVars, addVars
<1>5. ASSUME NEW s \in Subs, Unsubscribe(s) PROVE RpcTypeOK' /\ EventsHold'
  <2> DEFINE gone == {s}
             closed == {}
  <2>1. /\ subs' = subs \ gone /\ live' = live \ closed
        /\ UNCHANGED <<storeVars, pin, came, opened, arrivals, due, task, waiting, told, addVars>>
    BY <1>5 DEF Unsubscribe
  <2>3. subs \cap gone = {s} /\ cut' = cut \cup CutShort({s})
    BY <1>5 DEF Unsubscribe
  <2>4. cut' = cut \cup CutShort(subs \cap gone)
    BY <2>3
  <2>2. /\ gone \in SUBSET Subs /\ closed \in SUBSET Sockets
        /\ \A r \in subs : SocketOf[r] \in closed => r \in gone
    BY <2>1
  <2> HIDE DEF gone, closed
  <2> QED
    BY <2>1, <2>2, <2>4, LeaveKeeps
<1>6. ASSUME NEW w \in Sockets, Disconnect(w) PROVE RpcTypeOK' /\ EventsHold'
  <2> DEFINE gone == {s \in Subs : SocketOf[s] = w}
             closed == {w}
  <2>1. /\ subs' = subs \ gone /\ live' = live \ closed /\ cut' = cut \cup CutShort(subs \ subs')
        /\ UNCHANGED <<storeVars, pin, came, opened, arrivals, due, task, waiting, told, addVars>>
    BY <1>6 DEF Disconnect, RpcTypeOK
  <2>2. /\ \A s \in subs : SocketOf[s] \in closed => s \in gone
        /\ subs \ subs' = subs \cap gone
    BY <2>1 DEF RpcTypeOK
  <2>4. cut' = cut \cup CutShort(subs \cap gone)
    BY <2>1, <2>2
  <2>3. gone \in SUBSET Subs /\ closed \in SUBSET Sockets
    OBVIOUS
  <2> HIDE DEF gone, closed
  <2> QED
    BY <2>1, <2>2, <2>3, <2>4, LeaveKeeps
<1>7. ASSUME NEW a \in Adders,
             AddChain(a) \/ AskedReturns(a) \/ SharedReturns(a)
               \/ UserAnswers(a, "yes") \/ UserAnswers(a, "declined")
      PROVE  RpcTypeOK' /\ EventsHold'
  <2>1. UNCHANGED <<current, pin, subVars, eventVars>>
    BY <1>7 DEF AddChain, AskedReturns, SharedReturns, UserAnswers, storeVars
  <2>2. EventsHold'
    BY <2>1, EventsUntouched DEF eventVars
  <2>3. /\ endpoint' \in Adders \cup {Nobody} /\ prompt' \subseteq Adders
        /\ shared' \in Adders \cup {Nobody}
    BY <1>7 DEF AddChain, AskedReturns, SharedReturns, UserAnswers, Added, RpcTypeOK, storeVars
  <2>4. adding' \in [Adders -> {"no", "asking", "waiting", "yes", "declined", "shares", "done"}]
    BY <1>7 DEF AddChain, AskedReturns, SharedReturns, UserAnswers, RpcTypeOK
  <2> QED
    BY <2>1, <2>2, <2>3, <2>4 DEF RpcTypeOK, subVars, eventVars
<1> QED
  BY <1>1, <1>2, <1>3, <1>4, <1>5, <1>6, <1>7, SendKeeps, SubscribeKeeps DEF RpcNext

\* The inductive invariant of the events: no event overtakes an older one on
\* its way to a dapp that chose its chain, unless one of the dapp's own lost a
\* subscription it held. (_broadcast_event, the send locks)
THEOREM RpcInvariance == RpcSpec => [](RpcTypeOK /\ EventsHold)
BY RpcInitInv, RpcNextInv, PTL DEF RpcSpec

\* A dapp that chose its chain, and has no gap in its events, has last been told
\* that chain once the events are delivered, for any number of dapps, sockets
\* and switches, and whatever closes. (_broadcast_event,
\* wallet_switchEthereumChain)
THEOREM PinnedHears == RpcSpec => []PinnedHearsItsOwn
<1>1. RpcTypeOK /\ EventsHold => PinnedHearsItsOwn
  <2> SUFFICES ASSUME RpcTypeOK, EventsHold, Quiet, NEW s \in subs, pin[OriginOf[s]] # Nobody,
                      OriginOf[s] \notin cut
               PROVE  told[s] = pin[OriginOf[s]]
    BY DEF PinnedHearsItsOwn
  <2>1. OriginOf[s] \in Origins
    BY OriginsScope DEF RpcTypeOK
  <2>2. PICK u \in Tasks : told[s] = pin[OriginOf[s]] \/ Owes(task[u], s)
    BY <2>1 DEF EventsHold, LatestTells
  <2>3. ~Sends(task[u])
    <3> SUFFICES ASSUME Sends(task[u]) PROVE FALSE
      OBVIOUS
    <3>1. To(task[u]) \in Sockets
      BY OriginsScope DEF RpcTypeOK, Sends, To
    <3>2. In(waiting[To(task[u])], u)
      BY <3>1 DEF EventsHold, QueuesHold
    <3> QED
      BY <3>1, <3>2 DEF Quiet, In
  <2> QED
    BY <2>2, <2>3 DEF Owes
<1> QED
  BY <1>1, RpcInvariance, PTL

==============================================================================
