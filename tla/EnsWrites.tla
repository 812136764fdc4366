----------------------------- MODULE EnsWrites -----------------------------
(***************************************************************************)
(* The writes of the ENS tab (plugins/ens/__init__.py, ens_write.py): which *)
(* actions a name offers to the account, the composer each one opens, the   *)
(* transaction it builds, and what is shown once that transaction is mined, *)
(* before any read confirms it.                                             *)
(*                                                                          *)
(* One .eth name and a subname of it, one selected account, Me.  The chain  *)
(* is a sequence of blocks of one transaction each.  What the contracts     *)
(* authorise and do is external: it is what ens_write.py and OwnershipCheck *)
(* say of them.  Discovery, drops and the disk are those of EnsNames.       *)
(***************************************************************************)
EXTENDS Naturals, Sequences

CONSTANTS
    Me, You,        \* the account, and somebody else
    Beginnings,     \* the first blocks: [role, rec, exp]
    CustomKey,      \* the label of the text record
    MaxBlocks,      \* bound: blocks
    MaxOpens,       \* bound: composers opened
    MaxReads        \* bound: reads

Name == "name.eth"
Sub == "sub.name.eth"
BothNames == {Name, Sub}
NoOne == "no one"
Empty == "empty"
Bad == "bad"                        \* an input that does not parse
Now == 1                            \* before every expiry
NoExpiry == 0                       \* not known
Unread == [who |-> NoOne, at |-> 0]
NotSet == [val |-> Empty, at |-> 0]
Keys == {"address", "content", "text", "coin"}

\* What an input, a role or a record may be.
Values == {Me, You, NoOne, Empty, Bad, "v", "w"}

ASSUME WritesAssumption ==
    Beginnings \subseteq
        [role : [BothNames -> [controller : Values, registrant : Values, wrapped : BOOLEAN,
                               current : BOOLEAN, resolver : BOOLEAN]],
         rec : [BothNames -> [Keys -> Values]], exp : Nat]

VARIABLES
    blocks,
    sets,           \* _controller, _registrant, _wrapped, _in_new_registry
    resolvers,      \* the names in _resolver_cache
    ownership,      \* _ownership[n]: controller and registrant, [who, at]
    asOf,           \* _ownership_block
    expiry,         \* the Expires column: [val, at]
    recCache,       \* _rec_cache[n]: [block, verified, rec], rec[k]: [val, at]
    lines,          \* the rows of the tree
    composers,      \* open dialogs
    sent, receipts, \* transactions to be mined, and those to be told of
    opens, reads    \* counters of the bounds

writesVars == <<blocks, sets, resolvers, ownership, asOf, expiry, recCache, lines,
                composers, sent, receipts, opens, reads>>
paneVars == <<sets, resolvers, ownership, asOf, expiry, recCache, lines>>

Top == blocks[Len(blocks)]

\* What a read of the roles of a block tells of Me.
SetsOf(b) ==
    [controller |-> {n \in BothNames : b.role[n].controller = Me},
     registrant |-> {n \in BothNames : b.role[n].registrant = Me},
     wrapped |-> {n \in BothNames : b.role[n].wrapped},
     current |-> {n \in BothNames : b.role[n].current}]

-----------------------------------------------------------------------------
(* What is offered. *)

\* Slip: the manager hands on a wrapped name too.
OwnerSettableAny(g) == g.controller \cap g.current

\* _refresh_writable: those whose manager registry.setOwner can change.
OwnerSettable(g) == (g.controller \cap g.current) \ g.wrapped

\* The subname of a parent that is ours, both unwrapped.
SubnodeManageable(g) ==
    {n \in {Sub} : Name \in (g.controller \cap g.current) \ g.wrapped /\ n \notin g.wrapped}

WrappedSubnodeManageable(g) ==
    {n \in {Sub} \ OwnerSettable(g) : {n, Name} \subseteq g.wrapped /\ Name \in g.controller}

\* _set_manager: the builder the account's role allows.
ManagerOp(g, n) ==
    IF n \in OwnerSettable(g) THEN "setOwner"
    ELSE IF n = Name /\ n \in g.registrant \ g.wrapped THEN "reclaim"
    ELSE IF n \in SubnodeManageable(g) THEN "setSubnodeOwner"
    ELSE IF n \in WrappedSubnodeManageable(g) THEN "setWrappedSubnodeOwner"
    ELSE "none"

\* _remove_subdomain
RemoveOp(g) ==
    IF Sub \in SubnodeManageable(g) THEN "removeSubnode"
    ELSE IF Sub \in g.wrapped /\ Name \in g.controller \cap g.wrapped
         THEN "removeWrappedSubnode"
    ELSE IF Sub \in OwnerSettable(g) THEN "relinquish"
    ELSE "none"

\* _write_menu_groups, _set_name_mode, _edit_target, _remove_target, and the
\* resolver a record needs.
Offers(g, res, rows) ==
    LET has(n) == n \in g.controller \cap rows
        owns == Name \in g.controller \cup g.registrant
        o(ops, n) == {[op |-> x, name |-> n] : x \in ops \ {"none"}}
    IN  (UNION {o(IF ~has(n) THEN {} ELSE IF n \in res THEN {"record", "removeRecord"}
                                          ELSE {"setResolver"}, n) : n \in BothNames})
        \cup o(IF has(Name) THEN {"addSubnode"} ELSE {}, Sub)
        \cup o(IF owns THEN {"renew"} ELSE {}, Name)
        \cup o(IF Name \in g.registrant THEN {"transfer"} ELSE {}, Name)
        \cup (UNION {o({ManagerOp(g, n)}, n) : n \in rows})
        \cup (IF Sub \in rows THEN o({RemoveOp(g)}, Sub) ELSE {})

-----------------------------------------------------------------------------
(* The composer. *)

ManagerOps == {"setOwner", "reclaim", "setSubnodeOwner", "setWrappedSubnodeOwner"}
RemoveOps == {"removeSubnode", "removeWrappedSubnode", "relinquish"}
AccountOps == ManagerOps \cup {"transfer", "addSubnode"}

\* The wrapped flag an op is built with.
WrapOf(g, o) == IF o.op = "addSubnode" THEN Name \in g.wrapped ELSE o.name \in g.wrapped

\* What a renewal adds to the expiry it starts from.
Term(i) == IF i = "v" THEN 1 ELSE 2

\* What the fields may hold; an op without fields has one value.
Inputs(c) ==
    CASE c.op \in AccountOps -> {Me, You, Bad}
      [] c.op = "record" -> {"v", Empty, Bad}
      [] c.op = "renew" -> {"v", "w", Bad}
      [] OTHER -> {Empty}

\* The record a row of the tree is taken for, by its label.
RowTaken(k) == IF k = "text" /\ CustomKey \in {"address", "content"} THEN CustomKey ELSE k

\* build, validate: an other-chain row is labelled by a number, which is no coin.
Builds(c) == c.input # Bad /\ ~(c.op = "removeRecord" /\ c.key = "coin")

\* Slip: what was built first stays noted.
NotedFirst(c) == IF c.changed # Bad THEN c
                 ELSE IF Builds(c) THEN [c EXCEPT !.changed = c.input] ELSE c

\* Every build notes its values; those of a record even when they do not build.
Noted(c) == IF Builds(c) \/ c.op = "record" THEN [c EXCEPT !.changed = c.input] ELSE c

\* _write_addr ... _remove_subdomain, _open_composer, open_ens_composer
Open(o, k) ==
    /\ opens < MaxOpens /\ opens' = opens + 1
    /\ o \in Offers(sets, resolvers, lines)
    /\ o.op = "removeRecord" => recCache[o.name].rec[k].val # Empty
    /\ o.op \notin {"record", "removeRecord"} => k = "address"
    /\ LET c == [op |-> o.op, name |-> o.name, wrapped |-> WrapOf(sets, o),
                 row |-> k, key |-> IF o.op = "removeRecord" THEN RowTaken(k) ELSE k,
                 base |-> IF expiry.val = NoExpiry THEN Now ELSE expiry.val,
                 stage |-> "open", changed |-> Bad, input |-> Bad]
       IN  \E i \in Inputs(c) : composers' = composers \cup {Noted([c EXCEPT !.input = i])}
    /\ UNCHANGED <<blocks, paneVars, sent, receipts, reads>>

Become(c, d) == /\ composers' = (composers \ {c}) \cup {d}
                /\ UNCHANGED <<blocks, paneVars, sent, receipts, opens, reads>>

Edit(c) ==
    /\ c.stage = "open"
    /\ \E i \in Inputs(c) \ {c.input} : Become(c, Noted([c EXCEPT !.input = i]))

\* Confirm: the request is built, and the fields are locked until it fails.
Confirm0(c) ==
    /\ c.stage = "open" /\ Builds(c)
    /\ Become(c, [Noted(c) EXCEPT !.stage = "signing"])

SigningFails(c) == c.stage = "signing" /\ Become(c, [c EXCEPT !.stage = "open"])

Close(c) ==
    /\ c.stage = "open" /\ composers' = composers \ {c}
    /\ UNCHANGED <<blocks, paneVars, sent, receipts, opens, reads>>

\* The transaction carries the input; the callback, what was noted.
Broadcast0(c) ==
    /\ c.stage = "signing" /\ composers' = composers \ {c}
    /\ sent' = Append(sent, c)
    /\ UNCHANGED <<blocks, paneVars, receipts, opens, reads>>

-----------------------------------------------------------------------------
(* The chain. *)

\* Who the contracts let make a call.
Authorised(b, t) ==
    LET r == b.role[t.name]
        p == b.role[Name]
        registryOwner(x) == x.controller = Me /\ x.current /\ ~x.wrapped
        tokenOwner(x) == x.controller = Me /\ x.wrapped
    IN  CASE t.op \in {"record", "removeRecord"} -> r.controller = Me
          [] t.op \in {"setOwner", "relinquish", "setResolver"} -> registryOwner(r)
          [] t.op \in {"setSubnodeOwner", "removeSubnode"} -> registryOwner(p)
          [] t.op \in {"setWrappedSubnodeOwner", "removeWrappedSubnode"} -> tokenOwner(p)
          [] t.op = "addSubnode" -> IF t.wrapped THEN tokenOwner(p) ELSE registryOwner(p)
          [] t.op = "reclaim" -> r.registrant = Me /\ ~r.wrapped
          [] t.op = "transfer" -> r.registrant = Me /\ r.wrapped = t.wrapped
          [] t.op = "renew" -> TRUE

Gone == [controller |-> NoOne, registrant |-> NoOne, wrapped |-> FALSE, current |-> FALSE,
         resolver |-> FALSE]

\* What a call does.
Effect(b, t) ==
    CASE t.op = "record" -> [b EXCEPT !.rec[t.name][t.key] = t.input]
      [] t.op = "removeRecord" -> [b EXCEPT !.rec[t.name][t.key] = Empty]
      [] t.op = "setResolver" -> [b EXCEPT !.role[t.name].resolver = TRUE]
      [] t.op = "renew" -> [b EXCEPT !.exp = @ + Term(t.input)]
      [] t.op = "transfer" ->
            [b EXCEPT !.role[t.name] =
                [@ EXCEPT !.registrant = t.input,
                          !.controller = IF t.wrapped THEN t.input ELSE b.role[t.name].controller]]
      [] t.op \in ManagerOps ->
            [b EXCEPT !.role[t.name] = [@ EXCEPT !.controller = t.input, !.current = TRUE]]
      [] t.op = "addSubnode" ->
            [b EXCEPT !.role[Sub] = [Gone EXCEPT !.controller = t.input, !.wrapped = t.wrapped,
                                                 !.current = TRUE, !.resolver = TRUE]]
      [] t.op \in RemoveOps -> [b EXCEPT !.role[Sub] = Gone]

\* In the order of the nonces.
Mine ==
    /\ sent # <<>> /\ Len(blocks) < MaxBlocks
    /\ LET t == Head(sent)
           ok == Authorised(Top, t)
       IN  /\ blocks' = Append(blocks, IF ok THEN Effect(Top, t) ELSE Top)
           /\ receipts' = receipts \cup {[t |-> t, ok |-> ok, block |-> Len(blocks) + 1]}
    /\ sent' = Tail(sent)
    /\ UNCHANGED <<paneVars, composers, opens, reads>>

\* A role is taken or given, or a record set, from elsewhere.
Elsewhere ==
    /\ Len(blocks) < MaxBlocks
    /\ \E n \in BothNames, a \in {Me, You} :
          \/ /\ Top.role[n].controller \notin {a, NoOne}
             /\ blocks' = Append(blocks,
                   [Top EXCEPT !.role[n] =
                      [@ EXCEPT !.controller = a,
                                !.registrant = IF n = Name /\ Top.role[n].wrapped
                                               THEN a ELSE Top.role[n].registrant]])
          \/ /\ Top.role[n].controller # NoOne
             /\ blocks' = Append(blocks, [Top EXCEPT !.rec[n]["content"] = "w"])
    /\ UNCHANGED <<paneVars, composers, sent, receipts, opens, reads>>

-----------------------------------------------------------------------------
(* What is shown once it is mined: _on_confirmed and the after_confirm hooks. *)

\* apply_role: no older than what the row is known as of.
RoleShown(n, fields, who, b) ==
    IF b < asOf[n] THEN UNCHANGED <<ownership, asOf>>
    ELSE /\ asOf' = [asOf EXCEPT ![n] = b]
         /\ ownership' = [ownership EXCEPT ![n] =
               [f \in DOMAIN @ |-> IF f \in fields THEN [who |-> who, at |-> b] ELSE @[f]]]

\* _push_records: the one record among the others that are known, at no lower
\* a block than they are.
Pushed0(n, k, v, b) ==
    LET old == recCache[n]
    IN  /\ recCache' = [recCache EXCEPT ![n] =
              [block |-> IF b > old.block THEN b ELSE old.block, verified |-> FALSE,
               rec |-> [old.rec EXCEPT ![k] = [val |-> v, at |-> b]]]]
        /\ IF k = "address" /\ b >= asOf[n] THEN asOf' = [asOf EXCEPT ![n] = b]
           ELSE UNCHANGED asOf

\* _apply_transfer, _apply_set_manager
ApplyRoles(t, b) ==
    /\ t.op \in ManagerOps \cup {"transfer"}
    /\ RoleShown(t.name,
                 IF t.op # "transfer" THEN {"controller"}
                 ELSE IF t.wrapped THEN {"controller", "registrant"} ELSE {"registrant"},
                 t.changed, b)
    /\ UNCHANGED <<sets, resolvers, expiry, recCache, lines>>

\* _apply_record_change, _apply_record_removal
ApplyRecord(t, b) ==
    /\ t.op \in {"record", "removeRecord"}
    /\ Pushed0(t.name, t.key, IF t.op = "record" THEN t.changed ELSE Empty, b)
    /\ UNCHANGED <<sets, resolvers, ownership, expiry, lines>>

\* _apply_renew, update_expiry
ApplyRenew(t, b) ==
    /\ t.op = "renew"
    /\ IF b < asOf[Name] THEN UNCHANGED <<asOf, expiry>>
       ELSE /\ asOf' = [asOf EXCEPT ![Name] = b]
            /\ expiry' = [val |-> t.base + Term(t.changed), at |-> b]
    /\ UNCHANGED <<sets, resolvers, ownership, recCache, lines>>

\* _mark_added
MarkSubAdded(t, b) ==
    /\ t.op = "addSubnode"
    /\ resolvers' = resolvers \cup {Sub} /\ lines' = lines \cup {Sub}
    /\ RoleShown(Sub, {"controller"}, t.changed, b)
    /\ sets' = IF t.changed # Me THEN sets
               ELSE [sets EXCEPT !.controller = @ \cup {Sub}, !.current = @ \cup {Sub},
                                 !.wrapped = IF Name \in @ THEN @ \cup {Sub} ELSE @]
    /\ UNCHANGED <<expiry, recCache>>

\* _mark_removed, drop_name
MarkSubRemoved(t, b) ==
    /\ t.op \in RemoveOps
    /\ asOf' = [asOf EXCEPT ![Sub] = IF b > @ THEN b ELSE @]
    /\ lines' = lines \ {Sub}
    /\ ownership' = [ownership EXCEPT ![Sub] = [f \in DOMAIN @ |-> Unread]]
    /\ UNCHANGED <<sets, resolvers, expiry, recCache>>

\* A reverted transaction shows nothing; nor does a new resolver.
NothingToShow(r) == (~r.ok \/ r.t.op = "setResolver") /\ UNCHANGED paneVars

Confirmed(r) ==
    /\ receipts' = receipts \ {r}
    /\ \/ NothingToShow(r)
       \/ r.ok /\ \/ ApplyRoles(r.t, r.block) \/ ApplyRecord(r.t, r.block)
                  \/ ApplyRenew(r.t, r.block) \/ MarkSubAdded(r.t, r.block)
                  \/ MarkSubRemoved(r.t, r.block)
    /\ UNCHANGED <<blocks, composers, sent, opens, reads>>

-----------------------------------------------------------------------------
(* The reads that follow, as far as the writes meet them. *)

ReadAt(b) == /\ b \in {Len(blocks), Len(blocks) - 1} \ {0}
             /\ reads < MaxReads /\ reads' = reads + 1

\* _on_verified, mark_verified: a row that shows something newer is left alone.
RolesRead(b) ==
    LET fresh == {n \in BothNames : b >= asOf[n]}
        read == SetsOf(blocks[b])
        was(n, f) == [who |-> blocks[b].role[n][f], at |-> b]
    IN  /\ ReadAt(b)
        /\ sets' = [x \in DOMAIN sets |-> (sets[x] \ fresh) \cup (read[x] \cap fresh)]
        /\ resolvers' = resolvers \cup {n \in fresh : blocks[b].role[n].resolver}
        /\ asOf' = [n \in BothNames |-> IF n \in fresh \cap lines THEN b ELSE asOf[n]]
        /\ ownership' = [n \in BothNames |->
              IF n \notin fresh \cap lines THEN ownership[n]
              ELSE [f \in DOMAIN ownership[n] |-> was(n, f)]]
        /\ expiry' = IF Name \in fresh THEN [val |-> blocks[b].exp, at |-> b] ELSE expiry
        /\ UNCHANGED <<blocks, recCache, lines, composers, sent, receipts, opens>>

\* _on_records_ready: newer, or the proof of the same block; addresses of other
\* chains are never asked for.
RecordsRead(n, b, proven) ==
    LET old == recCache[n]
        rec == [k \in Keys |-> IF k = "coin" THEN NotSet
                               ELSE [val |-> blocks[b].rec[n][k], at |-> b]]
    IN  /\ ReadAt(b) /\ n \in lines
        /\ b > old.block \/ (b = old.block /\ proven /\ ~old.verified)
        /\ recCache' = [recCache EXCEPT ![n] = [block |-> b, verified |-> proven, rec |-> rec]]
        /\ asOf' = IF rec["address"].val # Empty /\ b >= asOf[n]
                   THEN [asOf EXCEPT ![n] = b] ELSE asOf
        /\ UNCHANGED <<blocks, sets, resolvers, ownership, expiry, lines, composers, sent,
                       receipts, opens>>

-----------------------------------------------------------------------------
(* The specification. *)

WritesInit ==
    /\ blocks \in {<<b>> : b \in Beginnings}
    /\ lines = {Name} \cup {n \in {Sub} : Top.role[n].controller # NoOne}
    /\ sets = SetsOf(Top)
    /\ resolvers = {n \in BothNames : Top.role[n].resolver}
    /\ ownership = [n \in BothNames |->
          [f \in {"controller", "registrant"} |-> [who |-> Top.role[n][f], at |-> 1]]]
    /\ asOf = [n \in BothNames |-> 1]
    /\ expiry \in {[val |-> NoExpiry, at |-> 0], [val |-> Top.exp, at |-> 1]}
    /\ recCache = [n \in BothNames |->
          [block |-> 0, verified |-> FALSE, rec |-> [k \in Keys |-> NotSet]]]
    /\ composers = {} /\ sent = <<>> /\ receipts = {} /\ opens = 0 /\ reads = 0

ComposerNext ==
    \/ \E o \in Offers(sets, resolvers, lines), k \in Keys : Open(o, k)
    \/ \E c \in composers : \/ Edit(c) \/ Confirm0(c) \/ SigningFails(c) \/ Close(c)
                            \/ Broadcast0(c)

WritesNext ==
    \/ ComposerNext
    \/ Mine \/ Elsewhere
    \/ \E r \in receipts : Confirmed(r)
    \/ \E b \in 1 .. Len(blocks) :
          \/ RolesRead(b)
          \/ \E n \in BothNames, proven \in BOOLEAN : RecordsRead(n, b, proven)

WritesSpec == WritesInit /\ [][WritesNext]_writesVars

-----------------------------------------------------------------------------
(* Properties *)

\* With the roles as the chain has them, every composer the tab opens builds a
\* call the contracts let the account make.  Left out: a resolver or a subname
\* where the registry will not have it, see OfferedIsAuthorised.
\* (_refresh_writable, _set_manager, _remove_subdomain)
RolesAuthorise ==
    sets = SetsOf(Top) =>
        \A o \in Offers(sets, resolvers, lines) :
            \/ Authorised(Top, [op |-> o.op, name |-> o.name, wrapped |-> WrapOf(sets, o)])
            \/ o.op = "setResolver" \/ (o.op = "addSubnode" /\ Name \notin sets.current)

\* Every role and record on display was that of the chain at the block it was
\* read at or its transaction was mined in, whatever was typed before and
\* whichever composers were open. (changed, _apply_*)
ShownWasTrue ==
    \A n \in BothNames :
        /\ \A f \in DOMAIN ownership[n] :
              LET s == ownership[n][f] IN s # Unread => s.who = blocks[s.at].role[n][f]
        /\ \A k \in Keys :
              LET s == recCache[n].rec[k] IN s.at # 0 => s.val = blocks[s.at].rec[n][k]

\* The first property, of every action.
OfferedIsAuthorised ==
    sets = SetsOf(Top) =>
        \A o \in Offers(sets, resolvers, lines) :
            Authorised(Top, [op |-> o.op, name |-> o.name, wrapped |-> WrapOf(sets, o)])

\* What is shown of a record is never older than what was.
RecordsNotPaintedBack ==
    [][\A n \in BothNames, k \in Keys \ {"coin"} :
          recCache'[n].rec[k].at >= recCache[n].rec[k].at]_writesVars

\* The shown records are all those of the block they are stamped with.
RecordsAreOfTheirBlock ==
    \A n \in BothNames, k \in Keys \ {"coin"} :
        recCache[n].rec[k].at # 0 =>
            recCache[n].rec[k].val = blocks[recCache[n].block].rec[n][k]

\* A removal is of the record in the row it was asked on, and can be made.
RemovesItsRow ==
    \A c \in composers : c.op = "removeRecord" => c.key = c.row /\ Builds(c)

\* The expiry shown is the chain's at its block.
RenewedAsShown == expiry.at # 0 => expiry.val = blocks[expiry.at].exp

\* Once a new resolver is confirmed, a record can be set.
ResolverIsSeen ==
    [][\A r \in receipts \ receipts' :
          r.ok /\ r.t.op = "setResolver" => r.t.name \in resolvers']_writesVars
=============================================================================
