----------------------------- MODULE RpcServer ------------------------------
(***************************************************************************)
(* The dapp-facing JSON-RPC server (qeth/rpc.py): which chain each origin  *)
(* is on, the chainChanged notifications it gets, and the networks dapps   *)
(* add.  The server's coroutines share one asyncio loop, so what happens   *)
(* between two awaits is one step; the GUI thread changes the chain and    *)
(* hands the loop an event.  Every event is a task of its own, which sends *)
(* to one subscription after the other and waits whenever a socket is      *)
(* slow, while the user, other dapps and other events go on.               *)
(***************************************************************************)
EXTENDS Naturals, Sequences, FiniteSets

CONSTANTS
    Sockets,        \* the WebSocket connections
    Subs,           \* the subscriptions to chainChanged
    SocketOf,       \* SocketOf[s]: the connection s arrived on
    OriginOf,       \* OriginOf[s]: the effective origin of its message
    Switchers,      \* the origins that use wallet_switchEthereumChain
    NoOrigin,       \* the origin of a request that names none
    Adders,         \* requests for wallet_addEthereumChain, each with a URL
    Chains, New,    \* the chains configured; the one the Adders want
    Home,           \* the chain the wallet shows first
    Tasks           \* 1..n: bound on the events, for model checking

Origins == {OriginOf[s] : s \in Subs} \cup Switchers
Nobody == "none"

ASSUME RpcAssumption ==
    /\ SocketOf \in [Subs -> Sockets]
    /\ Home \in Chains /\ New \notin Chains
    /\ Nobody \notin Chains \cup {New} \cup Subs \cup Adders
    /\ (Origins \cup {NoOrigin}) \cap {Nobody, "all", "unscoped"} = {}
    /\ Tasks \subseteq Nat

VARIABLES
    current,        \* store.dapp_chain()
    endpoint,       \* the request whose URL store.chains has for New, or Nobody
    pin,            \* _rpc_chain_id_by_origin
    live,           \* the open sockets
    subs,           \* the subscriptions in _ws_subscriptions
    came, opened,   \* when a subscription came, and the first of a socket: the
                    \* order of the two levels of _ws_subscriptions.  0: not yet
    arrivals,       \* the subscriptions that have come
    due,            \* the chains of the events the GUI thread handed over
    task,           \* task[t]: the t-th _broadcast_event
    waiting,        \* waiting[w]: the tasks at the send lock of socket w
    told,           \* told[s]: the chain the dapp behind s believes it is on, or
                    \* Nobody before s exists; an id is never used again
    cut,            \* history: the origins in whose events there was a gap, see
                    \* CutShort and Mended
    adding,         \* adding[a]: how far an add request is
    prompt,         \* the requests whose prompt is on the screen
    shared          \* the request _pending_chain_add holds for New, or Nobody

storeVars == <<current, endpoint>>
subVars == <<live, subs, came, opened, arrivals>>
eventVars == <<due, task, waiting, told, cut>>
addVars == <<adding, prompt, shared>>
rpcVars == <<storeVars, pin, subVars, eventVars, addVars>>

Configured == Chains \cup (IF endpoint = Nobody THEN {} ELSE {New})

\* _chain_for_origin
ChainFor(o) == IF pin[o] = Nobody THEN current ELSE pin[o]

----------------------------------------------------------------------------
(* Events. *)

\* A task holds its value, whom it is for ("all", "unscoped" or one origin),
\* the sockets it has not come to, what is left of the subscriptions of its
\* socket, and the one it sends to.
Unused == [value |-> Nobody, scope |-> Nobody, sockets |-> {}, left |-> {},
           sending |-> Nobody]

\* Slip: a pinned origin hears of the wallet's chain too.
ForAnyone(e, s) == e.scope \in {"all", "unscoped", OriginOf[s]}

\* The filters of _broadcast_event; the pins are those of the moment.
ForSub(e, s) ==
    \/ e.scope \in {"all", OriginOf[s]}
    \/ e.scope = "unscoped" /\ pin[OriginOf[s]] = Nobody

\* A dict is walked in the order its keys came.
First(S, at) == CHOOSE x \in S : \A y \in S : at[x] <= at[y]

\* The loops of task e go on up to its next send.  The sockets were copied when
\* it started, the subscriptions of one when it comes to it; the sockets that
\* closed and the subscriptions it is not for are passed.
Advanced(e) ==
    LET here == {s \in e.left : ForSub(e, s)}
        theirs(w) == {s \in subs : SocketOf[s] = w /\ ForSub(e, s)}
        ahead == {w \in e.sockets \cap live : theirs(w) # {}}
        next == First(ahead, opened)
        turn == IF here # {} THEN here ELSE theirs(next)
    IN  IF here = {} /\ ahead = {}
        THEN [e EXCEPT !.sockets = {}, !.left = {}, !.sending = Nobody]
        ELSE [e EXCEPT !.sockets = IF here # {} THEN e.sockets
                                   ELSE {w \in e.sockets : opened[w] > opened[next]},
                       !.left = turn \ {First(turn, came)},
                       !.sending = First(turn, came)]

\* The send lock is fair.
Joins(queue, t) == Append(queue, t)

\* Task t waits for the lock of the socket it sends to next, if any.
Queued(w, e, t) ==
    IF e.sending = Nobody THEN w
    ELSE [w EXCEPT ![SocketOf[e.sending]] = Joins(@, t)]

\* There is a task left for one more event: the bound.
Room == Cardinality({t \in Tasks : task[t] = Unused}) > Len(due)

\* _schedule_event or a direct await of _broadcast_event: a task starts.
StartEvent(value, scope) ==
    \E t \in Tasks :
      /\ task[t] = Unused
      /\ \A u \in Tasks : u < t => task[u] # Unused
      /\ LET open == {w \in live : opened[w] # 0}
             e == Advanced([Unused EXCEPT !.value = value, !.scope = scope, !.sockets = open])
         IN /\ task' = [task EXCEPT ![t] = e]
            /\ waiting' = Queued(waiting, e, t)

\* The origins one of whose own events still holds a subscription of `gone`.
CutShort(gone) ==
    {task[t].scope : t \in {u \in Tasks : ({task[u].sending} \cup task[u].left) \cap gone # {}}}
        \cap Origins

\* A switch that finds no older event on its way to its origin ends the gap; one
\* without an origin tells every dapp its chain.
Mended(o) ==
    IF o = NoOrigin THEN Origins
    ELSE IF \E t \in Tasks : task[t].sending # Nobody /\ task[t].scope \in {o, "all"}
    THEN cut ELSE cut \ {o}

\* The first send at a socket's lock succeeds, or its socket is gone: then the
\* task leaves out the rest of that socket's subscriptions.
SendEnds(w) ==
    /\ waiting[w] # <<>>
    /\ LET t == Head(waiting[w])
           e == task[t]
           kept == IF w \in live THEN e.left ELSE {}
           next == Advanced([e EXCEPT !.left = kept])
       IN /\ task' = [task EXCEPT ![t] = next]
          /\ waiting' = Queued([waiting EXCEPT ![w] = Tail(@)], next, t)
          /\ told' = IF w \in live THEN [told EXCEPT ![e.sending] = e.value] ELSE told
    /\ UNCHANGED <<storeVars, pin, subVars, due, cut, addVars>>

----------------------------------------------------------------------------
(* The wallet and the dapps. *)

\* _on_chain_changed: the store first, then set_rpc_chain, whose event the loop
\* gets later.
FlipChain(c) ==
    /\ c \in Configured \ {current} /\ Room
    /\ current' = c
    /\ due' = Append(due, c)
    /\ UNCHANGED <<endpoint, pin, subVars, task, waiting, told, cut, addVars>>

EventStarts ==
    /\ due # <<>>
    /\ due' = Tail(due)
    /\ StartEvent(Head(due), "unscoped")
    /\ UNCHANGED <<storeVars, pin, subVars, told, cut, addVars>>

\* wallet_switchEthereumChain overrides the chain of its origin only.
Pinned(o, c) == [pin EXCEPT ![o] = c]

\* The origin wallet_switchEthereumChain names to _broadcast_event: Nobody means
\* no filter there.
SwitchScope(o) == IF o = NoOrigin THEN "all" ELSE o

SwitchChain(o, c) ==
    /\ o \in Switchers /\ c \in Configured /\ Room
    /\ pin' = Pinned(o, c)
    /\ StartEvent(c, SwitchScope(o))
    /\ cut' = Mended(o)
    /\ UNCHANGED <<storeVars, subVars, due, told, addVars>>

\* eth_subscribe: the dapp then asks for its chain.
Subscribe(s) ==
    /\ SocketOf[s] \in live /\ came[s] = 0
    /\ subs' = subs \cup {s}
    /\ arrivals' = arrivals + 1
    /\ came' = [came EXCEPT ![s] = arrivals + 1]
    /\ opened' = IF opened[SocketOf[s]] # 0 THEN opened
                 ELSE [opened EXCEPT ![SocketOf[s]] = arrivals + 1]
    /\ told' = [told EXCEPT ![s] = ChainFor(OriginOf[s])]
    /\ UNCHANGED <<storeVars, pin, live, due, task, waiting, cut, addVars>>

\* eth_unsubscribe: the tasks that copied the subscription still send to it.
Unsubscribe(s) ==
    /\ s \in subs
    /\ subs' = subs \ {s}
    /\ cut' = cut \cup CutShort({s})
    /\ UNCHANGED <<storeVars, pin, live, came, opened, arrivals, due, task, waiting, told,
                   addVars>>

\* A socket closes, and _ws_handler ends: the sends that wait on it will fail.
Disconnect(w) ==
    /\ w \in live
    /\ live' = live \ {w}
    /\ subs' = {s \in subs : SocketOf[s] # w}
    /\ cut' = cut \cup CutShort(subs \ subs')
    /\ UNCHANGED <<storeVars, pin, came, opened, arrivals, due, task, waiting, told, addVars>>

----------------------------------------------------------------------------
(* Adding a network. *)

\* No prompt for this chain is under way.
AsksUser == shared = Nobody

\* wallet_addEthereumChain for New: known already, or the user is asked, or the
\* request waits for the answer to the one that asks.
AddChain(a) ==
    /\ adding[a] = "no"
    /\ IF New \in Configured
       THEN /\ adding' = [adding EXCEPT ![a] = "done"]
            /\ UNCHANGED <<prompt, shared>>
       ELSE IF AsksUser
       THEN /\ adding' = [adding EXCEPT ![a] = "asking"]
            /\ prompt' = prompt \cup {a}
            /\ shared' = a
       ELSE /\ adding' = [adding EXCEPT ![a] = "waiting"]
            /\ UNCHANGED <<prompt, shared>>
    /\ UNCHANGED <<storeVars, pin, subVars, eventVars>>

\* The user answers; the answer crosses to the loop.
UserAnswers(a, answer) ==
    /\ a \in prompt
    /\ prompt' = prompt \ {a}
    /\ adding' = [adding EXCEPT ![a] = answer]
    /\ UNCHANGED <<storeVars, pin, subVars, eventVars, shared>>

\* store.add_chain keeps the entry it has.
Added(a) == IF endpoint = Nobody THEN a ELSE endpoint

\* _confirm_new_chain returns to the request that asked; those that share the
\* answer are woken after it.
AskedReturns(a) ==
    /\ adding[a] \in {"yes", "declined"}
    /\ adding' = [b \in Adders |-> IF b = a THEN "done"
                                  ELSE IF adding[b] = "waiting" THEN
                                    IF adding[a] = "yes" THEN "shares" ELSE "done"
                                  ELSE adding[b]]
    /\ shared' = Nobody
    /\ endpoint' = IF adding[a] = "yes" THEN Added(a) ELSE endpoint
    /\ UNCHANGED <<current, pin, subVars, eventVars, prompt>>

SharedReturns(a) ==
    /\ adding[a] = "shares"
    /\ adding' = [adding EXCEPT ![a] = "done"]
    /\ endpoint' = Added(a)
    /\ UNCHANGED <<current, pin, subVars, eventVars, prompt, shared>>

----------------------------------------------------------------------------
\* The subscriptions that are there from the start came in the order `first`,
\* those of socket w from the `since[w]`-th on.
Start(first, since) ==
    /\ current = Home /\ endpoint = Nobody
    /\ pin = [o \in Origins |-> Nobody]
    /\ live = Sockets
    /\ subs = {s \in Subs : first[s] # 0}
    /\ came = first /\ opened = since /\ arrivals = Cardinality(subs)
    /\ due = <<>>
    /\ task = [t \in Tasks |-> Unused]
    /\ waiting = [w \in Sockets |-> <<>>]
    /\ told = [s \in Subs |-> IF first[s] # 0 THEN Home ELSE Nobody]
    /\ cut = {}
    /\ adding = [a \in Adders |-> "no"] /\ prompt = {} /\ shared = Nobody

RpcInit == Start([s \in Subs |-> 0], [w \in Sockets |-> 0])

RpcNext ==
    \/ \E c \in Chains \cup {New} : FlipChain(c) \/ \E o \in Origins : SwitchChain(o, c)
    \/ \E s \in Subs : Subscribe(s) \/ Unsubscribe(s)
    \/ \E w \in Sockets : SendEnds(w) \/ Disconnect(w)
    \/ EventStarts
    \/ \E a \in Adders : \/ AddChain(a) \/ AskedReturns(a) \/ SharedReturns(a)
                         \/ UserAnswers(a, "yes") \/ UserAnswers(a, "declined")

RpcSpec == RpcInit /\ [][RpcNext]_rpcVars

----------------------------------------------------------------------------
(* Properties. *)

\* Everything is of its kind, and every task that sends waits for one lock.
RpcTypeOK ==
    /\ current \in Chains \cup {New}
    /\ endpoint \in Adders \cup {Nobody}
    /\ pin \in [Origins -> Chains \cup {New, Nobody}]
    /\ live \subseteq Sockets
    /\ subs \subseteq Subs
    /\ came \in [Subs -> Nat] /\ opened \in [Sockets -> Nat] /\ arrivals \in Nat
    /\ due \in Seq(Chains \cup {New})
    /\ task \in [Tasks -> [value : Chains \cup {New, Nobody},
                           scope : Origins \cup {Nobody, "all", "unscoped"},
                           sockets : SUBSET Sockets, left : SUBSET Subs,
                           sending : Subs \cup {Nobody}]]
    /\ waiting \in [Sockets -> Seq(Tasks)]
    /\ told \in [Subs -> Chains \cup {New, Nobody}]
    /\ cut \subseteq Origins
    /\ adding \in [Adders -> {"no", "asking", "waiting", "yes", "declined", "shares", "done"}]
    /\ prompt \subseteq Adders
    /\ shared \in Adders \cup {Nobody}

Quiet == due = <<>> /\ \A w \in Sockets : waiting[w] = <<>>

\* When no event is on its way, a dapp that chose its chain has last been told
\* that chain on every one of its connections, in whatever order the slow sockets
\* let the notifications through and whatever sockets close under them.  The
\* exceptions are in `cut`: a subscription of the dapp ended while one of its own
\* events still held it, or a request without an origin switched every dapp; then
\* nothing is claimed until a switch of the dapp that no older event of its meets.
PinnedHearsItsOwn ==
    Quiet => \A s \in subs :
        pin[OriginOf[s]] # Nobody /\ OriginOf[s] \notin cut => told[s] = pin[OriginOf[s]]

\* ... without exceptions.  Refuted: an event whose socket closes, or whose
\* subscription ends, while it waits for the send lock is overtaken by the event
\* of the dapp's next switch, and tells the dapp's other connection the older
\* chain last.
PinnedAlwaysHears ==
    Quiet => \A s \in subs :
        pin[OriginOf[s]] # Nobody => told[s] = pin[OriginOf[s]]

\* The same of every dapp: each has last been told the chain eth_chainId
\* answers it with.
EveryoneHears ==
    Quiet => \A s \in subs : told[s] = ChainFor(OriginOf[s])
=============================================================================
