------------------------------ MODULE RpcProxy -------------------------------
(***************************************************************************)
(* What qeth/rpc.py does with a method it does not answer itself: _proxy   *)
(* posts it to the endpoints of the chain, the user's own first, and goes  *)
(* on to the next when one fails.  Requests run concurrently on the loop   *)
(* and share _host_last_fail, the time each endpoint was last found        *)
(* failing: for a while after it reads pass the endpoint over.  A signed   *)
(* transaction only ever goes to the user's own endpoint.                  *)
(***************************************************************************)
EXTENDS Naturals, Sequences, SequencesExt

CONSTANTS
    Hosts,          \* the endpoints: chain.rpc_url and the fallback_rpcs
    Reads,          \* requests that are proxied
    Signed,         \* eth_sendRawTransaction requests
    FailFast,       \* _FAIL_FAST_S
    Timeout,        \* _REQUEST_TIMEOUT
    Beats           \* bound on the clock, for model checking

Requests == Reads \cup Signed
NoHost == "none"

ASSUME ProxyAssumption ==
    /\ Hosts \in Seq(STRING) /\ Hosts # <<>>
    /\ \A i, j \in DOMAIN Hosts : Hosts[i] = Hosts[j] => i = j
    /\ Reads \cap Signed = {}
    /\ {FailFast, Timeout, Beats} \subseteq Nat

VARIABLES
    clock,          \* the loop's time
    mark,           \* _host_last_fail: host -> {} or {a time}
    req,            \* request -> [stage, left, host, since, reply]
    last,           \* history: how the last exchange with a host ended, when,
                    \* and when its request was posted
    skipped         \* history: the hosts a read passed over in the last step

proxyVars == <<clock, mark, req, last, skipped>>

Urls(r) == IF r \in Signed THEN <<Head(Hosts)>> ELSE Hosts

\* Slip: the answer of a host leaves its mark.
NotCleared(h) == mark

\* A host that answered is preferred again.
Cleared(h) == [mark EXCEPT ![h] = {}]

\* A signed transaction has no alternative and is always tried.
Cooling(r, h, m) == r \in Reads /\ \E t \in m[h] : clock - t < FailFast

Replied(reply) ==
    [stage |-> "done", left |-> <<>>, host |-> NoHost, since |-> 0, reply |-> reply]

\* The loop of _proxy: request r goes to the first host of `left` that is not
\* on its cooldown, with the marks m; when there is none its last error, or
\* the want of one, is the reply.
Tries(r, left, error, m) ==
    LET open == {j \in DOMAIN left : ~Cooling(r, left[j], m)}
        i == IF open = {} THEN 0 ELSE Min(open)
        passed == IF i = 0 THEN left ELSE SubSeq(left, 1, i - 1)
    IN  /\ mark' = m
        /\ skipped' = ToSet(passed)
        /\ req' = [req EXCEPT ![r] =
              IF i = 0
              THEN Replied(IF error = NoHost THEN "unavailable" ELSE error)
              ELSE [stage |-> "posted", left |-> SubSeq(left, i + 1, Len(left)),
                    host |-> left[i], since |-> clock, reply |-> error]]

Arrives(r) ==
    /\ req[r].stage = "no"
    /\ Tries(r, Urls(r), NoHost, mark)
    /\ UNCHANGED <<clock, last>>

Ended(r, how) ==
    last' = [last EXCEPT ![req[r].host] =
               [how |-> how, posted |-> req[r].since, ended |-> clock]]

\* A result, or an error of the request itself: the chain has answered.
HostAnswers(r) ==
    /\ req[r].stage = "posted"
    /\ mark' = Cleared(req[r].host)
    /\ \E reply \in {"result", "error"} :
          req' = [req EXCEPT ![r] = Replied(reply)]
    /\ Ended(r, "answered") /\ skipped' = {}
    /\ UNCHANGED clock

\* The mark is the time the request was posted at.
Marked(r) == [mark EXCEPT ![req[r].host] = {req[r].since}]

\* The connection fails, the body is no JSON, the provider is at its limit or
\* out of order: the next host is tried.
HostFails(r) ==
    /\ req[r].stage = "posted"
    /\ \E error \in {"unreachable", "provider"} :
          Tries(r, req[r].left, error, Marked(r))
    /\ Ended(r, "failed")
    /\ UNCHANGED clock

\* Any other HTTP error may be of this method alone: no mark.
HostRefuses(r) ==
    /\ req[r].stage = "posted"
    /\ Tries(r, req[r].left, "provider", mark)
    /\ UNCHANGED <<clock, last>>

\* ... and an answer that does not come is a failure after Timeout.
Late(r) == req[r].stage = "posted" /\ clock - req[r].since >= Timeout

Tick ==
    /\ clock < Beats /\ \A r \in Requests : ~Late(r)
    /\ clock' = clock + 1
    /\ skipped' = {}
    /\ UNCHANGED <<mark, req, last>>

ProxyInit ==
    /\ clock = 0
    /\ mark = [h \in ToSet(Hosts) |-> {}]
    /\ req = [r \in Requests |->
                [stage |-> "no", left |-> <<>>, host |-> NoHost, since |-> 0, reply |-> NoHost]]
    /\ last = [h \in ToSet(Hosts) |-> [how |-> NoHost, posted |-> 0, ended |-> 0]]
    /\ skipped = {}

ProxyNext ==
    \/ \E r \in Requests : Arrives(r) \/ HostAnswers(r) \/ HostFails(r) \/ HostRefuses(r)
    \/ Tick

ProxySpec == ProxyInit /\ [][ProxyNext]_proxyVars

-----------------------------------------------------------------------------
(* Properties                                                              *)

\* A read passes a host over only when the last exchange with it that ended,
\* of whatever request, was a failure, and of a request that was posted less
\* than FailFast ago: a host that answered is used, however many slower
\* requests still wait for it.
PassedOverIsFailing ==
    \A h \in skipped : last[h].how = "failed" /\ clock - last[h].posted < FailFast

\* What the comment on _FAIL_FAST_S says: for that long after a host has failed,
\* no read is posted to it.
FailedHostIsLeftAlone ==
    [][\A r \in Reads :
          req'[r].stage = "posted" /\ req'[r] # req[r] =>
             LET h == last'[req'[r].host] IN
             ~(h.how = "failed" /\ clock - h.ended < FailFast)]_proxyVars
=============================================================================
