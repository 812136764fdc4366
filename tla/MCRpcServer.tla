---------------------------- MODULE MCRpcServer -----------------------------
(***************************************************************************)
(* The notifications: one socket with the tabs of two dapps behind it, as  *)
(* of the browser extension, and another socket of the second dapp.  Or    *)
(* the proxied methods: an endpoint and its fallback, two reads and a      *)
(* signed transaction; a cooldown of two units and a request timeout of    *)
(* four.                                                                   *)
(***************************************************************************)
EXTENDS RpcServer, RpcProxy, TLC

CONSTANTS shared_ws, own_ws, dapp1, dapp2, s1, s2, s3

MCSubs == {s1, s2, s3}
MCSocketOf == [s \in MCSubs |-> IF s = s3 THEN own_ws ELSE shared_ws]
MCOriginOf == [s \in MCSubs |-> IF s = s1 THEN dapp1 ELSE dapp2]
MCTasks == 1..3
MCHosts == <<"own", "fallback">>

\* The requests to add a network differ in nothing.
MCSymmetry == Permutations(Adders)

\* The part of the server that moves.
VARIABLE part

\* The second dapp's tab in the extension has not subscribed yet.
MCInit ==
    /\ Start([s \in MCSubs |-> CASE s = s1 -> 1 [] s = s3 -> 2 [] OTHER -> 0],
             [w \in Sockets |-> IF w = shared_ws THEN 1 ELSE 2])
    /\ ProxyInit /\ part \in {"events", "proxy"}

MCNext ==
    \/ part = "events" /\ RpcNext /\ UNCHANGED <<proxyVars, part>>
    \/ part = "proxy" /\ ProxyNext /\ UNCHANGED <<rpcVars, part>>

MCSpec == MCInit /\ [][MCNext]_<<rpcVars, proxyVars, part>>
=============================================================================
