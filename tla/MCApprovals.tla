----------------------------- MODULE MCApprovals ----------------------------
(* The small instances of Approvals: alice approved p, or p and q, or took *)
(* p back again, which her cache may not know; bob approved r; windows of  *)
(* one row; one approval or revoke more while it runs.                     *)
EXTENDS Approvals

MCPairs == [a \in Accounts |-> IF a = "alice" THEN {"p", "q"} ELSE {"r"}]
MCStarts == [a \in Accounts |->
                IF a = "alice" THEN {<<"p">>, <<"p", "q">>, <<"p", "p">>, <<"p", "q", "p">>}
                ELSE {<<"r">>}]
MCFaultSets == {{}, {"read", "stop"}}
MCReadFails == {{"read"}}
MCStopped == {{"stop"}}
MCCalm == {{}}

\* Bound: a batch is not explored beyond its first dialog where reads may fail,
\* which it does not look at.
MCFewBatches == faults = {} \/ dialog.owner = None

MCInit ==
    /\ ApprovalsInit /\ view = "alice" /\ cache["bob"].rows = {}
    /\ IF Len(logs["alice"]) = 3 THEN cache["alice"].block = 2 /\ faults = {}
       ELSE cache["alice"].block \in {0, Len(logs["alice"])}
MCSpec == MCInit /\ [][ApprovalsNext]_vars
=============================================================================
