--------------------------- MODULE MCPendingWatch ---------------------------
(***************************************************************************)
(* One transaction to watch, in an account that has sent one before, which *)
(* the history file may hold or not.                                       *)
(***************************************************************************)
EXTENDS PendingWatch

CONSTANTS a, b

MCTxs == {a, b}
MCNonceOf == [t \in MCTxs |-> IF t = b THEN 0 ELSE 1]

MCInit == Init /\ latest = 1 /\ mined = {b}

MCSpec == MCInit /\ [][Next]_vars /\ Fairness
=============================================================================
