-------------------------- MODULE MCBalanceLedger --------------------------
(* The ledger on small instances. *)
EXTENDS BalanceLedger

\* A session in which every read tells its height: a link that comes and goes,
\* ws events while it is up, and receipts.
ReconnectNext ==
    \E c \in Chains :
        \/ NewBlock(c) \/ OnLinkUp(c) \/ OnLinkDown(c)
        \/ \E k \in Keys : \E block \in 1..head[c] :
              /\ ChainOf(WalletOf(k)) = c
              /\ \/ c \in live /\ OnBalanceDirty(WalletOf(k), TokenOf(k), block, block)
                 \/ NoteReceiptLogs({k}, {k}, block)

ReconnectSpec == Init /\ [][ReconnectNext]_vars
=============================================================================
