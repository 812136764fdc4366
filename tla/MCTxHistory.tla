---------------------------- MODULE MCTxHistory ----------------------------
EXTENDS TxHistory
S == "sent"
R == "received"
MCLedgers == {<<S, R, R, S, S>>, <<>>}
MCDisks == {{}, {0}}
\* One chain with a history, and few moves; or two, and nothing new.
MCInit ==
    /\ Session
    /\ ledger["eth"] # <<>> /\ ledger["tron"] = <<>> /\ saved["tron"] = {}
    /\ \/ moves = 1 /\ fails = 0
       \/ moves = 0 /\ fails = MaxFails
MCSpec == MCInit /\ [][HistoryNext]_historyVars /\ HistoryFairness
=============================================================================
