----------------------------- MODULE MCEnsNames -----------------------------
(***************************************************************************)
(* The ENS tab, its writes, and the Activity column of the Transactions    *)
(* tab on small instances: a behaviour is one of the three parts, and the  *)
(* others stay as they began.  A behaviour of the ENS tab has either       *)
(* several refreshes ("names") or several record reads ("records"), never  *)
(* both; beside record reads, an ownership read is one aggregate.          *)
(***************************************************************************)
EXTENDS EnsNames, EnsWrites, TxActivity, TLC

VARIABLE part

MCFirstBlocks ==
    {[owner |-> [n \in Names |-> o], rec |-> [n \in Names |-> "blank"]] :
        o \in {"alice", Nobody}}

MCDisks ==
    {[a \in Accounts |-> IF a = "alice" THEN d ELSE NoFile] :
        d \in {NoFile, [n \in Names |-> "owned"]}}

MCBudgets ==
    {[blocks |-> 2, refreshes |-> 2, reads |-> 0],
     [blocks |-> 2, refreshes |-> 1, reads |-> 2]}

\* The roles a name and its subname begin with.
MCRole(c, r, w, cur, res) ==
    [controller |-> c, registrant |-> r, wrapped |-> w, current |-> cur, resolver |-> res]
MCNameRoles ==
    {MCRole("me", "me", FALSE, cur, TRUE) : cur \in BOOLEAN}
    \cup {MCRole("me", "you", FALSE, TRUE, TRUE), MCRole("you", "me", FALSE, TRUE, TRUE)}
    \cup {MCRole("me", "me", TRUE, TRUE, res) : res \in BOOLEAN}
MCSubRoles ==
    {MCRole(c, NoOne, w, TRUE, TRUE) : c \in {"me", "you"}, w \in BOOLEAN} \cup {Gone}
MCBeginnings ==
    {[role |-> (Name :> a) @@ (Sub :> b), rec |-> [n \in BothNames |-> [k \in Keys |-> Empty]],
      exp |-> 3] : a \in MCNameRoles, b \in MCSubRoles}

MCMoves == [h \in Hashes |-> [out |-> {"odd"}, inn |-> {"eth"}]]
MCPredictions == {NoLegs, [out |-> {"odd"}, inn |-> {"DAI"}]}
MCCallee == [h \in Hashes |-> "router"]

\* A part that does not run begins in one state.
QuietEns == \A n \in Names : chain[1].owner[n] = Nobody /\ disk = [a \in Accounts |-> NoFile]
                             /\ left.reads = 0
QuietWrites == blocks = <<[role |-> (Name :> MCRole("me", "me", FALSE, TRUE, TRUE)) @@ (Sub :> Gone),
                           rec |-> [n \in BothNames |-> [k \in Keys |-> Empty]], exp |-> 3]>>
QuietActivity == family = "evm" /\ status = [h \in Hashes |-> "absent"]

MCInit == /\ Init /\ WritesInit /\ ActivityInit /\ expiry.val # NoExpiry
          /\ part \in {"names", "records", "writes", "activity"}
          /\ part = "names" => left.reads = 0
          /\ part = "records" => left.reads > 0
          /\ part \in {"writes", "activity"} => QuietEns
          /\ part # "writes" => QuietWrites
          /\ part # "activity" => QuietActivity

\* Every name of a read is as of the block it reports.
OneAggregate == \A v \in verifiers : \A i \in DOMAIN v.out : \A n \in v.names :
                    v.out[i].at[n] = v.out[i].block

MCNext == \/ part = "names" /\ Next /\ UNCHANGED <<writesVars, activityVars, part>>
          \/ part = "records" /\ Next /\ OneAggregate' /\ UNCHANGED <<writesVars, activityVars, part>>
          \/ part = "writes" /\ WritesNext /\ UNCHANGED <<vars, activityVars, part>>
          \/ part = "activity" /\ ActivityNext /\ UNCHANGED <<vars, writesVars, part>>

\* A worker of an earlier refresh reports in vain, so it does not tell states apart.
MCView == <<world, view, epoch, catchup, names, records, panel,
            {d \in discoveries : OfThisRefresh(d)}, {v \in verifiers : OfThisRefresh(v)},
            readers, left, history, writesVars, activityVars, part>>

MCSpec == MCInit /\ [][MCNext]_<<vars, writesVars, activityVars, part>>
=============================================================================
