-------------------------- MODULE MCTokenDiscovery --------------------------
(***************************************************************************)
(* The discovery pipelines on two small instances, told apart by           *)
(* readsMayFail.  Where every read is answered, in chunks that may or may  *)
(* not tell their height, one pipeline meets the live writers and the      *)
(* filter.  The view is not left there: a pipeline that is dropped merges  *)
(* nothing, and a reading with nothing to read has nothing to merge.       *)
(* Where reads fail, two pipelines overlap under the user's moves alone:   *)
(* the live writers and the filter leave the view, its guard and the       *)
(* pipelines unchanged, and the native amount, which neither property is   *)
(* about, tells no height.  The session starts with a cached view of every *)
(* account.                                                                *)
(***************************************************************************)
EXTENDS TokenDiscovery

CONSTANTS
    p1, p2   \* pipeline slots: the second runs in the failing instance only

\* The balance is zero in block 1 and only there.
MCInit ==
    /\ DiscoveryInit
    /\ cached = Wallets
    /\ IF readsMayFail
       THEN /\ known = Chains \X Tokens
            /\ rows = Keys
            /\ \A k \in Keys : empty[k] = {}
       ELSE \A k \in Keys : empty[k] = {1}

MCNext ==
    /\ UNCHANGED readsMayFail
    /\ IF readsMayFail
       THEN ViewStep /\ \A p \in Pipelines : pv'[p].stage = "pricing" => pv'[p].told = None
       ELSE \/ LiveStep
            \/ \E k \in Keys : FilterChanges(k)
            \/ \E w \in Wallets : Refresh(w)
            \/ PipelineStep(p1) /\ pv'[p1] # Reading(pv[p1].view, 0, {}, {})

MCSpec == MCInit /\ [][MCNext]_allVars /\ PipelinesEnd

\* The live writers beside both pipelines.
MCLiveSpec == MCInit /\ [][DiscoveryNext]_allVars
=============================================================================
