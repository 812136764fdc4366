---------------------------- MODULE VerifiedReads ----------------------------
(***************************************************************************)
(* The light client beside the wallet (helios.py) and those who read       *)
(* through it.  One helios process per chain is spawned on first use; a    *)
(* worker thread waits until it is synced, asks it again on every use, and *)
(* replaces it when it died, when the chain's RPC changed or when it made  *)
(* no progress for long; a thread of its own reads what it prints and      *)
(* gives up on a build that cannot sync.  Worker threads, the main thread  *)
(* and the processes meet in _sidecars; only _ensure_sidecar's choice is   *)
(* under its lock.  A preview (plugins/transactions/simulate.py) is run on *)
(* verified state, unless that is behind the wallet's own transactions;    *)
(* an endpoint that cannot prove old state is left for the bundled one.    *)
(*                                                                         *)
(* One chain.                                                              *)
(***************************************************************************)
EXTENDS Naturals

CONSTANTS
    Callers,        \* worker threads (prewarm: the main thread)
    Procs,          \* identifiers of processes, used again when one is gone
    Rpcs,           \* the endpoints the user may configure
    Bundled,        \* the chain's default endpoint
    SendOnly,       \* the endpoints that may fail to prove old state
    None,           \* no process
    Grace,          \* _STALE_RESPAWN_S
    StuckLimit,     \* _STUCK_LIMIT
    Lag,            \* _VERIFIED_FORK_LAG
    LastBlock,      \* bound on the chain, for model checking
    MaxSwaps,       \* bound on changes of the RPC
    MaxFaults       \* bound on crashes, lost links, failed spawns, lost answers

ASSUME VerifiedAssumption ==
    /\ Bundled \in Rpcs /\ SendOnly \subseteq Rpcs \ {Bundled}
    /\ None \notin Procs \cup Rpcs
    /\ {Grace, StuckLimit, Lag, LastBlock, MaxSwaps, MaxFaults} \subseteq Nat
    /\ Grace > 0 /\ StuckLimit > 0 /\ LastBlock > 0

VARIABLES
    height,         \* the chain's head
    rpc,            \* the RPC the chain is configured with
    incapable,      \* _proof_incapable
    unsyncable,     \* the chain is in _unsyncable
    proc,           \* process -> what it is and what its HeliosSidecar knows
    current,        \* _sidecars[chain], or None
    stopping,       \* live processes that were told to end, or are to be
    call,           \* caller -> where it is
    swaps, faults   \* what the bounds count

envVars == <<height, rpc, swaps>>
vars == <<envVars, incapable, unsyncable, proc, current, stopping, call, faults>>

Minimum(a, b) == IF a <= b THEN a ELSE b
Maximum(a, b) == IF a >= b THEN a ELSE b

Kinds == {"read", "preview"}

NoProc == [rpc |-> None, alive |-> FALSE, fresh |-> FALSE, head |-> 0,
           ready |-> FALSE, stuck |-> 0, idle |-> 0]

NoCall == [stage |-> "idle", kind |-> "read", rpc |-> None, sc |-> None, floor |-> 0,
           retried |-> FALSE, checked |-> FALSE, at |-> 0]

----------------------------------------------------------------------------
(* The processes. *)

Live == {p \in Procs : proc[p].alive}

\* Processes that some thread still knows; identifiers that may be used again.
Held == {call[c].sc : c \in Callers} \cup {current}
Free == Procs \ (Held \cup Live)

\* It syncs, or follows the chain, and says so: no problem line, so not stuck,
\* and a sign of progress.
Follows(p) ==
    /\ p \in Live
    /\ ~proc[p].fresh \/ proc[p].head < height
    /\ \E h \in Maximum(1, proc[p].head) .. height :
         proc' = [proc EXCEPT ![p].fresh = TRUE, ![p].head = h, ![p].stuck = 0,
                              ![p].idle = 0]
    /\ UNCHANGED <<envVars, incapable, unsyncable, current, stopping, call, faults>>

\* It loses the network, and may never find it again.
FallsBehind(p) ==
    /\ p \in Live /\ proc[p].fresh /\ faults < MaxFaults
    /\ proc' = [proc EXCEPT ![p].fresh = FALSE]
    /\ faults' = faults + 1
    /\ UNCHANGED <<envVars, incapable, unsyncable, current, stopping, call>>

\* _pump_output gets a problem line of a process that was never ready (of
\* another it means nothing).  So many in a row: _give_up, the chain is not
\* tried again in this session.
Complains(p) ==
    /\ p \in Live /\ ~proc[p].fresh /\ ~proc[p].ready /\ proc[p].stuck < StuckLimit
    /\ proc' = [proc EXCEPT ![p].stuck = @ + 1]
    /\ IF proc[p].stuck + 1 >= StuckLimit
       THEN unsyncable' = TRUE /\ stopping' = stopping \cup {p}
       ELSE UNCHANGED <<unsyncable, stopping>>
    /\ UNCHANGED <<envVars, incapable, current, call, faults>>

\* It ends: told to, or by itself.  Who holds it still knows whether it was
\* ever ready, and how long ago it made progress.
Ends(p) ==
    /\ p \in Live
    /\ IF p \in stopping THEN UNCHANGED faults
       ELSE faults < MaxFaults /\ faults' = faults + 1
    /\ proc' = [proc EXCEPT ![p].alive = FALSE, ![p].fresh = FALSE, ![p].head = 0,
                            ![p].stuck = 0]
    /\ stopping' = stopping \ {p}
    /\ UNCHANGED <<envVars, incapable, unsyncable, current, call>>

\* The time without progress, of a process that was ready once and may be asked.
Ages(p) == p \in Held /\ proc[p].ready /\ ~proc[p].fresh /\ proc[p].idle < Grace

Tick ==
    /\ \E p \in Procs : Ages(p)
    /\ proc' = [p \in Procs |-> IF Ages(p) THEN [proc[p] EXCEPT !.idle = @ + 1] ELSE proc[p]]
    /\ UNCHANGED <<envVars, incapable, unsyncable, current, stopping, call, faults>>

----------------------------------------------------------------------------
(* verified_chain, step by step. *)

\* _execution_rpc
ExecutionRpc(r) == IF r \in incapable THEN Bundled ELSE r

\* The call ends; without a sidecar what the caller serves is not verified.
Done(c) == call' = [call EXCEPT ![c] = NoCall]

\* A worker reads, or previews a transaction that must see the wallet's own
\* transactions so far (`floor`); prewarm is a read that does not wait.  A
\* chain that cannot be synced is looked up before the lock is taken, and leads
\* to nothing.
Ask(c) ==
    /\ call[c].stage = "idle" /\ ~unsyncable
    /\ \E k \in Kinds :
         call' = [call EXCEPT ![c] = [NoCall EXCEPT !.stage = "ensure", !.kind = k,
                    !.rpc = rpc, !.floor = IF k = "preview" THEN height ELSE 0]]
    /\ UNCHANGED <<envVars, incapable, unsyncable, proc, current, stopping, faults>>

\* _ensure_sidecar: the running process is used as it is - unless it is the very
\* one that the caller found without progress.
Usable(c) ==
    /\ current # None /\ proc[current].alive
    /\ ~(call[c].stage = "replace" /\ call[c].sc = current)
    /\ proc[current].rpc = ExecutionRpc(call[c].rpc)

\* Slip: the process that is replaced is forgotten.
RetiredNot == stopping

\* The process that is replaced is stopped in the background.
Retired == IF current \in Live THEN stopping \cup {current} ELSE stopping

\* The lock is held: use the process that runs ...
Uses(c, p) ==
    call' = [call EXCEPT ![c].sc = p,
                         ![c].stage = IF @ = "ensure" THEN "wait" ELSE "rewait"]

\* ... or spawn one in its place, which may fail.
Ensure(c) ==
    /\ call[c].stage \in {"ensure", "replace"}
    /\ \/ Usable(c) /\ Uses(c, current) /\ UNCHANGED <<proc, current, stopping, faults>>
       \/ /\ ~Usable(c)
          /\ \E p \in Free :
               /\ proc' = [proc EXCEPT ![p] =
                             [NoProc EXCEPT !.alive = TRUE, !.rpc = ExecutionRpc(call[c].rpc)]]
               /\ current' = p
               /\ Uses(c, p)
          /\ stopping' = Retired
          /\ UNCHANGED faults
       \/ /\ ~Usable(c) /\ faults < MaxFaults
          /\ faults' = faults + 1
          /\ Done(c)
          /\ UNCHANGED <<proc, current, stopping>>
    /\ UNCHANGED <<envVars, incapable, unsyncable>>

\* wait_ready: ready once is ready for ever; else eth_syncing is asked, until
\* the process ended or the time is up.
WaitReady(c) ==
    LET p == call[c].sc
        Next1 == IF call[c].stage = "wait" THEN "check" ELSE "ready"
    IN
    /\ call[c].stage \in {"wait", "rewait"}
    /\ \/ /\ proc[p].ready \/ proc[p].fresh
          /\ proc' = IF proc[p].ready THEN proc
                     ELSE [proc EXCEPT ![p].ready = TRUE, ![p].idle = 0]
          /\ call' = [call EXCEPT ![c].stage = Next1]
       \/ ~proc[p].ready /\ Done(c) /\ UNCHANGED proc
    /\ UNCHANGED <<envVars, incapable, unsyncable, current, stopping, faults>>

\* is_fresh, and what a sidecar that is behind leads to: it is left alone for a
\* while, then replaced (unless the chain has been given up meanwhile).
CheckFresh(c) ==
    LET p == call[c].sc IN
    /\ call[c].stage = "check"
    /\ \/ /\ proc[p].fresh
          /\ proc' = [proc EXCEPT ![p].idle = 0]
          /\ call' = [call EXCEPT ![c].stage = "ready"]
       \/ /\ ~proc[p].fresh
          /\ IF proc[p].idle < Grace \/ unsyncable THEN Done(c)
             ELSE call' = [call EXCEPT ![c].stage = "replace"]
          /\ UNCHANGED proc
    /\ UNCHANGED <<envVars, incapable, unsyncable, current, stopping, faults>>

----------------------------------------------------------------------------
(* What is done with it. *)

\* A read through the shadow chain, which has no other endpoint: it is proven,
\* or fails and nothing is verified.
ReadUses(c) ==
    /\ call[c].stage = "ready" /\ call[c].kind = "read"
    /\ Done(c)
    /\ UNCHANGED <<envVars, incapable, unsyncable, proc, current, stopping, faults>>

\* _floor_ahead_of_head
FloorAhead(c) == call[c].floor > proc[call[c].sc].head

\* simulate_logs compares the floor for the first sidecar only; one that does
\* not answer counts as one that has it.
PreviewChecks(c) ==
    /\ call[c].stage = "ready" /\ call[c].kind = "preview"
    /\ \/ call[c].retried /\ call' = [call EXCEPT ![c].stage = "fork"] /\ UNCHANGED faults
       \/ /\ ~call[c].retried /\ proc[call[c].sc].alive
          /\ IF FloorAhead(c) THEN Done(c)
             ELSE call' = [call EXCEPT ![c].stage = "fork", ![c].checked = TRUE]
          /\ UNCHANGED faults
       \/ /\ ~call[c].retried /\ faults < MaxFaults
          /\ call' = [call EXCEPT ![c].stage = "fork"]
          /\ faults' = faults + 1
    /\ UNCHANGED <<envVars, incapable, unsyncable, proc, current, stopping>>

\* Slip: a few blocks behind the head, whatever the wallet did since.
ForkBlockLagging(c) ==
    LET h == proc[call[c].sc].head IN IF h > Lag THEN h - Lag ELSE h

\* _latest_block: a few blocks behind the head, but not before the floor.
ForkBlock(c) ==
    LET h == proc[call[c].sc].head
        target == Maximum(IF h > Lag THEN h - Lag ELSE 0, Minimum(call[c].floor, h))
    IN  IF target > 0 THEN target ELSE h

ForkStarts(c) ==
    /\ call[c].stage = "fork" /\ proc[call[c].sc].alive
    /\ call' = [call EXCEPT ![c].stage = "forked", ![c].at = ForkBlock(c)]
    /\ UNCHANGED <<envVars, incapable, unsyncable, proc, current, stopping, faults>>

\* _simulate_via_fork on verified state: it is proven, or fails.
ForkEnds(c) ==
    /\ call[c].stage \in {"fork", "forked"}
    /\ call[c].stage = "fork" => ~proc[call[c].sc].alive
    /\ Done(c)
    /\ UNCHANGED <<envVars, incapable, unsyncable, proc, current, stopping, faults>>

\* ... or its endpoint cannot prove that block: note_execution_rpc_incapable,
\* and once more on the sidecar that verified_chain then yields.
ForkUnprovable(c) ==
    LET r == call[c].rpc
        rerouted == ~call[c].retried /\ r \notin incapable /\ r # Bundled
    IN
    /\ call[c].stage = "forked" /\ proc[call[c].sc].rpc \in SendOnly
    /\ incapable' = IF rerouted THEN incapable \cup {r} ELSE incapable
    /\ IF rerouted /\ ~unsyncable
       THEN call' = [call EXCEPT ![c] = [NoCall EXCEPT !.stage = "ensure", !.kind = "preview",
                                           !.rpc = r, !.floor = call[c].floor,
                                           !.retried = TRUE]]
       ELSE Done(c)
    /\ UNCHANGED <<envVars, unsyncable, proc, current, stopping, faults>>

----------------------------------------------------------------------------
(* Around them. *)

NewBlock ==
    /\ height < LastBlock
    /\ height' = height + 1
    /\ UNCHANGED <<rpc, swaps, incapable, unsyncable, proc, current, stopping, call, faults>>

\* The chain-RPC dialog; the next use gets another sidecar.
SwapRpc(r) ==
    /\ r # rpc /\ swaps < MaxSwaps
    /\ rpc' = r /\ swaps' = swaps + 1
    /\ UNCHANGED <<height, incapable, unsyncable, proc, current, stopping, call, faults>>

Init ==
    /\ height = 1 /\ rpc \in Rpcs
    /\ incapable = {} /\ unsyncable = FALSE
    /\ proc = [p \in Procs |-> NoProc]
    /\ current = None /\ stopping = {}
    /\ call = [c \in Callers |-> NoCall]
    /\ swaps = 0 /\ faults = 0

CallerStep(c) ==
    \/ Ensure(c) \/ WaitReady(c) \/ CheckFresh(c) \/ ReadUses(c)
    \/ PreviewChecks(c) \/ ForkStarts(c) \/ ForkEnds(c) \/ ForkUnprovable(c)

Next ==
    \/ \E p \in Procs : Follows(p) \/ FallsBehind(p) \/ Complains(p) \/ Ends(p)
    \/ Tick
    \/ \E c \in Callers : Ask(c) \/ CallerStep(c)
    \/ NewBlock
    \/ \E r \in Rpcs : SwapRpc(r)

Spec == Init /\ [][Next]_vars

----------------------------------------------------------------------------
(* Properties *)

TypeOK ==
    /\ height \in 1 .. LastBlock /\ rpc \in Rpcs
    /\ incapable \subseteq Rpcs \ {Bundled}
    /\ current \in Procs \cup {None} /\ stopping \subseteq Live
    /\ \A c \in Callers : call[c].sc \in Procs \cup {None}

\* No process is left running that nobody would stop: whatever threads spawn,
\* replace and give up at once, a live process is the registered one or has
\* been told to end.  (_ensure_sidecar, stop, _give_up)
NoOrphan == Live \subseteq {current} \cup stopping

\* A caller stops a process only if that reads from another endpoint than the
\* caller is to use, or is the one it found without progress: of two callers
\* that find one process wedged, the second does not stop the first's successor.
OnlyTheWedgedIsReplaced ==
    [][\A c \in Callers, p \in Procs :
         Ensure(c) /\ p \in stopping' \ stopping =>
            p = call[c].sc \/ proc[p].rpc # ExecutionRpc(call[c].rpc)]_vars

\* A preview on verified state whose floor was compared is not run before the
\* wallet's own block: the light client was there, and the distance kept from
\* its head stops at the floor.  (A preview that was run again, or whose light
\* client did not say where it is, has not that promise.)
PreviewSeesFloor ==
    \A c \in Callers : call[c].stage = "forked" /\ call[c].checked =>
        call[c].at >= call[c].floor

\* The same of every preview on verified state.
EveryPreviewSeesFloor ==
    \A c \in Callers : call[c].stage = "forked" => call[c].at >= call[c].floor
=============================================================================
