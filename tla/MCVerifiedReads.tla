--------------------------- MODULE MCVerifiedReads ---------------------------
(***************************************************************************)
(* Two callers; the user's endpoint may fail to prove old state.  Processes*)
(* are interchangeable, and so are callers.                                *)
(***************************************************************************)
EXTENDS VerifiedReads, TLC

Symmetry == Permutations(Procs) \cup Permutations(Callers)

\* What a process was that is gone and that nobody knows makes no difference.
MCView ==
    <<envVars, incapable, unsyncable, current, stopping, call, faults,
      [p \in Procs |-> IF p \in Free THEN NoProc ELSE proc[p]]>>

\* The endpoint changes, or something fails: not both in one behaviour.
MCBudgets == swaps = 0 \/ faults = 0

\* The user's own endpoint at first.
MCInit == Init /\ rpc \in SendOnly
MCSpec == MCInit /\ [][Next]_vars
=============================================================================
