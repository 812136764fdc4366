------------------------ MODULE VerifiedReadsProofs ------------------------
(***************************************************************************)
(* The light client's processes, for any number of threads, processes and  *)
(* endpoints: none is left running that nobody would stop (NoOrphan), and  *)
(* a preview whose floor was compared does not run before it               *)
(* (PreviewSeesFloor).                                                     *)
(*                                                                         *)
(* NoOrphan is inductive beside the types.  PreviewSeesFloor is not: the   *)
(* floor is compared at one step and the block chosen at a later one, on   *)
(* whatever head the process has by then.  It needs that the process a     *)
(* caller holds is the same one, and that a process that still runs has    *)
(* not gone back (FloorReached).                                           *)
(***************************************************************************)
EXTENDS VerifiedReads, TLAPS

Processes == [rpc : Rpcs \cup {None}, alive : BOOLEAN, fresh : BOOLEAN, head : Nat,
              ready : BOOLEAN, stuck : Nat, idle : Nat]

Early == {"idle", "ensure"}
Later == {"replace", "wait", "rewait", "check", "ready", "fork", "forked"}
Stages == Early \cup Later

CallRecords == [stage : Stages, kind : Kinds, rpc : Rpcs \cup {None}, sc : Procs \cup {None},
                floor : Nat, retried : BOOLEAN, checked : BOOLEAN, at : Nat]

Types ==
    /\ height \in Nat /\ rpc \in Rpcs
    /\ proc \in [Procs -> Processes]
    /\ call \in [Callers -> CallRecords]
    /\ current \in Procs \cup {None}
    /\ \A c \in Callers : call[c].stage \in Later => call[c].sc \in Procs

\* A comparison is made once the process is ready, and forgotten with the call.
CheckedLate == \A c \in Callers : call[c].checked => call[c].stage \in {"fork", "forked"}

\* The process that was ahead of the floor still is, unless it ended.
FloorReached ==
    \A c \in Callers : call[c].stage = "fork" /\ call[c].checked /\ proc[call[c].sc].alive =>
        call[c].floor <= proc[call[c].sc].head

IInv == Types /\ NoOrphan /\ CheckedLate /\ FloorReached /\ PreviewSeesFloor

-----------------------------------------------------------------------------
(* The operators. *)

LEMMA RecordTypes == NoProc \in Processes /\ NoCall \in CallRecords
  BY DEF NoProc, Processes, NoCall, CallRecords, Stages, Early, Kinds

\* The block of a preview is not before a floor that the head has reached.
LEMMA ForkBlockSeesFloor ==
    ASSUME IInv, NEW c \in Callers, call[c].sc \in Procs,
           call[c].floor <= proc[call[c].sc].head
    PROVE  ForkBlock(c) >= call[c].floor
<1> DEFINE h == proc[call[c].sc].head
           f == call[c].floor
<1>1. h \in Nat /\ f \in Nat /\ Lag \in Nat /\ f <= h
  BY VerifiedAssumption DEF IInv, Types, Processes, CallRecords
<1>2. ForkBlock(c) = LET target == Maximum(IF h > Lag THEN h - Lag ELSE 0, Minimum(f, h))
                     IN  IF target > 0 THEN target ELSE h
  BY DEF ForkBlock
<1> HIDE DEF h, f
<1>3. ForkBlock(c) >= f
  BY <1>1, <1>2 DEF Maximum, Minimum
<1> QED
  BY <1>3 DEF f

LEMMA ForkBlockType ==
    ASSUME IInv, NEW c \in Callers, call[c].sc \in Procs
    PROVE  ForkBlock(c) \in Nat
<1> DEFINE h == proc[call[c].sc].head
           f == call[c].floor
<1>1. h \in Nat /\ f \in Nat /\ Lag \in Nat
  BY VerifiedAssumption DEF IInv, Types, Processes, CallRecords
<1>2. ForkBlock(c) = LET target == Maximum(IF h > Lag THEN h - Lag ELSE 0, Minimum(f, h))
                     IN  IF target > 0 THEN target ELSE h
  BY DEF ForkBlock
<1> HIDE DEF h, f
<1> QED
  BY <1>1, <1>2 DEF Maximum, Minimum

-----------------------------------------------------------------------------
(* What a step may change: a step that leaves the processes' ends alone, and *)
(* one that leaves the calls alone.                                          *)

\* The calls stay; a process that runs afterwards ran before, no further.
LEMMA ProcessStep ==
    ASSUME IInv, proc' \in [Procs -> Processes],
           UNCHANGED <<rpc, current, call>>, height' \in Nat,
           \A p \in Procs : proc'[p].alive =>
                proc[p].alive /\ proc[p].head <= proc'[p].head /\ (p \in stopping => p \in stopping')
    PROVE  IInv'
<1>1. Types'
  BY DEF IInv, Types
<1>2. NoOrphan'
  BY DEF IInv, NoOrphan, Live
<1>3. FloorReached'
  <2> SUFFICES ASSUME NEW c \in Callers,
                      call'[c].stage = "fork", call'[c].checked, proc'[call'[c].sc].alive
               PROVE  call'[c].floor <= proc'[call'[c].sc].head
    BY DEF FloorReached
  <2> DEFINE p == call[c].sc
  <2>1. p \in Procs
    BY DEF IInv, Types, Later
  <2>2. proc[p].alive /\ proc[p].head <= proc'[p].head
    BY <2>1
  <2>3. call[c].floor <= proc[p].head
    BY <2>2 DEF IInv, FloorReached
  <2>4. call[c].floor \in Nat /\ proc[p].head \in Nat /\ proc'[p].head \in Nat
    BY <2>1 DEF IInv, Types, CallRecords, Processes
  <2> QED
    BY <2>2, <2>3, <2>4
<1>4. CheckedLate' /\ PreviewSeesFloor'
  BY DEF IInv, CheckedLate, PreviewSeesFloor
<1> QED
  BY <1>1, <1>2, <1>3, <1>4 DEF IInv

\* A caller moves on to r; the processes run and are registered as before.
LEMMA CallStep ==
    ASSUME IInv, NEW c \in Callers, NEW r \in CallRecords,
           call' = [call EXCEPT ![c] = r],
           proc' \in [Procs -> Processes],
           \A p \in Procs : proc'[p].alive = proc[p].alive /\ proc'[p].head = proc[p].head,
           UNCHANGED <<height, rpc, current, stopping>>,
           r.stage \in Later => r.sc \in Procs,
           r.checked => r.stage \in {"fork", "forked"},
           r.stage = "fork" /\ r.checked => r.floor <= proc[r.sc].head,
           r.stage = "forked" /\ r.checked => r.at >= r.floor
    PROVE  IInv'
<1>0. \A d \in Callers : call'[d] = IF d = c THEN r ELSE call[d]
  BY DEF IInv, Types
<1>1. Types'
  BY <1>0 DEF IInv, Types
<1>2. NoOrphan'
  BY DEF IInv, NoOrphan, Live
<1>3. CheckedLate'
  BY <1>0 DEF IInv, CheckedLate
<1>4. FloorReached'
  <2> SUFFICES ASSUME NEW d \in Callers,
                      call'[d].stage = "fork", call'[d].checked, proc'[call'[d].sc].alive
               PROVE  call'[d].floor <= proc'[call'[d].sc].head
    BY DEF FloorReached
  <2>1. call'[d].sc \in Procs
    BY <1>1 DEF Types, Later
  <2> QED
    BY <1>0, <2>1 DEF IInv, FloorReached
<1>5. PreviewSeesFloor'
  BY <1>0 DEF IInv, PreviewSeesFloor
<1> QED
  BY <1>1, <1>2, <1>3, <1>4, <1>5 DEF IInv

\* A call is given up, or ends.
LEMMA DoneKeeps ==
    ASSUME IInv, NEW c \in Callers, Done(c), UNCHANGED <<height, rpc, proc, current, stopping>>
    PROVE  IInv'
<1>1. proc' \in [Procs -> Processes]
  BY DEF IInv, Types
<1>2. NoCall \in CallRecords /\ NoCall.stage \notin Later /\ ~NoCall.checked
      /\ NoCall.stage \notin {"fork", "forked"}
  BY RecordTypes DEF NoCall, Later
<1> HIDE DEF NoCall
<1> QED
  BY <1>1, <1>2, CallStep DEF Done

-----------------------------------------------------------------------------
(* The processes. *)

LEMMA FollowsKeeps ==
    ASSUME IInv, NEW p \in Procs, Follows(p)
    PROVE  IInv'
<1>1. PICK h \in Maximum(1, proc[p].head) .. height :
        proc' = [proc EXCEPT ![p].fresh = TRUE, ![p].head = h, ![p].stuck = 0, ![p].idle = 0]
  BY DEF Follows
<1>2. proc[p].head \in Nat /\ height \in Nat
  BY DEF IInv, Types, Processes
<1>3. h \in Nat /\ proc[p].head <= h
  BY <1>1, <1>2 DEF Maximum
<1> DEFINE n == [proc[p] EXCEPT !.fresh = TRUE, !.head = h, !.stuck = 0, !.idle = 0]
<1>n. n \in Processes /\ n.alive = proc[p].alive /\ n.head = h
  BY ZenonT(60), <1>3 DEF IInv, Types, Processes
<1>p. proc' = [proc EXCEPT ![p] = n]
  BY <1>1 DEF IInv, Types
<1> HIDE DEF n
<1>4. proc' \in [Procs -> Processes]
  BY <1>n, <1>p DEF IInv, Types
<1>5. \A q \in Procs : proc'[q].alive = proc[q].alive
                       /\ (proc'[q].head = proc[q].head \/ (q = p /\ proc'[q].head = h))
  BY <1>n, <1>p DEF IInv, Types
<1>6. \A q \in Procs : proc[q].head <= proc'[q].head
  BY <1>3, <1>5 DEF IInv, Types, Processes
<1>7. UNCHANGED <<height, rpc, current, call, stopping>>
  BY DEF Follows, envVars
<1> QED
  BY <1>2, <1>4, <1>5, <1>6, <1>7, ProcessStep

LEMMA FallsBehindKeeps ==
    ASSUME IInv, NEW p \in Procs, FallsBehind(p)
    PROVE  IInv'
<1>1. proc' \in [Procs -> Processes]
  BY DEF FallsBehind, IInv, Types, Processes
<1>2. \A q \in Procs : proc'[q].alive = proc[q].alive /\ proc[q].head <= proc'[q].head
  BY DEF FallsBehind, IInv, Types, Processes
<1>3. UNCHANGED <<height, rpc, current, call, stopping>>
  BY DEF FallsBehind, envVars
<1> QED
  BY <1>1, <1>2, <1>3, ProcessStep DEF IInv, Types

LEMMA ComplainsKeeps ==
    ASSUME IInv, NEW p \in Procs, Complains(p)
    PROVE  IInv'
<1>1. proc' \in [Procs -> Processes]
  BY DEF Complains, IInv, Types, Processes
<1>2. \A q \in Procs : proc'[q].alive = proc[q].alive /\ proc[q].head <= proc'[q].head
  BY DEF Complains, IInv, Types, Processes
<1>3. UNCHANGED <<height, rpc, current, call>> /\ stopping \subseteq stopping'
  BY DEF Complains, envVars
<1> QED
  BY <1>1, <1>2, <1>3, ProcessStep DEF IInv, Types

\* One that ended need not be stopped any more.
LEMMA EndsKeeps ==
    ASSUME IInv, NEW p \in Procs, Ends(p)
    PROVE  IInv'
<1> DEFINE n == [proc[p] EXCEPT !.alive = FALSE, !.fresh = FALSE, !.head = 0, !.stuck = 0]
<1>n. n \in Processes /\ ~n.alive
  BY DEF IInv, Types, Processes
<1>p. proc' = [proc EXCEPT ![p] = n]
  BY DEF Ends, IInv, Types
<1> HIDE DEF n
<1>1. proc' \in [Procs -> Processes]
  BY <1>n, <1>p DEF IInv, Types
<1>2. \A q \in Procs : proc'[q].alive => q # p /\ proc'[q] = proc[q]
  BY <1>n, <1>p DEF IInv, Types
<1>3. \A q \in Procs : proc'[q].alive => proc[q].alive /\ proc[q].head <= proc'[q].head
  BY <1>2 DEF IInv, Types, Processes
<1>4. UNCHANGED <<height, rpc, current, call>> /\ stopping' = stopping \ {p}
  BY DEF Ends, envVars
<1> QED
  BY <1>1, <1>2, <1>3, <1>4, ProcessStep DEF IInv, Types

LEMMA TickKeeps ==
    ASSUME IInv, Tick
    PROVE  IInv'
<1>1. \A q \in Procs : proc'[q] \in Processes /\ proc'[q].alive = proc[q].alive
                       /\ proc'[q].head = proc[q].head
  BY DEF Tick, IInv, Types, Processes
<1>2. proc' \in [Procs -> Processes]
  BY <1>1 DEF Tick
<1>3. \A q \in Procs : proc[q].head <= proc'[q].head
  BY <1>1 DEF IInv, Types, Processes
<1>4. UNCHANGED <<height, rpc, current, call, stopping>>
  BY DEF Tick, envVars
<1> QED
  BY <1>1, <1>2, <1>3, <1>4, ProcessStep DEF IInv, Types

-----------------------------------------------------------------------------
(* The callers. *)

LEMMA AskKeeps ==
    ASSUME IInv, NEW c \in Callers, Ask(c)
    PROVE  IInv'
<1>1. PICK k \in Kinds :
        call' = [call EXCEPT ![c] = [NoCall EXCEPT !.stage = "ensure", !.kind = k,
                    !.rpc = rpc, !.floor = IF k = "preview" THEN height ELSE 0]]
  BY DEF Ask
<1> DEFINE r == [NoCall EXCEPT !.stage = "ensure", !.kind = k,
                    !.rpc = rpc, !.floor = IF k = "preview" THEN height ELSE 0]
<1>2. r \in CallRecords /\ r.stage = "ensure" /\ ~r.checked
  BY RecordTypes DEF NoCall, CallRecords, Stages, Early, Later, IInv, Types
<1>3. UNCHANGED <<height, rpc, proc, current, stopping>> /\ call' = [call EXCEPT ![c] = r]
  BY <1>1 DEF Ask, envVars
<1> HIDE DEF r
<1> QED
  BY <1>2, <1>3, CallStep DEF IInv, Types, Later

\* A process is spawned under an identifier that no caller holds.
LEMMA SpawnKeeps ==
    ASSUME IInv, NEW c \in Callers, NEW p \in Free, call[c].stage \in {"ensure", "replace"},
           proc' = [proc EXCEPT ![p] =
                      [NoProc EXCEPT !.alive = TRUE, !.rpc = ExecutionRpc(call[c].rpc)]],
           current' = p, Uses(c, p), stopping' = Retired, UNCHANGED <<height, rpc>>
    PROVE  IInv'
<1>1. p \in Procs /\ p # current /\ \A d \in Callers : call[d].sc # p
  BY DEF Free, Held
<1>2. ExecutionRpc(call[c].rpc) \in Rpcs \cup {None}
  BY VerifiedAssumption DEF ExecutionRpc, IInv, Types, CallRecords
<1>3. [NoProc EXCEPT !.alive = TRUE, !.rpc = ExecutionRpc(call[c].rpc)] \in Processes
  BY <1>2, RecordTypes DEF NoProc, Processes
<1>4. proc' \in [Procs -> Processes] /\ \A q \in Procs : q # p => proc'[q] = proc[q]
  BY <1>1, <1>3 DEF IInv, Types
<1>5. /\ call'[c] \in CallRecords /\ call'[c].sc = p
      /\ call'[c].stage \in {"wait", "rewait"} /\ call'[c].checked = call[c].checked
      /\ \A d \in Callers : d # c => call'[d] = call[d]
      /\ call' \in [Callers -> CallRecords]
  BY <1>1 DEF Uses, IInv, Types, CallRecords, Stages, Later
<1>6. Types'
  BY <1>1, <1>4, <1>5 DEF IInv, Types
<1>7. NoOrphan'
  BY <1>1, <1>4 DEF IInv, NoOrphan, Live, Retired
<1>8. CheckedLate'
  BY <1>5 DEF IInv, CheckedLate
<1>9. FloorReached'
  <2> SUFFICES ASSUME NEW d \in Callers,
                      call'[d].stage = "fork", call'[d].checked, proc'[call'[d].sc].alive
               PROVE  call'[d].floor <= proc'[call'[d].sc].head
    BY DEF FloorReached
  <2>1. d # c /\ call'[d] = call[d]
    BY <1>5
  <2>2. call[d].sc \in Procs /\ call[d].sc # p
    BY <1>1, <2>1 DEF IInv, Types, Later
  <2> QED
    BY <1>4, <2>1, <2>2 DEF IInv, FloorReached
<1>10. PreviewSeesFloor'
  BY <1>5 DEF IInv, PreviewSeesFloor
<1> QED
  BY <1>6, <1>7, <1>8, <1>9, <1>10 DEF IInv

LEMMA EnsureKeeps ==
    ASSUME IInv, NEW c \in Callers, Ensure(c)
    PROVE  IInv'
<1>0. call[c].stage \in {"ensure", "replace"} /\ ~call[c].checked
      /\ UNCHANGED <<height, rpc>>
  BY DEF Ensure, envVars, IInv, CheckedLate
<1>1. CASE Usable(c) /\ Uses(c, current) /\ UNCHANGED <<proc, current, stopping, faults>>
  <2> DEFINE r == [call[c] EXCEPT !.sc = current,
                                  !.stage = IF @ = "ensure" THEN "wait" ELSE "rewait"]
  <2>1. current \in Procs
    BY <1>1 DEF Usable, IInv, Types
  <2>2. r \in CallRecords /\ r.sc \in Procs /\ r.stage \in {"wait", "rewait"} /\ ~r.checked
    BY <1>0, <2>1 DEF IInv, Types, CallRecords, Stages, Later
  <2>3. call' = [call EXCEPT ![c] = r]
    BY <1>1 DEF Uses, IInv, Types, CallRecords
  <2> HIDE DEF r
  <2> QED
    BY <1>0, <1>1, <2>2, <2>3, CallStep DEF IInv, Types
<1>2. CASE /\ ~Usable(c)
           /\ \E p \in Free :
               /\ proc' = [proc EXCEPT ![p] =
                             [NoProc EXCEPT !.alive = TRUE, !.rpc = ExecutionRpc(call[c].rpc)]]
               /\ current' = p
               /\ Uses(c, p)
           /\ stopping' = Retired
  BY <1>0, <1>2, SpawnKeeps
<1>3. CASE Done(c) /\ UNCHANGED <<proc, current, stopping>>
  BY <1>0, <1>3, DoneKeeps
<1> QED
  BY <1>1, <1>2, <1>3 DEF Ensure

LEMMA WaitReadyKeeps ==
    ASSUME IInv, NEW c \in Callers, WaitReady(c)
    PROVE  IInv'
<1> DEFINE p == call[c].sc
           r == [call[c] EXCEPT !.stage = IF call[c].stage = "wait" THEN "check" ELSE "ready"]
<1>0. p \in Procs /\ call[c].stage \in {"wait", "rewait"} /\ ~call[c].checked
      /\ UNCHANGED <<height, rpc, current, stopping>>
  BY DEF WaitReady, envVars, IInv, Types, CheckedLate, Later
<1>1. CASE /\ proc' = IF proc[p].ready THEN proc
                      ELSE [proc EXCEPT ![p].ready = TRUE, ![p].idle = 0]
           /\ call' = [call EXCEPT ![c].stage =
                         IF call[c].stage = "wait" THEN "check" ELSE "ready"]
  <2>1. proc' \in [Procs -> Processes]
    BY ZenonT(60), <1>0, <1>1 DEF IInv, Types, Processes
  <2>2. \A q \in Procs : proc'[q].alive = proc[q].alive /\ proc'[q].head = proc[q].head
    BY <1>0, <1>1 DEF IInv, Types, Processes
  <2>3. r \in CallRecords /\ r.sc \in Procs /\ r.stage \in {"check", "ready"} /\ ~r.checked
    BY <1>0 DEF IInv, Types, CallRecords, Stages, Later
  <2>4. call' = [call EXCEPT ![c] = r]
    BY <1>1 DEF IInv, Types, CallRecords
  <2> HIDE DEF r
  <2> QED
    BY <1>0, <2>1, <2>2, <2>3, <2>4, CallStep
<1>2. CASE Done(c) /\ UNCHANGED proc
  BY <1>0, <1>2, DoneKeeps
<1> QED
  BY <1>1, <1>2 DEF WaitReady

LEMMA CheckFreshKeeps ==
    ASSUME IInv, NEW c \in Callers, CheckFresh(c)
    PROVE  IInv'
<1> DEFINE p == call[c].sc
<1>0. p \in Procs /\ call[c].stage = "check" /\ ~call[c].checked
      /\ UNCHANGED <<height, rpc, current, stopping>>
  BY DEF CheckFresh, envVars, IInv, Types, CheckedLate, Later
<1>1. CASE Done(c) /\ UNCHANGED proc
  BY <1>0, <1>1, DoneKeeps
<1>2. ASSUME NEW st \in {"ready", "replace"}, call' = [call EXCEPT ![c].stage = st],
             proc' = proc \/ proc' = [proc EXCEPT ![p].idle = 0]
      PROVE  IInv'
  <2> DEFINE r == [call[c] EXCEPT !.stage = st]
  <2>1. proc' \in [Procs -> Processes]
    BY <1>0, <1>2 DEF IInv, Types, Processes
  <2>2. \A q \in Procs : proc'[q].alive = proc[q].alive /\ proc'[q].head = proc[q].head
    BY <1>0, <1>2 DEF IInv, Types, Processes
  <2>3. r \in CallRecords /\ r.sc \in Procs /\ r.stage = st /\ ~r.checked
    BY <1>0, <1>2 DEF IInv, Types, CallRecords, Stages, Later
  <2>4. call' = [call EXCEPT ![c] = r]
    BY <1>2 DEF IInv, Types, CallRecords
  <2> HIDE DEF r
  <2> QED
    BY <1>0, <1>2, <2>1, <2>2, <2>3, <2>4, CallStep
<1> QED
  BY <1>1, <1>2 DEF CheckFresh

\* The comparison, or none.
LEMMA PreviewChecksKeeps ==
    ASSUME IInv, NEW c \in Callers, PreviewChecks(c)
    PROVE  IInv'
<1> DEFINE p == call[c].sc
<1>0. /\ p \in Procs /\ call[c].stage = "ready" /\ ~call[c].checked
      /\ UNCHANGED <<height, rpc, proc, current, stopping>>
  BY DEF PreviewChecks, envVars, IInv, Types, CheckedLate, Later
<1>1. CASE Done(c)
  BY <1>0, <1>1, DoneKeeps
<1>2. CASE call' = [call EXCEPT ![c].stage = "fork"]
  <2> DEFINE r == [call[c] EXCEPT !.stage = "fork"]
  <2>1. r \in CallRecords /\ r.sc \in Procs /\ r.stage = "fork" /\ ~r.checked
    BY <1>0 DEF IInv, Types, CallRecords, Stages, Later
  <2>2. call' = [call EXCEPT ![c] = r]
    BY <1>2 DEF IInv, Types, CallRecords
  <2> HIDE DEF r
  <2> QED
    BY <1>0, <2>1, <2>2, CallStep DEF IInv, Types
<1>3. CASE ~FloorAhead(c) /\ call' = [call EXCEPT ![c].stage = "fork", ![c].checked = TRUE]
  <2> DEFINE r == [call[c] EXCEPT !.stage = "fork", !.checked = TRUE]
  <2>1. r \in CallRecords /\ r.sc = p /\ r.stage = "fork" /\ r.floor = call[c].floor
    BY <1>0 DEF IInv, Types, CallRecords, Stages, Later
  <2>2. call' = [call EXCEPT ![c] = r]
    BY <1>3 DEF IInv, Types, CallRecords
  <2>3. r.floor <= proc[r.sc].head
    BY <1>0, <1>3, <2>1 DEF FloorAhead, IInv, Types, CallRecords, Processes
  <2> HIDE DEF r
  <2> QED
    BY <1>0, <2>1, <2>2, <2>3, CallStep DEF IInv, Types
<1> QED
  BY <1>1, <1>2, <1>3 DEF PreviewChecks

LEMMA ForkStartsKeeps ==
    ASSUME IInv, NEW c \in Callers, ForkStarts(c)
    PROVE  IInv'
<1> DEFINE r == [call[c] EXCEPT !.stage = "forked", !.at = ForkBlock(c)]
<1>0. /\ call[c].sc \in Procs /\ call[c].stage = "fork" /\ proc[call[c].sc].alive
      /\ UNCHANGED <<height, rpc, proc, current, stopping>>
  BY DEF ForkStarts, envVars, IInv, Types, Later
<1>1. ForkBlock(c) \in Nat
  BY <1>0, ForkBlockType
<1>2. /\ r \in CallRecords /\ r.sc \in Procs /\ r.stage = "forked" /\ r.at = ForkBlock(c)
      /\ r.floor = call[c].floor /\ r.checked = call[c].checked
  BY <1>0, <1>1 DEF IInv, Types, CallRecords, Stages, Later
<1>3. call' = [call EXCEPT ![c] = r]
  BY DEF ForkStarts, IInv, Types, CallRecords
<1>4. r.checked => r.at >= r.floor
  BY <1>0, <1>2, ForkBlockSeesFloor DEF IInv, FloorReached
<1> HIDE DEF r
<1> QED
  BY <1>0, <1>2, <1>3, <1>4, CallStep DEF IInv, Types

\* Another endpoint: the preview starts over, and nothing is compared then.
LEMMA ForkUnprovableKeeps ==
    ASSUME IInv, NEW c \in Callers, ForkUnprovable(c)
    PROVE  IInv'
<1>0. UNCHANGED <<height, rpc, proc, current, stopping>>
  BY DEF ForkUnprovable, envVars
<1> DEFINE r == [NoCall EXCEPT !.stage = "ensure", !.kind = "preview", !.rpc = call[c].rpc,
                               !.floor = call[c].floor, !.retried = TRUE]
<1>1. r \in CallRecords /\ r.stage = "ensure" /\ ~r.checked
  BY RecordTypes DEF NoCall, CallRecords, Stages, Early, Kinds, IInv, Types
<1> HIDE DEF r
<1>2. CASE call' = [call EXCEPT ![c] = r]
  BY <1>0, <1>1, <1>2, CallStep DEF IInv, Types, Later
<1>3. CASE Done(c)
  BY <1>0, <1>3, DoneKeeps
<1> QED
  BY <1>2, <1>3 DEF ForkUnprovable, r

LEMMA CallerStepKeeps ==
    ASSUME IInv, NEW c \in Callers, CallerStep(c)
    PROVE  IInv'
<1>1. ReadUses(c) \/ ForkEnds(c) => IInv'
  BY DoneKeeps DEF ReadUses, ForkEnds, envVars
<1> QED
  BY <1>1, EnsureKeeps, WaitReadyKeeps, CheckFreshKeeps, PreviewChecksKeeps, ForkStartsKeeps,
     ForkUnprovableKeeps DEF CallerStep

-----------------------------------------------------------------------------
(* The invariant. *)

LEMMA InitHolds == Init => IInv
<1> SUFFICES ASSUME Init PROVE IInv
  OBVIOUS
<1>1. Types
  BY RecordTypes DEF Init, Types, NoCall, Later
<1>2. NoOrphan
  BY DEF Init, NoOrphan, Live, NoProc
<1>3. CheckedLate /\ FloorReached /\ PreviewSeesFloor
  BY DEF Init, CheckedLate, FloorReached, PreviewSeesFloor, NoCall
<1> QED
  BY <1>1, <1>2, <1>3 DEF IInv

LEMMA NextKeeps == IInv /\ [Next]_vars => IInv'
<1> SUFFICES ASSUME IInv, [Next]_vars PROVE IInv'
  OBVIOUS
<1>1. ASSUME NEW p \in Procs, Follows(p) \/ FallsBehind(p) \/ Complains(p) \/ Ends(p)
      PROVE  IInv'
  BY <1>1, FollowsKeeps, FallsBehindKeeps, ComplainsKeeps, EndsKeeps
<1>2. CASE Tick
  BY <1>2, TickKeeps
<1>3. ASSUME NEW c \in Callers, Ask(c) \/ CallerStep(c) PROVE IInv'
  BY <1>3, AskKeeps, CallerStepKeeps
<1>4. CASE NewBlock
  BY <1>4 DEF NewBlock, IInv, Types, NoOrphan, Live, CheckedLate, FloorReached, PreviewSeesFloor
<1>5. ASSUME NEW r \in Rpcs, SwapRpc(r) PROVE IInv'
  BY <1>5 DEF SwapRpc, IInv, Types, NoOrphan, Live, CheckedLate, FloorReached, PreviewSeesFloor
<1>6. CASE UNCHANGED vars
  BY <1>6 DEF vars, envVars, IInv, Types, NoOrphan, Live, CheckedLate, FloorReached,
              PreviewSeesFloor
<1> QED
  BY <1>1, <1>2, <1>3, <1>4, <1>5, <1>6 DEF Next

THEOREM Invariance == Spec => []IInv
<1> QED
  BY InitHolds, NextKeeps, PTL DEF Spec

\* No process is left running that nobody would stop, whatever threads spawn,
\* replace and give up at once. (_ensure_sidecar, stop, _give_up)
THEOREM NoneOrphaned == Spec => []NoOrphan
<1>1. IInv => NoOrphan
  BY DEF IInv
<1> QED
  BY <1>1, Invariance, PTL

\* A preview whose floor was compared does not run before the wallet's own
\* block, however long after the comparison its block is chosen.
\* (simulate_logs, _latest_block)
THEOREM FloorSeen == Spec => []PreviewSeesFloor
<1>1. IInv => PreviewSeesFloor
  BY DEF IInv
<1> QED
  BY <1>1, Invariance, PTL

\* Only the process that was found without progress, or one that reads from
\* another endpoint, is stopped: of two callers that find it wedged, the second
\* does not stop the successor the first has spawned. (_ensure_sidecar)
THEOREM SuccessorStays == Spec => OnlyTheWedgedIsReplaced
<1>1. ASSUME NEW c \in Callers, NEW p \in Procs, Ensure(c), p \in stopping' \ stopping
      PROVE  p = call[c].sc \/ proc[p].rpc # ExecutionRpc(call[c].rpc)
  <2>1. ~Usable(c) /\ stopping' = Retired
    BY <1>1 DEF Ensure
  <2>2. p = current /\ current \in Live
    BY <1>1, <2>1 DEF Retired
  <2>3. current # None /\ proc[current].alive
    BY <1>1, <2>2, VerifiedAssumption DEF Live
  <2> QED
    BY <2>1, <2>2, <2>3 DEF Usable
<1>2. [\A c \in Callers, p \in Procs :
          Ensure(c) /\ p \in stopping' \ stopping =>
             p = call[c].sc \/ proc[p].rpc # ExecutionRpc(call[c].rpc)]_vars
  BY <1>1
<1> QED
  BY <1>2, PTL DEF OnlyTheWedgedIsReplaced
=============================================================================
