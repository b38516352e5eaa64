------------------------ MODULE EarlierReleasesProofs ------------------------
(***************************************************************************)
(* Proofs about EarlierReleases for any number of spares and attempts and  *)
(* whichever kernel calls are refused: the top-level release never has two *)
(* worker threads, and never reaches the one it has built.  Both rest on   *)
(* its slot, which is filled once and then makes every later rebuild fail. *)
(***************************************************************************)
EXTENDS EarlierReleases, TLAPS

BuildPc == {"configure", "writeRegisters", "resume"}

\* The only TCB ever built is 1; it runs only after 0 was stopped for good, and
\* from then on the slot is full.
Inv ==
  /\ tstate \in [TCBs -> ThreadState]
  /\ fresh \in {0, 1}
  /\ \A t \in TCBs : t > 1 => tstate[t] = "inactive"
  /\ fresh = 0 => tstate[1] = "inactive"
  /\ pmPc \in BuildPc => fresh = 1 /\ tstate[1] # "running"
  /\ pmPc \in BuildPc \cup {"retype"} => tstate[0] = "suspended"
  /\ tstate[1] = "running" => tstate[0] = "suspended"

LEMMA TcbFacts == /\ 0 \in TCBs /\ 1 \in TCBs /\ Spares \subseteq TCBs
                  /\ TCBs \subseteq Nat /\ Original = 0
  BY DataportsAssumption DEF TCBs, Spares, Original

LEMMA InitInv == Init => Inv
  BY TcbFacts DEF Init, DataportsInit, ProcManInit, Inv, ThreadState, BuildPc

\* No step of the loop around the attempts, and no cooperative restart, touches
\* a TCB or is followed by a step of the rebuild.
LEMMA LoopStep ==
  ASSUME SupervisorLoop \/ CooperativeRestart
  PROVE  /\ UNCHANGED tstate
         /\ pmPc' \notin BuildPc \cup {"retype"}
  BY DEF SupervisorLoop, CooperativeRestart, PmStart, PmCheckSeverity, SeeKill,
         PmSeeRecovery, PmGiveUp, PmRaiseRestart, PmPollRestart, PmPollKill,
         PmWithdraw, PmTimeout, LeaveCooperative, BuildPc, threadVars

\* What each step of ProcMan does to the two TCBs and the slot.
LEMMA ProcManStep1 ==
  ASSUME Inv, ProcManRuns
  PROVE  Inv' /\ (tstate[1] = "running" => tstate'[1] = "running")
<1> USE TcbFacts DEF BuildPc
<1>1. CASE OneShotRun
  BY <1>1 DEF Inv, OneShotRun, threadVars
<1>2. CASE RecoveredRun
  <2>1. CASE SupervisorLoop
    BY <1>2, <2>1, LoopStep DEF Inv, RecoveredRun
  <2>2. CASE HoldRequest \/ EndHold
    BY <1>2, <2>2 DEF Inv, RecoveredRun, HoldRequest, EndHold, threadVars, SupervisorLoop,
         PmStart, PmCheckSeverity, SeeKill, PmSeeRecovery, PmGiveUp
  <2> QED
    BY <1>2, <2>1, <2>2 DEF RecoveredRun
<1>3. CASE RetypeRun
  <2>1. CASE (SupervisorLoop \/ CooperativeRestart) /\ UNCHANGED fresh
    BY <2>1, LoopStep DEF Inv
  <2>2. CASE SuspendFirst
    BY <2>2 DEF Inv, SuspendFirst, ThreadState
  <2>3. CASE Retype
    BY <2>3 DEF Inv, Retype, RebuildAborts, threadVars
  <2>4. CASE ConfigureFresh
    BY <2>4 DEF Inv, ConfigureFresh, RebuildAborts, threadVars, ThreadState
  <2>5. CASE WriteFreshRegisters
    BY <2>5 DEF Inv, WriteFreshRegisters, RebuildAborts, threadVars
  <2>6. CASE ResumeFresh
    BY <2>6 DEF Inv, ResumeFresh, RebuildAborts, threadVars, ThreadState
  <2> QED
    BY <1>3, <2>1, <2>2, <2>3, <2>4, <2>5, <2>6 DEF RetypeRun, EnforcedRestart
<1> QED
  BY <1>1, <1>2, <1>3 DEF ProcManRuns

LEMMA Step ==
  ASSUME Inv, [Next]_vars
  PROVE  Inv' /\ (tstate[1] = "running" => tstate'[1] = "running")
<1>1. CASE \E t \in TCBs : WorkerRuns(t)
  BY <1>1 DEF WorkerRuns, procmanVars, Inv
<1>2. CASE WatchdogRuns
  BY <1>2 DEF WatchdogRuns, procmanVars, threadVars, Inv
<1>3. CASE ProcManRuns
  BY <1>3, ProcManStep1
<1>4. CASE ReportSeverity
  BY <1>4 DEF ReportSeverity, procmanVars, threadVars, Inv
<1>5. CASE UNCHANGED vars
  BY <1>5 DEF vars, sharedVars, procmanVars, Inv
<1> QED
  BY <1>1, <1>2, <1>3, <1>4, <1>5 DEF Next

LEMMA Invariance == Spec => []Inv
  BY InitInv, Step, PTL DEF Spec

\* Two worker threads never run at once: procman.c lines 106 to 152 at top level.
THEOREM OnlyOneWorker == Spec => []OneWorkerRuns
<1>1. Inv => OneWorkerRuns
  BY TcbFacts DEF Inv, OneWorkerRuns
<1> QED
  BY <1>1, Invariance, PTL

\* A rebuilt worker is never stopped again: line 108 always names the first TCB.
THEOREM NobodyStopsIt == Spec => RebuiltIsOutOfReach
<1>1. ASSUME Inv, [Next]_vars
      PROVE  [\A t \in Spares : tstate[t] = "running" => tstate'[t] = "running"]_vars
  BY <1>1, Step, TcbFacts DEF Inv, Spares
<1> QED
  BY <1>1, Invariance, PTL DEF Spec, RebuiltIsOutOfReach

==============================================================================
