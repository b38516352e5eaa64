-------------------------- MODULE RecoveryLoopProofs --------------------------
(***************************************************************************)
(* Proofs about RecoveryLoop for every number of spares, attempts, polls   *)
(* and beats, for both builds of ProcMan and with kernel calls that fail.  *)
(* One inductive invariant, Inv, carries the safety results; the theorems  *)
(* at the end are its consequences.                                        *)
(***************************************************************************)
EXTENDS RecoveryLoop, TLAPS

BootPc == {"clearHeartbeat", "clearReady", "clearRestart", "setReady"}

\* Where a thread is in its program determines the range of its loop counter.
CounterInv ==
  \A t \in TCBs :
    /\ wpc[t] \in {"beats", "secondBeats"} => wcnt[t] \in 0 .. (Beats - 1)
    /\ wpc[t] = "loop" => wcnt[t] \in 0 .. CounterBound
    /\ wpc[t] = "recovered" =>
         wcnt[t] \in RecoveryBase .. (RecoveryBase
                       + (IF RepeatDeadlock THEN Beats - 1 ELSE CounterBound))

\* The bounded loops have not passed their bounds.
LoopInv ==
  /\ wdPc \in {"monitor", "window"} => fc < MissLimit
  /\ wdPc = "window" => poll < NormalPassPolls
  /\ pmPc \notin GiveUpPc => restarts <= MaxRestarts
  /\ pmPc \in CooperativePc \cup RebuildPc \cup {"suspend"} => restarts > 0
  /\ pmPc = "raiseRestart" => polls = 0
  /\ pmPc \in {"pollRestart", "pollKill"} => polls < WaitPolls
  /\ pmPc \notin CooperativePc => polls = 0 /\ ack = 0

\* The hand-over: attempts use up the spares in order, so the spares beyond the
\* last attempt are untouched and only the active TCB can be running.
HandoverInv ==
  /\ active <= restarts
  /\ \A t \in TCBs : t > restarts => tstate[t] = "inactive"
  /\ \A t \in TCBs : t # active => tstate[t] # "running"
  /\ pmPc \notin RebuildPc \cup GiveUpPc => tstate[active] = "running"
  /\ pmPc \in RebuildPc => tstate[active] = "suspended"
  /\ pmPc \in GiveUpPc => tstate[active] \in {"running", "suspended"}
  /\ pmPc \in RebuildPc \cup {"suspend"} =>
       /\ active < restarts
       /\ tstate[restarts] \in {"inactive", "configured"}

\* The two programs stay with their threads.
ProgramInv ==
  /\ wpc[Original] \in RunPc
  /\ \A t \in Spares : wpc[t] \in {"none"} \cup EntryPc

\* Each component learns of the next stage only after the one before it: the
\* worker is initialised before Watchdog monitors, and Watchdog monitors before
\* ProcMan is asked for anything.
BootInv ==
  /\ ready = 1 => wpc[Original] \notin BootPc
  /\ wdPc \notin {"clearKill", "clearSignal", "awaitReady"} => wpc[Original] \notin BootPc
  /\ kill_flag = 1 => wpc[Original] \notin BootPc
  /\ restarts > 0 => wpc[Original] \notin BootPc

RequestInv ==
  restart_flag = 1 => pmPc \in {"pollRestart", "pollKill", "withdraw", "timeout"}

\* A spare has been brought up.
Respawned == \E t \in Spares : tstate[t] \in {"running", "suspended"}

\* Heartbeats from RecoveryBase up exist only once a spare has been brought up.
RespawnInv ==
  /\ heartbeat >= RecoveryBase => Respawned
  /\ last >= RecoveryBase => Respawned
  /\ recovered >= RecoveryBase => Respawned
  /\ passes > 0 => Respawned
  /\ recovery_signal > 0 => Respawned

Inv ==
  /\ TypeOK /\ CounterInv /\ LoopInv
  /\ HandoverInv /\ ProgramInv /\ BootInv /\ RequestInv

------------------------------------------------------------------------------

\* The assumptions in the form the steps use.
LEMMA ConstantFacts ==
  /\ NSpares \in Nat /\ RecoveryBase \in Nat /\ Beats \in Nat /\ CounterBound \in Nat
  /\ NSpares > 0 /\ RecoveryBase > 0 /\ Beats > 0 /\ CounterBound > 0
  /\ MissLimit \in Nat /\ PassBound \in Nat /\ MaxRestarts \in Nat /\ WaitPolls \in Nat
  /\ MissLimit > 0 /\ PassBound > 0 /\ MaxRestarts > 0 /\ WaitPolls > 0
  /\ MaxRestarts <= NSpares
  /\ NormalPassPolls \in Nat /\ NormalPassPolls > 0
  /\ RepeatDeadlock \in BOOLEAN
  BY DataportsAssumption, WatchdogAssumption, ProcManAssumption,
     RecoveryLoopAssumption DEF NormalPassPolls

LEMMA InitInv == Init => Inv
<1> SUFFICES ASSUME Init PROVE Inv
    OBVIOUS
<1> USE ConstantFacts DEF Init, DataportsInit, WatchdogInit, ProcManInit
<1>1. TypeOK
  <2>1. DataportsTypeOK
    BY DEF DataportsTypeOK, Counts, RunCounts, TCBs, Original, ThreadState,
           WorkerPc, RunPc
  <2>2. WatchdogTypeOK
    BY DEF WatchdogTypeOK, Counts, RunCounts, WatchdogPc
  <2>3. ProcManTypeOK
    BY DEF ProcManTypeOK, TCBs, Original, ProcManPc, LoopPc
  <2> QED
    BY <2>1, <2>2, <2>3 DEF TypeOK
<1>2. CounterInv
  BY DEF CounterInv, TCBs, Original
<1>3. LoopInv
  BY DEF LoopInv, GiveUpPc, CooperativePc, RebuildPc
<1>4. HandoverInv
  BY DEF HandoverInv, TCBs, Original, RebuildPc, GiveUpPc
<1>5. ProgramInv
  <2>1. \A t \in Spares : t \in TCBs /\ t # Original
    BY DEF TCBs, Spares, Original
  <2>2. wpc[Original] = "clearHeartbeat"
    BY DEF TCBs, Original
  <2> QED
    BY <2>1, <2>2 DEF ProgramInv, RunPc
<1>6. BootInv /\ RequestInv
  BY DEF BootInv, RequestInv, BootPc
<1> QED
  BY <1>1, <1>2, <1>3, <1>4, <1>5, <1>6 DEF Inv

\* Every variable keeps its type and every loop its bound.
LEMMA TypeStep ==
  TypeOK /\ CounterInv /\ LoopInv /\ [Next]_vars
    => TypeOK' /\ CounterInv' /\ LoopInv'
<1> SUFFICES ASSUME TypeOK, CounterInv, LoopInv, [Next]_vars
             PROVE  TypeOK' /\ CounterInv' /\ LoopInv'
    OBVIOUS
<1> USE ConstantFacts
<1>1. CASE WorkerRuns
  <2>1. WatchdogTypeOK' /\ ProcManTypeOK' /\ LoopInv'
    BY <1>1 DEF WorkerRuns, watchdogVars, procmanVars, TypeOK, WatchdogTypeOK,
                ProcManTypeOK, LoopInv
  <2>2. PICK t \in TCBs : ThreadStep(t)
    BY <1>1 DEF WorkerRuns, WorkerNext
  <2>3. UNCHANGED <<kill_flag, recovery_signal, severity_buf, tstate>>
    BY <1>1 DEF WorkerRuns, WorkerNext
  <2>4. DataportsTypeOK' /\ CounterInv'
    <3> USE <2>3 DEF TypeOK, DataportsTypeOK, CounterInv, At, Goto, Count,
                 Counts, RunCounts, EntryCounts, WorkerPc, RunPc, EntryPc
    <3>1. CASE ClearHeartbeat(t)
      BY <3>1 DEF ClearHeartbeat
    <3>2. CASE ClearReady(t)
      BY <3>2 DEF ClearReady
    <3>3. CASE ClearRestart(t)
      BY <3>3 DEF ClearRestart
    <3>4. CASE SetReady(t)
      BY <3>4 DEF SetReady
    <3>5. CASE FirstBeats(t)
      BY <3>5 DEF FirstBeats, FiniteBeat
    <3>6. CASE SeeRestart(t)
      BY <3>6 DEF SeeRestart
    <3>7. CASE TakeRestart(t)
      BY <3>7 DEF TakeRestart
    <3>8. CASE ResetHeartbeat(t)
      BY <3>8 DEF ResetHeartbeat
    <3>9. CASE SecondBeats(t)
      BY <3>9 DEF SecondBeats, FiniteBeat
    <3>10. CASE LoopBeat(t)
      BY <3>10 DEF LoopBeat, EndlessBeat
    <3>11. CASE RecoveryEntry(t)
      BY <3>11 DEF RecoveryEntry
    <3>12. CASE RecoveredBeat(t)
      BY <3>12 DEF RecoveredBeat, FiniteBeat, EndlessBeat
    <3> QED
      BY <2>2, <3>1, <3>2, <3>3, <3>4, <3>5, <3>6, <3>7, <3>8, <3>9, <3>10, <3>11, <3>12 DEF ThreadStep
  <2> QED
    BY <2>1, <2>4 DEF TypeOK
<1>2. CASE WatchdogRuns
  <2>1. ProcManTypeOK' /\ CounterInv'
    BY <1>2 DEF WatchdogRuns, WatchdogNext, procmanVars, TypeOK, ProcManTypeOK, CounterInv
  <2>2. UNCHANGED <<heartbeat, ready, restart_flag, severity_buf, tstate, wpc, wcnt,
                    procmanVars>>
    BY <1>2 DEF WatchdogRuns, WatchdogNext
  <2>3. DataportsTypeOK' /\ WatchdogTypeOK' /\ LoopInv'
    <3> USE <2>2 DEF TypeOK, DataportsTypeOK, WatchdogTypeOK, LoopInv, WatchdogPc, procmanVars
    <3>1. CASE WdClearKill
      BY <3>1 DEF WdClearKill
    <3>2. CASE WdClearSignal
      BY <3>2 DEF WdClearSignal
    <3>3. CASE WdSeeReady
      BY <3>3 DEF WdSeeReady
    <3>4. CASE WdArm
      BY <3>4 DEF WdArm
    <3>5. CASE WdMonitor
      BY <3>5 DEF WdMonitor
    <3>6. CASE WdSetKill
      BY <3>6 DEF WdSetKill
    <3>7. CASE WdSeeBeat
      BY <3>7 DEF WdSeeBeat
    <3>8. CASE WdReadBeat
      BY <3>8 DEF WdReadBeat
    <3>9. CASE WdLowerKill
      BY <3>9 DEF WdLowerKill, AfterRecovery
    <3>10. CASE WdSignal
      BY <3>10 DEF WdSignal, AfterRecovery
    <3>11. CASE WdWindow
      BY <3>11 DEF WdWindow
    <3> QED
      BY <1>2, <3>1, <3>2, <3>3, <3>4, <3>5, <3>6, <3>7, <3>8, <3>9, <3>10, <3>11
      DEF WatchdogRuns, WatchdogNext, WatchdogStep
  <2> QED
    BY <2>1, <2>3 DEF TypeOK
<1>3. CASE ProcManRuns
  <2>1. WatchdogTypeOK'
    BY <1>3 DEF ProcManRuns, watchdogVars, TypeOK, WatchdogTypeOK
  <2>2. UNCHANGED <<heartbeat, ready, kill_flag, recovery_signal, severity_buf,
                    watchdogVars>>
    BY <1>3 DEF ProcManRuns, ProcManNext
  <2>3. DataportsTypeOK' /\ CounterInv' /\ ProcManTypeOK' /\ LoopInv'
    <3> USE <2>2 DEF TypeOK, DataportsTypeOK, CounterInv, ProcManTypeOK, LoopInv,
                 ProcManPc, LoopPc, CooperativePc, RebuildPc, GiveUpPc, threadVars,
                 watchdogVars
    <3>1. CASE PmStart
      BY <3>1 DEF PmStart
    <3>2. CASE PmCheckSeverity
      BY <3>2 DEF PmCheckSeverity
    <3>3. CASE PmSeeKill
      BY <3>3 DEF PmSeeKill
    <3>4. CASE PmSuspend
      BY <3>4 DEF PmSuspend, ThreadState
    <3>5. CASE PmConfigure
      BY <3>5 DEF PmConfigure, RebuildFails, ThreadState
    <3>6. CASE PmSetPriority
      BY <3>6 DEF PmSetPriority, RebuildFails
    <3>7. CASE PmWriteRegisters
      BY <3>7 DEF PmWriteRegisters, RebuildFails, WorkerPc, EntryPc, Counts, RunCounts
    <3>8. CASE PmResume
      BY <3>8 DEF PmResume, RebuildFails, ThreadState, SpareFor, TCBs
    <3>9. CASE PmRaiseRestart
      BY <3>9 DEF PmRaiseRestart
    <3>10. CASE PmPollRestart
      BY <3>10 DEF PmPollRestart
    <3>11. CASE PmPollKill
      BY <3>11 DEF PmPollKill
    <3>12. CASE PmWithdraw
      BY <3>12 DEF PmWithdraw, LeaveCooperative
    <3>13. CASE PmTimeout
      BY <3>13 DEF PmTimeout, LeaveCooperative
    <3>14. CASE PmSeeRecovery
      BY <3>14 DEF PmSeeRecovery
    <3>15. CASE PmGiveUp
      BY <3>15 DEF PmGiveUp
    <3> QED
      BY <1>3, <3>1, <3>2, <3>3, <3>4, <3>5, <3>6, <3>7, <3>8, <3>9, <3>10, <3>11, <3>12, <3>13, <3>14, <3>15
      DEF ProcManRuns, ProcManNext, ProcManStep
  <2> QED
    BY <2>1, <2>3 DEF TypeOK
<1>4. CASE DharmaNetRuns
  BY <1>4, RecoveryLoopAssumption
  DEF DharmaNetRuns, ReportSeverity, TypeOK, DataportsTypeOK, WatchdogTypeOK,
      ProcManTypeOK, CounterInv, LoopInv, threadVars, watchdogVars, procmanVars
<1>5. CASE UNCHANGED vars
  BY <1>5
  DEF vars, sharedVars, watchdogVars, procmanVars, TypeOK, DataportsTypeOK,
      WatchdogTypeOK, ProcManTypeOK, CounterInv, LoopInv
<1> QED
  BY <1>1, <1>2, <1>3, <1>4, <1>5 DEF Next

\* Within its bound an attempt has a spare of its own.
LEMMA SpareForAttempt ==
  ASSUME NEW n \in 1 .. MaxRestarts
  PROVE  SpareFor(n) = n /\ n \in Spares /\ n \in TCBs /\ n # Original
  BY ConstantFacts DEF SpareFor, Spares, TCBs, Original

\* ProcMan hands the worker over from one TCB to the next, never to a used one.
LEMMA HandoverStep ==
  TypeOK /\ LoopInv /\ HandoverInv /\ [Next]_vars => HandoverInv'
<1> SUFFICES ASSUME TypeOK, LoopInv, HandoverInv, [Next]_vars
             PROVE  HandoverInv'
    OBVIOUS
<1> USE ConstantFacts
<1>1. CASE ProcManRuns
  <2>1. /\ tstate \in [TCBs -> ThreadState]
        /\ active \in TCBs
        /\ restarts \in Nat
    BY DEF TypeOK, DataportsTypeOK, ProcManTypeOK
  <2>2. pmPc \in RebuildPc \cup {"suspend"} =>
          SpareFor(restarts) = restarts /\ restarts \in TCBs
    BY <2>1, SpareForAttempt DEF LoopInv, GiveUpPc, RebuildPc
  <2> QED
    <3> USE <2>1, <2>2 DEF LoopInv, HandoverInv, LoopPc, CooperativePc, RebuildPc,
                   GiveUpPc, ThreadState, TCBs, threadVars
    <3>1. CASE PmStart
      BY <3>1 DEF PmStart
    <3>2. CASE PmCheckSeverity
      BY <3>2 DEF PmCheckSeverity
    <3>3. CASE PmSeeKill
      BY <3>3 DEF PmSeeKill
    <3>4. CASE PmSuspend
      BY <3>4 DEF PmSuspend
    <3>5. CASE PmConfigure
      BY <3>5 DEF PmConfigure, RebuildFails
    <3>6. CASE PmSetPriority
      BY <3>6 DEF PmSetPriority, RebuildFails
    <3>7. CASE PmWriteRegisters
      BY <3>7 DEF PmWriteRegisters, RebuildFails
    <3>8. CASE PmResume
      BY <3>8 DEF PmResume, RebuildFails
    <3>9. CASE PmRaiseRestart
      BY <3>9 DEF PmRaiseRestart
    <3>10. CASE PmPollRestart
      BY <3>10 DEF PmPollRestart
    <3>11. CASE PmPollKill
      BY <3>11 DEF PmPollKill
    <3>12. CASE PmWithdraw
      BY <3>12 DEF PmWithdraw, LeaveCooperative
    <3>13. CASE PmTimeout
      BY <3>13 DEF PmTimeout, LeaveCooperative
    <3>14. CASE PmSeeRecovery
      BY <3>14 DEF PmSeeRecovery
    <3>15. CASE PmGiveUp
      BY <3>15 DEF PmGiveUp
    <3> QED
      BY <1>1, <3>1, <3>2, <3>3, <3>4, <3>5, <3>6, <3>7, <3>8, <3>9, <3>10, <3>11, <3>12, <3>13, <3>14, <3>15
      DEF ProcManRuns, ProcManNext, ProcManStep
<1>2. CASE WorkerRuns \/ WatchdogRuns \/ DharmaNetRuns \/ UNCHANGED vars
  BY <1>2
  DEF WorkerRuns, WorkerNext, WatchdogRuns, WatchdogNext, DharmaNetRuns,
      ReportSeverity, vars, sharedVars, procmanVars, threadVars, HandoverInv
<1> QED
  BY <1>1, <1>2 DEF Next

\* Only a cooperative restart raises restart_flag, and every way out clears it.
LEMMA RequestStep == TypeOK /\ RequestInv /\ [Next]_vars => RequestInv'
<1> SUFFICES ASSUME TypeOK, RequestInv, [Next]_vars
             PROVE  RequestInv'
    OBVIOUS
<1> USE DEF RequestInv
<1>1. CASE ProcManRuns
  <2> USE DEF TypeOK, DataportsTypeOK
  <2>1. CASE PmStart
    BY <2>1 DEF PmStart
  <2>2. CASE PmCheckSeverity
    BY <2>2 DEF PmCheckSeverity
  <2>3. CASE PmSeeKill
    BY <2>3 DEF PmSeeKill
  <2>4. CASE PmSuspend
    BY <2>4 DEF PmSuspend
  <2>5. CASE PmConfigure
    BY <2>5 DEF PmConfigure, RebuildFails
  <2>6. CASE PmSetPriority
    BY <2>6 DEF PmSetPriority, RebuildFails
  <2>7. CASE PmWriteRegisters
    BY <2>7 DEF PmWriteRegisters, RebuildFails
  <2>8. CASE PmResume
    BY <2>8 DEF PmResume, RebuildFails
  <2>9. CASE PmRaiseRestart
    BY <2>9 DEF PmRaiseRestart
  <2>10. CASE PmPollRestart
    BY <2>10 DEF PmPollRestart
  <2>11. CASE PmPollKill
    BY <2>11 DEF PmPollKill
  <2>12. CASE PmWithdraw
    BY <2>12 DEF PmWithdraw, LeaveCooperative
  <2>13. CASE PmTimeout
    BY <2>13 DEF PmTimeout, LeaveCooperative
  <2>14. CASE PmSeeRecovery
    BY <2>14 DEF PmSeeRecovery
  <2>15. CASE PmGiveUp
    BY <2>15 DEF PmGiveUp
  <2> QED
    BY <1>1, <2>1, <2>2, <2>3, <2>4, <2>5, <2>6, <2>7, <2>8, <2>9, <2>10, <2>11, <2>12, <2>13, <2>14, <2>15
    DEF ProcManRuns, ProcManNext, ProcManStep
<1>2. CASE WorkerRuns
  <2>1. restart_flag' \in {0, restart_flag} /\ pmPc' = pmPc
    BY <1>2
    DEF WorkerRuns, WorkerNext, ThreadStep, ClearHeartbeat, ClearReady,
        ClearRestart, SetReady, FirstBeats, SeeRestart, TakeRestart,
        ResetHeartbeat, SecondBeats, LoopBeat, RecoveryEntry, RecoveredBeat,
        FiniteBeat, EndlessBeat, procmanVars
  <2> QED
    BY <2>1
<1>3. CASE WatchdogRuns \/ DharmaNetRuns \/ UNCHANGED vars
  BY <1>3
  DEF WatchdogRuns, WatchdogNext, DharmaNetRuns, ReportSeverity, vars,
      sharedVars, procmanVars
<1> QED
  BY <1>1, <1>2, <1>3 DEF Next

\* run() is executed by the original TCB only, verse_recovery_entry by spares.
LEMMA ProgramStep ==
  TypeOK /\ LoopInv /\ ProgramInv /\ [Next]_vars => ProgramInv'
<1> SUFFICES ASSUME TypeOK, LoopInv, ProgramInv, [Next]_vars
             PROVE  ProgramInv'
    OBVIOUS
<1>1. wpc \in [TCBs -> WorkerPc] /\ Original \in TCBs /\ Original \notin Spares
  BY ConstantFacts DEF TypeOK, DataportsTypeOK, TCBs, Spares, Original
<1>2. CASE WorkerRuns
  <2>1. Spares \subseteq TCBs
    BY DEF Spares, TCBs
  <2>2. PICK t \in TCBs : ThreadStep(t)
    BY <1>2 DEF WorkerRuns, WorkerNext
  <2>3. t = Original \/ t \in Spares
    BY DEF TCBs, Spares, Original
  <2> QED
    <3> USE <1>1, <2>1, <2>3 DEF ProgramInv, RunPc, EntryPc, At, Goto
    <3>1. CASE ClearHeartbeat(t)
      BY <3>1 DEF ClearHeartbeat
    <3>2. CASE ClearReady(t)
      BY <3>2 DEF ClearReady
    <3>3. CASE ClearRestart(t)
      BY <3>3 DEF ClearRestart
    <3>4. CASE SetReady(t)
      BY <3>4 DEF SetReady
    <3>5. CASE FirstBeats(t)
      BY <3>5 DEF FirstBeats, FiniteBeat
    <3>6. CASE SeeRestart(t)
      BY <3>6 DEF SeeRestart
    <3>7. CASE TakeRestart(t)
      BY <3>7 DEF TakeRestart
    <3>8. CASE ResetHeartbeat(t)
      BY <3>8 DEF ResetHeartbeat
    <3>9. CASE SecondBeats(t)
      BY <3>9 DEF SecondBeats, FiniteBeat
    <3>10. CASE LoopBeat(t)
      BY <3>10 DEF LoopBeat, EndlessBeat
    <3>11. CASE RecoveryEntry(t)
      BY <3>11 DEF RecoveryEntry
    <3>12. CASE RecoveredBeat(t)
      BY <3>12 DEF RecoveredBeat, FiniteBeat, EndlessBeat
    <3> QED
      BY <2>2, <3>1, <3>2, <3>3, <3>4, <3>5, <3>6, <3>7, <3>8, <3>9, <3>10, <3>11, <3>12 DEF ThreadStep
<1>3. CASE ProcManRuns
  <2>1. CASE PmWriteRegisters
    <3>1. restarts \in 1 .. MaxRestarts
      BY <2>1, ConstantFacts
      DEF PmWriteRegisters, LoopInv, RebuildPc, GiveUpPc, TypeOK, ProcManTypeOK
    <3>2. SpareFor(restarts) # Original
      BY <3>1, SpareForAttempt
    <3>3. Spares \subseteq TCBs
      BY DEF Spares, TCBs
    <3>4. \/ wpc' = [wpc EXCEPT ![SpareFor(restarts)] = "entry"]
          \/ wpc' = wpc
      BY <2>1 DEF PmWriteRegisters, RebuildFails, threadVars
    <3> QED
      BY <1>1, <3>2, <3>3, <3>4 DEF ProgramInv, EntryPc
  <2>2. CASE ~PmWriteRegisters
    <3>1. wpc' = wpc
      BY <1>3, <2>2
      DEF ProcManRuns, ProcManNext, ProcManStep, threadVars, PmStart,
          PmCheckSeverity, PmSeeKill, PmSuspend, PmConfigure, PmSetPriority,
          PmResume, PmRaiseRestart, PmPollRestart, PmPollKill, PmWithdraw,
          PmTimeout, PmSeeRecovery, PmGiveUp, RebuildFails, LeaveCooperative
    <3> QED
      BY <3>1 DEF ProgramInv
  <2> QED
    BY <2>1, <2>2
<1>4. CASE WatchdogRuns \/ DharmaNetRuns \/ UNCHANGED vars
  BY <1>4
  DEF WatchdogRuns, WatchdogNext, DharmaNetRuns, ReportSeverity, vars,
      sharedVars, threadVars, ProgramInv
<1> QED
  BY <1>2, <1>3, <1>4 DEF Next

\* Watchdog monitors, and ProcMan restarts, only an initialised worker.
LEMMA BootStep ==
  TypeOK /\ LoopInv /\ ProgramInv /\ BootInv /\ [Next]_vars => BootInv'
<1> SUFFICES ASSUME TypeOK, LoopInv, ProgramInv, BootInv, [Next]_vars
             PROVE  BootInv'
    OBVIOUS
<1>1. wpc \in [TCBs -> WorkerPc] /\ Original \in TCBs /\ ready \in {0, 1}
  BY ConstantFacts DEF TypeOK, DataportsTypeOK, TCBs, Original
<1>2. CASE WorkerRuns
  <2>1. UNCHANGED <<kill_flag, watchdogVars, procmanVars>>
    BY <1>2 DEF WorkerRuns, WorkerNext
  <2>2. PICK t \in TCBs : ThreadStep(t)
    BY <1>2 DEF WorkerRuns, WorkerNext
  <2>3. t = Original \/ wpc[t] \in {"none"} \cup EntryPc
    BY DEF ProgramInv, TCBs, Spares, Original
  <2> QED
    <3> USE <1>1, <2>1, <2>3
        DEF BootInv, BootPc, EntryPc, At, Goto, watchdogVars, procmanVars
    <3>1. CASE ClearHeartbeat(t)
      BY <3>1 DEF ClearHeartbeat
    <3>2. CASE ClearReady(t)
      BY <3>2 DEF ClearReady
    <3>3. CASE ClearRestart(t)
      BY <3>3 DEF ClearRestart
    <3>4. CASE SetReady(t)
      BY <3>4 DEF SetReady
    <3>5. CASE FirstBeats(t)
      BY <3>5 DEF FirstBeats, FiniteBeat
    <3>6. CASE SeeRestart(t)
      BY <3>6 DEF SeeRestart
    <3>7. CASE TakeRestart(t)
      BY <3>7 DEF TakeRestart
    <3>8. CASE ResetHeartbeat(t)
      BY <3>8 DEF ResetHeartbeat
    <3>9. CASE SecondBeats(t)
      BY <3>9 DEF SecondBeats, FiniteBeat
    <3>10. CASE LoopBeat(t)
      BY <3>10 DEF LoopBeat, EndlessBeat
    <3>11. CASE RecoveryEntry(t)
      BY <3>11 DEF RecoveryEntry
    <3>12. CASE RecoveredBeat(t)
      BY <3>12 DEF RecoveredBeat, FiniteBeat, EndlessBeat
    <3> QED
      BY <2>2, <3>1, <3>2, <3>3, <3>4, <3>5, <3>6, <3>7,
         <3>8, <3>9, <3>10, <3>11, <3>12
      DEF ThreadStep
<1>3. CASE WatchdogRuns
  <2>1. UNCHANGED <<ready, wpc, procmanVars>>
    BY <1>3 DEF WatchdogRuns, WatchdogNext
  <2> QED
    <3> USE <1>1, <2>1 DEF BootInv, BootPc, procmanVars
    <3>1. CASE WdClearKill
      BY <3>1 DEF WdClearKill
    <3>2. CASE WdClearSignal
      BY <3>2 DEF WdClearSignal
    <3>3. CASE WdSeeReady
      BY <3>3 DEF WdSeeReady
    <3>4. CASE WdArm
      BY <3>4 DEF WdArm
    <3>5. CASE WdMonitor
      BY <3>5 DEF WdMonitor
    <3>6. CASE WdSetKill
      BY <3>6 DEF WdSetKill
    <3>7. CASE WdSeeBeat
      BY <3>7 DEF WdSeeBeat
    <3>8. CASE WdReadBeat
      BY <3>8 DEF WdReadBeat
    <3>9. CASE WdLowerKill
      BY <3>9 DEF WdLowerKill, AfterRecovery
    <3>10. CASE WdSignal
      BY <3>10 DEF WdSignal, AfterRecovery
    <3>11. CASE WdWindow
      BY <3>11 DEF WdWindow
    <3> QED
      BY <1>3, <3>1, <3>2, <3>3, <3>4, <3>5, <3>6,
         <3>7, <3>8, <3>9, <3>10, <3>11
      DEF WatchdogRuns, WatchdogNext, WatchdogStep
<1>4. CASE ProcManRuns
  <2>1. UNCHANGED <<ready, kill_flag, watchdogVars>>
    BY <1>4 DEF ProcManRuns, ProcManNext
  <2>2. wpc'[Original] \notin BootPc \/ wpc'[Original] = wpc[Original]
    <3>1. \/ wpc' = wpc
          \/ wpc' = [wpc EXCEPT ![SpareFor(restarts)] = "entry"]
      BY <1>4
      DEF ProcManRuns, ProcManNext, ProcManStep, threadVars, PmStart,
          PmCheckSeverity, PmSeeKill, PmSuspend, PmConfigure, PmSetPriority,
          PmWriteRegisters, PmResume, PmRaiseRestart, PmPollRestart, PmPollKill,
          PmWithdraw, PmTimeout, PmSeeRecovery, PmGiveUp, RebuildFails,
          LeaveCooperative
    <3> QED
      BY <1>1, <3>1 DEF BootPc
  <2>3. kill_flag = 1 \/ restarts' = restarts
    BY <1>4
    DEF TypeOK, DataportsTypeOK, ProcManRuns, ProcManNext, ProcManStep, PmStart,
        PmCheckSeverity, PmSeeKill, PmSuspend, PmConfigure, PmSetPriority,
        PmWriteRegisters, PmResume, PmRaiseRestart, PmPollRestart, PmPollKill,
        PmWithdraw, PmTimeout, PmSeeRecovery, PmGiveUp, RebuildFails,
        LeaveCooperative
  <2> QED
    BY <2>1, <2>2, <2>3 DEF BootInv, watchdogVars
<1>5. CASE DharmaNetRuns \/ UNCHANGED vars
  BY <1>5
  DEF DharmaNetRuns, ReportSeverity, vars, sharedVars, threadVars,
      watchdogVars, procmanVars, BootInv
<1> QED
  BY <1>2, <1>3, <1>4, <1>5 DEF Next

------------------------------------------------------------------------------

LEMMA InvStep == Inv /\ [Next]_vars => Inv'
  BY TypeStep, HandoverStep, ProgramStep, BootStep, RequestStep DEF Inv

\* Inv is inductive, so it holds in every reachable state.
THEOREM Invariance == Spec => []Inv
  BY InitInv, InvStep, PTL DEF Spec

\* Every variable keeps its type: attempts never exceed MaxRestarts + 1, the
\* polls of every bounded loop its bound, and no counter leaves its range
\* (procman.c lines 287 and 102, watchdog.c lines 52 and 14).
THEOREM TypeCorrect == Spec => []TypeOK
<1>1. Inv => TypeOK
  BY DEF Inv
<1> QED
  BY <1>1, Invariance, PTL

\* Exactly the TCB ProcMan calls active runs, except while a spare is brought
\* up and after a rebuild that failed, when none does: two workers never share
\* the stack and the IPC buffer of verse_recovery_entry.
THEOREM OneWorkerRuns == Spec => []ActiveServes
<1>1. Inv => ActiveServes
  BY DEF Inv, TypeOK, DataportsTypeOK, ProcManTypeOK, HandoverInv, ActiveServes,
         RunningTcbs, RetiredTcbs, RebuildPc, GiveUpPc
<1> QED
  BY <1>1, Invariance, PTL

\* No attempt configures, or writes the registers of, a TCB that has run.
THEOREM SparesAreFresh == Spec => []SpareIsFresh
<1>1. Inv => SpareIsFresh
  <2> SUFFICES ASSUME Inv, pmPc \in RebuildPc \cup {"suspend"}
               PROVE  /\ SpareFor(restarts) # active
                      /\ tstate[SpareFor(restarts)] \in {"inactive", "configured"}
      BY DEF SpareIsFresh
  <2>1. restarts \in 1 .. MaxRestarts
    BY ConstantFacts DEF Inv, TypeOK, ProcManTypeOK, LoopInv, RebuildPc, GiveUpPc
  <2>2. SpareFor(restarts) = restarts
    BY <2>1, SpareForAttempt
  <2> QED
    BY <2>1, <2>2 DEF Inv, HandoverInv, TypeOK, ProcManTypeOK, TCBs
<1> QED
  BY <1>1, Invariance, PTL

\* The worker's start-up never wipes out a restart request.
THEOREM BootFirst == Spec => []BootPrecedesRecovery
<1>1. Inv => BootPrecedesRecovery
  BY DEF Inv, BootInv, BootPrecedesRecovery, BootPc
<1> QED
  BY <1>1, Invariance, PTL

\* No restart request survives its attempt.
THEOREM RequestsEnd == Spec => []RequestEndsWithAttempt
<1>1. Inv => RequestEndsWithAttempt
  BY DEF Inv, RequestInv, RequestEndsWithAttempt
<1> QED
  BY <1>1, Invariance, PTL

------------------------------------------------------------------------------

\* Without TCB authority only the original worker runs, and once ProcMan's
\* request is down again, or ProcMan has seen it down, that worker has left its
\* deadlock.
AckInv ==
  ~TcbEnforced =>
    /\ pmPc \notin RebuildPc \cup {"suspend"}
    /\ active = Original
    /\ \/ ack = 1
       \/ restart_flag = 0 /\ pmPc \in {"pollRestart", "pollKill", "withdraw", "timeout"}
       => wpc[Original] \in {"resetHeartbeat", "secondBeats", "loop"}

LEMMA AckStep == Inv /\ AckInv /\ [Next]_vars => AckInv'
<1> SUFFICES ASSUME Inv, AckInv, [Next]_vars, ~TcbEnforced
             PROVE  AckInv'
    BY DEF AckInv
<1>1. /\ wpc \in [TCBs -> WorkerPc] /\ Original \in TCBs
      /\ restart_flag \in {0, 1} /\ ack \in {0, 1}
  BY ConstantFacts DEF Inv, TypeOK, DataportsTypeOK, ProcManTypeOK, TCBs, Original
<1>2. pmPc \in CooperativePc => wpc[Original] \notin BootPc
  BY ConstantFacts DEF Inv, LoopInv, BootInv
<1>3. CASE WorkerRuns
  <2>1. PICK t \in TCBs : ThreadStep(t)
    BY <1>3 DEF WorkerRuns, WorkerNext
  <2>2. tstate[t] = "running"
    BY <2>1 DEF ThreadStep, ClearHeartbeat, ClearReady, ClearRestart, SetReady,
                FirstBeats, SeeRestart, TakeRestart, ResetHeartbeat, SecondBeats,
                LoopBeat, RecoveryEntry, RecoveredBeat, FiniteBeat, EndlessBeat, At
  <2>3. t = Original
    BY <2>2 DEF Inv, HandoverInv, AckInv
  <2>4. wpc[Original] \in RunPc
    BY DEF Inv, ProgramInv
  <2>5. UNCHANGED procmanVars
    BY <1>3 DEF WorkerRuns
  <2> QED
    BY <1>1, <1>2, <2>1, <2>3, <2>4, <2>5
    DEF AckInv, ThreadStep, ClearHeartbeat, ClearReady, ClearRestart, SetReady,
        FirstBeats, SeeRestart, TakeRestart, ResetHeartbeat, SecondBeats,
        LoopBeat, RecoveryEntry, RecoveredBeat, FiniteBeat, EndlessBeat, At, Goto,
        BootPc, RunPc, CooperativePc, procmanVars
<1>4. CASE ProcManRuns
  <2>1. ProcManStep
    BY <1>4 DEF ProcManRuns, ProcManNext
  <2>2. pmPc \notin RebuildPc \cup {"suspend"}
    BY DEF AckInv
  <2> QED
    BY <1>1, <2>1, <2>2
    DEF AckInv, ProcManStep, threadVars, PmStart, PmCheckSeverity, PmSeeKill,
        PmSuspend, PmConfigure, PmSetPriority, PmWriteRegisters, PmResume,
        PmRaiseRestart, PmPollRestart, PmPollKill, PmWithdraw, PmTimeout,
        PmSeeRecovery, PmGiveUp, LeaveCooperative, RebuildPc
<1>5. CASE WatchdogRuns \/ DharmaNetRuns \/ UNCHANGED vars
  BY <1>5
  DEF WatchdogRuns, WatchdogNext, DharmaNetRuns, ReportSeverity, vars,
      sharedVars, threadVars, procmanVars, AckInv
<1> QED
  BY <1>3, <1>4, <1>5 DEF Next

\* An acknowledgement that ProcMan sees comes from the deadlocked worker itself,
\* not from the start-up write of the same flag (testworker.c lines 40 and 46;
\* procman.c line 103).
THEOREM AcksAreGenuine == Spec => []AckIsGenuine
<1>1. Init => AckInv
  BY DEF Init, DataportsInit, ProcManInit, AckInv, RebuildPc, Original
<1>2. AckInv => AckIsGenuine
  BY DEF AckInv, AckIsGenuine
<1> QED
  BY Invariance, <1>1, <1>2, AckStep, PTL DEF Spec

------------------------------------------------------------------------------

\* kill_flag is Watchdog's alone, and it is down when a pass is published.
SignalInv == wdPc = "signal" => kill_flag = 0

LEMMA SignalStep ==
  ASSUME Inv, SignalInv, [Next]_vars
  PROVE  SignalInv' /\ (recovery_signal' > recovery_signal => kill_flag = 0)
<1>1. recovery_signal \in Nat
  BY DEF Inv, TypeOK, DataportsTypeOK
<1>2. CASE WatchdogRuns
  <2>1. WatchdogStep
    BY <1>2 DEF WatchdogRuns, WatchdogNext
  <2> QED
    BY <1>1, <2>1
    DEF SignalInv, WatchdogStep, WdClearKill, WdClearSignal, WdSeeReady, WdArm,
        WdMonitor, WdSetKill, WdSeeBeat, WdReadBeat, WdLowerKill, WdSignal, WdWindow,
        AfterRecovery
<1>3. CASE WorkerRuns
  BY <1>1, <1>3 DEF SignalInv, WorkerRuns, WorkerNext, watchdogVars
<1>4. CASE ProcManRuns
  BY <1>1, <1>4 DEF SignalInv, ProcManRuns, ProcManNext, watchdogVars
<1>5. CASE DharmaNetRuns \/ UNCHANGED vars
  BY <1>1, <1>5
  DEF SignalInv, DharmaNetRuns, ReportSeverity, vars, sharedVars, watchdogVars
<1> QED
  BY <1>2, <1>3, <1>4, <1>5 DEF Next

\* DharmaNet hears of a recovery only after ProcMan's alarm has been taken back
\* (watchdog.c lines 63 and 67).
THEOREM SignalsFollow == Spec => SignalFollowsKill
<1>1. Init => SignalInv
  BY DEF Init, WatchdogInit, SignalInv
<1>2. Inv /\ SignalInv /\ [Next]_vars => SignalInv'
  BY SignalStep
<1>3. Inv /\ SignalInv /\ [Next]_vars
        => [recovery_signal' > recovery_signal => kill_flag = 0]_vars
  BY SignalStep
<1> QED
  BY Invariance, <1>1, <1>2, <1>3, PTL DEF Spec, SignalFollowsKill

\* A spare that has been brought up stays one: it is never configured again.
LEMMA RespawnedStays == Inv /\ Respawned /\ [Next]_vars => Respawned'
<1> SUFFICES ASSUME Inv, Respawned, [Next]_vars
             PROVE  Respawned'
    OBVIOUS
<1>1. /\ tstate \in [TCBs -> ThreadState]
      /\ Spares \subseteq TCBs
  BY DEF Inv, TypeOK, DataportsTypeOK, Spares, TCBs
<1>2. PICK t \in Spares : tstate[t] \in {"running", "suspended"}
  BY DEF Respawned
<1>3. t \in TCBs
  BY <1>1
<1>4. CASE PmSuspend
  BY <1>1, <1>2, <1>3, <1>4 DEF PmSuspend, Respawned
<1>5. CASE PmConfigure
  <2>1. tstate[SpareFor(restarts)] \in {"inactive", "configured"}
    <3>1. restarts \in 1 .. MaxRestarts
      BY <1>5, ConstantFacts
      DEF PmConfigure, Inv, TypeOK, ProcManTypeOK, LoopInv, RebuildPc, GiveUpPc
    <3>2. SpareFor(restarts) = restarts
      BY <3>1, SpareForAttempt
    <3> QED
      BY <1>5, <3>2 DEF PmConfigure, Inv, HandoverInv, RebuildPc
  <2>2. tstate'[t] = tstate[t]
    BY <1>1, <1>2, <1>3, <1>5, <2>1 DEF PmConfigure, RebuildFails, threadVars
  <2> QED
    BY <1>2, <2>2 DEF Respawned
<1>6. CASE PmResume
  BY <1>1, <1>2, <1>3, <1>6 DEF PmResume, RebuildFails, threadVars, Respawned
<1>7. CASE ~PmSuspend /\ ~PmConfigure /\ ~PmResume
  <2>1. tstate' = tstate
    BY <1>7
    DEF Next, WorkerRuns, WorkerNext, WatchdogRuns, WatchdogNext, DharmaNetRuns,
        ReportSeverity, ProcManRuns, ProcManNext, ProcManStep, PmStart,
        PmCheckSeverity, PmSeeKill, PmSetPriority, PmWriteRegisters,
        PmRaiseRestart, PmPollRestart, PmPollKill, PmWithdraw, PmTimeout,
        PmSeeRecovery, PmGiveUp, RebuildFails, LeaveCooperative, threadVars,
        vars, sharedVars
  <2> QED
    BY <2>1 DEF Respawned
<1> QED
  BY <1>4, <1>5, <1>6, <1>7

\* As long as run() cannot count as far as RecoveryBase, a heartbeat from
\* RecoveryBase up, and all that follows from it, comes from a spare.
LEMMA RespawnStep ==
  ASSUME Beats < RecoveryBase, CounterBound < RecoveryBase
  PROVE  Inv /\ RespawnInv /\ [Next]_vars => RespawnInv'
<1> SUFFICES ASSUME Inv, RespawnInv, [Next]_vars
             PROVE  RespawnInv'
    OBVIOUS
<1>1. Respawned => Respawned'
  BY RespawnedStays
<1>2. CASE WorkerRuns
  <2>1. UNCHANGED <<recovery_signal, tstate, watchdogVars>>
    BY <1>2 DEF WorkerRuns, WorkerNext
  <2>2. PICK t \in TCBs : ThreadStep(t)
    BY <1>2 DEF WorkerRuns, WorkerNext
  <2>3. tstate[t] = "running"
    BY <2>2
    DEF ThreadStep, At, ClearHeartbeat, ClearReady, ClearRestart, SetReady,
        FirstBeats, SeeRestart, TakeRestart, ResetHeartbeat, SecondBeats,
        LoopBeat, RecoveryEntry, RecoveredBeat, FiniteBeat, EndlessBeat
  <2>4. CASE t = Original
    <3>1. heartbeat' = heartbeat \/ ~(heartbeat' >= RecoveryBase)
      <4>1. /\ wpc[t] \in RunPc
            /\ wpc[t] \in {"beats", "secondBeats"} => wcnt[t] \in 0 .. (Beats - 1)
            /\ wpc[t] = "loop" => wcnt[t] \in 0 .. CounterBound
        BY <2>4 DEF Inv, ProgramInv, CounterInv
      <4> QED
        <5> USE ConstantFacts, <4>1 DEF At, RunPc
        <5>1. CASE ClearHeartbeat(t)
          BY <5>1 DEF ClearHeartbeat
        <5>2. CASE ClearReady(t)
          BY <5>2 DEF ClearReady
        <5>3. CASE ClearRestart(t)
          BY <5>3 DEF ClearRestart
        <5>4. CASE SetReady(t)
          BY <5>4 DEF SetReady
        <5>5. CASE FirstBeats(t)
          BY <5>5 DEF FirstBeats, FiniteBeat
        <5>6. CASE SeeRestart(t)
          BY <5>6 DEF SeeRestart
        <5>7. CASE TakeRestart(t)
          BY <5>7 DEF TakeRestart
        <5>8. CASE ResetHeartbeat(t)
          BY <5>8 DEF ResetHeartbeat
        <5>9. CASE SecondBeats(t)
          BY <5>9 DEF SecondBeats, FiniteBeat
        <5>10. CASE LoopBeat(t)
          BY <5>10 DEF LoopBeat, EndlessBeat
        <5>11. CASE RecoveryEntry(t)
          BY <5>11 DEF RecoveryEntry
        <5>12. CASE RecoveredBeat(t)
          BY <5>12 DEF RecoveredBeat, FiniteBeat, EndlessBeat
        <5> QED
          BY <2>2, <5>1, <5>2, <5>3, <5>4, <5>5, <5>6, <5>7,
             <5>8, <5>9, <5>10, <5>11, <5>12
          DEF ThreadStep
    <3> QED
      BY <1>1, <2>1, <3>1, ConstantFacts DEF RespawnInv, watchdogVars
  <2>5. CASE t # Original
    <3>1. t \in Spares
      BY <2>5 DEF TCBs, Spares, Original
    <3>2. Respawned
      BY <2>3, <3>1 DEF Respawned
    <3> QED
      BY <1>1, <3>2 DEF RespawnInv
  <2> QED
    BY <2>4, <2>5
<1>3. CASE WatchdogRuns
  <2>1. heartbeat' = heartbeat
    BY <1>3 DEF WatchdogRuns, WatchdogNext
  <2> QED
    <3> USE <1>1, <2>1, ConstantFacts DEF RespawnInv, Inv, TypeOK, DataportsTypeOK, WatchdogTypeOK
    <3>1. CASE WdClearKill
      BY <3>1 DEF WdClearKill
    <3>2. CASE WdClearSignal
      BY <3>2 DEF WdClearSignal
    <3>3. CASE WdSeeReady
      BY <3>3 DEF WdSeeReady
    <3>4. CASE WdArm
      BY <3>4 DEF WdArm
    <3>5. CASE WdMonitor
      BY <3>5 DEF WdMonitor
    <3>6. CASE WdSetKill
      BY <3>6 DEF WdSetKill
    <3>7. CASE WdSeeBeat
      BY <3>7 DEF WdSeeBeat
    <3>8. CASE WdReadBeat
      BY <3>8 DEF WdReadBeat
    <3>9. CASE WdLowerKill
      BY <3>9 DEF WdLowerKill, AfterRecovery
    <3>10. CASE WdSignal
      BY <3>10 DEF WdSignal, AfterRecovery
    <3>11. CASE WdWindow
      BY <3>11 DEF WdWindow
    <3> QED
      BY <1>3, <3>1, <3>2, <3>3, <3>4, <3>5, <3>6,
         <3>7, <3>8, <3>9, <3>10, <3>11
      DEF WatchdogRuns, WatchdogNext, WatchdogStep
<1>4. CASE ProcManRuns \/ DharmaNetRuns \/ UNCHANGED vars
  BY <1>1, <1>4
  DEF ProcManRuns, ProcManNext, DharmaNetRuns, ReportSeverity, vars, sharedVars,
      watchdogVars, RespawnInv
<1> QED
  BY <1>2, <1>3, <1>4 DEF Next

\* Watchdog counts a recovery pass, and tells DharmaNet of it, only when a spare
\* has really been brought up, as long as the worker that beats for ever does
\* not count as far as RecoveryBase.
THEOREM PassesAreProofs ==
  ASSUME Beats < RecoveryBase, CounterBound < RecoveryBase
  PROVE  Spec => []PassProvesRespawn
<1>1. Init => RespawnInv
  BY ConstantFacts DEF Init, DataportsInit, WatchdogInit, RespawnInv
<1>2. Inv /\ RespawnInv /\ [Next]_vars => RespawnInv'
  BY RespawnStep
<1>3. RespawnInv => PassProvesRespawn
  BY DEF RespawnInv, Respawned, PassProvesRespawn
<1> QED
  BY <1>1, <1>2, <1>3, Invariance, PTL DEF Spec

------------------------------------------------------------------------------

\* What Failover sees of a step that touches neither the TCBs nor ProcMan.
LEMMA OutsideStep ==
  WorkerRuns \/ WatchdogRuns \/ DharmaNetRuns \/ UNCHANGED vars
    => UNCHANGED Abstract!failoverVars
  BY DEF WorkerRuns, WorkerNext, WatchdogRuns, WatchdogNext, DharmaNetRuns,
         ReportSeverity, vars, sharedVars, procmanVars, threadVars,
         Abstract!failoverVars, Phase, RunningTcbs, RetiredTcbs

\* Every step of ProcMan is a step of Failover or leaves it alone.
LEMMA ProcManStepFailover ==
  Inv /\ ProcManRuns => [Abstract!FailoverNext]_Abstract!failoverVars
<1> SUFFICES ASSUME Inv, ProcManRuns
             PROVE  [Abstract!FailoverNext]_Abstract!failoverVars
    OBVIOUS
<1>1. /\ tstate \in [TCBs -> ThreadState]
      /\ active \in TCBs
      /\ restarts \in Nat
      /\ MaxRestarts \in Nat
  BY ConstantFacts DEF Inv, TypeOK, DataportsTypeOK, ProcManTypeOK
<1>2. /\ pmPc \notin RebuildPc \cup GiveUpPc => RunningTcbs = {active}
      /\ pmPc \in RebuildPc => RunningTcbs = {}
  BY <1>1 DEF Inv, HandoverInv, RunningTcbs, RebuildPc, GiveUpPc
<1>3. pmPc \in RebuildPc =>
        /\ SpareFor(restarts) \in TCBs
        /\ SpareFor(restarts) # active
        /\ tstate[SpareFor(restarts)] \in {"inactive", "configured"}
  <2> SUFFICES ASSUME pmPc \in RebuildPc
               PROVE  /\ SpareFor(restarts) \in TCBs
                      /\ SpareFor(restarts) # active
                      /\ tstate[SpareFor(restarts)] \in {"inactive", "configured"}
      OBVIOUS
  <2>1. restarts \in 1 .. MaxRestarts
    BY <1>1 DEF Inv, LoopInv, RebuildPc, GiveUpPc
  <2>2. SpareFor(restarts) = restarts /\ restarts \in TCBs
    BY <2>1, SpareForAttempt
  <2> QED
    BY <1>1, <2>2 DEF Inv, HandoverInv, TCBs
<1> USE DEF Phase, LoopPc, CooperativePc, RebuildPc, GiveUpPc
\* A step that moves no TCB and stays in its phase.
<1>4. ASSUME UNCHANGED <<tstate, restarts>>, Phase' = Phase
      PROVE  UNCHANGED Abstract!failoverVars
  BY <1>4 DEF Abstract!failoverVars, RunningTcbs, RetiredTcbs
\* A rebuild call that fails.
<1>5. ASSUME pmPc \in RebuildPc, RebuildFails, restarts' = restarts
      PROVE  Abstract!Abandon
  BY <1>2, <1>5
  DEF Abstract!Abandon, RebuildFails, threadVars, RunningTcbs, RetiredTcbs
<1>6. CASE PmStart \/ PmRaiseRestart \/ PmPollRestart \/ PmPollKill
            \/ PmSeeRecovery \/ PmGiveUp
  BY <1>4, <1>6
  DEF PmStart, PmRaiseRestart, PmPollRestart, PmPollKill, PmSeeRecovery,
      PmGiveUp, threadVars
<1>7. CASE PmCheckSeverity
  BY <1>4, <1>7
  DEF PmCheckSeverity, threadVars, Abstract!FailoverNext, Abstract!Escalate,
      RunningTcbs, RetiredTcbs
<1>8. CASE PmSeeKill
  <2>1. UNCHANGED <<RunningTcbs, RetiredTcbs>>
    BY <1>8 DEF PmSeeKill, threadVars, RunningTcbs, RetiredTcbs
  <2>2. restarts <= MaxRestarts
    BY <1>8 DEF PmSeeKill, Inv, LoopInv
  <2>3. CASE restarts < MaxRestarts
    <3>1. Abstract!Detect
      BY <1>1, <1>8, <2>1, <2>3 DEF PmSeeKill, Abstract!Detect
    <3> QED
      BY <3>1 DEF Abstract!FailoverNext
  <2>4. CASE restarts = MaxRestarts
    <3>1. Abstract!Exhaust
      BY <1>1, <1>8, <2>1, <2>4 DEF PmSeeKill, Abstract!Exhaust
    <3> QED
      BY <3>1 DEF Abstract!FailoverNext
  <2> QED
    BY <1>1, <2>2, <2>3, <2>4
<1>9. CASE PmSuspend
  <2>1. CASE tstate' = tstate
    BY <1>4, <1>9, <2>1 DEF PmSuspend
  <2>2. CASE tstate' = [tstate EXCEPT ![active] = "suspended"]
    <3>1. RunningTcbs = {active}
      BY <1>2, <1>9 DEF PmSuspend
    <3>2. RunningTcbs' = {}
      BY <1>1, <2>2, <3>1 DEF RunningTcbs
    <3>3. RetiredTcbs' = RetiredTcbs \cup {active}
      BY <1>1, <2>2 DEF RetiredTcbs
    <3>4. Phase = "recovering" /\ Phase' = "recovering"
      BY <1>9 DEF PmSuspend
    <3>5. Abstract!Retire
      BY <1>9, <3>1, <3>2, <3>3, <3>4 DEF PmSuspend, Abstract!Retire
    <3> QED
      BY <3>5 DEF Abstract!FailoverNext
  <2> QED
    BY <1>9, <2>1, <2>2 DEF PmSuspend
<1>10. CASE PmConfigure
  <2>1. CASE RebuildFails
    BY <1>5, <1>10, <2>1 DEF PmConfigure, Abstract!FailoverNext
  <2>2. CASE tstate' = [tstate EXCEPT ![SpareFor(restarts)] = "configured"]
                /\ pmPc' = "setPriority"
    <3>1. UNCHANGED <<RunningTcbs, RetiredTcbs>>
      BY <1>1, <1>3, <1>10, <2>2 DEF PmConfigure, RunningTcbs, RetiredTcbs
    <3> QED
      BY <1>10, <2>2, <3>1 DEF PmConfigure, Abstract!failoverVars
  <2> QED
    BY <1>10, <2>1, <2>2 DEF PmConfigure
<1>11. CASE PmSetPriority
  BY <1>4, <1>5, <1>11 DEF PmSetPriority, threadVars, Abstract!FailoverNext
<1>12. CASE PmWriteRegisters
  BY <1>4, <1>5, <1>12 DEF PmWriteRegisters, Abstract!FailoverNext
<1>13. CASE PmResume
  <2>1. CASE RebuildFails
    BY <1>5, <1>13, <2>1 DEF PmResume, Abstract!FailoverNext
  <2>2. CASE tstate' = [tstate EXCEPT ![SpareFor(restarts)] = "running"]
                /\ pmPc' = "awaitRecovery"
    <3> DEFINE spare == SpareFor(restarts)
    <3>1. /\ spare \in TCBs
          /\ tstate[spare] \in {"inactive", "configured"}
          /\ RunningTcbs = {}
          /\ restarts' = restarts
      BY <1>2, <1>3, <1>13 DEF PmResume
    <3> HIDE DEF spare
    <3>2. tstate' = [tstate EXCEPT ![spare] = "running"]
      BY <2>2 DEF spare
    <3>3. RunningTcbs' = {spare}
      BY <1>1, <3>1, <3>2 DEF RunningTcbs
    <3>4. RetiredTcbs' = RetiredTcbs /\ spare \notin RetiredTcbs
      BY <1>1, <3>1, <3>2 DEF RetiredTcbs
    <3>5. Phase = "recovering" /\ Phase' = "monitoring"
      BY <1>13, <2>2 DEF PmResume
    <3>6. Abstract!Replace
      BY <3>1, <3>3, <3>4, <3>5 DEF Abstract!Replace
    <3> QED
      BY <3>6 DEF Abstract!FailoverNext
  <2> QED
    BY <1>13, <2>1, <2>2 DEF PmResume
<1>14. CASE PmWithdraw \/ PmTimeout
  <2>1. Abstract!Keep
    BY <1>2, <1>14
    DEF PmWithdraw, PmTimeout, LeaveCooperative, threadVars, Abstract!Keep,
        RunningTcbs, RetiredTcbs
  <2> QED
    BY <2>1 DEF Abstract!FailoverNext
<1> QED
  BY <1>6, <1>7, <1>8, <1>9, <1>10, <1>11, <1>12, <1>13, <1>14
  DEF ProcManRuns, ProcManNext, ProcManStep

\* The loop implements Failover, with or without TCB authority, whatever the
\* scheduler does and whichever kernel calls fail.
THEOREM Refinement == Spec => ImplementsFailover
<1>1. Init => Abstract!FailoverInit
  <2> SUFFICES ASSUME Init PROVE Abstract!FailoverInit
      OBVIOUS
  <2>1. /\ tstate = [t \in TCBs |-> IF t = Original THEN "running" ELSE "inactive"]
        /\ pmPc = "clearRestart"
        /\ restarts = 0
    BY DEF Init, DataportsInit, ProcManInit
  <2>2. Original \in TCBs
    BY ConstantFacts DEF TCBs, Original
  <2>3. RunningTcbs = {Original} /\ RetiredTcbs = {}
    BY <2>1, <2>2 DEF RunningTcbs, RetiredTcbs
  <2>4. Phase = "monitoring"
    BY <2>1 DEF Phase, LoopPc, GiveUpPc
  <2> QED
    BY <2>1, <2>3, <2>4 DEF Abstract!FailoverInit
<1>2. Inv /\ [Next]_vars => [Abstract!FailoverNext]_Abstract!failoverVars
  BY OutsideStep, ProcManStepFailover DEF Next
<1> QED
  BY <1>1, <1>2, Invariance, PTL
  DEF Spec, ImplementsFailover, Abstract!FailoverSpec

==============================================================================
