------------------------ MODULE VerseSupervisionProofs ------------------------
(***************************************************************************)
(* Proofs about VerseSupervision: the recovery loop with DharmaNet in it   *)
(* is the recovery loop that RecoveryLoopProofs is about, and what the two *)
(* of them make of the severity that passes between them.                  *)
(***************************************************************************)
EXTENDS VerseSupervision, RecoveryLoopProofs

LEMMA SupervisionFacts ==
  /\ CritDwell \in Nat /\ CritDwell > 0
  /\ EscalateEpochs \in Nat /\ EscalateEpochs > 0
  /\ EscalationTime \in Nat
  /\ EscalationTime = CritDwell + EscalateEpochs - 1
  BY SupervisionAssumption DEF EscalationTime

------------------------------------------------------------------------------

LEMMA StepRefines == [SupervisionNext]_supervisionVars => [Next]_vars
<1> SUFFICES ASSUME [SupervisionNext]_supervisionVars PROVE [Next]_vars
    OBVIOUS
<1>1. CASE LoopRuns
  BY <1>1 DEF LoopRuns, Next
<1>2. CASE EpochRuns
  <2>1. severity_buf' = severity_buf \/ severity_buf' \in Severities
    BY <1>2, SupervisionAssumption
    DEF EpochRuns, Epoch, Dn!DnLook, Dn!DnRecover, Dn!DnIdle, Dn!DnSample, Dn!Severity
  <2>2. UNCHANGED <<heartbeat, ready, kill_flag, restart_flag, recovery_signal,
                    threadVars, watchdogVars, procmanVars>>
    BY <1>2 DEF EpochRuns
  <2> QED
    BY <2>1, <2>2 DEF Next, DharmaNetRuns, ReportSeverity, vars, sharedVars, threadVars
<1>3. CASE UNCHANGED supervisionVars
  BY <1>3 DEF supervisionVars
<1> QED
  BY <1>1, <1>2, <1>3 DEF SupervisionNext

\* With DharmaNet's own severities every behaviour is one of RecoveryLoop, so
\* that all that is proved of the loop holds of the whole supervision;
THEOREM SupervisionRefinesLoop == SupervisionSpec => ImplementsLoop
<1>1. SupervisionInit => Init
  BY DEF SupervisionInit
<1> QED
  BY <1>1, StepRefines, PTL DEF SupervisionSpec, Spec, ImplementsLoop

\* for one, that it does what Failover promises.
THEOREM SupervisionRefinesFailover == SupervisionSpec => ImplementsFailover
  BY SupervisionRefinesLoop, Refinement DEF ImplementsLoop

------------------------------------------------------------------------------

\* An attempt that began after the escalation is followed by a look at the
\* severity before ProcMan waits for the next outage.
LateInv ==
  /\ late \in {0, 1}
  /\ late = 1 => severity_buf = 2 /\ pmPc # "awaitKill"
  /\ restarts \in Nat

LEMMA LateStep == LateInv /\ [SupervisionNext]_supervisionVars => LateInv'
<1> SUFFICES ASSUME LateInv, [SupervisionNext]_supervisionVars PROVE LateInv'
    OBVIOUS
<1>1. ASSUME LoopRuns, ProcManRuns PROVE LateInv'
  <2>1. ProcManStep /\ severity_buf' = severity_buf
    BY <1>1 DEF ProcManRuns, ProcManNext
  <2>2. late' = IF severity_buf = 2 /\ restarts' > restarts THEN late + 1 ELSE late
    BY <1>1 DEF LoopRuns
  <2>3. CASE PmSeeKill
    BY <2>1, <2>2, <2>3 DEF PmSeeKill, LateInv
  <2>4. CASE PmCheckSeverity
    BY <2>1, <2>2, <2>4 DEF PmCheckSeverity, LateInv
  <2>5. CASE ~PmSeeKill /\ ~PmCheckSeverity
    <3>1. restarts' = restarts /\ pmPc' # "awaitKill"
      BY <2>1, <2>5
      DEF ProcManStep, PmStart, PmSuspend, PmConfigure, PmSetPriority,
          PmWriteRegisters, PmResume, PmRaiseRestart, PmPollRestart, PmPollKill,
          PmWithdraw, PmTimeout, PmSeeRecovery, PmGiveUp, RebuildFails,
          LeaveCooperative
    <3> QED
      BY <2>1, <2>2, <3>1 DEF LateInv
  <2> QED
    BY <2>3, <2>4, <2>5
<1>2. ASSUME LoopRuns, WorkerRuns \/ WatchdogRuns PROVE LateInv'
  BY <1>2 DEF LoopRuns, WorkerRuns, WorkerNext, WatchdogRuns, WatchdogNext,
              procmanVars, LateInv
<1>3. CASE EpochRuns
  BY <1>3 DEF EpochRuns, procmanVars, LateInv
<1>4. CASE UNCHANGED supervisionVars
  BY <1>4 DEF supervisionVars, vars, sharedVars, procmanVars, LateInv
<1> QED
  BY <1>1, <1>2, <1>3, <1>4 DEF SupervisionNext, LoopRuns

\* An escalation that ProcMan misses while it waits costs one attempt at most.
THEOREM LateRestartIsOne == SupervisionSpec => []OneLateRestart
<1>1. SupervisionInit => LateInv
  BY DEF SupervisionInit, Init, ProcManInit, LateInv
<1>2. LateInv => OneLateRestart
  BY DEF LateInv, OneLateRestart
<1> QED
  BY <1>1, <1>2, LateStep, PTL DEF SupervisionSpec

------------------------------------------------------------------------------

\* Passes travel in one direction: Watchdog counts them, publishes the count,
\* DharmaNet reads it and takes it over.
PassOrder ==
  /\ {seen_recovery, recovery_pass, recovery_signal, passes} \subseteq Nat
  /\ seen_recovery <= recovery_pass
  /\ recovery_pass <= recovery_signal
  /\ recovery_signal <= passes
  /\ wdPc \in {"clearKill", "clearSignal"} => passes = 0
  /\ wdPc = "signal" => recovery_signal < passes

\* A step of the loop publishes a new pass or leaves the published one alone.
LEMMA PublishStep ==
  ASSUME PassOrder, LoopRuns
  PROVE  PassOrder' /\ recovery_signal' >= recovery_signal
<1>1. UNCHANGED <<seen_recovery, recovery_pass>>
  BY DEF LoopRuns, localVars
<1>2. CASE WorkerRuns
  BY <1>1, <1>2 DEF WorkerRuns, WorkerNext, watchdogVars, PassOrder
<1>3. CASE ProcManRuns
  BY <1>1, <1>3 DEF ProcManRuns, ProcManNext, watchdogVars, PassOrder
<1>4. CASE WatchdogRuns
  <2>1. WatchdogStep
    BY <1>4 DEF WatchdogRuns, WatchdogNext
  <2>2. CASE WdClearKill \/ WdClearSignal
    BY <1>1, <2>2 DEF WdClearKill, WdClearSignal, PassOrder
  <2>3. CASE WdLowerKill
    BY <1>1, <2>3 DEF WdLowerKill, AfterRecovery, PassOrder
  <2>4. CASE WdSignal
    BY <1>1, <2>4 DEF WdSignal, AfterRecovery, PassOrder
  <2>5. CASE WdSeeReady \/ WdArm \/ WdMonitor \/ WdSetKill \/ WdSeeBeat \/ WdReadBeat
               \/ WdWindow
    BY <1>1, <2>5 DEF WdSeeReady, WdArm, WdMonitor, WdSetKill, WdSeeBeat, WdReadBeat,
                      WdWindow, PassOrder
  <2> QED
    BY <2>1, <2>2, <2>3, <2>4, <2>5 DEF WatchdogStep
<1> QED
  BY <1>2, <1>3, <1>4 DEF LoopRuns

LEMMA PassOrderStep == PassOrder /\ [SupervisionNext]_supervisionVars => PassOrder'
<1> SUFFICES ASSUME PassOrder, [SupervisionNext]_supervisionVars PROVE PassOrder'
    OBVIOUS
<1>1. CASE EpochRuns
  <2>1. UNCHANGED <<recovery_signal, wdPc, passes>>
    BY <1>1 DEF EpochRuns, watchdogVars
  <2> QED
    BY <1>1, <2>1
    DEF EpochRuns, Epoch, Dn!DnLook, Dn!DnRecover, Dn!DnIdle, Dn!DnSample, PassOrder
<1>2. CASE UNCHANGED supervisionVars
  BY <1>2 DEF supervisionVars, localVars, vars, sharedVars, watchdogVars, PassOrder
<1> QED
  BY <1>1, <1>2, PublishStep DEF SupervisionNext

\* A published pass that DharmaNet has not taken over.
Pending == seen_recovery # recovery_signal

CountsOK ==
  /\ climbing \in 0 .. (CritDwell - 1)
  /\ crit_ep \in 0 .. EscalateEpochs
  /\ level # "crit" => crit_ep = 0
  /\ since \in 0 .. (EscalationTime + 1)

\* One of the epochs since the pass took it over; the rest is what has been
\* counted towards CRIT and towards the escalation, and what is reported of it.
CountedSince ==
  /\ climbing < since
  /\ level = "crit" => since >= CritDwell + crit_ep
  /\ severity_buf = 2 => since > EscalationTime

\* A pending pass is read, at the latest, by the second epoch to end after it.
StaleInv ==
  /\ CountsOK
  /\ Pending => /\ since <= 1
                /\ since = 1 /\ dnPc = "sample" => recovery_pass = recovery_signal
  /\ ~Pending => CountedSince

LEMMA CountedSample ==
  ASSUME CountsOK, NEW pa, Dn!DnSample(pa),
         since' = IF since <= EscalationTime THEN since + 1 ELSE since
  PROVE  CountsOK' /\ (CountedSince => CountedSince')
<1> DEFINE sp == Dn!Smoothed(pa)
           l == Dn!CritLevel(sp)
<1>1. level' = Dn!WarnLevel(l, sp) /\ Dn!Dwell(sp)
  BY DEF Dn!DnSample
<1>2. climbing' = IF level # "crit" /\ l # "crit" /\ sp > CritEnter THEN climbing + 1 ELSE 0
  BY <1>1 DEF Dn!Dwell
<1>3. level' = "crit" <=> l = "crit"
  BY <1>1 DEF Dn!WarnLevel, Dn!CritLevel
<1>4. l = IF level = "crit"
            THEN IF sp < CritExit /\ leaving + 1 >= CritExitDwell THEN "ok" ELSE "crit"
            ELSE IF sp > CritEnter /\ climbing + 1 >= CritDwell THEN "crit" ELSE level
  BY DEF Dn!CritLevel
<1> HIDE DEF sp, l
<1>5. /\ crit_ep' = IF level' # "crit" THEN 0
                    ELSE IF crit_ep < EscalateEpochs THEN crit_ep + 1 ELSE crit_ep
      /\ severity_buf' = 2 => level' = "crit" /\ crit_ep' >= EscalateEpochs
  BY DEF Dn!DnSample, Dn!Severity
<1>6. /\ since' \in 0 .. (EscalationTime + 1) /\ since' >= since
      /\ since' = since + 1 \/ since' = EscalationTime + 1
  BY SupervisionFacts DEF CountsOK
<1>7. climbing' \in 0 .. (CritDwell - 1)
  BY <1>2, <1>4, SupervisionFacts DEF CountsOK
<1>8. crit_ep' \in 0 .. EscalateEpochs /\ (level' # "crit" => crit_ep' = 0)
  BY <1>5, SupervisionFacts DEF CountsOK
<1>9. CountsOK'
  BY <1>6, <1>7, <1>8 DEF CountsOK
<1>10. ASSUME CountedSince PROVE CountedSince'
  <2>1. climbing' < since'
    BY <1>2, <1>6, <1>7, <1>10, SupervisionFacts DEF CountsOK, CountedSince
  <2>2. level' = "crit" => since' >= CritDwell + crit_ep'
    BY <1>3, <1>4, <1>5, <1>6, <1>10, SupervisionFacts DEF CountsOK, CountedSince
  <2> QED
    BY <1>5, <1>6, <1>8, <1>10, <2>1, <2>2, SupervisionFacts DEF CountsOK, CountedSince
<1> QED
  BY <1>9, <1>10

LEMMA StaleStep ==
  PassOrder /\ StaleInv /\ [SupervisionNext]_supervisionVars => StaleInv'
<1> SUFFICES ASSUME PassOrder, StaleInv, [SupervisionNext]_supervisionVars
             PROVE  StaleInv'
    OBVIOUS
<1>1. CASE LoopRuns
  <2>1. UNCHANGED <<severity_buf, dnPc, localVars>>
    BY <1>1 DEF LoopRuns, WorkerRuns, WorkerNext, WatchdogRuns, WatchdogNext,
                ProcManRuns, ProcManNext
  <2>2. CASE recovery_signal' = recovery_signal
    BY <1>1, <2>1, <2>2
    DEF LoopRuns, localVars, StaleInv, CountsOK, CountedSince, Pending
  <2>3. CASE recovery_signal' # recovery_signal
    <3>1. recovery_signal' > recovery_signal
      BY <1>1, <2>3, PublishStep DEF PassOrder
    <3>2. Pending' /\ since' = 0
      BY <1>1, <2>1, <2>3, <3>1 DEF LoopRuns, localVars, PassOrder, Pending
    <3> QED
      BY <2>1, <3>2, SupervisionFacts DEF localVars, StaleInv, CountsOK
  <2> QED
    BY <2>2, <2>3
<1>2. CASE EpochRuns
  <2>1. recovery_signal' = recovery_signal
    BY <1>2 DEF EpochRuns
  <2>2. since' = IF dnPc' = "look" /\ since <= EscalationTime THEN since + 1 ELSE since
    BY <1>2 DEF EpochRuns
  <2>3. CASE Dn!DnLook
    BY <2>1, <2>2, <2>3
    DEF Dn!DnLook, Dn!levelVars, StaleInv, CountsOK, CountedSince, Pending
  <2>4. CASE Dn!DnRecover
    <3>1. /\ CountsOK'
          /\ level' = "ok" /\ climbing' = 0 /\ severity_buf' = 0 /\ dnPc' = "look"
          /\ seen_recovery' = recovery_pass
      BY <2>2, <2>4, SupervisionFacts DEF Dn!DnRecover, StaleInv, CountsOK
    <3>2. since' >= 1
      BY <2>2, <3>1, SupervisionFacts DEF StaleInv, CountsOK
    <3>3. Pending' => since' = 1
      BY <2>1, <2>2, <2>4, <3>1, SupervisionFacts
      DEF Dn!DnRecover, Dn!NewPass, PassOrder, StaleInv, CountsOK, Pending
    <3> QED
      BY <3>1, <3>2, <3>3, SupervisionFacts DEF StaleInv, CountsOK, CountedSince
  <2>5. ASSUME ~Dn!NewPass, dnPc = "sample", Pending PROVE since = 0
    BY <2>5 DEF Dn!NewPass, PassOrder, StaleInv, CountsOK, Pending
  <2>6. CASE Dn!DnIdle
    <3>1. CountsOK' /\ (CountedSince => CountedSince')
      BY <2>2, <2>6, SupervisionFacts
      DEF Dn!DnIdle, Dn!levelVars, StaleInv, CountsOK, CountedSince
    <3> QED
      BY <2>1, <2>2, <2>5, <2>6, <3>1, SupervisionFacts DEF Dn!DnIdle, StaleInv, Pending
  <2>7. ASSUME NEW pa \in Shares, Dn!DnSample(pa) PROVE StaleInv'
    <3>1. CountsOK' /\ (CountedSince => CountedSince')
      BY <2>2, <2>7, CountedSample DEF Dn!DnSample, StaleInv
    <3> QED
      BY <2>1, <2>2, <2>5, <2>7, <3>1, SupervisionFacts DEF Dn!DnSample, StaleInv, Pending
  <2> QED
    BY <1>2, <2>3, <2>4, <2>6, <2>7 DEF EpochRuns, Epoch
<1>3. CASE UNCHANGED supervisionVars
  BY <1>3 DEF supervisionVars, localVars, vars, sharedVars, StaleInv, CountsOK,
              CountedSince, Pending
<1> QED
  BY <1>1, <1>2, <1>3 DEF SupervisionNext

\* An escalation counted before a recovery is gone at the latest with the second
\* epoch to end after Watchdog has published the pass, however the epochs fall
\* between the passes, for all thresholds, dwells and loads.
THEOREM StaleEscalationsEnd == SupervisionSpec => []StaleEscalationIsBrief
<1>1. SupervisionInit => PassOrder /\ StaleInv
  BY SupervisionFacts
  DEF SupervisionInit, Init, DataportsInit, WatchdogInit, Dn!DharmaNetInit, PassOrder,
      StaleInv, CountsOK, CountedSince, Pending
<1>2. PassOrder /\ StaleInv => StaleEscalationIsBrief
  BY SupervisionFacts
  DEF StaleInv, CountsOK, CountedSince, StaleEscalationIsBrief
<1> QED
  BY <1>1, <1>2, PassOrderStep, StaleStep, PTL DEF SupervisionSpec

==============================================================================
