---------------------------- MODULE RecoveryLoop ----------------------------
(***************************************************************************)
(* The recovery loop of verse_unified: TestWorker, Watchdog and ProcMan    *)
(* over their dataports, and DharmaNet as the writer of the severity.      *)
(* The components run as separate threads on one core, so a step is one    *)
(* access of one of them and any interleaving may occur.                   *)
(***************************************************************************)
EXTENDS TestWorker, Watchdog, ProcMan

CONSTANT
  Severities    \* the severities DharmaNet may report in this instance

ASSUME RecoveryLoopAssumption ==
  /\ Severities \subseteq 0 .. 2
  /\ MaxRestarts <= NSpares

vars == <<sharedVars, watchdogVars, procmanVars>>

Init == DataportsInit /\ WatchdogInit /\ ProcManInit

\* An epoch of DharmaNet, as far as this loop sees it: some severity.
ReportSeverity ==
  /\ severity_buf' \in Severities
  /\ UNCHANGED <<heartbeat, ready, kill_flag, restart_flag, recovery_signal,
                 threadVars>>

WorkerRuns == WorkerNext /\ UNCHANGED <<watchdogVars, procmanVars>>
WatchdogRuns == WatchdogNext /\ UNCHANGED procmanVars
ProcManRuns == ProcManNext /\ UNCHANGED watchdogVars
DharmaNetRuns == ReportSeverity /\ UNCHANGED <<watchdogVars, procmanVars>>

Next == WorkerRuns \/ WatchdogRuns \/ ProcManRuns \/ DharmaNetRuns

Spec == Init /\ [][Next]_vars

\* Round robin at one priority: each thread with something to do runs again.
Fairness ==
  /\ \A t \in TCBs : WF_vars(ThreadStep(t) /\ WorkerRuns)
  /\ WF_vars(WatchdogRuns)
  /\ WF_vars(ProcManRuns)

FairSpec == Spec /\ Fairness

------------------------------------------------------------------------------

TypeOK == DataportsTypeOK /\ WatchdogTypeOK /\ ProcManTypeOK

RunningTcbs == {t \in TCBs : tstate[t] = "running"}
RetiredTcbs == {t \in TCBs : tstate[t] = "suspended"}

\* While ProcMan is supervising or restarting cooperatively, exactly the TCB it
\* calls active is running; during the hand-over to a spare, and after one that
\* failed, none is.  All spares share one stack and one IPC buffer, so two
\* running workers would corrupt each other (procman.c, suspend_worker_tcb to
\* rebuild_worker_tcb).
ActiveServes ==
  RunningTcbs = IF pmPc \in RebuildPc \/ (pmPc \in GiveUpPc /\ active \in RetiredTcbs)
                  THEN {} ELSE {active}

\* The spare of the attempt under way has never run: it is neither the active
\* TCB nor one that was suspended, so no rebuild writes the registers of a live
\* or retired worker (procman.c, spare_worker_tcb_for_attempt).
SpareIsFresh ==
  pmPc \in RebuildPc \cup {"suspend"} =>
    /\ SpareFor(restarts) # active
    /\ tstate[SpareFor(restarts)] \in {"inactive", "configured"}

\* By the time ProcMan makes its first attempt the worker has finished
\* initialising, so the start-up write restart_flag = 0 can never wipe out a
\* restart request (the order of testworker.c line 40, seen through Watchdog).
BootPrecedesRecovery ==
  restarts > 0 =>
    wpc[Original] \notin {"clearHeartbeat", "clearReady", "clearRestart", "setReady"}

\* A restart request never outlives the attempt that raised it, whichever way
\* the attempt ends: a worker that deadlocks later cannot be woken by it.
RequestEndsWithAttempt ==
  restart_flag = 1 => pmPc \in {"pollRestart", "pollKill", "withdraw", "timeout"}

\* Without TCB authority, an acknowledgement ProcMan sees was written by the
\* deadlocked worker as it left its wait, not by an initialisation.
AckIsGenuine ==
  ack = 1 /\ ~TcbEnforced => wpc[Original] \in {"resetHeartbeat", "secondBeats", "loop"}

\* A recovery pass is counted, and DharmaNet told of it, only when a spare TCB
\* has been resumed: "recovered worker entry heartbeat proof" (watchdog.c line
\* 68) is a proof.
PassProvesRespawn ==
  passes > 0 \/ recovery_signal > 0 =>
    \E t \in Spares : tstate[t] \in {"running", "suspended"}

\* Watchdog publishes a pass only once it has lowered kill_flag: when DharmaNet
\* goes back to OK, ProcMan is no longer asked for a restart by that outage
\* (watchdog.c lines 63 and 67).
SignalFollowsKill ==
  [][recovery_signal' > recovery_signal => kill_flag = 0]_vars

\* What the loop promises, on the concrete state.
Phase ==
  IF pmPc \in GiveUpPc THEN "quarantined"
  ELSE IF pmPc \in LoopPc THEN "monitoring" ELSE "recovering"

Abstract == INSTANCE Failover WITH
  Units <- TCBs, FirstUnit <- Original, MaxAttempts <- MaxRestarts,
  phase <- Phase, attempts <- restarts,
  running <- RunningTcbs, retired <- RetiredTcbs

\* Every behaviour of the loop is a behaviour of Failover: a retired TCB never
\* runs again, a replacement has never been retired, attempts are bounded, and
\* quarantine is final.
ImplementsFailover == Abstract!FailoverSpec

------------------------------------------------------------------------------

\* A deadlocked worker is reported: Watchdog raises kill_flag, however the
\* deadlock falls into its monitoring (under fair scheduling).
StallIsDetected ==
  At(Original, "stalled") ~> (kill_flag = 1 \/ ~At(Original, "stalled"))

\* A cooperative restart always ends, with the worker heard or timed out:
\* ProcMan never waits on the worker it is restarting.
AttemptEnds == pmPc \in CooperativePc ~> pmPc \notin CooperativePc

\* With TCB authority a deadlocked worker is taken off the processor, or
\* ProcMan has given up: the report is never missed.
StallIsResolved ==
  At(Original, "stalled") ~>
    (tstate[Original] = "suspended" \/ pmPc = "quarantined"
       \/ ~At(Original, "stalled"))

==============================================================================
