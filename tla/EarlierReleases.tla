--------------------------- MODULE EarlierReleases ---------------------------
(***************************************************************************)
(* The recovery loops that came before verse_unified, still in the         *)
(* repository.  Worker and Watchdog are the same in all of them and take   *)
(* the steps of TestWorker and Watchdog that they already had; the         *)
(* supervisors differ.  A behaviour is one of the releases:                *)
(*   watchdog_tcb  no ProcMan: kill_flag and restart_flag are one word     *)
(*   persistent    persistent_watchdog, whose ProcMan restarts once        *)
(*   recovered     docker_recovered: each request is held for a fixed time *)
(*   retype        the top-level verse_unified, built TCB-enforced: one    *)
(*                 untyped, one slot, and the worker's first TCB for ever  *)
(***************************************************************************)
EXTENDS TestWorker, Watchdog, ProcMan

VARIABLES
  release,   \* the release that was built
  mcs,       \* 1 on an MCS kernel, where a fresh TCB is given a priority
  fresh,     \* the TCB object in the slot of retype, 0 while it is empty
  missed     \* history: 1 once a change was undone before the other side looked

releaseVars == <<release, mcs>>
vars == <<sharedVars, watchdogVars, procmanVars, releaseVars, fresh, missed>>

Releases == {"watchdog_tcb", "persistent", "recovered", "retype"}

Init ==
  /\ DataportsInit /\ WatchdogInit /\ ProcManInit
  /\ release \in Releases
  /\ mcs \in {0, 1}
  /\ fresh = 0
  /\ missed = 0

\* The alarm and the request are the same dataport.
OneWord == release = "watchdog_tcb"

\* run() of the worker; a fresh TCB executes it from the start.  Without MCS
\* nobody raises the priority 0 of a fresh TCB, and it never gets the core.
WorkerRun(t) ==
  /\ t # Original => mcs = 1
  /\ \/ ClearHeartbeat(t) \/ ClearReady(t) \/ ClearRestart(t) \/ SetReady(t)
     \/ FirstBeats(t) \/ SeeRestart(t) \/ TakeRestart(t) \/ ResetHeartbeat(t)
     \/ SecondBeats(t) \/ LoopBeat(t)

WorkerRuns(t) ==
  /\ WorkerRun(t)
  /\ kill_flag' = IF OneWord THEN restart_flag' ELSE kill_flag
  /\ missed' = IF wdPc = "awaitBeat" /\ wpc'[t] = "stalled" /\ heartbeat' = last
                 THEN 1 ELSE missed
  /\ UNCHANGED <<recovery_signal, severity_buf, tstate, watchdogVars, procmanVars,
                 releaseVars, fresh>>

\* run() of Watchdog: it counts nothing, so once it has seen a beat it lowers
\* the alarm and monitors again.
ClearKill ==
  /\ wdPc = "clearKill"
  /\ kill_flag' = 0
  /\ wdPc' = "awaitReady"
  /\ UNCHANGED <<recovery_signal, last, fc, recovered, passes, poll, normalPrinted>>

\* Mutant of LowerKill: the alarm is left up.
LowerKillForgets ==
  /\ wdPc = "readBeat"
  /\ wdPc' = "arm"
  /\ UNCHANGED <<kill_flag, recovery_signal, last, fc, recovered, passes, poll,
                 normalPrinted>>

LowerKill ==
  /\ wdPc = "readBeat"
  /\ kill_flag' = 0
  /\ wdPc' = "arm"
  /\ UNCHANGED <<recovery_signal, last, fc, recovered, passes, poll, normalPrinted>>

WatchdogRun ==
  \/ ClearKill \/ WdSeeReady \/ WdArm \/ WdMonitor \/ WdSetKill \/ WdSeeBeat
  \/ LowerKill

\* ProcMan is not still busy with the last alarm.
Attentive == pmPc \in {"clearRestart", "checkSeverity", "awaitKill", "returned"} \cup GiveUpPc

WatchdogRuns ==
  /\ WatchdogRun
  /\ restart_flag' = IF OneWord THEN kill_flag' ELSE restart_flag
  /\ missed' = IF wdPc = "setKill" /\ ~Attentive THEN 1 ELSE missed
  /\ UNCHANGED <<heartbeat, ready, severity_buf, threadVars, procmanVars, releaseVars,
                 fresh>>

\* run() of persistent_watchdog's ProcMan: one request, never withdrawn.
OneShotRun ==
  /\ release = "persistent"
  /\ \/ pmPc = "clearRestart" /\ restart_flag' = 0 /\ pmPc' = "awaitKill"
     \/ /\ pmPc = "awaitKill" /\ kill_flag # 0
        /\ pmPc' = "raiseRestart"
        /\ UNCHANGED restart_flag
     \/ pmPc = "raiseRestart" /\ restart_flag' = 1 /\ pmPc' = "returned"
  /\ UNCHANGED <<threadVars, restarts, polls, ack, active, fresh, missed>>

\* while (*kflag == 0), and the bound on the attempts.
SeeKill ==
  /\ pmPc = "awaitKill"
  /\ kill_flag # 0
  /\ restarts' = restarts + 1
  /\ pmPc' = IF restarts' > MaxRestarts THEN "giveUp"
             ELSE IF release = "retype" THEN "suspend" ELSE "raiseRestart"
  /\ UNCHANGED <<restart_flag, threadVars, polls, ack, active>>

\* The loop of the two later ProcMans around their attempts.
SupervisorLoop == PmStart \/ PmCheckSeverity \/ SeeKill \/ PmSeeRecovery \/ PmGiveUp

\* docker_recovered: the request is up for a fixed time, seen or not.
HoldRequest ==
  /\ pmPc = "raiseRestart"
  /\ restart_flag' = 1
  /\ pmPc' = "withdraw"
  /\ UNCHANGED missed

EndHold ==
  /\ pmPc = "withdraw"
  /\ restart_flag' = 0
  /\ pmPc' = "awaitRecovery"
  /\ missed' = IF restart_flag = 1 THEN 1 ELSE missed

RecoveredRun ==
  /\ release = "recovered"
  /\ \/ SupervisorLoop /\ UNCHANGED missed
     \/ (HoldRequest \/ EndHold) /\ UNCHANGED <<threadVars, restarts, polls, ack, active>>
  /\ UNCHANGED fresh

\* cooperative_restart of the top-level verse_unified.
CooperativeRestart ==
  PmRaiseRestart \/ PmPollRestart \/ PmPollKill \/ PmWithdraw \/ PmTimeout

\* Mutant of SuspendFirst: the TCB that runs is suspended.
SuspendLatest ==
  /\ pmPc = "suspend"
  /\ \/ /\ tstate' = [tstate EXCEPT ![fresh] = "suspended"]
        /\ pmPc' = "retype"
     \/ pmPc \in MayRefuse /\ pmPc' = "raiseRestart" /\ UNCHANGED tstate
  /\ UNCHANGED <<wpc, wcnt, fresh>>

\* suspend_worker_tcb: always the TCB of slot 0x100, whichever one runs now.
SuspendFirst ==
  /\ pmPc = "suspend"
  /\ \/ /\ tstate' = [tstate EXCEPT ![Original] = "suspended"]
        /\ pmPc' = "retype"
     \/ pmPc \in MayRefuse /\ pmPc' = "raiseRestart" /\ UNCHANGED tstate
  /\ UNCHANGED <<wpc, wcnt, fresh>>

\* rebuild_worker_tcb returned an error: enforced_restart_worker returns -2.
RebuildAborts == pmPc' = "giveUp" /\ UNCHANGED <<threadVars, fresh>>

\* Mutant of Retype: an occupied slot is overwritten.
RetypeAgain ==
  /\ pmPc = "retype"
  /\ \/ fresh' = fresh + 1 /\ pmPc' = "configure" /\ UNCHANGED threadVars
     \/ pmPc \in MayRefuse /\ RebuildAborts

\* The metadata check and seL4_Untyped_Retype, which the kernel refuses while
\* the one destination slot is occupied.
Retype ==
  /\ pmPc = "retype"
  /\ \/ fresh = 0 /\ fresh' = 1 /\ pmPc' = "configure" /\ UNCHANGED threadVars
     \/ (fresh # 0 \/ pmPc \in MayRefuse) /\ RebuildAborts

\* seL4_TCB_Configure, on MCS followed by seL4_TCB_SetSchedParams
ConfigureFresh ==
  /\ pmPc = "configure"
  /\ \/ /\ tstate' = [tstate EXCEPT ![fresh] = "configured"]
        /\ pmPc' = "writeRegisters"
        /\ UNCHANGED <<wpc, wcnt, fresh>>
     \/ pmPc \in MayRefuse /\ RebuildAborts

WriteFreshRegisters ==
  /\ pmPc = "writeRegisters"
  /\ \/ /\ wpc' = [wpc EXCEPT ![fresh] = "clearHeartbeat"]
        /\ pmPc' = "resume"
        /\ UNCHANGED <<tstate, wcnt, fresh>>
     \/ pmPc \in MayRefuse /\ RebuildAborts

ResumeFresh ==
  /\ pmPc = "resume"
  /\ \/ /\ tstate' = [tstate EXCEPT ![fresh] = "running"]
        /\ pmPc' = "awaitRecovery"
        /\ UNCHANGED <<wpc, wcnt, fresh>>
     \/ pmPc \in MayRefuse /\ RebuildAborts

EnforcedRestart ==
  /\ SuspendFirst \/ Retype \/ ConfigureFresh \/ WriteFreshRegisters \/ ResumeFresh
  /\ UNCHANGED <<restart_flag, restarts, polls, ack, active>>

RetypeRun ==
  /\ release = "retype"
  /\ \/ (SupervisorLoop \/ CooperativeRestart) /\ UNCHANGED fresh
     \/ EnforcedRestart
  /\ UNCHANGED missed

ProcManRuns ==
  /\ OneShotRun \/ RecoveredRun \/ RetypeRun
  /\ UNCHANGED <<heartbeat, ready, kill_flag, recovery_signal, severity_buf, watchdogVars,
                 releaseVars>>

\* DharmaNet of the same releases escalates or stands down.
ReportSeverity ==
  /\ release \in {"recovered", "retype"}
  /\ severity_buf' \in {0, 2}
  /\ UNCHANGED <<heartbeat, ready, kill_flag, restart_flag, recovery_signal, threadVars,
                 watchdogVars, procmanVars, releaseVars, fresh, missed>>

Next ==
  (\E t \in TCBs : WorkerRuns(t)) \/ WatchdogRuns \/ ProcManRuns \/ ReportSeverity

\* Round robin.  In the code a heartbeat that has moved on stays different from
\* last; here the counter wraps early, so that Watchdog's wait needs SF.
Spec ==
  /\ Init /\ [][Next]_vars
  /\ \A t \in TCBs : WF_vars(WorkerRuns(t))
  /\ WF_vars(WatchdogRuns) /\ SF_vars(WatchdogRuns /\ wdPc = "awaitBeat")
  /\ WF_vars(ProcManRuns)

------------------------------------------------------------------------------

\* At most one worker TCB runs, although the retype release keeps suspending the
\* first one: it never gets to build a second, because its slot stays occupied
\* (top-level procman.c lines 106 to 152).
OneWorkerRuns ==
  \A s, t \in TCBs : tstate[s] = "running" /\ tstate[t] = "running" => s = t

\* Once rebuilt, the worker is out of its supervisor's reach: no later attempt
\* stops it, not even the one that ends in quarantine (top-level procman.c line
\* 108; verse_unified has active_worker_tcb for this).
RebuiltIsOutOfReach ==
  [][\A t \in Spares : tstate[t] = "running" => tstate'[t] = "running"]_vars

\* Every alarm comes to an end or to quarantine, unless something was undone
\* before the other side looked, which the releases leave to their delays: a
\* request of docker_recovered withdrawn untaken (procman.c line 27), a new alarm
\* before ProcMan saw the last one end (line 29), a rebuilt worker that hangs
\* again on the beat it was replaced at (watchdog.c line 28).  And unless the
\* rebuilt worker has no priority.
OutageIsAnswered ==
  kill_flag = 1 ~>
    \/ kill_flag = 0 \/ pmPc = "quarantined"
    \/ missed = 1
    \/ fresh # 0 /\ mcs = 0

==============================================================================
