------------------------------ MODULE Watchdog ------------------------------
(***************************************************************************)
(* Watchdog (components/Watchdog/src/watchdog.c): polls the heartbeat,     *)
(* raises kill_flag after MissLimit polls without a change, waits for any  *)
(* new heartbeat, lowers kill_flag, and counts the recovery as a pass of   *)
(* verse_recovery_entry when the value it then reads is at least           *)
(* RecoveryBase.  One action per access to a dataport.                     *)
(***************************************************************************)
EXTENDS Dataports

CONSTANTS
  MissLimit,    \* HEARTBEAT_MISS_LIMIT (50)
  PassBound     \* bound: recovery passes after which Watchdog is not followed

ASSUME WatchdogAssumption ==
  /\ MissLimit \in Nat \ {0}
  /\ PassBound \in Nat \ {0}

VARIABLES
  wdPc,           \* the statement Watchdog executes next
  last,           \* local: the heartbeat of the previous poll
  fc,             \* local: polls without a change
  recovered,      \* local: the heartbeat that ended the outage
  passes,         \* local: recovery_passes
  poll,           \* local: polls done in normal_recovery_pass_window
  normalPrinted   \* local: normal_pass_printed

watchdogVars == <<wdPc, last, fc, recovered, passes, poll, normalPrinted>>

WatchdogPc == {"clearKill", "clearSignal", "awaitReady", "arm", "monitor",
               "setKill", "awaitBeat", "readBeat", "lowerKill", "signal",
               "window"}

\* NORMAL_PASS_MONITOR_POLLS
NormalPassPolls == 2 * MissLimit

WatchdogInit ==
  /\ wdPc = "clearKill"
  /\ last = 0 /\ fc = 0
  /\ recovered = 0
  /\ passes = 0
  /\ poll = 0
  /\ normalPrinted = 0

WatchdogTypeOK ==
  /\ wdPc \in WatchdogPc
  /\ last \in Counts
  /\ fc \in 0 .. MissLimit
  /\ recovered \in Counts
  /\ passes \in 0 .. PassBound
  /\ poll \in 0 .. NormalPassPolls
  /\ normalPrinted \in {0, 1}

WdClearKill ==
  /\ wdPc = "clearKill"
  /\ kill_flag' = 0
  /\ wdPc' = "clearSignal"
  /\ UNCHANGED <<recovery_signal, last, fc, recovered, passes, poll, normalPrinted>>

WdClearSignal ==
  /\ wdPc = "clearSignal"
  /\ recovery_signal' = 0
  /\ wdPc' = "awaitReady"
  /\ UNCHANGED <<kill_flag, last, fc, recovered, passes, poll, normalPrinted>>

WdSeeReady ==
  /\ wdPc = "awaitReady"
  /\ ready # 0
  /\ wdPc' = "arm"
  /\ UNCHANGED <<kill_flag, recovery_signal, last, fc, recovered, passes, poll,
                 normalPrinted>>

WdArm ==
  /\ wdPc = "arm"
  /\ last' = heartbeat
  /\ fc' = 0
  /\ wdPc' = "monitor"
  /\ UNCHANGED <<kill_flag, recovery_signal, recovered, passes, poll, normalPrinted>>

\* Mutant of WdMonitor: a beat does not reset the count of misses.
WdMonitorNoReset ==
  /\ wdPc = "monitor"
  /\ last' = heartbeat
  /\ fc' = IF heartbeat = last THEN fc + 1 ELSE fc
  /\ wdPc' = IF fc' >= MissLimit THEN "setKill" ELSE "monitor"
  /\ UNCHANGED <<kill_flag, recovery_signal, recovered, passes, poll, normalPrinted>>

\* Mutant of WdMonitor: misses are not added up.
WdMonitorNoCount ==
  /\ wdPc = "monitor"
  /\ last' = heartbeat
  /\ fc' = IF heartbeat = last THEN 1 ELSE 0
  /\ wdPc' = IF fc' >= MissLimit THEN "setKill" ELSE "monitor"
  /\ UNCHANGED <<kill_flag, recovery_signal, recovered, passes, poll, normalPrinted>>

\* One poll of the inner monitoring loop.
WdMonitor ==
  /\ wdPc = "monitor"
  /\ last' = heartbeat
  /\ fc' = IF heartbeat = last THEN fc + 1 ELSE 0
  /\ wdPc' = IF fc' >= MissLimit THEN "setKill" ELSE "monitor"
  /\ UNCHANGED <<kill_flag, recovery_signal, recovered, passes, poll, normalPrinted>>

WdSetKill ==
  /\ wdPc = "setKill"
  /\ kill_flag' = 1
  /\ wdPc' = "awaitBeat"
  /\ UNCHANGED <<recovery_signal, last, fc, recovered, passes, poll, normalPrinted>>

\* while (*hb == last): any other value ends the outage.
WdSeeBeat ==
  /\ wdPc = "awaitBeat"
  /\ heartbeat # last
  /\ wdPc' = "readBeat"
  /\ UNCHANGED <<kill_flag, recovery_signal, last, fc, recovered, passes, poll,
                 normalPrinted>>

\* Mutant of WdReadBeat: the pass is published before kill_flag is lowered.
WdReadBeatSignals ==
  /\ wdPc = "readBeat"
  /\ recovered' = heartbeat
  /\ recovery_signal' = IF heartbeat >= RecoveryBase THEN passes + 1 ELSE recovery_signal
  /\ wdPc' = "lowerKill"
  /\ UNCHANGED <<kill_flag, last, fc, passes, poll, normalPrinted>>

\* The value is read again: it need not be the one that ended the wait.
WdReadBeat ==
  /\ wdPc = "readBeat"
  /\ recovered' = heartbeat
  /\ wdPc' = "lowerKill"
  /\ UNCHANGED <<kill_flag, recovery_signal, last, fc, passes, poll, normalPrinted>>

\* After a recovery: the one normal-pass window, or back to monitoring.
AfterRecovery ==
  IF ~RepeatDeadlock /\ normalPrinted = 0 /\ passes' = 1
    THEN /\ wdPc' = "window"
         /\ last' = recovered
         /\ fc' = 0
         /\ poll' = 0
    ELSE /\ wdPc' = "arm"
         /\ UNCHANGED <<last, fc, poll>>

\* Mutant of WdLowerKill: every recovery counts as one of the recovery entry.
WdLowerKillCountsAll ==
  /\ wdPc = "lowerKill"
  /\ kill_flag' = 0
  /\ passes < PassBound
  /\ passes' = passes + 1
  /\ wdPc' = "signal"
  /\ UNCHANGED <<recovery_signal, recovered, normalPrinted, last, fc, poll>>

WdLowerKill ==
  /\ wdPc = "lowerKill"
  /\ kill_flag' = 0
  /\ IF recovered >= RecoveryBase
       THEN /\ passes < PassBound
            /\ passes' = passes + 1
            /\ wdPc' = "signal"
            /\ UNCHANGED <<last, fc, poll>>
       ELSE UNCHANGED passes /\ AfterRecovery
  /\ UNCHANGED <<recovery_signal, recovered, normalPrinted>>

WdSignal ==
  /\ wdPc = "signal"
  /\ recovery_signal' = passes
  /\ UNCHANGED <<kill_flag, recovered, passes, normalPrinted>>
  /\ AfterRecovery

\* Mutant of WdWindow: the window does not reset the count of misses.
WdWindowNoReset ==
  /\ wdPc = "window"
  /\ last' = heartbeat
  /\ fc' = IF heartbeat = last THEN fc + 1 ELSE fc
  /\ poll' = poll + 1
  /\ wdPc' = IF fc' >= MissLimit \/ poll' = NormalPassPolls THEN "arm" ELSE "window"
  /\ normalPrinted' = IF fc' < MissLimit /\ poll' = NormalPassPolls THEN 1 ELSE 0
  /\ UNCHANGED <<kill_flag, recovery_signal, recovered, passes>>

\* One poll of normal_recovery_pass_window; its last one prints
\* VERSE_NORMAL_RECOVERY_PASS.
WdWindow ==
  /\ wdPc = "window"
  /\ last' = heartbeat
  /\ fc' = IF heartbeat = last THEN fc + 1 ELSE 0
  /\ poll' = poll + 1
  /\ wdPc' = IF fc' >= MissLimit \/ poll' = NormalPassPolls THEN "arm" ELSE "window"
  /\ normalPrinted' = IF fc' < MissLimit /\ poll' = NormalPassPolls THEN 1 ELSE 0
  /\ UNCHANGED <<kill_flag, recovery_signal, recovered, passes>>

WatchdogStep ==
  \/ WdClearKill \/ WdClearSignal \/ WdSeeReady \/ WdArm \/ WdMonitor
  \/ WdSetKill \/ WdSeeBeat \/ WdReadBeat \/ WdLowerKill \/ WdSignal \/ WdWindow

WatchdogNext ==
  /\ WatchdogStep
  /\ UNCHANGED <<heartbeat, ready, restart_flag, severity_buf, tstate, wpc, wcnt>>

==============================================================================
