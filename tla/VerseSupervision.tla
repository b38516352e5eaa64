--------------------------- MODULE VerseSupervision ---------------------------
(***************************************************************************)
(* The supervision of verse_unified as one system: the recovery loop, with *)
(* DharmaNet itself in the place of the arbitrary severities of            *)
(* RecoveryLoop.  Watchdog counts its passes for DharmaNet in              *)
(* recovery_signal, and ProcMan reads DharmaNet's severity_buf, each       *)
(* whenever it gets there.                                                 *)
(***************************************************************************)
EXTENDS RecoveryLoop

CONSTANTS
  SmoothWin, WarnEnter, WarnExit, WarnDwell, CritEnter, CritExit, CritDwell,
  CritExitDwell, EscalateEpochs, Shares

VARIABLES
  dnPc, recovery_pass, seen_recovery, hist, hsum,
  level, rising, falling, climbing, leaving, crit_ep,
  since,  \* history: epochs ended since the last pass was published (capped)
  late    \* history: attempts begun since the severity became 2 and stayed so

Dn == INSTANCE DharmaNet

ASSUME SupervisionAssumption ==
  /\ {SmoothWin, WarnDwell, CritDwell, CritExitDwell, EscalateEpochs} \subseteq Nat \ {0}
  /\ {WarnEnter, WarnExit, CritEnter, CritExit} \subseteq 0 .. 100
  /\ Shares \subseteq 0 .. 100
  /\ Severities = 0 .. 2

localVars == <<recovery_pass, seen_recovery, hist, hsum, level, rising, falling,
               climbing, leaving, crit_ep>>
supervisionVars == <<vars, dnPc, localVars, since, late>>

\* The shortest way to severity 2, in epochs.
EscalationTime == CritDwell + EscalateEpochs - 1

SupervisionInit ==
  /\ Init
  /\ Dn!DharmaNetInit
  /\ since = EscalationTime + 1 /\ late = 0

LoopRuns ==
  /\ WorkerRuns \/ WatchdogRuns \/ ProcManRuns
  /\ late' = IF severity_buf = 2 /\ restarts' > restarts THEN late + 1 ELSE late
  /\ since' = IF recovery_signal' = recovery_signal THEN since ELSE 0
  /\ UNCHANGED <<dnPc, localVars>>

\* An epoch writes severity_buf and touches nothing else of the loop.
Epoch == Dn!DnLook \/ Dn!DnRecover \/ Dn!DnIdle \/ \E pa \in Shares : Dn!DnSample(pa)

EpochRuns ==
  /\ Epoch
  /\ late' = IF severity_buf' = 2 THEN late ELSE 0
  /\ since' = IF dnPc' = "look" /\ since <= EscalationTime THEN since + 1 ELSE since
  /\ UNCHANGED <<heartbeat, ready, kill_flag, restart_flag, recovery_signal,
                 threadVars, watchdogVars, procmanVars>>

SupervisionNext == LoopRuns \/ EpochRuns

SupervisionSpec == SupervisionInit /\ [][SupervisionNext]_supervisionVars

FairSupervisionSpec == SupervisionSpec /\ Fairness /\ WF_supervisionVars(EpochRuns)

------------------------------------------------------------------------------

\* An escalation counted before a recovery can still be read after it, and ProcMan
\* then quarantines the worker that has just recovered (procman.c line 282): DharmaNet
\* withdraws it in an epoch of its own, whenever that comes.  It stands for the rest
\* of the epoch in which Watchdog publishes the pass (watchdog.c line 67) and for one
\* more (dharmanet.c line 29); after these every escalation has been counted, dwell
\* and all, since that pass.
StaleEscalationIsBrief == severity_buf = 2 => since <= 1 \/ since > EscalationTime

\* While the severity stays at 2, ProcMan begins at most one more attempt: the
\* one for which it was already waiting (procman.c lines 280 to 295).
OneLateRestart == late <= 1

\* Every severity DharmaNet computes is one the loop was checked and proved for.
ImplementsLoop == Spec

==============================================================================
