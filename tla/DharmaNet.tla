------------------------------ MODULE DharmaNet ------------------------------
(***************************************************************************)
(* DharmaNet (components/DharmaNet/src/dharmanet.c): once per epoch it     *)
(* turns the share of WorkerA in the work done into a severity for         *)
(* ProcMan, through a smoothing window and a WARN and a CRIT threshold     *)
(* with hysteresis and dwell times, and starts afresh when Watchdog        *)
(* publishes a recovery pass.                                              *)
(*                                                                         *)
(* An epoch is two steps: the read of recovery_signal, and what follows    *)
(* from it, which writes severity_buf once.  The share is an input; ep and *)
(* last, which only pace the log, are left out.                            *)
(***************************************************************************)
EXTENDS Integers, Sequences

CONSTANTS
  SmoothWin,        \* SMOOTH_WIN (4)
  WarnEnter,        \* WARN_ENTER (55)
  WarnExit,         \* WARN_EXIT (45)
  WarnDwell,        \* WARN_DWELL (3)
  CritEnter,        \* CRIT_ENTER (80)
  CritExit,         \* CRIT_EXIT (70)
  CritDwell,        \* CRIT_DWELL (8)
  CritExitDwell,    \* CRIT_EXIT_DWELL (5)
  EscalateEpochs,   \* CRIT_ESCALATE_EPOCHS (20)
  Shares            \* the shares, in percent, that an epoch may see

ASSUME DharmaNetAssumption ==
  /\ {SmoothWin, WarnDwell, CritDwell, CritExitDwell, EscalateEpochs} \subseteq Nat \ {0}
  /\ {WarnEnter, WarnExit, CritEnter, CritExit} \subseteq 0 .. 100
  /\ Shares \subseteq 0 .. 100

VARIABLES
  recovery_signal,  \* watchdog -> dharmanet: recovery passes so far
  severity_buf,     \* dharmanet -> procman: 0 OK, 1 WARN or CRIT, 2 escalated
  dnPc,             \* the step DharmaNet takes next
  recovery_pass,    \* local: the pass read at the start of the epoch
  seen_recovery,    \* local: the last pass taken over
  hist,             \* local: the last shares, oldest first (hist, hi and hcnt)
  hsum,             \* local: their sum
  level,            \* locals crit and warned: "ok", "warn" or "crit"
  rising,           \* local aw: epochs above WarnEnter
  falling,          \* local bo: epochs below WarnExit
  climbing,         \* local ac: epochs above CritEnter
  leaving,          \* local bc: epochs below CritExit
  crit_ep           \* local: epochs in CRIT

levelVars == <<level, rising, falling, climbing, leaving, crit_ep>>
dharmaVars == <<dnPc, recovery_pass, seen_recovery, hist, hsum, levelVars>>

DharmaNetInit ==
  /\ severity_buf = 0
  /\ dnPc = "look"
  /\ recovery_pass = 0 /\ seen_recovery = 0
  /\ hist = <<>> /\ hsum = 0
  /\ level = "ok"
  /\ rising = 0 /\ falling = 0
  /\ climbing = 0 /\ leaving = 0
  /\ crit_ep = 0

DharmaNetTypeOK ==
  /\ severity_buf \in 0 .. 2
  /\ dnPc \in {"look", "sample"}
  /\ recovery_pass \in Nat /\ seen_recovery \in Nat
  /\ hist \in Seq(0 .. 100) /\ Len(hist) <= SmoothWin
  /\ hsum \in Int
  /\ level \in {"ok", "warn", "crit"}
  /\ rising \in 0 .. (WarnDwell - 1) /\ falling \in 0 .. (WarnDwell - 1)
  /\ climbing \in 0 .. (CritDwell - 1) /\ leaving \in 0 .. (CritExitDwell - 1)
  /\ crit_ep \in 0 .. EscalateEpochs

\* int recovery_pass = *recovery
DnLook ==
  /\ dnPc = "look"
  /\ recovery_pass' = recovery_signal
  /\ dnPc' = "sample"
  /\ UNCHANGED <<severity_buf, seen_recovery, hist, hsum, levelVars>>

\* Mutant of NewPass: only the first pass is one.
NewPassOnce == recovery_pass # 0 /\ seen_recovery = 0

NewPass == recovery_pass # 0 /\ recovery_pass # seen_recovery

\* Mutant of DnRecover: the CRIT dwell is not started afresh.
DnRecoverKeepsClimbing ==
  /\ dnPc = "sample"
  /\ NewPass
  /\ seen_recovery' = recovery_pass
  /\ level' = "ok"
  /\ rising' = 0 /\ falling' = 0 /\ leaving' = 0 /\ crit_ep' = 0
  /\ severity_buf' = 0
  /\ dnPc' = "look"
  /\ UNCHANGED <<recovery_pass, hist, hsum, climbing>>

\* Mutant of DnRecover: the severity stays until the next epoch reports one.
DnRecoverKeepsSeverity ==
  /\ dnPc = "sample"
  /\ NewPass
  /\ seen_recovery' = recovery_pass
  /\ level' = "ok"
  /\ rising' = 0 /\ falling' = 0 /\ climbing' = 0 /\ leaving' = 0 /\ crit_ep' = 0
  /\ dnPc' = "look"
  /\ UNCHANGED <<severity_buf, recovery_pass, hist, hsum>>

\* A pass not seen before ends the epoch: OK, with every dwell counter at zero.
\* The smoothing window stays as it is.
DnRecover ==
  /\ dnPc = "sample"
  /\ NewPass
  /\ seen_recovery' = recovery_pass
  /\ level' = "ok"
  /\ rising' = 0 /\ falling' = 0 /\ climbing' = 0 /\ leaving' = 0 /\ crit_ep' = 0
  /\ severity_buf' = 0
  /\ dnPc' = "look"
  /\ UNCHANGED <<recovery_pass, hist, hsum>>

\* An epoch in which neither worker has counted.
DnIdle ==
  /\ dnPc = "sample"
  /\ ~NewPass
  /\ dnPc' = "look"
  /\ UNCHANGED <<severity_buf, recovery_pass, seen_recovery, hist, hsum, levelVars>>

\* Mutant of Smooth: the share that leaves the window stays in the sum.
SmoothKeepsOldest(pa) ==
  /\ hist' = IF Len(hist) < SmoothWin THEN Append(hist, pa) ELSE Append(Tail(hist), pa)
  /\ hsum' = hsum + pa

\* The share enters the window, and the oldest one leaves a full one.
Smooth(pa) ==
  IF Len(hist) < SmoothWin
    THEN hist' = Append(hist, pa) /\ hsum' = hsum + pa
    ELSE hist' = Append(Tail(hist), pa) /\ hsum' = hsum - Head(hist) + pa

\* Mutant of Smoothed: the sum is divided by one share too many.
SmoothedLow(pa) == IF Len(hist') = SmoothWin THEN hsum' \div (SmoothWin + 1) ELSE pa

\* The smoothed share: the average of a full window, or the share itself.
Smoothed(pa) == IF Len(hist') = SmoothWin THEN hsum' \div SmoothWin ELSE pa

\* The CRIT threshold, on the smoothed share; what it makes of the level.
CritLevel(sp) ==
  IF level = "crit"
    THEN IF sp < CritExit /\ leaving + 1 >= CritExitDwell THEN "ok" ELSE "crit"
    ELSE IF sp > CritEnter /\ climbing + 1 >= CritDwell THEN "crit" ELSE level

\* Mutant of WarnLevel: WARN is left below the exit threshold of CRIT, at once.
WarnLevelWide(l, sp) ==
  CASE l = "ok" /\ sp > WarnEnter /\ rising + 1 >= WarnDwell -> "warn"
    [] l = "warn" /\ sp < CritExit -> "ok"
    [] OTHER -> l

\* The WARN threshold, applied to what the CRIT threshold left (l).
WarnLevel(l, sp) ==
  CASE l = "ok" /\ sp > WarnEnter /\ rising + 1 >= WarnDwell -> "warn"
    [] l = "warn" /\ sp < WarnExit /\ falling + 1 >= WarnDwell -> "ok"
    [] OTHER -> l

\* The dwell counters; each is back at zero when its threshold is passed, when
\* the run of epochs is broken, and on the way into CRIT.
Dwell(sp) ==
  LET l == CritLevel(sp)
      entered == l = "crit" /\ level # "crit"
  IN  /\ climbing' = IF level # "crit" /\ ~entered /\ sp > CritEnter THEN climbing + 1 ELSE 0
      /\ leaving' = IF level = "crit" /\ l = "crit" /\ sp < CritExit THEN leaving + 1 ELSE 0
      /\ rising' = IF l = "ok" /\ WarnLevel(l, sp) = "ok" /\ sp > WarnEnter
                     THEN rising + 1 ELSE 0
      /\ falling' = IF l = "warn" /\ WarnLevel(l, sp) = "warn" /\ sp < WarnExit
                      THEN falling + 1 ELSE 0

\* Mutant of Severity: CRIT has a value of its own, between WARN and the last.
SeverityOfFour ==
  CASE level' = "crit" /\ crit_ep' >= EscalateEpochs -> 3
    [] level' = "ok" -> 0
    [] OTHER -> 1

\* What is reported of the level.
Severity ==
  CASE level' = "crit" /\ crit_ep' >= EscalateEpochs -> 2
    [] level' = "ok" -> 0
    [] OTHER -> 1

DnSample(pa) ==
  /\ dnPc = "sample"
  /\ ~NewPass
  /\ Smooth(pa)
  /\ LET sp == Smoothed(pa)
     IN  level' = WarnLevel(CritLevel(sp), sp) /\ Dwell(sp)
  /\ crit_ep' = IF level' # "crit" THEN 0
                ELSE IF crit_ep < EscalateEpochs THEN crit_ep + 1 ELSE crit_ep
  /\ severity_buf' = Severity
  /\ dnPc' = "look"
  /\ UNCHANGED <<recovery_pass, seen_recovery>>

==============================================================================
