-------------------------- MODULE DharmaNetHistory --------------------------
(***************************************************************************)
(* DharmaNet driven by any sequence of shares and recovery passes, with    *)
(* history variables that say what it has seen since it last started       *)
(* afresh.                                                                 *)
(***************************************************************************)
EXTENDS DharmaNet

CONSTANT
  PassLimit   \* bound: recovery passes that Watchdog publishes

ASSUME HistoryAssumption == PassLimit \in Nat

VARIABLES
  age,        \* epochs sampled since the start or the last recovery (capped)
  share,      \* the last share
  high        \* 1 once a share since the start or the last recovery was above WarnEnter

historyVars == <<age, share, high>>
vars == <<recovery_signal, severity_buf, dharmaVars, historyVars>>

\* The shortest way to severity 2, in epochs.
EscalationTime == CritDwell + EscalateEpochs - 1

HistoryInit ==
  /\ DharmaNetInit
  /\ recovery_signal = 0
  /\ age = 0 /\ share = 0 /\ high = 0

Capped(n, bound) == IF n < bound THEN n + 1 ELSE n

Looks == DnLook /\ UNCHANGED <<recovery_signal, historyVars>>

Idles == DnIdle /\ UNCHANGED <<recovery_signal, historyVars>>

Recovers ==
  /\ DnRecover
  /\ age' = 0 /\ high' = 0
  /\ UNCHANGED <<recovery_signal, share>>

Samples(pa) ==
  /\ DnSample(pa)
  /\ age' = Capped(age, EscalationTime)
  /\ share' = pa
  /\ high' = IF pa > WarnEnter THEN 1 ELSE high
  /\ UNCHANGED recovery_signal

\* Watchdog counts another recovery.
Publish ==
  /\ recovery_signal < PassLimit
  /\ recovery_signal' = recovery_signal + 1
  /\ UNCHANGED <<severity_buf, dharmaVars, historyVars>>

SampleStep == \E pa \in Shares : Samples(pa)

HistoryNext == Looks \/ Idles \/ Recovers \/ SampleStep \/ Publish

HistorySpec == HistoryInit /\ [][HistoryNext]_vars

\* DharmaNet's thread keeps getting the core.
FairHistorySpec == HistorySpec /\ WF_vars(Looks \/ Idles \/ Recovers \/ SampleStep)

------------------------------------------------------------------------------

TypeOK ==
  /\ DharmaNetTypeOK
  /\ recovery_signal \in Nat
  /\ age \in 0 .. EscalationTime
  /\ share \in 0 .. 100 /\ high \in {0, 1}

\* After the start and after every recovery, ProcMan is told of a quarantine
\* only after the full CRIT dwell and the full escalation time, and of a warning
\* only after a dwell: nothing counted before a recovery shortens them
\* (dharmanet.c line 29).
SeverityIsEarned ==
  /\ severity_buf = 2 => age >= EscalationTime
  /\ severity_buf > 0 => age >= WarnDwell \/ age >= CritDwell

\* Each pass is taken over, or a later one is: none of them is lost for good,
\* though two may be taken over at once (dharmanet.c lines 26 to 28).
PassIsTaken ==
  \A p \in 1 .. PassLimit : (recovery_signal = p) ~> (seen_recovery >= p)

\* A load that stays the same ends in one severity: the gaps between the enter
\* and exit thresholds rule oscillation out.
SteadyLoadSettles ==
  \A s \in Shares :
    <>[](share = s) => \E v \in 0 .. 2 : <>[](severity_buf = v)

\* A load that stays above CritEnter ends in severity 2, one that stays below
\* WarnExit in severity 0, if the workers keep working.
LoadDecides ==
  []<><<SampleStep>>_vars =>
    /\ <>[](share > CritEnter) => <>[](severity_buf = 2)
    /\ <>[](share < WarnExit) => <>[](severity_buf = 0)

\* What a recovery leaves in the smoothing window (dharmanet.c lines 29 and 36)
\* can bring a warning though every share since was low, but only while it is in
\* the window: DHARMA_RECOVERY_OK_EVIDENCE.md line 26, "clears its local warning
\* and critical state", holds from then on of the shares as well.
CarryOverIsBounded ==
  [][severity_buf = 0 /\ severity_buf' > 0 /\ high' = 0 => age' < SmoothWin]_vars

==============================================================================
