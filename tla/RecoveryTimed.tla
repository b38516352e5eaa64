---------------------------- MODULE RecoveryTimed ----------------------------
(***************************************************************************)
(* The recovery loop with the time its delay loops take.  The components   *)
(* have one priority and share one core under seL4's round robin: in each  *)
(* round every runnable thread holds the core once, for a time slice, and  *)
(* spends it in its delay loops.  Dataport accesses and kernel calls cost  *)
(* nothing beside a delay loop.  The order within a round and the exact    *)
(* length of each slice are left open.                                     *)
(*                                                                         *)
(* Only the threads of the recovery loop are here.  The slices of the      *)
(* others make a round longer but no delay loop shorter.  DharmaNet takes  *)
(* no step, so severity_buf stays 0 and Severities plays no part: all that *)
(* is said of TimedSpec is said of a system in which no load escalates.    *)
(*                                                                         *)
(* RecoveryLoop lets a thread be starved for as long as one likes; there   *)
(* Watchdog may report a healthy worker and ProcMan may miss a report.     *)
(* This module shows what the constants of the code buy: with the ratios   *)
(* they have neither happens.                                              *)
(***************************************************************************)
EXTENDS RecoveryLoop

CONSTANTS        \* all in units of the shortest delay loop (500000 rounds)
  BeatDelay,     \* between two beats of the worker (20)
  StallDelay,    \* between two looks of the deadlocked worker (2)
  WatchDelay,    \* between two polls of Watchdog (2)
  PollDelay,     \* between two polls of ProcMan (1)
  BackoffDelay,  \* BASE_BACKOFF (4), times the attempt
  Slices,        \* the lengths a time slice may have
  SliceMin,      \* the shortest of them, or less
  SliceMax       \* the longest of them, or more

ASSUME TimedAssumption ==
  /\ {BeatDelay, StallDelay, WatchDelay, PollDelay, BackoffDelay} \subseteq Nat \ {0}
  /\ Slices # {} /\ Slices \subseteq Nat \ {0}
  /\ SliceMin \in Nat \ {0} /\ SliceMax \in Nat \ {0}
  /\ Slices \subseteq SliceMin .. SliceMax

\* What another thread can spend at most while a thread gets past a delay of d:
\* the slices it takes to do so, and one more for the place in the round.
Meanwhile(d) == (d \div SliceMin + 2) * SliceMax

\* The ratios of the code, on which everything below rests:
\* between two beats and between two polls of ProcMan, Watchdog cannot complete
\* its misses; between two polls of Watchdog the worker cannot count in a circle;
\* and the polls of a cooperative restart outlast the wait of the worker for its
\* flag together with that of Watchdog for the beat that follows.
ASSUME PacingAssumption ==
  /\ StallDelay <= BeatDelay
  /\ Meanwhile(BeatDelay) < MissLimit * WatchDelay
  /\ Meanwhile(PollDelay) < MissLimit * WatchDelay
  /\ Meanwhile(WatchDelay) < (Beats - 1) * BeatDelay
  /\ Meanwhile(WatchDelay) < (CounterBound - 1) * BeatDelay
  /\ Meanwhile(BeatDelay) + Meanwhile(WatchDelay) < (WaitPolls - 1) * PollDelay

VARIABLES
  left,      \* what each thread still has to spend in its delay loop
  current,   \* the thread that holds the core
  slice,     \* what is left of its time slice
  waiting    \* the threads that have not yet had the core in this round

schedVars == <<current, slice, waiting>>
timedVars == <<vars, left, schedVars>>

Threads == {"worker", "watchdog", "procman"}

Runnable == {c \in Threads : c = "worker" => RunningTcbs # {}}

TimedInit ==
  /\ Init
  /\ left = [c \in Threads |-> 0]
  /\ current \in Threads
  /\ slice = 0
  /\ waiting = Threads

TimedTypeOK ==
  /\ left \in [Threads -> Nat]
  /\ current \in Threads
  /\ slice \in Nat
  /\ waiting \subseteq Threads

\* Thread c holds the core and is not in a delay loop.
HasCore(c) == current = c /\ slice > 0 /\ left[c] = 0

Delay(c, d) == left' = [left EXCEPT ![c] = d]

\* The worker delays after every beat.
BeatPc == {"beats", "secondBeats", "loop", "recovered"}

WorkerActs ==
  /\ HasCore("worker")
  /\ WorkerRuns
  /\ Delay("worker", IF \E t \in RunningTcbs : wpc[t] \in BeatPc
                       THEN BeatDelay ELSE 0)
  /\ UNCHANGED schedVars

\* A look at restart_flag that finds it down.
WorkerLooks ==
  /\ HasCore("worker")
  /\ \E t \in TCBs : At(t, "stalled")
  /\ restart_flag = 0
  /\ Delay("worker", StallDelay)
  /\ UNCHANGED <<vars, schedVars>>

\* Watchdog delays before each poll of its two monitoring loops.
WatchdogActs ==
  /\ HasCore("watchdog")
  /\ WatchdogRuns
  /\ Delay("watchdog", IF wdPc' \in {"monitor", "window"} THEN WatchDelay ELSE 0)
  /\ UNCHANGED schedVars

WatchdogLooks ==
  /\ HasCore("watchdog")
  /\ wdPc = "awaitBeat"
  /\ heartbeat = last
  /\ Delay("watchdog", WatchDelay)
  /\ UNCHANGED <<vars, schedVars>>

\* The backoff before an attempt, and the delay that ends each poll of
\* cooperative_restart.  A suspended worker leaves its delay loop for good.
ProcManActs ==
  /\ HasCore("procman")
  /\ ProcManRuns
  /\ LET d == IF pmPc = "awaitKill" /\ pmPc' # "giveUp" THEN restarts' * BackoffDelay
              ELSE IF pmPc = "pollKill" /\ pmPc' # "withdraw" THEN PollDelay
              ELSE 0
     IN  left' = [left EXCEPT !["procman"] = d,
                              !["worker"] = IF tstate' = tstate THEN @ ELSE 0]
  /\ UNCHANGED schedVars

\* Mutant of ProcManLooks: ProcMan polls as rarely as Watchdog gives up.
ProcManLooksRarely ==
  /\ HasCore("procman")
  /\ \/ pmPc = "awaitKill" /\ kill_flag = 0
     \/ pmPc = "awaitRecovery" /\ kill_flag = 1
  /\ Delay("procman", 2 * MissLimit * WatchDelay)
  /\ UNCHANGED <<vars, schedVars>>

ProcManLooks ==
  /\ HasCore("procman")
  /\ \/ pmPc = "awaitKill" /\ kill_flag = 0
     \/ pmPc = "awaitRecovery" /\ kill_flag = 1
  /\ Delay("procman", PollDelay)
  /\ UNCHANGED <<vars, schedVars>>

\* The loops that nothing but a preemption leaves.
Spins(c) ==
  \/ c = "worker" /\ \E t \in TCBs : At(t, "hung")
  \/ c = "watchdog" /\ wdPc = "awaitReady" /\ ready = 0
  \/ c = "procman" /\ pmPc = "quarantined"

\* One unit of the slice goes by in the delay loop of the current thread.
Spend ==
  /\ slice > 0
  /\ \/ left[current] > 0 /\ left' = [left EXCEPT ![current] = @ - 1]
     \/ left[current] = 0 /\ Spins(current) /\ UNCHANGED left
  /\ slice' = slice - 1
  /\ UNCHANGED <<vars, current, waiting>>

\* The slice is used up: a thread that has not run in this round is next.
Switch ==
  /\ slice = 0
  /\ \E c \in waiting \cap Runnable :
       /\ current' = c
       /\ waiting' = waiting \ {c}
  /\ slice' \in Slices
  /\ UNCHANGED <<vars, left>>

NewRound ==
  /\ slice = 0
  /\ waiting \cap Runnable = {}
  /\ waiting' = Threads
  /\ UNCHANGED <<vars, left, current, slice>>

TimedNext ==
  \/ WorkerActs \/ WorkerLooks
  \/ WatchdogActs \/ WatchdogLooks
  \/ ProcManActs \/ ProcManLooks
  \/ Spend \/ Switch \/ NewRound

TimedSpec == TimedInit /\ [][TimedNext]_timedVars /\ WF_timedVars(TimedNext)

------------------------------------------------------------------------------

\* Watchdog never reports a worker that is beating (SUPPORT_STATUS.md line 60:
\* the threshold is there to tolerate scheduler jitter).
NoFalseAlarm ==
  wdPc = "setKill" =>
    \A t \in RunningTcbs : wpc[t] \in {"stalled", "takeRestart", "hung"}

\* Whenever Watchdog is about to raise kill_flag, ProcMan has seen it low since
\* the last outage: it is not still waiting for the previous outage to end, and
\* cannot take the new report for the old one (procman.c line 312).
NoMissedReport ==
  wdPc = "setKill" => pmPc \in {"checkSeverity", "awaitKill"} \cup GiveUpPc

\* A worker that recovers once is never restarted again, and ProcMan does not
\* give up on it, as long as DharmaNet escalates no load (tools/negative_normal_recovery_no_second_restart.sh line 65).
NoSecondRestart == restarts <= 1 /\ pmPc \notin GiveUpPc

\* A respawned worker gets its normal-pass verdict: VERSE_NORMAL_RECOVERY_PASS.
NormalPassReached == (active \in Spares) ~> (normalPrinted = 1)

\* The worker is brought back for good, by the cooperative restart or by a spare.
WorkerRevives == <>[](kill_flag = 0 /\ pmPc = "awaitKill")

\* A worker that keeps deadlocking gets its three recoveries, each of them
\* proved by its heartbeat, and then quarantine
\* (TCB_REPEATED_RECOVERY_SPARE_POOL_EVIDENCE.md line 7).
ThreePassesThenQuarantine ==
  <>[](pmPc = "quarantined" /\ passes = MaxRestarts /\ restarts = MaxRestarts + 1)

==============================================================================
