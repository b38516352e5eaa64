----------------------------- MODULE TestWorker -----------------------------
(***************************************************************************)
(* TestWorker (components/TestWorker/src/testworker.c): the supervised     *)
(* worker.  Its first thread executes run(): it initialises its dataports, *)
(* beats, simulates a deadlock in which it only watches restart_flag, and  *)
(* when restarted beats for ever.  A spare TCB that ProcMan resumes        *)
(* executes verse_recovery_entry(), which never reads restart_flag again   *)
(* and, built with VERSE_TESTWORKER_REPEAT_DEADLOCK, hangs for good.       *)
(*                                                                         *)
(* One action per access to a dataport: the other threads may run between  *)
(* any two of them, and for as long as they like.  Delay loops are time,   *)
(* which RecoveryTimed adds.                                               *)
(***************************************************************************)
EXTENDS Dataports

\* Thread t is scheduled by the kernel and about to execute statement p.
At(t, p) == tstate[t] = "running" /\ wpc[t] = p

Goto(t, p) == wpc' = [wpc EXCEPT ![t] = p]
Count(t, n) == wcnt' = [wcnt EXCEPT ![t] = n]

ClearHeartbeat(t) ==
  /\ At(t, "clearHeartbeat")
  /\ heartbeat' = 0
  /\ Goto(t, "clearReady")
  /\ UNCHANGED <<ready, restart_flag, wcnt>>

\* Mutant of ClearReady: rd is raised before restart_flag is cleared.
ClearReadyRaises(t) ==
  /\ At(t, "clearReady")
  /\ ready' = 1
  /\ Goto(t, "clearRestart")
  /\ UNCHANGED <<heartbeat, restart_flag, wcnt>>

ClearReady(t) ==
  /\ At(t, "clearReady")
  /\ ready' = 0
  /\ Goto(t, "clearRestart")
  /\ UNCHANGED <<heartbeat, restart_flag, wcnt>>

ClearRestart(t) ==
  /\ At(t, "clearRestart")
  /\ restart_flag' = 0
  /\ Goto(t, "setReady")
  /\ UNCHANGED <<heartbeat, ready, wcnt>>

SetReady(t) ==
  /\ At(t, "setReady")
  /\ ready' = 1
  /\ Goto(t, "beats")
  /\ Count(t, 0)
  /\ UNCHANGED <<heartbeat, restart_flag>>

\* One round of a finite loop: publish the next beat; the last round leaves
\* the loop for statement p.
FiniteBeat(t, from, end, p) ==
  /\ At(t, from)
  /\ heartbeat' = wcnt[t] + 1
  /\ IF wcnt[t] + 1 = end
       THEN Goto(t, p) /\ Count(t, 0)
       ELSE Count(t, wcnt[t] + 1) /\ UNCHANGED wpc
  /\ UNCHANGED <<ready, restart_flag>>

\* One round of an endless loop.  The counter wraps at CounterBound beats:
\* Watchdog only asks whether it changed and whether it reached RecoveryBase.
EndlessBeat(t, from, base) ==
  /\ At(t, from)
  /\ LET next == IF wcnt[t] >= base + CounterBound THEN base + 1
                                                   ELSE wcnt[t] + 1
     IN  heartbeat' = next /\ Count(t, next)
  /\ UNCHANGED <<ready, restart_flag, wpc>>

FirstBeats(t) == FiniteBeat(t, "beats", Beats, "stalled")

\* while (*rf == 0): the simulated deadlock ends when the flag is seen.
SeeRestart(t) ==
  /\ At(t, "stalled")
  /\ restart_flag # 0
  /\ Goto(t, "takeRestart")
  /\ UNCHANGED <<heartbeat, ready, restart_flag, wcnt>>

TakeRestart(t) ==
  /\ At(t, "takeRestart")
  /\ restart_flag' = 0
  /\ Goto(t, "resetHeartbeat")
  /\ UNCHANGED <<heartbeat, ready, wcnt>>

ResetHeartbeat(t) ==
  /\ At(t, "resetHeartbeat")
  /\ heartbeat' = 0
  /\ Goto(t, "secondBeats")
  /\ Count(t, 0)
  /\ UNCHANGED <<ready, restart_flag>>

SecondBeats(t) == FiniteBeat(t, "secondBeats", Beats, "loop")

LoopBeat(t) == EndlessBeat(t, "loop", 0)

\* verse_recovery_entry: the first thing a resumed spare does.
RecoveryEntry(t) ==
  /\ At(t, "entry")
  /\ restart_flag' = 0
  /\ Goto(t, "recovered")
  /\ Count(t, RecoveryBase)
  /\ UNCHANGED <<heartbeat, ready>>

RecoveredBeat(t) ==
  IF RepeatDeadlock
    THEN FiniteBeat(t, "recovered", RecoveryBase + Beats, "hung")
    ELSE EndlessBeat(t, "recovered", RecoveryBase)

ThreadStep(t) ==
  \/ ClearHeartbeat(t) \/ ClearReady(t) \/ ClearRestart(t) \/ SetReady(t)
  \/ FirstBeats(t) \/ SeeRestart(t) \/ TakeRestart(t) \/ ResetHeartbeat(t)
  \/ SecondBeats(t) \/ LoopBeat(t) \/ RecoveryEntry(t) \/ RecoveredBeat(t)

WorkerNext ==
  /\ \E t \in TCBs : ThreadStep(t)
  /\ UNCHANGED <<kill_flag, recovery_signal, severity_buf, tstate>>

==============================================================================
