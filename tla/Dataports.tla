------------------------------ MODULE Dataports ------------------------------
(***************************************************************************)
(* The memory that the components of the recovery loop share: the CAmkES   *)
(* dataports wired in verse_unified.camkes (zero-filled at boot) and the   *)
(* seL4 TCB objects of the TestWorker component.  Every component of the   *)
(* loop extends this module; RecoveryLoop composes them.                   *)
(*                                                                         *)
(* A TCB is its scheduling state, its program counter (the name of the     *)
(* statement it executes next) and the one register the code loops on, its *)
(* beat counter.  TCB 0 is the thread CAmkES starts in run(); TCBs         *)
(* 1 .. NSpares are the spares handed to ProcMan by inject_tcb_handoff.py. *)
(***************************************************************************)
EXTENDS Integers

CONSTANTS
  NSpares,        \* spare worker TCBs (3: slots 0x104, 0x109 and 0x10a)
  RecoveryBase,   \* where verse_recovery_entry starts counting (1000000)
  Beats,          \* beats of the finite loops of testworker.c (5)
  CounterBound,   \* bound: an endless beat counter wraps after this many beats
  RepeatDeadlock  \* VERSE_TESTWORKER_REPEAT_DEADLOCK

ASSUME DataportsAssumption ==
  /\ NSpares \in Nat \ {0}
  /\ RecoveryBase \in Nat \ {0}
  /\ Beats \in Nat \ {0}
  /\ CounterBound \in Nat \ {0}
  /\ RepeatDeadlock \in BOOLEAN

VARIABLES
  heartbeat,        \* testworker.heartbeat[0]: the beat counter last published
  ready,            \* testworker.heartbeat[4092]: the worker has initialised
  kill_flag,        \* watchdog -> procman: the worker's heartbeat is lost
  restart_flag,     \* procman -> testworker: reinitialise; cleared by both
  recovery_signal,  \* watchdog -> dharmanet: recovery passes so far
  severity_buf,     \* dharmanet -> procman: 0 OK, 1 WARN or CRIT, 2 escalated
  tstate,           \* scheduling state of each worker TCB
  wpc,              \* program counter of each worker TCB
  wcnt              \* loop counter of each worker TCB

flags == <<kill_flag, restart_flag, recovery_signal, severity_buf>>
beatVars == <<heartbeat, ready>>
threadVars == <<tstate, wpc, wcnt>>
sharedVars == <<heartbeat, ready, kill_flag, restart_flag, recovery_signal,
                severity_buf, tstate, wpc, wcnt>>

Original == 0
Spares == 1 .. NSpares
TCBs == 0 .. NSpares

ThreadState == {"inactive", "configured", "running", "suspended"}

\* The statements of run() and of verse_recovery_entry() that touch a dataport.
RunPc == {"clearHeartbeat", "clearReady", "clearRestart", "setReady",
          "beats", "stalled", "takeRestart", "resetHeartbeat",
          "secondBeats", "loop"}
EntryPc == {"entry", "recovered", "hung"}
WorkerPc == {"none"} \cup RunPc \cup EntryPc

\* Every value a beat counter takes: run() counts from 0, the recovery entry
\* from RecoveryBase.
RunCounts == 0 .. (Beats + CounterBound)
EntryCounts == RecoveryBase .. (RecoveryBase + Beats + CounterBound)
Counts == RunCounts \cup EntryCounts

DataportsInit ==
  /\ heartbeat = 0
  /\ ready = 0
  /\ kill_flag = 0
  /\ restart_flag = 0
  /\ recovery_signal = 0
  /\ severity_buf = 0
  /\ tstate = [t \in TCBs |-> IF t = Original THEN "running" ELSE "inactive"]
  /\ wpc = [t \in TCBs |-> IF t = Original THEN "clearHeartbeat" ELSE "none"]
  /\ wcnt = [t \in TCBs |-> 0]

DataportsTypeOK ==
  /\ heartbeat \in Counts
  /\ ready \in {0, 1}
  /\ kill_flag \in {0, 1}
  /\ restart_flag \in {0, 1}
  /\ recovery_signal \in Nat
  /\ severity_buf \in 0 .. 2
  /\ tstate \in [TCBs -> ThreadState]
  /\ wpc \in [TCBs -> WorkerPc]
  /\ wcnt \in [TCBs -> Counts]

==============================================================================
