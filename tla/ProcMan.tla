------------------------------- MODULE ProcMan -------------------------------
(***************************************************************************)
(* ProcMan (components/ProcMan/src/procman.c): on each kill_flag it makes  *)
(* one more restart attempt, at most MaxRestarts of them.  Built with      *)
(* VERSE_TCB_ENFORCED it suspends the active worker TCB and brings up the  *)
(* spare of that attempt with four kernel calls; without it, or when the   *)
(* suspension itself fails, it raises restart_flag and waits for Watchdog  *)
(* to lower kill_flag.  It gives up for ever (quarantine) on escalated     *)
(* severity, on a rebuild that fails after the suspension, and when the    *)
(* attempts are used up.  One action per access to a dataport and per      *)
(* kernel call.                                                            *)
(***************************************************************************)
EXTENDS Dataports

CONSTANTS
  TcbEnforced,    \* VERSE_TCB_ENFORCED
  MayRefuse,      \* the TCB invocations that seL4 may refuse, by their pmPc
  MaxRestarts,    \* MAX_RESTARTS (3)
  WaitPolls       \* RECOVERY_WAIT_POLLS (2000)

ASSUME ProcManAssumption ==
  /\ TcbEnforced \in BOOLEAN
  /\ MayRefuse \subseteq STRING
  /\ MaxRestarts \in Nat \ {0}
  /\ WaitPolls \in Nat \ {0}

VARIABLES
  pmPc,       \* the statement ProcMan executes next
  restarts,   \* local: restart attempts so far
  polls,      \* local of cooperative_restart: polls done
  ack,        \* local of cooperative_restart: ack_seen
  active      \* static active_worker_tcb

procmanVars == <<pmPc, restarts, polls, ack, active>>

CooperativePc == {"raiseRestart", "pollRestart", "pollKill", "withdraw", "timeout"}
RebuildPc == {"configure", "setPriority", "writeRegisters", "resume"}
GiveUpPc == {"giveUp", "quarantined"}
LoopPc == {"clearRestart", "checkSeverity", "awaitKill", "awaitRecovery"}
ProcManPc == LoopPc \cup {"suspend"} \cup CooperativePc \cup RebuildPc \cup GiveUpPc

\* spare_worker_tcb_for_attempt
SpareFor(attempt) == IF attempt < NSpares THEN attempt ELSE NSpares

ProcManInit ==
  /\ pmPc = "clearRestart"
  /\ restarts = 0
  /\ polls = 0
  /\ ack = 0
  /\ active = Original

ProcManTypeOK ==
  /\ pmPc \in ProcManPc
  /\ restarts \in 0 .. (MaxRestarts + 1)
  /\ polls \in 0 .. WaitPolls
  /\ ack \in {0, 1}
  /\ active \in TCBs

PmStart ==
  /\ pmPc = "clearRestart"
  /\ restart_flag' = 0
  /\ pmPc' = "checkSeverity"
  /\ UNCHANGED <<threadVars, restarts, polls, ack, active>>

\* The severity is looked at only here, at the top of the loop.
PmCheckSeverity ==
  /\ pmPc = "checkSeverity"
  /\ pmPc' = IF severity_buf = 2 THEN "giveUp" ELSE "awaitKill"
  /\ UNCHANGED <<restart_flag, threadVars, restarts, polls, ack, active>>

\* Mutant of PmSeeKill: one attempt too many.
PmSeeKillLate ==
  /\ pmPc = "awaitKill"
  /\ kill_flag # 0
  /\ restarts' = restarts + 1
  /\ pmPc' = IF restarts > MaxRestarts THEN "giveUp"
             ELSE IF TcbEnforced THEN "suspend" ELSE "raiseRestart"
  /\ UNCHANGED <<restart_flag, threadVars, polls, ack, active>>

\* Mutant of PmSeeKill: one attempt too few.
PmSeeKillEarly ==
  /\ pmPc = "awaitKill"
  /\ kill_flag # 0
  /\ restarts' = restarts + 1
  /\ pmPc' = IF restarts' >= MaxRestarts THEN "giveUp"
             ELSE IF TcbEnforced THEN "suspend" ELSE "raiseRestart"
  /\ UNCHANGED <<restart_flag, threadVars, polls, ack, active>>

\* while (*kflag == 0), then restarts++ and the bound on it; the backoff that
\* follows is time.
PmSeeKill ==
  /\ pmPc = "awaitKill"
  /\ kill_flag # 0
  /\ restarts' = restarts + 1
  /\ pmPc' = IF restarts' > MaxRestarts THEN "giveUp"
             ELSE IF TcbEnforced THEN "suspend" ELSE "raiseRestart"
  /\ UNCHANGED <<restart_flag, threadVars, polls, ack, active>>

\* Mutant of PmSuspend: a refused suspension is not noticed.
PmSuspendUnchecked ==
  /\ pmPc = "suspend"
  /\ \/ tstate' = [tstate EXCEPT ![active] = "suspended"]
     \/ pmPc \in MayRefuse /\ UNCHANGED tstate
  /\ pmPc' = "configure"
  /\ UNCHANGED <<restart_flag, wpc, wcnt, restarts, polls, ack, active>>

\* Mutant of PmSuspend: the spare is suspended instead of the worker.
PmSuspendSpare ==
  /\ pmPc = "suspend"
  /\ tstate' = [tstate EXCEPT ![SpareFor(restarts)] = "suspended"]
  /\ pmPc' = "configure"
  /\ UNCHANGED <<restart_flag, wpc, wcnt, restarts, polls, ack, active>>

\* suspend_worker_tcb; a refusal falls back to the cooperative restart.
PmSuspend ==
  /\ pmPc = "suspend"
  /\ \/ /\ tstate' = [tstate EXCEPT ![active] = "suspended"]
        /\ pmPc' = "configure"
     \/ /\ pmPc \in MayRefuse
        /\ pmPc' = "raiseRestart"
        /\ UNCHANGED tstate
  /\ UNCHANGED <<restart_flag, wpc, wcnt, restarts, polls, ack, active>>

\* A rebuild call that the kernel refuses (or, for the first one, missing
\* metadata): the worker is already suspended, so ProcMan gives up.
RebuildFails ==
  /\ pmPc \in MayRefuse
  /\ pmPc' = "giveUp"
  /\ UNCHANGED <<threadVars, active>>

\* seL4_TCB_Configure
PmConfigure ==
  /\ pmPc = "configure"
  /\ \/ /\ tstate' = [tstate EXCEPT ![SpareFor(restarts)] = "configured"]
        /\ pmPc' = "setPriority"
        /\ UNCHANGED <<wpc, wcnt, active>>
     \/ RebuildFails
  /\ UNCHANGED <<restart_flag, restarts, polls, ack>>

\* seL4_TCB_SetPriority, or seL4_TCB_SetSchedParams on an MCS kernel
PmSetPriority ==
  /\ pmPc = "setPriority"
  /\ \/ /\ pmPc' = "writeRegisters"
        /\ UNCHANGED <<threadVars, active>>
     \/ RebuildFails
  /\ UNCHANGED <<restart_flag, restarts, polls, ack>>

\* seL4_TCB_WriteRegisters: the spare will start at verse_recovery_entry.
PmWriteRegisters ==
  /\ pmPc = "writeRegisters"
  /\ \/ /\ wpc' = [wpc EXCEPT ![SpareFor(restarts)] = "entry"]
        /\ wcnt' = [wcnt EXCEPT ![SpareFor(restarts)] = 0]
        /\ pmPc' = "resume"
        /\ UNCHANGED <<tstate, active>>
     \/ RebuildFails
  /\ UNCHANGED <<restart_flag, restarts, polls, ack>>

\* Mutant of PmResume: a refused resume is taken for a success.
PmResumeUnchecked ==
  /\ pmPc = "resume"
  /\ \/ tstate' = [tstate EXCEPT ![SpareFor(restarts)] = "running"]
     \/ pmPc \in MayRefuse /\ UNCHANGED tstate
  /\ active' = SpareFor(restarts)
  /\ pmPc' = "awaitRecovery"
  /\ UNCHANGED <<wpc, wcnt, restart_flag, restarts, polls, ack>>

\* Mutant of PmResume: the spare is taken into service without being resumed.
PmResumeForgets ==
  /\ pmPc = "resume"
  /\ active' = SpareFor(restarts)
  /\ pmPc' = "awaitRecovery"
  /\ UNCHANGED <<threadVars, restart_flag, restarts, polls, ack>>

\* seL4_TCB_Resume, then active_worker_tcb = fresh_tcb
PmResume ==
  /\ pmPc = "resume"
  /\ \/ /\ tstate' = [tstate EXCEPT ![SpareFor(restarts)] = "running"]
        /\ active' = SpareFor(restarts)
        /\ pmPc' = "awaitRecovery"
        /\ UNCHANGED <<wpc, wcnt>>
     \/ RebuildFails
  /\ UNCHANGED <<restart_flag, restarts, polls, ack>>

\* cooperative_restart
PmRaiseRestart ==
  /\ pmPc = "raiseRestart"
  /\ restart_flag' = 1
  /\ pmPc' = "pollRestart"
  /\ UNCHANGED <<threadVars, restarts, polls, ack, active>>

\* Mutant of PmPollRestart: the test of the flag is inverted.
PmPollRestartInverted ==
  /\ pmPc = "pollRestart"
  /\ ack' = IF restart_flag = 1 THEN 1 ELSE ack
  /\ pmPc' = "pollKill"
  /\ UNCHANGED <<restart_flag, threadVars, restarts, polls, active>>

PmPollRestart ==
  /\ pmPc = "pollRestart"
  /\ ack' = IF restart_flag = 0 THEN 1 ELSE ack
  /\ pmPc' = "pollKill"
  /\ UNCHANGED <<restart_flag, threadVars, restarts, polls, active>>

\* Mutant of PmPollKill: the polls are not counted.
PmPollKillForever ==
  /\ pmPc = "pollKill"
  /\ pmPc' = IF kill_flag = 0 THEN "withdraw" ELSE "pollRestart"
  /\ UNCHANGED <<restart_flag, threadVars, restarts, polls, ack, active>>

PmPollKill ==
  /\ pmPc = "pollKill"
  /\ IF kill_flag = 0
       THEN pmPc' = "withdraw" /\ UNCHANGED polls
       ELSE /\ polls' = polls + 1
            /\ pmPc' = IF polls' < WaitPolls THEN "pollRestart" ELSE "timeout"
  /\ UNCHANGED <<restart_flag, threadVars, restarts, ack, active>>

\* Mutant of LeaveCooperative: the request is left up.
LeaveRequestUp ==
  /\ polls' = 0
  /\ ack' = 0
  /\ UNCHANGED <<restart_flag, threadVars, restarts, active>>

\* cooperative_restart returns: its locals are gone.
LeaveCooperative ==
  /\ restart_flag' = 0
  /\ polls' = 0
  /\ ack' = 0
  /\ UNCHANGED <<threadVars, restarts, active>>

\* The restart succeeded.
PmWithdraw ==
  /\ pmPc = "withdraw"
  /\ pmPc' = "awaitRecovery"
  /\ LeaveCooperative

\* The restart timed out: back to the top of the loop with kill_flag still up.
PmTimeout ==
  /\ pmPc = "timeout"
  /\ pmPc' = "checkSeverity"
  /\ LeaveCooperative

\* Mutant of PmSeeRecovery: ProcMan does not wait for the recovery.
PmSkipRecovery ==
  /\ pmPc = "awaitRecovery"
  /\ pmPc' = "checkSeverity"
  /\ UNCHANGED <<restart_flag, threadVars, restarts, polls, ack, active>>

\* Mutant of PmSeeRecovery: ProcMan goes back to its wait past the severity.
PmSeeRecoveryOnly ==
  /\ pmPc = "awaitRecovery"
  /\ kill_flag # 1
  /\ pmPc' = "awaitKill"
  /\ UNCHANGED <<restart_flag, threadVars, restarts, polls, ack, active>>

\* while (*kflag == 1)
PmSeeRecovery ==
  /\ pmPc = "awaitRecovery"
  /\ kill_flag # 1
  /\ pmPc' = "checkSeverity"
  /\ UNCHANGED <<restart_flag, threadVars, restarts, polls, ack, active>>

\* *rf = 0, then the endless loop: the three ways into quarantine end here.
PmGiveUp ==
  /\ pmPc = "giveUp"
  /\ restart_flag' = 0
  /\ pmPc' = "quarantined"
  /\ UNCHANGED <<threadVars, restarts, polls, ack, active>>

ProcManStep ==
  \/ PmStart \/ PmCheckSeverity \/ PmSeeKill \/ PmSuspend \/ PmConfigure
  \/ PmSetPriority \/ PmWriteRegisters \/ PmResume \/ PmRaiseRestart
  \/ PmPollRestart \/ PmPollKill \/ PmWithdraw \/ PmTimeout \/ PmSeeRecovery
  \/ PmGiveUp

ProcManNext ==
  /\ ProcManStep
  /\ UNCHANGED <<heartbeat, ready, kill_flag, recovery_signal, severity_buf>>

==============================================================================
