# VERSE-OS: TLA+ models and proofs

A verification development for the seL4/CAmkES system in `src/apps`, the assembly
`verse_unified` above all. Each component of that assembly is a few dozen lines of
C that run as an endless thread and talk to the others through unsynchronised
shared memory (CAmkES dataports), so almost everything that can go wrong is an
interleaving, a value that is stale when it is used, or a protocol that is
followed by one side only. Those are what the models are about.

Paths below are relative to the repository; `…/` stands for
`src/apps/verse_unified/components/`.

## 1. Inventory

### The recovery loop

| component | state | operations | talks to |
|---|---|---|---|
| TestWorker `…/TestWorker/src/testworker.c` | loop counter, program counter; one thread per worker TCB | `run()`: initialise, 5 beats, simulated deadlock, reinitialise, beat for ever; `verse_recovery_entry()`: beat from 1000000 | writes `heartbeat[0]`, `heartbeat[4092]` (ready); reads and clears `restart_flag` |
| Watchdog `…/Watchdog/src/watchdog.c` | `last`, `fc`, `recovery_passes`, `normal_pass_printed` | wait for ready, poll the heartbeat, raise `kill_flag` after 50 misses, wait for a new beat, lower it, count and publish a pass, one normal-pass window of 100 polls | reads the heartbeat; writes `kill_flag` (ProcMan), `recovery_signal` (DharmaNet) |
| ProcMan `…/ProcMan/src/procman.c` | `restarts`, `active_worker_tcb`, `ack_seen`, poll count | cooperative restart (flag, 2000 polls, withdraw) or TCB-enforced restart (Suspend, Configure, SetPriority, WriteRegisters, Resume); three ways into quarantine | reads `kill_flag`, `severity_buf`; writes `restart_flag`; invokes the worker TCBs |
| DharmaNet `…/DharmaNet/src/dharmanet.c` | smoothing window of 4 shares, WARN/CRIT state with dwell counters, epochs in CRIT, last recovery pass seen | one epoch: take over a recovery pass, or read and zero both work counters, smooth, apply the hysteresis, publish the severity | reads and zeroes `workerA_buf`, `workerB_buf`; reads `recovery_signal`; writes `severity_buf` (ProcMan) |
| WorkerA, WorkerB | a counter in shared memory | `(*c)++` for ever | their counter is read and zeroed by DharmaNet |

Hard behaviours: a restart request crosses a worker that is initialising, a
timeout crosses a late answer, a hand-over may be refused by the kernel between
any two of its five calls, reports are levels that are only sampled, a severity
is acted on that was computed before the last recovery, and a heartbeat that is
merely late looks like a dead one. What makes the loop correct: one worker thread
at a time on the shared stack; a request never outlives its attempt; every
deadlock reported and acted on; no healthy worker reported; a recovery reported
only if it happened; quarantine final, reached after three attempts or for a load
that has lasted.

The loop has three generations before it, still in the repository:
`persistent_watchdog` (one request, never withdrawn; `watchdog_tcb` with no ProcMan at
all), `docker_recovered/*/verse_unified` (each request held for a fixed time), and the
top-level `verse_unified` (a TCB retyped from an untyped object into one slot).

### Storage

| component | state | operations | talks to |
|---|---|---|---|
| CodexFS `…/CodexFS/src/codexfs.c` | block array in the `store` dataport, block count `bc`, published count in the last word of the dataport, `st` and `rf` set during start-up | control thread: `run()` clears the store; interface thread: `fs_write`, `fs_verify`, `fs_read_all` | RPC from WriteClient and ReadClient; `store` shared with ReadClient |
| WriteClient | – | three `fs_write` calls, results ignored | RPC to CodexFS |
| ReadClient | – | spin until the published count is 3, then `fs_verify` | RPC to CodexFS, reads `store` |

Hard behaviours: the interface thread serves calls while the control thread is
still clearing the store; a refused write is not noticed by the writer; the
published count is written by both threads. Correct: a counted block stays as it
was written, damage shows, the reader's verdict covers what it waited for.

### Messages, memory and logging

| component | state | operations | talks to |
|---|---|---|---|
| LogRing `…/LogRing/src/logring.c` | head, tail, 4088 bytes | reset both indices, then print up to the head for ever | one dataport shared with the 14 other components |
| `lw` (a copy in each component) | – | read head, copy up to 80 bytes, store head | the same dataport |
| Sentinel `…/Sentinel/src/sentinel.c` | – | forward `say_hello` when the client's label allows it, else answer itself | RPC from Client, RPC to Hello |
| Client, Hello | – | one call; one answer | through Sentinel |
| CortexMM, MemClient | a page | write a string; print it without waiting for it | one dataport |

In `verse_unified` Sentinel's labels are compile-time constants that always allow;
`sentinel_negtest` has a second client that is blocked. Hard behaviours: writers take
no lock, so two of them overwrite each other and a stale head moves the ring
backwards; no writer looks at the tail; LogRing's own reset races the first
writers; the page is read while it is written; a call is blocked in two components
at once. Correct: what is logged is printed whole and in order as long as no two
lines collide; a page is read as a prefix of what was written; a blocked call never
reaches Hello and a forwarded one returns after it.

### Everything else

* `codexfs_demo`, `cortexmm_demo`, `dharmanet_severity`, `sentinel_negtest`: single-subsystem
  applications.
* Mnemosyne (`…/Mnemosyne`): a scaffold that the assembly does not include.
* Tools: `tools/inject_tcb_handoff.py` and `tools/check_tcb_handoff.py` (capDL hand-over of
  the TCBs), `tools/capability_audit.py`, `src/tools/audit_caps.py`, `tools/chaos_monkey.py`,
  the `tools/negative_*.sh` runtime tests, build scripts.
* `src/specs/*.tla` and `CodexFS_*.tla`: the repository's own specifications.
* Documents, evidence reports and chat logs.

## 2. The modules

```
Dataports                     shared memory of the recovery loop, worker TCBs
  ├─ TestWorker               run() and verse_recovery_entry()
  ├─ Watchdog                 monitoring, kill_flag, passes
  └─ ProcMan                  cooperative and enforced restart
RecoveryLoop  EXTENDS the three; composition, fairness, properties
  ├─ Failover                 INSTANCEd: what the loop promises
  ├─ RecoveryTimed            the loop with its delay loops and round robin
  │    └─ RecoveryTimedProofs theorems
  ├─ VerseSupervision         the loop with DharmaNet (INSTANCEd) for its severities
  │    └─ VerseSupervisionProofs  theorems
  └─ RecoveryLoopProofs       theorems, which the two above build on
EarlierReleases  EXTENDS the three; the four older loops
  └─ EarlierReleasesProofs    theorems

DharmaNet                     one epoch: pass, window, thresholds, severity
  └─ DharmaNetHistory         any load and any passes; what DharmaNet has seen since its last fresh start
       └─ DharmaNetProofs     theorems
LoadCounters                  the two work counters under DharmaNet's read and reset
  └─ LoadCountersProofs       theorems

CodexFS                       the store, its start-up, WriteClient and ReadClient, a changed byte
  ├─ MCCodexFS                the records that WriteClient writes
  └─ CodexFSProofs            theorems

Messages                      Sentinel and its calls, CortexMM's page, the log ring
  └─ MessagesProofs           theorems
```

**One action is one access.** In the recovery loop every read or write of a dataport and every kernel call
is an action of its own; between two of them any other thread may run. Local
computation is folded into the access it follows. Printing is left out except in
`Messages`, and the delay loops are time: absent from the untimed modules (so a delay
may last as long as it likes), counted in `RecoveryTimed`.

**Dataports** holds the shared words under their CAmkES names, zero at boot, and the
worker TCBs: TCB 0 is the thread that CAmkES starts in `run()`, TCBs 1 to `NSpares` the
spares at slots 0x104, 0x109 and 0x10a. A TCB has a scheduling state, a program counter
and the one local variable that matters, its beat counter.

**TestWorker**: `ClearHeartbeat … SetReady` are lines 37–41 in order, `FirstBeats` lines 42–43,
`SeeRestart`/`TakeRestart`/`ResetHeartbeat` lines 44–47, `SecondBeats` and `LoopBeat` lines 48–54;
`RecoveryEntry` and `RecoveredBeat` are `verse_recovery_entry`, whose loop is finite and then hangs
under `VERSE_TESTWORKER_REPEAT_DEADLOCK`, and endless otherwise.

**Watchdog**: `WdMonitor` is one poll of lines 48–51, `WdSeeBeat` and `WdReadBeat` the two separate
reads of lines 61 and 62 (the value that ends the wait need not be the one that is
judged), `WdLowerKill` and `WdSignal` lines 63–70, `WdWindow` one poll of
`normal_recovery_pass_window`.

**ProcMan**: the main loop is `PmCheckSeverity`, `PmSeeKill`, `PmSeeRecovery`; `PmSuspend`, `PmConfigure`,
`PmSetPriority`, `PmWriteRegisters`, `PmResume` are the kernel calls, each of which may be refused when
it is in `MayRefuse`; `PmRaiseRestart … PmTimeout` are `cooperative_restart`; `PmGiveUp` is the end of the
three ways into the endless loop. `TcbEnforced` selects the build.

**RecoveryLoop** composes them. DharmaNet appears as an environment that may report any
severity in `Severities` at any time.

**Failover** is the abstract specification: a unit serves; a detected failure leaves it in
place or retires it for good and replaces it by one that was never retired;
attempts are bounded; quarantine is final. `RecoveryLoop` implements it under
`phase <- Phase, attempts <- restarts, running <- RunningTcbs, retired <- RetiredTcbs`.

**RecoveryTimed** adds what each thread still has to spend in its delay loop and seL4's
round robin: in each round every runnable thread holds the core once, for a slice
whose length is any of `Slices`, in any order. Accesses cost nothing beside a delay
loop of at least 500000 rounds, which is the unit of time. Only the three threads of the loop are
in it. The slices of the others make a round longer, but a delay loop counts its own rounds only.
DharmaNet takes no step, so no load escalates there (see Fairness).

**VerseSupervision** replaces the free severities by DharmaNet itself: Watchdog's
`recovery_signal` is DharmaNet's input, DharmaNet's `severity_buf` is ProcMan's. Two history
variables count the epochs that have ended since Watchdog last published a pass (`since`) and the
attempts that began while the severity stood at 2 (`late`).

An old escalation can quarantine a worker that has just recovered: Watchdog lowers `kill_flag`
before DharmaNet withdraws the 2, and ProcMan looks at it as soon as it sees `kill_flag` down. The
run reaches such states. `StaleEscalationIsBrief` bounds them: once the pass is published, the old 2
stands for the rest of the epoch in progress and for one more, and every 2 after these has
been counted afresh. Between the lowering of `kill_flag` and the publication (`watchdog.c` lines 63 to
67) nothing but Watchdog's own progress bounds it.

**EarlierReleases** is one specification of the four older loops: `release` is chosen once. Worker and
Watchdog take the actions of `TestWorker` and `Watchdog` that those versions already had (no
recovery entry, no passes); Watchdog's end of an alarm, `ClearKill` and `LowerKill`, is theirs. In
`watchdog_tcb` the assembly connects one dataport to both ends (`OneWord`). `OneShotRun` is the ProcMan of
`persistent_watchdog`, `HoldRequest`/`EndHold` that of `docker_recovered`, and `SuspendFirst … ResumeFresh` the enforced
restart of the top-level `verse_unified`, which always suspends slot 0x100 and retypes into one slot.
A fresh TCB is assumed to start in `run()`; outside MCS (`mcs = 0`) nobody raises its priority 0.

**DharmaNet** splits an epoch in two: `DnLook` reads `recovery_signal` (line 26), and one of `DnRecover`
(lines 27–32), `DnIdle` (line 34) and `DnSample` (lines 33–44) does the rest, all of it local but
the one write of `severity_buf`. `hist` is a sequence instead of a ring with `hi` and `hcnt`; `crit` and
`warned`, never both set, are `level`; `aw`, `bo`, `ac`, `bc` are `rising`, `falling`, `climbing`, `leaving`. The share
`ta*100/t` is an input, any of `Shares` in each epoch. `ep` and `last` only pace the log.
`CritLevel`, `WarnLevel` and `Dwell` are lines 38 to 40: CRIT is looked at first, WARN on what it
leaves, so CRIT is left for OK and never for WARN.

**DharmaNetHistory** lets Watchdog publish passes at any moment and adds history
variables: epochs since the start or the last recovery (`age`), whether a share since
then was above `WARN_ENTER` (`high`) and the last share.

**LoadCounters** is where the share comes from: `(*c)++` is `Load` and `Store`, `ta=*a,tb=*b` two reads, `*a=*b=0` two
writes in either order (`first`), and the judgement is that of `dharmanet_severity`, one pair of
thresholds with a dwell. History variables count what each worker has stored since
the last zeroing (`worked`), how much of it came after DharmaNet's read (`unseen`), and
whether the zeroing fell into an increment (`torn`).

**CodexFS** has an action per statement of `run()` (`SetStore`, `ClearStore`, `SetFlag`, `ClearFlag`), and
of `fs_write` the decision (`RefuseWrite`, `AcceptWrite`), the block with `bc++` (`FillBlock`) and the publication
of the count with the return (`PublishBlock`); `VerifyBlock` is one round of the loop of `fs_verify`.
The interface thread serves one call at a time. `rf` is a plain static variable and the
word it points to is volatile, so the compiler may order `rf=…` and `*rf=0` as it likes:
`ClearStore` goes on to either. That neither comes before the `memset` is an assumption about the build:
`*rf=0` follows it in the source as an access to the same memory, but C would allow the store to
`rf`, a static whose address is never taken, to move over a `memset` that the compiler knows
(`codexfs.c` lines 11 and 13). A byte is
its set of one-bits, which makes `^` symmetric difference; a block keeps the link, the
XOR of its data bytes and the checksum, because that XOR is all that `cs` sees of the
data. `Tamper` changes one byte of a counted block. The clearing by `memset` is one step: what
`fs_write` may do meanwhile depends only on `rf`, which is still 0.

**Messages** is one specification of three assemblies, `assembly` chosen once: `cortexmm_demo`,
`verse_unified` (its Sentinel chain and its CortexMM) and `sentinel_negtest` (with `printf` for the
ring). A thread's `pc` is the statement it executes next; `After` lists the statements that log.
`ReadHead`, `Measure`, `CopyChar`, `StoreHead` are `lw`; `ResetTail`, `ResetHead`, `PrintChar` are LogRing; `Call`, `AskHello`,
`HelloReplies`, `GateReplies` are the synchronous messages; `CortexWrites` is one character of `strcpy`. The
history variable `backlog` is what was logged and not printed, for as long as `clean` says
that no two lines have overlapped, the ring has not overflowed and the reset found it empty.

## 3. Runs

| run | system | question |
|---|---|---|
| recovery_cooperative | default build | the flag protocol under any interleaving: start-up cannot erase a request, a request ends with its attempt, an acknowledgement is genuine, a deadlock is reported, an attempt ends |
| recovery_enforced | enforced, any kernel call may be refused | one worker at a time, passes are proofs, the signal follows the kill flag, refinement of `Failover` |
| timed_normal | enforced, delays, Suspend may be refused | no false alarm; the worker is back for good after one attempt, by a spare or by the cooperative restart; a spare earns the normal-pass verdict |
| timed_repeat | enforced, repeated deadlock, delays | no report missed, three proved recoveries and then quarantine |
| verse_supervision | enforced, repeated deadlock, with DharmaNet | refinement of `RecoveryLoop`; an escalation outlives the publication of a pass by one more epoch at most, and costs at most one late restart; the deadlock is acted on |
| recovery_long_run | default build | finding 1 |
| earlier_releases | the four older loops, any kernel call may be refused | never two workers; a retyped worker is out of its supervisor's reach; every outage answered but for three losses that are named |
| dharma_levels | thresholds of the code | no severity is told before its dwell is over, whatever was counted before a recovery; a steady load settles; a high one in 2, a low one in 0; passes that coalesce are taken over; the window carries a load over a recovery for less than its length |
| load_counters | thresholds of `dharmanet_severity` | an epoch misses only what falls between read and zeroing, and counts twice only what a torn increment brings back; a worker that stops is out of the judgement |
| codex_startup | store of two blocks, records of the code | the start-up touches no counted block, a changed byte shows, also after later writes, a full store refuses, the verdict of the reader is right, a writer that starts late enough is read |
| codex_lost_write | store and records of the code | finding 2 |
| messages | three assemblies, ring of 5 | the ring holds what was logged as long as nothing collides, LogRing catches up whatever happened, the page is read as a prefix, every call returns and with the right verdict |

Untimed, a component may be starved for as long as one likes. Then Watchdog can report a
healthy worker and ProcMan can miss a pulse of `kill_flag`; those runs therefore
claim neither. The timed runs show that the constants of the code exclude both, and
`RecoveryTimedProofs` which of their ratios it takes.

`OutageIsAnswered` says what the older loops leave to their delays: a request withdrawn
before it was taken, a second alarm before the end of the first was seen, a worker
that hangs again at the very count it was replaced at, and a retyped TCB without a
priority. These do happen, so the property is no protection against them: `missed` is set by the first
three, the last is `fresh # 0 /\ mcs = 0`. It fails on any other loss, such as a second retype
whose refusal nobody answered.

`LogDrains` says that LogRing comes to rest at the head after whatever collisions there were. It
holds because the writers that `Messages` follows end; that lines are lost or garbled when they
collide is not excluded by any property, and happens.

The runs of CodexFS and Messages do not check for deadlock: their clients and
`run()` of CodexFS end. The other components are endless loops, or end in one
(quarantine).

### Bounds

* `CounterBound`: the endless beat loops wrap after this many beats. Watchdog asks of a
  beat only whether it changed and whether it reached `RecoveryBase`, so two different
  values suffice for the first question; the wrap stays on its own side of
  `RecoveryBase` except in recovery_long_run, where crossing it is the point.
* `PassBound`: `WdLowerKill` is not followed beyond this many passes. In the runs it is at
  least the number of passes that the attempts can produce in a fairly scheduled
  system; without it false alarms could be counted for ever.
* Untimed runs scale the constants that only lengthen a loop (`MissLimit`, `WaitPolls`,
  `Beats`) to 1 or 2 and `RecoveryBase` to 10, keep `NSpares = MaxRestarts = 3`, and keep each
  loop long enough to be left in both of its ways. The theorems hold for every value.
* verse_supervision has two spares and two attempts, so that one recovery succeeds before the
  last; `Beats` is 2, because with 1 a spare stops on the value its predecessor stopped on
  and Watchdog, waiting for a change, does not see it. The window is 1 and the dwells 1 or 2:
  what is asked is the order in which passes, severities and attempts cross, and the
  long dwells are in dharma_levels.
* Timed runs use the values of the code: `MissLimit` 50, `WaitPolls` 2000, `RecoveryBase`
  1000000, 5 beats, delays in the proportions 20 : 2 : 2 : 1 : 4 (10000000, 1000000,
  1000000, 500000 and 2000000 rounds). `Slices` is the one guess: the length of an
  seL4 time slice against a delay loop depends on the machine, so each run takes
  two lengths around the delays and lets every slice be either; `SliceMin` and `SliceMax` are
  these two. `PacingAssumption` says of any lengths whether they will do.
* `PassLimit`: recovery passes published in a run of DharmaNet; one recovery shows what
  survives it, two may coalesce within an epoch. `Shares` has a share below, between and
  above the thresholds, and their averages fall into the other ranges. The
  thresholds and dwells are the code's. `crit_ep` stops at `CRIT_ESCALATE_EPOCHS`, from where on
  the code only compares it with that constant; the history variables stop likewise.
* `CountBound`: a worker whose counter is there waits for DharmaNet. With 3 the shares
  0, 25, 33, 40, 50, 60, 66, 75 and 100 occur, on both sides of both thresholds, and an
  increment may be torn at any of them.
* `MaxBlocks`, `Wanted`: two in codex_startup, one less than the records, so that the store fills up; 63
  and 3, as in the code, in codex_lost_write.
* `MaxTampers`: one byte changes, as in the runtime tests; two changes can cancel out in an
  XOR checksum, so no property is claimed of them. `Bits` holds the bits in which the three
  records differ; codex_lost_write has all eight.
* `RingSize` is 5, the page's record three characters and every other line one: small
  enough to overflow and to wrap with the lines of one assembly. The limits of 80 and
  100 characters in `lw` are above every line of the code and are left out.
* `Severities`: `{0}` or `{0, 2}`; ProcMan tells only 2 from the rest. DharmaNet's own are 0 to 2.

### Fairness

All components run at one priority on one core under seL4's round robin, which gives
every runnable thread the core again and again. That justifies weak fairness per
thread: per worker TCB, for Watchdog, for ProcMan (`Fairness` in `RecoveryLoop`), for DharmaNet
(`EpochRuns`, `DharmaStep`), for the two threads of CodexFS, for each thread of `Messages`. No fairness
is assumed of a choice within a thread (a kernel call may be refused every time), of
free severities, of the workers of LoadCounters, of the arrival of passes, the loads
or the changed byte. `LoadDecides` and `LoneWorkerDecides` ask for workers that keep counting, in
the property itself. In EarlierReleases the heartbeat wraps after two beats, so that a
worker that beats on passes through Watchdog's old value again and again, which it
never does in the code; strong fairness of the one step that waits for a change takes
that artefact out. `TimedSpec` needs only that time goes on, `WF(TimedNext)`: who runs is
decided by the rounds. It is the specification of a system in which no load escalates: DharmaNet
takes no step, `severity_buf` stays 0, and `Severities` in the two timed configurations plays no part.
What an escalation does to the loop is asked in verse_supervision, untimed.

## 4. Findings

1. *A long-lived worker earns a recovery pass it did not need.* Watchdog takes a
   heartbeat of at least 1000000 for the signature of `verse_recovery_entry`
   (`watchdog.c` lines 65–69), but `run()` counts through the same range. Run recovery_long_run. It takes an alarm about
   a worker that is alive, held up for longer than Watchdog waits; as long as the delays and
   slices keep the ratios of `PacingAssumption` there is none, and `PassesStayProofs` shows that then
   no such pass is earned, however far `run()` counts.
2. *A record written during start-up can be lost unnoticed*, and the reader then waits for
   ever, where `real-architecture.md:133` says "WriteClient writes 3 blocks; ReadClient
   verifies chain": `fs_write` refuses until `run()` has set `rf`, WriteClient drops the -1, and the
   `*rf=0` at the end of `run()` may come after a count was published. Run codex_lost_write.
   What does hold is `LateWriterIsRead`.

Two smaller remarks, where a property above says what does hold:

* `active_worker_tcb` names a suspended TCB during every hand-over and for good after a
  failed rebuild (`procman.c` line 251), where
  `BOUNDED_ACTIVE_TCB_FAILOVER_TLA_EVIDENCE.md:80` says it never does. What holds is `ActiveServes`.
* A recovery leaves the smoothing window as it was: `dharmanet.c:29` resets levels and
  dwells, where `DHARMA_RECOVERY_OK_EVIDENCE.md:26` says that DharmaNet "clears its local warning
  and critical state". A warning can follow that no share since the recovery would have
  raised; `CarryOverIsBounded` says for how long.

In the older loops `RebuiltIsOutOfReach` is a property that holds and ought not to: the top-level
ProcMan stops TCB 0 for ever. `TCB_CRITIC_CLEANUP_AUDIT.md:17` records the one-shot retype as
a defect since replaced; the spare pool and `active_worker_tcb` of `src/apps` are that replacement.

## 5. Proofs

`RecoveryLoopProofs` proves, for every number of spares, attempts, polls, misses and beats
(with no more attempts than spares, the only assumption beyond positivity), for both
builds and with any kernel calls refused:

| theorem | of |
|---|---|
| `Invariance` | `Inv`, below |
| `TypeCorrect` | `TypeOK` |
| `OneWorkerRuns` | `ActiveServes` |
| `SparesAreFresh` | `SpareIsFresh` |
| `BootFirst` | `BootPrecedesRecovery` |
| `RequestsEnd` | `RequestEndsWithAttempt` |
| `AcksAreGenuine` | `AckIsGenuine` |
| `SignalsFollow` | `SignalFollowsKill` |
| `PassesAreProofs` | `PassProvesRespawn`, if `run()` cannot count up to `RecoveryBase` |
| `Refinement` | `ImplementsFailover` |

None of the properties is inductive by itself. `Inv` adds to the types: where a thread
is in its program bounds its counter (`CounterInv`); the bounded loops have not passed
their bounds (`LoopInv`); spares are used in order, so all beyond the last attempt are
untouched and only the active TCB may run (`HandoverInv`); `run()` belongs to TCB 0 and
`verse_recovery_entry` to the spares (`ProgramInv`); ready implies initialised, Watchdog past its wait
implies ready, `kill_flag` implies Watchdog past its wait, an attempt implies `kill_flag` was
seen (`BootInv`, a chain across three components). `AcksAreGenuine` needs a second invariant, `AckInv`,
about a request that is down again; `PassesAreProofs` a third, `RespawnInv`, about heartbeats that reach
`RecoveryBase`; its hypothesis `Beats < RecoveryBase /\ CounterBound < RecoveryBase` is what
finding 1 breaks; `SignalsFollow` a fourth, `SignalInv`: `kill_flag` is down when a pass is published. `Refinement` maps each action of ProcMan to a step of `Failover` or a stutter; the
other components stutter.

`VerseSupervisionProofs`, for any thresholds, dwells, window and loads on top of those:

| theorem | of |
|---|---|
| `SupervisionRefinesLoop` | `ImplementsLoop`; with it every theorem above holds of the supervision |
| `SupervisionRefinesFailover` | `ImplementsFailover` |
| `LateRestartIsOne` | `OneLateRestart` |
| `StaleEscalationsEnd` | `StaleEscalationIsBrief` |

`LateInv`: once an attempt has begun after the escalation, ProcMan looks at the severity
before it can wait for the next outage. `StaleEscalationsEnd` rests on two invariants. `PassOrder` follows
the pass number on its way: taken over, read, published and counted are in this order, and Watchdog
publishes only what is new. `StaleInv` distinguishes whether a published pass is still to be taken
over. While it is, at most one epoch has ended since, and the one that follows has read the new
number; once it has been, what DharmaNet has counted towards CRIT and the escalation fits into the
epochs since, less the one that took the pass over.

`RecoveryTimedProofs`, for all delays, slices, polls, misses and beats whose ratios satisfy
`PacingAssumption`:

| theorem | of |
|---|---|
| `TimedRefinesLoop` | each timed behaviour is one of `RecoveryLoop`: what is proved of the loop holds under the scheduler |
| `TimedTypeCorrect` | the types of the scheduler's variables |
| `PaceIsKept` | `TimedInv`, below |
| `AlarmsAreTrue` | `NoFalseAlarm` |
| `ReportsAreHeard` | `NoMissedReport` |
| `OneRestartSuffices` | `NoSecondRestart`, if the worker does not deadlock again and the kernel refuses no call of the hand-over; like all of `TimedSpec`, without an escalation |
| `PassesAreEarned` | each pass answers an attempt of its own: `passes <= restarts` |
| `PassesStayProofs` | `PassProvesRespawn` for any `CounterBound`, if `Beats < RecoveryBase` |

`Meanwhile(d)` is the most that one thread can spend while another gets past a delay of `d`:
a slice per slice of the other, and one more for the place in the round.
`PacingAssumption` states what the constants of the code have to satisfy, in units of 500000
rounds and with slices of 10 to 20 (of 4 to 10):

| ratio | in numbers | why |
|---|---|---|
| `StallDelay <= BeatDelay` | 2 against 20 | a stalled worker looks at its flag no later than a beating one would |
| `Meanwhile(BeatDelay) < MissLimit * WatchDelay` | 80 (70) against 100 | the worker beats before Watchdog has missed 50 polls |
| `Meanwhile(PollDelay) < MissLimit * WatchDelay` | 40 (20) against 100 | ProcMan sees an outage end before Watchdog can report the next |
| `Meanwhile(WatchDelay) < (Beats - 1) * BeatDelay`, and the same with `CounterBound` | 40 (20) against 80 | Watchdog looks before a restarted worker is back at the beat it stalled on |
| `Meanwhile(BeatDelay) + Meanwhile(WatchDelay) < (WaitPolls - 1) * PollDelay` | 120 (90) against 1999 | the polls of a cooperative restart outlast the worker's wait and Watchdog's |

The second ratio is the narrow one: with slices of 4 to 15, 105 against 100, it is lost. The invariant states who is ahead of whom. `Within(p, q, n)` says that p is past
its delay before q has had more than n units, whatever the slices and whatever the
order within a round; `SchedulerStep` shows that `Spend`, `Switch` and `NewRound` keep it. On it rest
`AlarmInv` (the worker beats within the patience Watchdog has left), `ReportInv` (ProcMan looks
within that patience), `BehindInv` (Watchdog is fewer beats behind than the counter takes to
come round, so a new beat never looks like the old one) and `RestartInv` (request and beat are
seen before the polls run out). `UntimedInv` says the rest: what follows without a delay is done in
one slice (`AtomicInv`), the heartbeat is the worker's counter (`BeatInv`), and where an attempt
stands tells where the worker and Watchdog are (`StartInv`, `AttemptInv`, `ReturnInv`, `ReportedInv`). For one
restart `SingleInv` adds that nothing is left to report after it. `PassInv` says which attempt answers
an alarm that is up: a beat that ends it comes in the middle of that attempt, and never
from the endless loop of `run()`.

The second hypothesis of `OneRestartSuffices` is needed: after a refused rebuild ProcMan gives
up. A refused suspension is allowed: timed_normal has both the hand-over to a spare and
the fall-back to the cooperative restart.

`EarlierReleasesProofs`, for any number of spares and attempts and any refusals:

| theorem | of |
|---|---|
| `OnlyOneWorker` | `OneWorkerRuns` |
| `NobodyStopsIt` | `RebuiltIsOutOfReach` |

The invariant: the slot is filled once, TCB 1 is the only one built, and it is built
only after TCB 0 has been suspended, which nothing resumes.

`DharmaNetProofs`, for any thresholds, dwells and window length, and any load:

| theorem | of |
|---|---|
| `Invariance`, `TypeCorrect` | the types |
| `SeveritiesAreEarned` | `SeverityIsEarned` |
| `CarryOversAreBounded` | `CarryOverIsBounded`, if `WarnEnter <= CritEnter` |

Its invariant says that no dwell counter exceeds the age of the current fresh start, that
`age` is at least `CRIT_DWELL - 1` plus the epochs in CRIT, and that the severity told agrees with
the level. A counter that survived a recovery would break the first part. For the carry-over a
second one, `WindowInv`, sums the window from its newest share: as many of the newest
shares as are younger than the recovery average at most `WarnEnter` while none was high. The hypothesis
is the order of the two thresholds in the code (55 and 80): were CRIT entered below WARN, a
low share could raise the severity by that way.

`LoadCountersProofs`, for any thresholds, dwell and bound:

| theorem | of |
|---|---|
| `TypeCorrect` | the types |
| `SampleIsHonest` | `CountIsHonest` |

The invariant adds what an increment under way may write back: no less than the counter
holds, and exactly that unless the zeroing fell into it (`StoreInv`), and that unseen work
exists only between read and zeroing (`EpochInv`).

`CodexFSProofs`, for a store of any size, any records, bytes of any width and any number of
changed bytes:

| theorem | of |
|---|---|
| `Invariance`, `TypeCorrect` | `TypeOK` |
| `DamageIsFound` | `DamageShows` |
| `VerdictsAreSound` | `VerdictIsSound` |
| `CountedBlocksStay` | `AppendOnly` |

The invariant ties the three threads together: while `run()` is not past its `memset`, `rf` is 0,
so nothing is counted or being written (`StartInv`; here `AppendOnly` rests on the assumption that
the store to `rf` stays behind the `memset`); the published count never exceeds `bc`
(`ServeInv`). `FillKeepsChain` shows that a new block leaves the older ones as intact or damaged as
they were, `TamperBreaksChain` that one changed byte breaks the equation of its own block.

`MessagesProofs`, for a ring of any size and all three assemblies:

| theorem | of |
|---|---|
| `TypeCorrect` | the types: each thread keeps to its program, no position leaves the ring |
| `VerdictsAreKept` | `VerdictIsKept` |
| `PagesArePrefixes` | `PageIsAPrefix` |
| `TheRingIsAQueue` | `RingHoldsTheBacklog` |

`Programs` says which statements each thread can be at, `Verdicts` that Hello works for the
gate that asks and that no gate but the secret one blocks, `Copies` that a thread copies no
more than it has measured. `RingInv` is about the cells from `tail` on, counted by their distance from it,
so that only the first few lemmas speak of the modulus: the pending cells hold the backlog (`Stored`),
what a thread has copied lies in free cells behind the head (`Copied`), only one thread is inside `lw`
while nothing has collided (`Alone`), and a client waits while its gate works (`Waits`).

The type invariants of DharmaNet, LoadCounters and Messages are proved and not run again.

Only model-checked: everything under fairness (`StallIsDetected`, `AttemptEnds`, `StallIsResolved`,
`NormalPassReached`, `WorkerRevives`, `ThreePassesThenQuarantine`, `OutageIsAnswered`, `PassIsTaken`, `SteadyLoadSettles`, `LoadDecides`,
`LoneWorkerDecides`, `LateWriterIsRead`, `CallsReturn`, `LogDrains`), which the prover cannot reach. Every
invariant, action property and refinement that a run checks has its theorem.

## 6. Not modelled

* The contents of log messages, and in the recovery loop all logging.
* The capabilities, CSpace and register values of a rebuild: a kernel call succeeds or is
  refused. `fault_endpoint_handler_stub` does nothing and is left out.
* A processor fault. In the builds of the runs the deadlock is simulated by a loop. The negative
  build `VERSE_NEGATIVE_BAD_FAULT_ENDPOINT` (`src/apps/verse_unified/CMakeLists.txt` lines 22 to 37) gives
  each spare the entry point 0x1, where it faults on its first instruction and never touches a
  dataport. The safety theorems about `Spec` cover it, since that obliges no thread to take a step; the
  liveness runs are about the other builds.
* Shares outside 0 to 100, by overflow of `ta*100`, and counters that wrap.
* The page tables behind the dataports: a component can reach what the assembly
  connects it to.
* More than one core: the system is configured for one.
* The DharmaNet of the top-level `verse_unified` and of `docker_recovered` (no recovery pass; in
  EarlierReleases any severity) and the CodexFS of `docker_recovered` (neither link check nor
  start-up guard): both were replaced by what is modelled.
* Mnemosyne, which is in no assembly and does nothing; the capDL, audit, fault-injection
  and build tools, which process text or drive builds and keep no state of the system;
  the repository's own specifications, which describe intended designs; documents.

## 7. Plan

Done: the recovery loop, untimed and timed, with its refinement and safety proofs; the
supervision with DharmaNet in it; the older loops; DharmaNet by itself and the counters
it reads; CodexFS with its clients; the message chain, the page and the log ring; each
with its proofs, the timed loop with those of its three properties about time.

What could follow: the counters of LoadCounters under the
three severities of DharmaNet; the slots that `inject_tcb_handoff.py` fills against those that
`rebuild_worker_tcb` uses.
