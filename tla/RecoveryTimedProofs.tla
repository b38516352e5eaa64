------------------------- MODULE RecoveryTimedProofs -------------------------
(***************************************************************************)
(* Proofs about RecoveryTimed.  Time only rules out interleavings of       *)
(* RecoveryLoop, so what is proved of the loop holds under the scheduler   *)
(* too.  For all delays and slices with the ratios of PacingAssumption,    *)
(* Watchdog reports no beating worker, ProcMan misses no report, and one   *)
(* restart suffices for a worker that does not deadlock again.             *)
(*                                                                         *)
(* The argument is a race between two threads: Within(p, q, n) says that   *)
(* p is past its delay before q has had n units of time.  The scheduler    *)
(* keeps each such race (SchedulerStep), and at each step of a thread the  *)
(* delays decide who wins.                                                 *)
(***************************************************************************)
EXTENDS RecoveryTimed, RecoveryLoopProofs

\* Every timed step is a step of the loop or leaves it alone.
LEMMA TimedStep == [TimedNext]_timedVars => [Next]_vars
  BY DEF TimedNext, WorkerActs, WorkerLooks, WatchdogActs, WatchdogLooks,
         ProcManActs, ProcManLooks, Spend, Switch, NewRound, timedVars, Next

\* The scheduler adds no behaviour: each timed behaviour is one of RecoveryLoop.
THEOREM TimedRefinesLoop == TimedSpec => Spec
<1>1. TimedInit => Init
  BY DEF TimedInit
<1> QED
  BY <1>1, TimedStep, PTL DEF TimedSpec, Spec

LEMMA ProductIsNat == \A m, n \in Nat : m * n \in Nat
  OBVIOUS

\* Each step keeps the types of the scheduler's variables.
LEMMA TimedTypeStep == TypeOK /\ TypeOK' /\ TimedTypeOK /\ [TimedNext]_timedVars => TimedTypeOK'
<1> SUFFICES ASSUME TypeOK, TypeOK', TimedTypeOK, [TimedNext]_timedVars
             PROVE  TimedTypeOK'
    OBVIOUS
<1>1. /\ BeatDelay \in Nat /\ StallDelay \in Nat /\ WatchDelay \in Nat
      /\ PollDelay \in Nat /\ BackoffDelay \in Nat /\ Slices \subseteq Nat
  BY TimedAssumption
<1>2. restarts' \in Nat
  BY ConstantFacts DEF TypeOK, ProcManTypeOK
<1>13. restarts' * BackoffDelay \in Nat
  BY <1>1, <1>2, ProductIsNat
<1> USE <1>1 DEF TimedTypeOK, Threads, Delay, HasCore, schedVars
<1>3. CASE WorkerActs
  BY <1>3 DEF WorkerActs
<1>4. CASE WorkerLooks
  BY <1>4 DEF WorkerLooks
<1>5. CASE WatchdogActs
  BY <1>5 DEF WatchdogActs
<1>6. CASE WatchdogLooks
  BY <1>6 DEF WatchdogLooks
<1>7. CASE ProcManActs
  BY <1>13, <1>7 DEF ProcManActs
<1>8. CASE ProcManLooks
  BY <1>8 DEF ProcManLooks
<1>9. CASE Spend
  BY <1>9 DEF Spend
<1>10. CASE Switch
  BY <1>10 DEF Switch
<1>11. CASE NewRound
  BY <1>11 DEF NewRound
<1>12. CASE UNCHANGED timedVars
  BY <1>12 DEF timedVars
<1> QED
  BY <1>3, <1>4, <1>5, <1>6, <1>7, <1>8, <1>9, <1>10, <1>11, <1>12 DEF TimedNext

\* No thread ever owes less than nothing to its delay loop or to its slice.
THEOREM TimedTypeCorrect == TimedSpec => []TimedTypeOK
<1>1. TimedInit => TimedTypeOK
  BY DEF TimedInit, TimedTypeOK, Threads
<1>2. Spec => []TypeOK
  BY TypeCorrect
<1>3. TimedSpec => []TypeOK
  BY <1>2, TimedRefinesLoop, PTL
<1> QED
  BY <1>1, <1>3, TimedTypeStep, PTL DEF TimedSpec

------------------------------------------------------------------------------
\* The race of two threads for the core.

\* Thread p, with delay l to spend and sp left of its slice, is past it before
\* thread q has had more than n units; tp and tq are 1 if their turn in this round
\* is still to come, sq is what q has left of its slice.
Pace(l, sp, tp, tq, sq, n) ==
  \E k \in Nat : l < k * SliceMin + sp /\ (k - tp + tq) * SliceMax + sq <= n

Share(c) == IF current = c THEN slice ELSE 0
Turn(c) == IF c \in waiting THEN 1 ELSE 0

Within(p, q, n) == Pace(left[p], Share(p), Turn(p), Turn(q), Share(q), n)

\* The same of the next state.
WithinNext(p, q, m) == Pace(left'[p], Share(p)', Turn(p)', Turn(q)', Share(q)', m)

------------------------------------------------------------------------------
\* The inductive invariant.

\* The running worker: the statement it is at, and what that tells.
Working == tstate[active] = "running"
Stmt == wpc[active]
Beating == Working /\ Stmt \in BeatPc
Silent == Working => Stmt \in {"stalled", "hung"}

\* Watchdog waits for a beat that the worker, left alone, will never make.
Outage == wdPc = "awaitBeat" /\ heartbeat = last /\ Silent

PollPc == {"pollRestart", "pollKill"}

\* What each thread may have to spend; only the backoff is longer than a poll.
SchedInv ==
  /\ TimedTypeOK
  /\ slice <= SliceMax
  /\ slice > 0 => current \notin waiting
  /\ left["worker"] <= BeatDelay
  /\ left["watchdog"] <= WatchDelay
  /\ pmPc \notin {"suspend", "raiseRestart"} => left["procman"] <= PollDelay

\* A statement that follows another without a delay is executed in the same slice.
AtomicInv ==
  /\ wdPc \in {"arm", "setKill", "readBeat", "lowerKill", "signal"} => HasCore("watchdog")
  /\ pmPc \in RebuildPc \cup {"checkSeverity", "withdraw"} => HasCore("procman")
  /\ Working /\ Stmt \in {"takeRestart", "resetHeartbeat"} => HasCore("worker")
  /\ Working /\ Stmt = "recovered" /\ wcnt[active] = RecoveryBase => HasCore("worker")

\* The heartbeat is the last beat the running worker has counted.
BeatInv ==
  Working =>
    /\ Stmt \in BootPc => heartbeat = 0
    /\ Stmt \in {"beats", "secondBeats"} => heartbeat = wcnt[active]
    /\ Stmt \in {"stalled", "takeRestart", "resetHeartbeat"} => heartbeat = Beats
    /\ Stmt = "loop" => heartbeat = IF wcnt[active] = 0 THEN Beats ELSE wcnt[active]
    /\ Stmt = "recovered" /\ wcnt[active] # RecoveryBase => heartbeat = wcnt[active]

\* kill_flag is up from the report to the beat that ends the outage.
KillInv == kill_flag = 1 <=> wdPc \in {"awaitBeat", "readBeat", "lowerKill"}

\* Nothing is reported before the worker has stalled for the first time, and
\* ProcMan is at its loop by then.
StartInv ==
  /\ Stmt # "none"
  /\ kill_flag = 1 => pmPc # "clearRestart"
  /\ Stmt \in BootPc \cup {"beats"} =>
       /\ Working /\ kill_flag = 0
       /\ pmPc \in {"clearRestart", "checkSeverity", "awaitKill"} \cup GiveUpPc

\* Every stage of an attempt: up to the hand-over the outage lasts; a request is
\* up until the stalled worker has seen it; an attempt that ends has ended the
\* outage, or the worker hangs in the entry that never reads the request.
AttemptInv ==
  /\ pmPc \in {"suspend", "raiseRestart"} \cup RebuildPc => Outage
  /\ pmPc \in {"checkSeverity", "awaitKill"} /\ kill_flag = 1 => Outage
  /\ pmPc \in PollPc => Stmt \notin {"entry", "recovered"}
  /\ pmPc \in PollPc /\ Stmt \in {"stalled", "hung"} => Outage
  /\ pmPc \in PollPc /\ Stmt = "stalled" => restart_flag = 1
  /\ pmPc = "withdraw" => Stmt \in {"secondBeats", "loop"}
  /\ pmPc = "timeout" => Outage /\ Stmt = "hung"
  /\ pmPc = "resume" => wpc[restarts] = "entry"
  /\ pmPc = "awaitRecovery" =>
       Stmt \in {"secondBeats", "loop", "entry", "recovered", "hung"}

\* A worker on its way back has not beaten yet, and Watchdog waits for the beat.
ReturnInv ==
  Working =>
    /\ Stmt \in {"takeRestart", "resetHeartbeat", "entry"} =>
         wdPc = "awaitBeat" /\ heartbeat = last
    /\ Stmt \in {"takeRestart", "resetHeartbeat"} => pmPc \in PollPc
    /\ Stmt = "entry" => pmPc = "awaitRecovery"
    /\ Stmt = "recovered" /\ wcnt[active] = RecoveryBase => wdPc = "awaitBeat"

\* What NoFalseAlarm and NoMissedReport say, made inductive.
ReportedInv ==
  wdPc = "setKill" =>
    /\ heartbeat = last /\ Silent
    /\ pmPc \in {"checkSeverity", "awaitKill"} \cup GiveUpPc

UntimedInv ==
  /\ AtomicInv /\ BeatInv /\ KillInv /\ StartInv
  /\ AttemptInv /\ ReturnInv /\ ReportedInv

\* What Watchdog has spent since it last saw a beat, and has still to spend
\* before it gives up.
Elapsed == (fc + 1) * WatchDelay - left["watchdog"]
Patience == MissLimit * WatchDelay - 1 - Elapsed

\* A beating worker beats again before Watchdog gives up.
AlarmInv ==
  wdPc = "monitor" /\ Beating => heartbeat # last \/ Within("worker", "watchdog", Patience)

\* A ProcMan that still waits for the end of the last outage sees it before then.
ReportInv ==
  wdPc = "monitor" => \/ pmPc \in {"checkSeverity", "awaitKill"} \cup GiveUpPc
                      \/ Within("procman", "watchdog", Patience)

\* Watchdog last saw the n-th beat before the worker's latest, n less than the
\* beats after which a counter starts again; so a new beat is never taken for an
\* old one.
Behind(n) ==
  LET c == wcnt[active]
  IN \/ last = c - n
     \/ Stmt = "loop" /\ c <= n /\ last \in {c - n + CounterBound, c - n + Beats}
     \/ Stmt = "recovered" /\ ~RepeatDeadlock /\ c <= RecoveryBase + n
          /\ last = c - n + CounterBound

BehindInv ==
  wdPc = "monitor" /\ Beating =>
    \E n \in Nat :
      /\ Behind(n)
      /\ Within("watchdog", "worker", Meanwhile(WatchDelay) - n * BeatDelay + left["worker"])

\* What ProcMan has spent on the polls of a cooperative restart.
Polled == polls * PollDelay - left["procman"]

\* The worker sees the request, and Watchdog the beat that follows it, before the
\* polls run out: first the one delay, then the other, and meanwhile the worker
\* does not get through the beats that lead it back to the one Watchdog knows.
RestartInv ==
  pmPc \in PollPc =>
    /\ Stmt = "stalled" => Within("worker", "procman", Meanwhile(BeatDelay) - Polled)
    /\ Stmt \in {"takeRestart", "resetHeartbeat"} => Polled <= Meanwhile(BeatDelay)
    /\ wdPc = "awaitBeat" => Stmt # "loop"
    /\ wdPc = "awaitBeat" /\ Stmt = "secondBeats" =>
         /\ last = Beats
         /\ Within("watchdog", "procman", Meanwhile(BeatDelay) + Meanwhile(WatchDelay) - Polled)
         /\ Within("watchdog", "worker",
                   Meanwhile(WatchDelay) - wcnt[active] * BeatDelay + left["worker"])

TimedInv ==
  /\ SchedInv /\ UntimedInv
  /\ AlarmInv /\ ReportInv /\ BehindInv /\ RestartInv

------------------------------------------------------------------------------
\* The arithmetic of Pace.

\* The assumptions in the form the steps use.
LEMMA TimeFacts ==
  /\ BeatDelay \in Nat /\ StallDelay \in Nat /\ WatchDelay \in Nat
  /\ PollDelay \in Nat /\ BackoffDelay \in Nat
  /\ BeatDelay > 0 /\ StallDelay > 0 /\ WatchDelay > 0 /\ PollDelay > 0
  /\ SliceMin \in Nat /\ SliceMax \in Nat /\ SliceMin > 0 /\ SliceMax > 0
  /\ \A s \in Slices : s \in Nat /\ SliceMin <= s /\ s <= SliceMax
  BY TimedAssumption

\* A delay of d lasts at most d \div m + 1 slices of m.
LEMMA QuotientBound ==
  ASSUME NEW d \in Nat, NEW m \in Nat, m > 0
  PROVE  d \div m \in Nat /\ d < (d \div m + 1) * m
  BY SMTT(30)

\* Whoever keeps a pace has not used up its time.
LEMMA PaceBound ==
  ASSUME NEW l, NEW sp, NEW tp \in {0, 1}, NEW tq \in {0, 1}, NEW sq \in Nat, NEW n \in Int,
         l \in Nat, sp \in Nat, tp = 1 => sp = 0, Pace(l, sp, tp, tq, sq, n)
  PROVE  n >= 0
<1>1. PICK k \in Nat : l < k * SliceMin + sp /\ (k - tp + tq) * SliceMax + sq <= n
  BY DEF Pace
<1>2. k - tp + tq \in Nat
  BY <1>1, TimeFacts
<1>3. (k - tp + tq) * SliceMax >= 0
  BY <1>2, TimeFacts
<1> QED
  BY <1>1, <1>3, TimeFacts

\* More time, less to spend, and what q has spent taken off both.
LEMMA PaceMore ==
  ASSUME NEW l \in Nat, NEW sp \in Nat, NEW tp \in {0, 1}, NEW tq \in {0, 1}, NEW sq \in Nat,
         NEW n \in Int, NEW m \in Int, Pace(l, sp, tp, tq, sq, n), n <= m
  PROVE  Pace(l, sp, tp, tq, sq, m)
<1>1. PICK k \in Nat : l < k * SliceMin + sp /\ (k - tp + tq) * SliceMax + sq <= n
  BY DEF Pace
<1>2. (k - tp + tq) * SliceMax \in Int
  BY TimeFacts
<1> QED
  BY <1>1, <1>2 DEF Pace

LEMMA PaceLess ==
  ASSUME NEW l \in Nat, NEW sp \in Nat, NEW tp \in {0, 1}, NEW tq \in {0, 1}, NEW sq \in Nat,
         NEW n \in Int, NEW j \in Nat, Pace(l, sp, tp, tq, sq, n), j <= l
  PROVE  Pace(j, sp, tp, tq, sq, n)
<1>1. PICK k \in Nat : l < k * SliceMin + sp /\ (k - tp + tq) * SliceMax + sq <= n
  BY DEF Pace
<1>2. k * SliceMin \in Int
  BY TimeFacts
<1> QED
  BY <1>1, <1>2 DEF Pace

LEMMA PaceSpent ==
  ASSUME NEW l \in Nat, NEW sp \in Nat, NEW tp \in {0, 1}, NEW tq \in {0, 1}, NEW sq \in Nat,
         NEW n \in Int, Pace(l, sp, tp, tq, sq, n), sq > 0
  PROVE  Pace(l, sp, tp, tq, sq - 1, n - 1)
<1>1. PICK k \in Nat : l < k * SliceMin + sp /\ (k - tp + tq) * SliceMax + sq <= n
  BY DEF Pace
<1>2. (k - tp + tq) * SliceMax \in Int
  BY TimeFacts
<1> QED
  BY <1>1, <1>2 DEF Pace

\* From any place in the round.
LEMMA PaceFresh ==
  ASSUME NEW l \in Nat, NEW d \in Nat, l <= d, NEW sp \in Nat, NEW tp \in {0, 1},
         NEW tq \in {0, 1}, NEW sq \in 0 .. SliceMax, tq = 1 => sq = 0,
         NEW m \in Int, Meanwhile(d) <= m
  PROVE  Pace(l, sp, tp, tq, sq, m)
<1> DEFINE k == d \div SliceMin + 1
<1>1. k \in Nat /\ d < k * SliceMin /\ Meanwhile(d) = (k + 1) * SliceMax
  BY QuotientBound, TimeFacts DEF Meanwhile
<1> HIDE DEF k
<1>2. k * SliceMin \in Int /\ k * SliceMax \in Int /\ (k + 1) * SliceMax = k * SliceMax + SliceMax
  BY <1>1, TimeFacts
<1>3. (k - 1) * SliceMax = k * SliceMax - SliceMax
  BY <1>1, TimeFacts
<1>4. l < k * SliceMin + sp
  BY <1>1, <1>2
<1>5. (k - tp + tq) * SliceMax + sq <= m
  <2>1. k - tp + tq \in {k - 1, k, k + 1} /\ (sq = 0 \/ k - tp + tq # k + 1)
    BY <1>1
  <2> QED
    BY <1>1, <1>2, <1>3, <2>1, TimeFacts
<1> QED
  BY <1>1, <1>4, <1>5 DEF Pace

\* p gets its slice, which is at least SliceMin.
LEMMA PaceTurn ==
  ASSUME NEW l \in Nat, NEW tq \in {0, 1}, NEW n \in Int, NEW s \in Nat, s >= SliceMin,
         Pace(l, 0, 1, tq, 0, n)
  PROVE  Pace(l, s, 0, tq, 0, n)
<1>1. PICK k \in Nat : l < k * SliceMin + 0 /\ (k - 1 + tq) * SliceMax + 0 <= n
  BY DEF Pace
<1> DEFINE j == k - 1
<1>2. k > 0
  BY <1>1, TimeFacts
<1>3. j \in Nat /\ k * SliceMin = j * SliceMin + SliceMin /\ j * SliceMin \in Int
  BY <1>1, <1>2, TimeFacts
<1>4. l < j * SliceMin + s /\ (j - 0 + tq) * SliceMax + 0 <= n
  BY <1>1, <1>3, TimeFacts
<1> QED
  BY <1>3, <1>4 DEF Pace

\* q gets its slice, which is at most SliceMax.
LEMMA PaceOther ==
  ASSUME NEW l \in Nat, NEW tp \in {0, 1}, NEW n \in Int, NEW s \in Nat, s <= SliceMax,
         Pace(l, 0, tp, 1, 0, n)
  PROVE  Pace(l, 0, tp, 0, s, n)
<1>1. PICK k \in Nat : l < k * SliceMin + 0 /\ (k - tp + 1) * SliceMax + 0 <= n
  BY DEF Pace
<1>2. (k - tp + 1) * SliceMax = (k - tp + 0) * SliceMax + SliceMax
  BY TimeFacts
<1>3. (k - tp + 0) * SliceMax \in Int
  BY TimeFacts
<1>4. (k - tp + 0) * SliceMax + s <= n
  BY <1>1, <1>2, <1>3, TimeFacts
<1> QED
  BY <1>1, <1>4 DEF Pace

\* Both turns are taken and both come again.
LEMMA PaceRound ==
  ASSUME NEW l \in Nat, NEW sp \in Nat, NEW sq \in Nat, NEW n \in Int, Pace(l, sp, 0, 0, sq, n)
  PROVE  Pace(l, sp, 1, 1, sq, n)
<1>1. PICK k \in Nat : l < k * SliceMin + sp /\ (k - 0 + 0) * SliceMax + sq <= n
  BY DEF Pace
<1>2. k - 1 + 1 = k - 0 + 0
  OBVIOUS
<1> QED
  BY <1>1, <1>2 DEF Pace

\* A turn that q does not take, not being runnable, only adds to p's time.
LEMMA PaceAhead ==
  ASSUME NEW l \in Nat, NEW sp \in Nat, NEW tp \in {0, 1}, NEW n \in Int,
         Pace(l, sp, tp, 1, 0, n)
  PROVE  Pace(l, sp, tp, 0, 0, n)
<1>1. PICK k \in Nat : l < k * SliceMin + sp /\ (k - tp + 1) * SliceMax + 0 <= n
  BY DEF Pace
<1>2. (k - tp + 1) * SliceMax = (k - tp + 0) * SliceMax + SliceMax
  BY TimeFacts
<1>3. (k - tp + 0) * SliceMax \in Int
  BY TimeFacts
<1> QED
  BY <1>1, <1>2, <1>3, TimeFacts DEF Pace

\* p spends a unit.
LEMMA PaceSpend ==
  ASSUME NEW l \in Nat, NEW sp \in Nat, l > 0, sp > 0, NEW tp \in {0, 1}, NEW tq \in {0, 1},
         NEW sq \in Nat, NEW n \in Int, Pace(l, sp, tp, tq, sq, n)
  PROVE  Pace(l - 1, sp - 1, tp, tq, sq, n)
<1>1. PICK k \in Nat : l < k * SliceMin + sp /\ (k - tp + tq) * SliceMax + sq <= n
  BY DEF Pace
<1>2. k * SliceMin \in Int
  BY TimeFacts
<1>3. l - 1 < k * SliceMin + (sp - 1)
  BY <1>1, <1>2
<1> QED
  BY <1>1, <1>3 DEF Pace

------------------------------------------------------------------------------
\* The pace under the scheduler.

LEMMA TurnFacts ==
  ASSUME SchedInv
  PROVE  /\ \A c \in Threads : /\ Share(c) \in Nat /\ Turn(c) \in {0, 1}
                               /\ Share(c) <= SliceMax
                               /\ Turn(c) = 1 => Share(c) = 0
                               /\ left[c] \in Nat
         /\ slice \in Nat /\ current \in Threads /\ waiting \subseteq Threads
<1> SUFFICES ASSUME NEW c \in Threads
             PROVE  /\ Share(c) \in Nat /\ Turn(c) \in {0, 1} /\ Share(c) <= SliceMax
                    /\ Turn(c) = 1 => Share(c) = 0
                    /\ left[c] \in Nat
    BY DEF SchedInv, TimedTypeOK
<1> USE DEF SchedInv, TimedTypeOK, Share, Turn
<1>1. left[c] \in Nat /\ slice \in Nat /\ Share(c) \in Nat
  OBVIOUS
<1>2. Share(c) <= SliceMax /\ Turn(c) \in {0, 1}
  BY TimeFacts
<1>3. Turn(c) = 1 => Share(c) = 0
  OBVIOUS
<1> QED
  BY <1>1, <1>2, <1>3

\* What a thread spends is taken off its delay and its slice.
LEMMA SpendFacts ==
  ASSUME SchedInv, Spend
  PROVE  \A c \in Threads :
           /\ Turn(c)' = Turn(c)
           /\ c # current => left'[c] = left[c] /\ Share(c)' = Share(c)
           /\ c = current => /\ Share(c) = slice /\ Share(c)' = slice - 1 /\ slice > 0
                             /\ left'[c] = IF left[c] > 0 THEN left[c] - 1 ELSE 0
  BY DEF SchedInv, TimedTypeOK, Spend, Share, Turn

\* The scheduler keeps the pace of p against q; the time p has goes down only
\* with what q spends of its delay.
LEMMA WithinSched ==
  ASSUME SchedInv, SchedInv', Spend \/ Switch \/ NewRound,
         NEW p \in Threads, NEW q \in Threads, p # q, p \in Runnable, ~Spins(p),
         NEW n \in Int, NEW m \in Int, Within(p, q, n), m >= n - (left[q] - left'[q])
  PROVE  Pace(left'[p], Share(p)', Turn(p)', Turn(q)', Share(q)', m)
<1> USE DEF Within
<1>00. left[p] \in Nat /\ left[q] \in Nat /\ Share(p) \in Nat /\ Share(q) \in Nat
      /\ Turn(p) \in {0, 1} /\ Turn(q) \in {0, 1}
      /\ slice \in Nat
  BY TurnFacts
<1> USE <1>00
<1>0. left'[p] \in Nat /\ left'[q] \in Nat /\ Share(p)' \in Nat /\ Share(q)' \in Nat
      /\ Turn(p)' \in {0, 1} /\ Turn(q)' \in {0, 1}
  BY DEF SchedInv, TimedTypeOK, Share, Turn
<1>1. CASE Spend
  <2>0. /\ Turn(p)' = Turn(p) /\ Turn(q)' = Turn(q)
        /\ p # current => left'[p] = left[p] /\ Share(p)' = Share(p)
        /\ q # current => left'[q] = left[q] /\ Share(q)' = Share(q)
        /\ p = current => /\ Share(p) = slice /\ Share(p)' = slice - 1 /\ slice > 0
                          /\ left'[p] = IF left[p] > 0 THEN left[p] - 1 ELSE 0
        /\ q = current => /\ Share(q) > 0 /\ Share(q)' = Share(q) - 1
                          /\ left'[q] = IF left[q] > 0 THEN left[q] - 1 ELSE 0
    BY <1>1, SpendFacts
  <2>1. CASE p = current
    <3>1. left[p] > 0
      BY <1>1, <2>1 DEF Spend
    <3>2. Pace(left[p] - 1, Share(p) - 1, Turn(p), Turn(q), Share(q), n)
      BY <2>0, <2>1, <3>1, PaceSpend
    <3>3. Pace(left'[p], Share(p)', Turn(p)', Turn(q)', Share(q)', n)
      BY <2>0, <2>1, <3>1, <3>2
    <3>4. n <= m
      BY <2>0, <2>1
    <3> QED
      BY <3>3, <3>4, <1>0, PaceMore
  <2>2. CASE p # current /\ q # current
    <3>1. n <= m
      BY <2>0, <2>2
    <3>2. Pace(left[p], Share(p), Turn(p), Turn(q), Share(q), m)
      BY <3>1, PaceMore
    <3> QED
      BY <2>0, <2>2, <3>2
  <2>3. CASE q = current
    <3> DEFINE j == n - 1
               r == Share(q) - 1
    <3>1. j \in Int /\ j <= m /\ r \in Nat /\ Share(q)' = r
      BY <2>0, <2>3
    <3>2. Pace(left[p], Share(p), Turn(p), Turn(q), r, j)
      BY <2>0, <2>3, PaceSpent
    <3> HIDE DEF j, r
    <3>3. Pace(left[p], Share(p), Turn(p), Turn(q), r, m)
      BY <3>1, <3>2, PaceMore
    <3> QED
      BY <2>0, <2>3, <3>1, <3>3
  <2> QED
    BY <2>1, <2>2, <2>3
<1>2. CASE Switch
  <2>1. /\ slice = 0 /\ left' = left /\ current' \in waiting \cap Runnable
        /\ waiting' = waiting \ {current'}
        /\ slice' \in Nat /\ SliceMin <= slice' /\ slice' <= SliceMax
    BY <1>2, TimeFacts DEF Switch
  <2>2. Share(p) = 0 /\ Share(q) = 0 /\ m >= n
    BY <2>1 DEF Share
  <2>3. CASE current' = p
    <3>1. /\ Turn(p) = 1 /\ Turn(p)' = 0 /\ Turn(q)' = Turn(q)
          /\ Share(p)' = slice' /\ Share(q)' = 0
      BY <2>1, <2>3 DEF Turn, Share
    <3>2. Pace(left[p], slice', 0, Turn(q), 0, n)
      BY <2>1, <2>2, <3>1, PaceTurn
    <3>3. Pace(left[p], slice', 0, Turn(q), 0, m)
      BY <2>1, <2>2, <3>2, PaceMore
    <3> QED
      BY <2>1, <3>1, <3>3
  <2>4. CASE current' = q
    <3>1. /\ Turn(q) = 1 /\ Turn(q)' = 0 /\ Turn(p)' = Turn(p)
          /\ Share(q)' = slice' /\ Share(p)' = 0
      BY <2>1, <2>4 DEF Turn, Share
    <3>2. Pace(left[p], 0, Turn(p), 0, slice', n)
      BY <2>1, <2>2, <3>1, PaceOther
    <3>3. Pace(left[p], 0, Turn(p), 0, slice', m)
      BY <2>1, <2>2, <3>2, PaceMore
    <3> QED
      BY <2>1, <3>1, <3>3
  <2>5. CASE current' # p /\ current' # q
    <3>1. /\ Turn(q)' = Turn(q) /\ Turn(p)' = Turn(p)
          /\ Share(q)' = 0 /\ Share(p)' = 0
      BY <2>1, <2>5 DEF Turn, Share
    <3>2. Pace(left[p], 0, Turn(p), Turn(q), 0, m)
      BY <2>2, PaceMore
    <3> QED
      BY <2>1, <3>1, <3>2
  <2> QED
    BY <2>3, <2>4, <2>5
<1>3. CASE NewRound
  <2>1. /\ slice = 0 /\ left' = left /\ waiting \cap Runnable = {} /\ waiting' = Threads
        /\ current' = current /\ slice' = slice
    BY <1>3 DEF NewRound
  <2>2. Share(p) = 0 /\ Share(q) = 0 /\ Share(p)' = 0 /\ Share(q)' = 0 /\ m >= n
    BY <2>1 DEF Share
  <2>3. Turn(p) = 0 /\ Turn(p)' = 1 /\ Turn(q)' = 1
    BY <2>1 DEF Turn
  <2>4. Pace(left[p], 0, 0, Turn(q), 0, n)
    BY <2>2, <2>3
  <2>5. Pace(left[p], 0, 0, 0, 0, n)
    <3>1. CASE Turn(q) = 0
      BY <3>1, <2>4
    <3>2. CASE Turn(q) = 1
      BY <3>2, <2>4, PaceAhead
    <3> QED
      BY <3>1, <3>2
  <2>6. Pace(left[p], 0, 1, 1, 0, n)
    BY <2>5, PaceRound
  <2>7. Pace(left[p], 0, 1, 1, 0, m)
    BY <2>2, <2>6, PaceMore
  <2> QED
    BY <2>1, <2>2, <2>3, <2>7
<1> QED
  BY <1>1, <1>2, <1>3

\* A step that leaves the scheduler alone and gives p nothing more to spend.
LEMMA WithinActs ==
  ASSUME SchedInv, SchedInv', UNCHANGED schedVars,
         NEW p \in Threads, NEW q \in Threads, left'[p] <= left[p],
         NEW n \in Int, NEW m \in Int, Within(p, q, n), n <= m
  PROVE  WithinNext(p, q, m)
<1>1. /\ left[p] \in Nat /\ left'[p] \in Nat /\ Share(p) \in Nat /\ Share(q) \in Nat
      /\ Turn(p) \in {0, 1} /\ Turn(q) \in {0, 1}
  BY TurnFacts DEF SchedInv, TimedTypeOK
<1>2. /\ Share(p)' = Share(p) /\ Share(q)' = Share(q)
      /\ Turn(p)' = Turn(p) /\ Turn(q)' = Turn(q)
  BY DEF schedVars, Share, Turn
<1>3. Pace(left[p], Share(p), Turn(p), Turn(q), Share(q), m)
  BY <1>1, PaceMore DEF Within
<1>4. Pace(left'[p], Share(p), Turn(p), Turn(q), Share(q), m)
  BY <1>1, <1>3, PaceLess
<1> QED
  BY <1>2, <1>4 DEF WithinNext

\* A delay that p has just begun, or is in the middle of.
LEMMA WithinFresh ==
  ASSUME SchedInv', NEW p \in Threads, NEW q \in Threads,
         NEW d \in Nat, left'[p] <= d, NEW m \in Int, Meanwhile(d) <= m
  PROVE  WithinNext(p, q, m)
<1>1. /\ left'[p] \in Nat /\ Share(p)' \in Nat /\ Share(q)' \in 0 .. SliceMax
      /\ Turn(p)' \in {0, 1} /\ Turn(q)' \in {0, 1}
      /\ Turn(q)' = 1 => Share(q)' = 0
  BY TimeFacts DEF SchedInv, TimedTypeOK, Share, Turn
<1> QED
  BY <1>1, PaceFresh DEF WithinNext

\* p is past its delay before the time is up.
LEMMA WithinBound ==
  ASSUME SchedInv, NEW p \in Threads, NEW q \in Threads, NEW n \in Int, Within(p, q, n)
  PROVE  n >= 0
<1>1. /\ left[p] \in Nat /\ Share(p) \in Nat /\ Share(q) \in Nat
      /\ Turn(p) \in {0, 1} /\ Turn(q) \in {0, 1}
      /\ Turn(p) = 1 => Share(p) = 0
  BY TurnFacts
<1> QED
  BY <1>1, PaceBound DEF Within

------------------------------------------------------------------------------
\* What the steps do, in terms of the running worker.

\* What the invariant of the untimed loop says of the running worker.
LEMMA LoopFacts ==
  ASSUME Inv
  PROVE  /\ active \in TCBs /\ tstate \in [TCBs -> ThreadState]
         /\ wpc \in [TCBs -> WorkerPc] /\ wcnt \in [TCBs -> Counts]
         /\ \A t \in TCBs : tstate[t] = "running" => t = active
         /\ pmPc \notin RebuildPc \cup GiveUpPc => Working
         /\ pmPc \in RebuildPc => ~Working
         /\ Working => "worker" \in Runnable
         /\ kill_flag \in {0, 1} /\ restart_flag \in {0, 1}
         /\ restarts \in Nat /\ polls \in Nat /\ fc \in Nat
         /\ heartbeat \in Nat /\ last \in Nat /\ \A t \in TCBs : wcnt[t] \in Nat
<1>1. Counts \subseteq Nat
  BY ConstantFacts DEF Counts, RunCounts, EntryCounts
<1>2. /\ active \in TCBs /\ tstate \in [TCBs -> ThreadState]
      /\ wpc \in [TCBs -> WorkerPc] /\ wcnt \in [TCBs -> Counts]
      /\ kill_flag \in {0, 1} /\ restart_flag \in {0, 1}
      /\ restarts \in Nat /\ polls \in Nat /\ fc \in Nat
      /\ heartbeat \in Counts /\ last \in Counts
  BY ConstantFacts DEF Inv, TypeOK, DataportsTypeOK, WatchdogTypeOK, ProcManTypeOK
<1>3. \A t \in TCBs : wcnt[t] \in Nat
  BY <1>1, <1>2
<1>4. /\ \A t \in TCBs : tstate[t] = "running" => t = active
      /\ pmPc \notin RebuildPc \cup GiveUpPc => Working
      /\ pmPc \in RebuildPc => ~Working
  BY DEF Inv, HandoverInv, Working
<1>5. Working => "worker" \in Runnable
  BY <1>2 DEF Working, Runnable, RunningTcbs, Threads
<1> QED
  BY <1>1, <1>2, <1>3, <1>4, <1>5

\* The program of the worker: from statement s with counter c and heartbeat h.
Program(s, c, h, r, c2, h2, s2, r2) ==
  \/ s \in BootPc /\ s2 \in BootPc \cup {"beats"} /\ h2 \in {0, h}
                  /\ (s2 = "beats" => c2 = 0)
  \/ s \in {"beats", "secondBeats"} /\ h2 = c + 1 /\ r2 = r
       /\ IF c + 1 = Beats
            THEN s2 = (IF s = "beats" THEN "stalled" ELSE "loop") /\ c2 = 0
            ELSE s2 = s /\ c2 = c + 1
  \/ s = "stalled" /\ r = 1 /\ s2 = "takeRestart" /\ h2 = h /\ r2 = r
  \/ s = "takeRestart" /\ s2 = "resetHeartbeat" /\ h2 = h
  \/ s = "resetHeartbeat" /\ s2 = "secondBeats" /\ h2 = 0 /\ c2 = 0
  \/ s = "loop" /\ s2 = s /\ h2 = c2 /\ r2 = r
       /\ c2 = IF c >= CounterBound THEN 1 ELSE c + 1
  \/ s = "entry" /\ s2 = "recovered" /\ h2 = h /\ c2 = RecoveryBase
  \/ s = "recovered" /\ RepeatDeadlock /\ h2 = c + 1
       /\ IF c + 1 = RecoveryBase + Beats THEN s2 = "hung" ELSE s2 = s /\ c2 = c + 1
  \/ s = "recovered" /\ ~RepeatDeadlock /\ s2 = s /\ h2 = c2
       /\ c2 = IF c >= RecoveryBase + CounterBound THEN RecoveryBase + 1 ELSE c + 1

\* A step of the worker follows the program of the one TCB that is running.
LEMMA WorkerMoves ==
  ASSUME Inv, SchedInv, WorkerActs
  PROVE  /\ HasCore("worker") /\ Working
         /\ UNCHANGED <<kill_flag, recovery_signal, severity_buf, tstate,
                        watchdogVars, procmanVars, schedVars>>
         /\ left' = [left EXCEPT !["worker"] = IF Stmt \in BeatPc THEN BeatDelay ELSE 0]
         /\ Program(Stmt, wcnt[active], heartbeat, restart_flag,
                    wcnt'[active], heartbeat', wpc'[active], restart_flag')
<1>1. PICK t \in TCBs : ThreadStep(t)
  BY DEF WorkerActs, WorkerRuns, WorkerNext
<1>2. t = active /\ Working
  <2>1. tstate[t] = "running"
    BY <1>1 DEF ThreadStep, At, ClearHeartbeat, ClearReady, ClearRestart, SetReady,
         FirstBeats, SeeRestart, TakeRestart, ResetHeartbeat, SecondBeats, LoopBeat,
         RecoveryEntry, RecoveredBeat, FiniteBeat, EndlessBeat
  <2> QED
    BY <2>1, LoopFacts DEF Working
<1>3. RunningTcbs = {active}
  BY <1>2, LoopFacts DEF RunningTcbs, Working
<1>4. /\ HasCore("worker") /\ Working
      /\ UNCHANGED <<kill_flag, recovery_signal, severity_buf, tstate,
                     watchdogVars, procmanVars, schedVars>>
  BY <1>2 DEF WorkerActs, WorkerRuns, WorkerNext
<1>5. left' = [left EXCEPT !["worker"] = IF Stmt \in BeatPc THEN BeatDelay ELSE 0]
  BY <1>3 DEF WorkerActs, Delay, Stmt
<1>6. Program(Stmt, wcnt[active], heartbeat, restart_flag,
              wcnt'[active], heartbeat', wpc'[active], restart_flag')
  <2> USE <1>1, <1>2, LoopFacts, ConstantFacts DEF Program, Stmt, At, Goto, Count, BootPc
  <2>1. CASE ClearHeartbeat(t)
    BY <2>1 DEF ClearHeartbeat
  <2>2. CASE ClearReady(t)
    BY <2>2 DEF ClearReady
  <2>3. CASE ClearRestart(t)
    BY <2>3 DEF ClearRestart
  <2>4. CASE SetReady(t)
    BY <2>4 DEF SetReady
  <2>5. CASE FirstBeats(t)
    BY <2>5 DEF FirstBeats, FiniteBeat
  <2>6. CASE SeeRestart(t)
    BY <2>6 DEF SeeRestart
  <2>7. CASE TakeRestart(t)
    BY <2>7 DEF TakeRestart
  <2>8. CASE ResetHeartbeat(t)
    BY <2>8 DEF ResetHeartbeat
  <2>9. CASE SecondBeats(t)
    BY <2>9 DEF SecondBeats, FiniteBeat
  <2>10. CASE LoopBeat(t)
    BY <2>10 DEF LoopBeat, EndlessBeat
  <2>11. CASE RecoveryEntry(t)
    BY <2>11 DEF RecoveryEntry
  <2>12. CASE RecoveredBeat(t)
    BY <2>12 DEF RecoveredBeat, FiniteBeat, EndlessBeat
  <2> HIDE DEF Program, Stmt
  <2> QED
    BY <1>1, <2>1, <2>2, <2>3, <2>4, <2>5, <2>6, <2>7, <2>8, <2>9, <2>10, <2>11, <2>12
    DEF ThreadStep
<1> QED
  BY <1>4, <1>5, <1>6

\* A step of Watchdog: what becomes of its statement, last, fc and kill_flag.
LEMMA WatchdogMoves ==
  ASSUME Inv, SchedInv, WatchdogActs
  PROVE  /\ HasCore("watchdog")
         /\ UNCHANGED <<heartbeat, restart_flag, severity_buf, threadVars, procmanVars,
                        schedVars>>
         /\ left' = [left EXCEPT !["watchdog"] =
                       IF wdPc' \in {"monitor", "window"} THEN WatchDelay ELSE 0]
         /\ \/ wdPc \in {"clearKill", "clearSignal", "awaitReady"}
                 /\ wdPc' \in {"clearSignal", "awaitReady", "arm"} /\ kill_flag' \in {0, kill_flag}
            \/ wdPc = "arm" /\ wdPc' = "monitor" /\ last' = heartbeat /\ fc' = 0
                 /\ kill_flag' = kill_flag
            \/ wdPc = "monitor" /\ last' = heartbeat
                 /\ fc' = (IF heartbeat = last THEN fc + 1 ELSE 0)
                 /\ wdPc' = (IF fc' >= MissLimit THEN "setKill" ELSE "monitor")
                 /\ kill_flag' = kill_flag
            \/ wdPc = "setKill" /\ wdPc' = "awaitBeat" /\ last' = last /\ kill_flag' = 1
            \/ wdPc = "awaitBeat" /\ heartbeat # last /\ wdPc' = "readBeat"
                 /\ kill_flag' = kill_flag
            \/ wdPc = "readBeat" /\ wdPc' = "lowerKill" /\ kill_flag' = kill_flag
            \/ wdPc = "lowerKill" /\ wdPc' \in {"signal", "window", "arm"} /\ kill_flag' = 0
            \/ wdPc \in {"signal", "window"} /\ wdPc' \in {"window", "arm"}
                 /\ kill_flag' = kill_flag
<1>1. WatchdogStep /\ HasCore("watchdog")
  BY DEF WatchdogActs, WatchdogRuns, WatchdogNext
<1>2. UNCHANGED <<heartbeat, restart_flag, severity_buf, threadVars, procmanVars, schedVars>>
  BY DEF WatchdogActs, WatchdogRuns, WatchdogNext, threadVars
<1>3. left' = [left EXCEPT !["watchdog"] =
                 IF wdPc' \in {"monitor", "window"} THEN WatchDelay ELSE 0]
  BY DEF WatchdogActs, Delay
<1>4. CASE WdClearKill \/ WdClearSignal \/ WdSeeReady
  BY <1>1, <1>2, <1>3, <1>4 DEF WdClearKill, WdClearSignal, WdSeeReady
<1>5. CASE WdArm \/ WdMonitor
  BY <1>1, <1>2, <1>3, <1>5 DEF WdArm, WdMonitor
<1>6. CASE WdSetKill \/ WdSeeBeat \/ WdReadBeat
  BY <1>1, <1>2, <1>3, <1>6 DEF WdSetKill, WdSeeBeat, WdReadBeat
<1>7. CASE WdLowerKill \/ WdSignal \/ WdWindow
  BY <1>1, <1>2, <1>3, <1>7 DEF WdLowerKill, WdSignal, WdWindow, AfterRecovery
<1> QED
  BY <1>1, <1>4, <1>5, <1>6, <1>7 DEF WatchdogStep

\* The active TCB and its worker are left as they are.
SameWorker ==
  /\ active' = active /\ tstate'[active] = tstate[active]
  /\ wpc'[active] = wpc[active] /\ wcnt'[active] = wcnt[active]

\* The steps of ProcMan: in its main loop, in a cooperative restart and in the
\* hand-over to a spare.
Consults ==
  /\ UNCHANGED threadVars /\ active' = active
  /\ \/ /\ pmPc \in {"clearRestart", "awaitRecovery"} /\ pmPc' = "checkSeverity"
        /\ (pmPc = "awaitRecovery" => kill_flag = 0)
        /\ polls' = polls /\ restarts' = restarts
     \/ /\ pmPc = "checkSeverity" /\ pmPc' = (IF severity_buf = 2 THEN "giveUp" ELSE "awaitKill")
        /\ polls' = polls /\ restarts' = restarts
     \/ /\ pmPc = "awaitKill" /\ kill_flag = 1 /\ restarts' = restarts + 1 /\ polls' = polls
        /\ IF restarts' > MaxRestarts THEN pmPc' = "giveUp"
           ELSE pmPc' \in {"suspend", "raiseRestart"}
     \/ /\ pmPc = "giveUp" /\ pmPc' = "quarantined"
        /\ restarts' = restarts

Cooperates ==
  /\ UNCHANGED threadVars /\ active' = active /\ restarts' = restarts
  /\ \/ /\ pmPc = "raiseRestart" /\ pmPc' = "pollRestart" /\ restart_flag' = 1
        /\ polls' = polls
     \/ /\ pmPc = "pollRestart" /\ pmPc' = "pollKill" /\ restart_flag' = restart_flag
        /\ polls' = polls
     \/ /\ pmPc = "pollKill" /\ kill_flag = 0 /\ pmPc' = "withdraw"
     \/ /\ pmPc = "pollKill" /\ kill_flag = 1 /\ polls' = polls + 1
        /\ restart_flag' = restart_flag
        /\ pmPc' = (IF polls' < WaitPolls THEN "pollRestart" ELSE "timeout")
     \/ pmPc = "withdraw" /\ pmPc' = "awaitRecovery"
     \/ pmPc = "timeout" /\ pmPc' = "checkSeverity"

HandsOver ==
  /\ restarts' = restarts
  /\ \/ /\ pmPc = "suspend" /\ pmPc' = "configure"
        /\ tstate'[active] = "suspended" /\ wpc' = wpc /\ active' = active
     \/ /\ pmPc = "suspend" /\ pmPc' = "raiseRestart"
        /\ UNCHANGED <<threadVars, active, restart_flag>> /\ polls' = polls
     \/ /\ pmPc = "configure" /\ pmPc' = "setPriority" /\ SameWorker
     \/ /\ pmPc = "setPriority" /\ pmPc' = "writeRegisters" /\ SameWorker
     \/ /\ pmPc = "writeRegisters" /\ pmPc' = "resume" /\ SameWorker
        /\ wpc'[restarts] = "entry"
     \/ /\ pmPc = "resume" /\ pmPc' = "awaitRecovery"
        /\ active' = restarts /\ wpc' = wpc
     \/ pmPc \in RebuildPc \cap MayRefuse /\ pmPc' = "giveUp" /\ SameWorker

ProcManDelay ==
  IF pmPc = "awaitKill" /\ pmPc' # "giveUp" THEN restarts' * BackoffDelay
  ELSE IF pmPc = "pollKill" /\ pmPc' # "withdraw" THEN PollDelay ELSE 0

\* Every step of ProcMan is one of the three.
LEMMA ProcManMoves ==
  ASSUME Inv, SchedInv, ProcManActs
  PROVE  /\ HasCore("procman")
         /\ UNCHANGED <<heartbeat, kill_flag, severity_buf, watchdogVars, schedVars>>
         /\ left'["procman"] = ProcManDelay
         /\ left'["watchdog"] = left["watchdog"]
         /\ left'["worker"] = (IF tstate' = tstate THEN left["worker"] ELSE 0)
         /\ Consults \/ Cooperates \/ HandsOver
<1>1. ProcManStep /\ HasCore("procman")
      /\ UNCHANGED <<heartbeat, kill_flag, severity_buf, watchdogVars, schedVars>>
  BY DEF ProcManActs, ProcManRuns, ProcManNext
<1>2. /\ left'["procman"] = ProcManDelay
      /\ left'["watchdog"] = left["watchdog"]
      /\ left'["worker"] = (IF tstate' = tstate THEN left["worker"] ELSE 0)
  BY DEF ProcManActs, ProcManDelay, SchedInv, TimedTypeOK, Threads
<1>3. Consults \/ Cooperates \/ HandsOver
  <2>1. /\ active \in TCBs /\ kill_flag \in {0, 1}
        /\ pmPc \in RebuildPc \cup {"suspend"} =>
             SpareFor(restarts) = restarts /\ restarts \in TCBs /\ restarts # active
        /\ tstate \in [TCBs -> ThreadState] /\ wpc \in [TCBs -> WorkerPc]
        /\ wcnt \in [TCBs -> Counts]
    <3>1. pmPc \in RebuildPc \cup {"suspend"} => restarts \in 1 .. MaxRestarts
      BY LoopFacts, ConstantFacts DEF Inv, LoopInv, RebuildPc, GiveUpPc
    <3> QED
      BY <3>1, LoopFacts, SpareForAttempt DEF Inv, HandoverInv
  <2>2. PmStart \/ PmCheckSeverity \/ PmSeeKill \/ PmSeeRecovery \/ PmGiveUp => Consults
    BY <2>1 DEF Consults, PmStart, PmCheckSeverity, PmSeeKill, PmSeeRecovery, PmGiveUp,
         threadVars
  <2>3. PmRaiseRestart \/ PmPollRestart \/ PmPollKill \/ PmWithdraw \/ PmTimeout => Cooperates
    BY <2>1 DEF Cooperates, PmRaiseRestart, PmPollRestart, PmPollKill, PmWithdraw, PmTimeout,
         LeaveCooperative, threadVars
  <2>4. PmSuspend => HandsOver
    BY <2>1 DEF HandsOver, PmSuspend, threadVars
  <2>5. PmConfigure \/ PmSetPriority => HandsOver
    BY <2>1 DEF HandsOver, PmConfigure, PmSetPriority, RebuildFails, SameWorker, threadVars,
         RebuildPc
  <2>6. PmWriteRegisters \/ PmResume => HandsOver
    BY <2>1 DEF HandsOver, PmWriteRegisters, PmResume, RebuildFails, SameWorker, threadVars,
         RebuildPc
  <2> QED
    BY <1>1, <2>2, <2>3, <2>4, <2>5, <2>6 DEF ProcManStep
<1> QED
  BY <1>1, <1>2, <1>3

LEMMA WaitingSteps ==
  ASSUME [TimedNext]_timedVars
  PROVE  \/ WorkerActs \/ WatchdogActs \/ ProcManActs
         \/ WorkerLooks \/ WatchdogLooks \/ ProcManLooks
         \/ Spend \/ Switch \/ NewRound \/ UNCHANGED timedVars
  BY DEF TimedNext

\* No delay is begun that is longer than its bound.
LEMMA SchedStep == Inv /\ Inv' /\ SchedInv /\ [TimedNext]_timedVars => SchedInv'
<1> SUFFICES ASSUME Inv, Inv', SchedInv, [TimedNext]_timedVars PROVE SchedInv'
    OBVIOUS
<1>1. TimedTypeOK'
  BY TimedTypeStep DEF Inv, SchedInv
<1>2. /\ slice' <= SliceMax
      /\ slice' > 0 => current' \notin waiting'
      /\ left'["worker"] <= BeatDelay
      /\ left'["watchdog"] <= WatchDelay
      /\ pmPc' \notin {"suspend", "raiseRestart"} => left'["procman"] <= PollDelay
  <2> USE TimeFacts, PacingAssumption DEF SchedInv, TimedTypeOK, Threads
  <2>1. CASE WorkerActs
    BY <2>1, WorkerMoves DEF procmanVars, schedVars
  <2>2. CASE WatchdogActs
    BY <2>2, WatchdogMoves DEF procmanVars, schedVars
  <2>3. CASE ProcManActs
    <3>1. pmPc' \notin {"suspend", "raiseRestart"} => left'["procman"] \in {0, PollDelay}
      BY <2>3, ProcManMoves DEF ProcManDelay, Consults, Cooperates, HandsOver
    <3> QED
      BY <2>3, <3>1, ProcManMoves DEF schedVars
  <2>4. CASE WorkerLooks \/ WatchdogLooks \/ ProcManLooks
    BY <2>4 DEF WorkerLooks, WatchdogLooks, ProcManLooks, vars, procmanVars, schedVars, Delay
  <2>5. CASE Spend \/ Switch \/ NewRound
    BY <2>5 DEF Spend, Switch, NewRound, vars, procmanVars
  <2>6. CASE UNCHANGED timedVars
    BY <2>6 DEF timedVars, schedVars, vars, procmanVars
  <2> QED
    BY <2>1, <2>2, <2>3, <2>4, <2>5, <2>6 DEF TimedNext
<1> QED
  BY <1>1, <1>2 DEF SchedInv

\* The measures are integers.
Measures ==
  /\ Elapsed \in Int /\ Patience \in Int /\ Polled \in Int
  /\ Meanwhile(BeatDelay) \in Nat /\ Meanwhile(WatchDelay) \in Nat
  /\ Meanwhile(PollDelay) \in Nat
  /\ wcnt[active] \in Nat /\ polls \in Nat /\ fc \in Nat
  /\ left["worker"] \in Nat /\ left["watchdog"] \in Nat /\ left["procman"] \in Nat
  /\ wcnt[active] * BeatDelay \in Nat

LEMMA TimedFacts == Inv /\ SchedInv => Measures
<1> SUFFICES ASSUME Inv, SchedInv PROVE Measures
    OBVIOUS
<1>1. \A d \in Nat : Meanwhile(d) \in Nat
  BY TimeFacts, QuotientBound, ProductIsNat DEF Meanwhile
<1>2. /\ left["worker"] \in Nat /\ left["watchdog"] \in Nat /\ left["procman"] \in Nat
  BY DEF SchedInv, TimedTypeOK, Threads
<1>3. wcnt[active] \in Nat /\ fc \in Nat /\ polls \in Nat
  BY LoopFacts
<1>4. /\ (fc + 1) * WatchDelay \in Nat /\ polls * PollDelay \in Nat
      /\ MissLimit * WatchDelay \in Nat
      /\ wcnt[active] * BeatDelay \in Nat
  BY <1>3, TimeFacts, ConstantFacts, ProductIsNat
<1> QED
  BY <1>1, <1>2, <1>3, <1>4, TimeFacts DEF Elapsed, Patience, Polled, Measures

LEMMA TimedFactsNext == Inv' /\ SchedInv' => Measures'
  BY TimedFacts, PTL

\* Only the thread with the core takes a step, and it does so at once.
LEMMA AtomicStep ==
  ASSUME Inv, Inv', SchedInv, UntimedInv, [TimedNext]_timedVars
  PROVE  AtomicInv'
<1> USE DEF UntimedInv
<1>1. CASE WorkerActs
  <2>1. HasCore("worker") /\ ~HasCore("watchdog") /\ ~HasCore("procman")
    BY <1>1, WorkerMoves DEF HasCore
  <2>2. /\ wdPc' \notin {"arm", "setKill", "readBeat", "lowerKill", "signal"}
        /\ pmPc' \notin RebuildPc \cup {"checkSeverity", "withdraw"}
    BY <1>1, <2>1, WorkerMoves DEF AtomicInv, watchdogVars, procmanVars
  <2>3. left["worker"] = 0 /\ (Stmt \notin BeatPc => HasCore("worker")')
    BY <1>1, <2>1, WorkerMoves DEF HasCore, schedVars, SchedInv, TimedTypeOK, Threads
  <2>4. Working' /\ Stmt' \in {"takeRestart", "resetHeartbeat"} => Stmt \notin BeatPc
    BY <1>1, WorkerMoves DEF Program, Stmt, BeatPc, BootPc, procmanVars
  <2>5. Working' /\ Stmt' = "recovered" /\ wcnt'[active'] = RecoveryBase => Stmt \notin BeatPc
    <3>1. Stmt = "recovered" => wcnt[active] \in Nat /\ wcnt[active] >= RecoveryBase
      BY LoopFacts, ConstantFacts DEF Inv, CounterInv, Stmt
    <3>2. active' = active
      BY <1>1, WorkerMoves DEF procmanVars
    <3>3. SUFFICES ASSUME wpc'[active] = "recovered", wcnt'[active] = RecoveryBase,
                          Stmt \in BeatPc
                   PROVE  FALSE
      BY <3>2 DEF Stmt
    <3>4. Stmt = "recovered"
      BY <1>1, <3>3, WorkerMoves DEF Program, BeatPc, BootPc
    <3> QED
      BY <1>1, <3>1, <3>3, <3>4, WorkerMoves, ConstantFacts DEF Program, BootPc
  <2> QED
    BY <2>2, <2>3, <2>4, <2>5 DEF AtomicInv
<1>2. CASE WatchdogActs
  <2>1. HasCore("watchdog") /\ ~HasCore("worker") /\ ~HasCore("procman")
    BY <1>2, WatchdogMoves DEF HasCore
  <2>2. wdPc' \in {"arm", "setKill", "readBeat", "lowerKill", "signal"} => HasCore("watchdog")'
    BY <1>2, <2>1, WatchdogMoves DEF HasCore, schedVars, SchedInv, TimedTypeOK, Threads
  <2> QED
    BY <1>2, <2>1, <2>2, WatchdogMoves
    DEF AtomicInv, procmanVars, threadVars, Working, Stmt
<1>3. CASE ProcManActs
  <2>1. HasCore("procman") /\ ~HasCore("worker") /\ ~HasCore("watchdog")
    BY <1>3, ProcManMoves DEF HasCore
  <2>2. wdPc' \notin {"arm", "setKill", "readBeat", "lowerKill", "signal"}
    BY <1>3, <2>1, ProcManMoves DEF AtomicInv, watchdogVars
  <2>3. pmPc' \in RebuildPc \cup {"checkSeverity", "withdraw"} => HasCore("procman")'
    BY <1>3, <2>1, ProcManMoves
    DEF HasCore, schedVars, ProcManDelay, Consults, Cooperates, HandsOver, RebuildPc
  <2>4. /\ Working' /\ Stmt' \in {"takeRestart", "resetHeartbeat", "recovered"} =>
             Working /\ Stmt' = Stmt /\ wcnt'[active'] = wcnt[active]
    <3>1. CASE Consults \/ Cooperates
      BY <3>1 DEF Consults, Cooperates, threadVars, Working, Stmt
    <3>2. CASE HandsOver
      BY <3>2 DEF HandsOver, SameWorker, threadVars, Working, Stmt, UntimedInv, AttemptInv
    <3> QED
      BY <1>3, <3>1, <3>2, ProcManMoves
  <2> QED
    BY <2>1, <2>2, <2>3, <2>4 DEF AtomicInv
<1>4. CASE UNCHANGED vars
  <2>1. /\ wdPc' = wdPc /\ pmPc' = pmPc /\ tstate' = tstate /\ wpc' = wpc /\ wcnt' = wcnt
        /\ active' = active
    BY <1>4 DEF vars, sharedVars, procmanVars, watchdogVars
  <2>2. CASE WorkerLooks
    <3>1. Stmt = "stalled" /\ HasCore("worker")
      BY <2>2, LoopFacts DEF WorkerLooks, At, Stmt
    <3> QED
      BY <2>1, <3>1 DEF AtomicInv, HasCore, Stmt
  <2>3. CASE WatchdogLooks
    <3>1. wdPc = "awaitBeat" /\ HasCore("watchdog")
      BY <2>3 DEF WatchdogLooks
    <3> QED
      BY <2>1, <3>1 DEF AtomicInv, HasCore, Working, Stmt
  <2>4. CASE ProcManLooks
    <3>1. pmPc \in {"awaitKill", "awaitRecovery"} /\ HasCore("procman")
      BY <2>4 DEF ProcManLooks
    <3> QED
      BY <2>1, <3>1 DEF AtomicInv, HasCore, Working, Stmt, RebuildPc
  <2>5. CASE Spend
    <3>1. ~Spins("watchdog") \/ wdPc = "awaitReady"
      BY DEF Spins
    <3>2. ~Spins("procman") \/ pmPc = "quarantined"
      BY DEF Spins
    <3>3. ~Spins("worker") \/ Stmt = "hung"
      BY LoopFacts DEF Spins, At, Stmt
    <3>4. \A c \in Threads : HasCore(c) => Spins(c)
      BY <2>5 DEF Spend, HasCore
    <3> QED
      BY <2>1, <3>1, <3>2, <3>3, <3>4 DEF AtomicInv, Working, Stmt, RebuildPc, Threads
  <2>6. CASE Switch \/ NewRound
    <3>1. \A c \in Threads : ~HasCore(c)
      BY <2>6 DEF Switch, NewRound, HasCore
    <3> QED
      BY <2>1, <3>1 DEF AtomicInv, Working, Stmt, Threads
  <2>7. CASE UNCHANGED timedVars
    BY <2>1, <2>7 DEF timedVars, schedVars, AtomicInv, HasCore, Working, Stmt
  <2> QED
    BY <1>1, <1>2, <1>3, <2>2, <2>3, <2>4, <2>5, <2>6, <2>7, WaitingSteps
<1> QED
  BY <1>1, <1>2, <1>3, <1>4, WaitingSteps
  DEF WorkerLooks, WatchdogLooks, ProcManLooks, Spend, Switch, NewRound, timedVars

LEMMA ActsOrWaits ==
  ASSUME [TimedNext]_timedVars
  PROVE  WorkerActs \/ WatchdogActs \/ ProcManActs \/ UNCHANGED vars
  BY DEF TimedNext, WorkerLooks, WatchdogLooks, ProcManLooks, Spend, Switch, NewRound, timedVars

\* ProcMan does nothing to a worker that goes on running.
LEMMA ProcManKeeps ==
  ASSUME Inv, SchedInv, AttemptInv, ProcManActs
  PROVE  \/ pmPc = "resume" /\ pmPc' = "awaitRecovery" /\ Stmt' = "entry"
         \/ /\ active' = active /\ Stmt' = Stmt /\ wcnt'[active] = wcnt[active]
            /\ Working' => Working /\ left'["worker"] = left["worker"]
         \/ ~Working' /\ active' = active /\ Stmt' = Stmt
<1>1. CASE Consults \/ Cooperates
  BY <1>1, ProcManMoves DEF Consults, Cooperates, threadVars, Working, Stmt
<1>2. CASE HandsOver
  <2>1. pmPc \in RebuildPc => ~Working
    BY LoopFacts
  <2> QED
    BY <1>2, <2>1, ProcManMoves, LoopFacts
    DEF HandsOver, SameWorker, threadVars, Working, Stmt, AttemptInv, RebuildPc
<1> QED
  BY <1>1, <1>2, ProcManMoves

\* The heartbeat follows the worker's counter, through every hand-over.
LEMMA BeatStep ==
  ASSUME Inv, Inv', SchedInv, UntimedInv, [TimedNext]_timedVars
  PROVE  BeatInv'
<1>1. CASE WorkerActs
  <2>1. /\ Program(Stmt, wcnt[active], heartbeat, restart_flag,
                   wcnt'[active], heartbeat', wpc'[active], restart_flag')
        /\ Working /\ active' = active /\ Stmt' = wpc'[active]
    BY <1>1, WorkerMoves DEF procmanVars, Stmt
  <2>2. wcnt[active] \in Nat
    BY LoopFacts
  <2> QED
    BY <2>1, <2>2, ConstantFacts DEF UntimedInv, BeatInv, Program, BootPc
<1>2. CASE WatchdogActs
  BY <1>2, WatchdogMoves DEF UntimedInv, BeatInv, Working, Stmt, threadVars, procmanVars
<1>3. CASE ProcManActs
  <2>1. heartbeat' = heartbeat
    BY <1>3, ProcManMoves
  <2> QED
    BY <1>3, <2>1, ProcManKeeps DEF UntimedInv, BeatInv, BootPc
<1>4. CASE UNCHANGED vars
  BY <1>4 DEF UntimedInv, BeatInv, Working, Stmt, vars, sharedVars, procmanVars
<1> QED
  BY <1>1, <1>2, <1>3, <1>4, ActsOrWaits

\* Only Watchdog moves kill_flag.
LEMMA KillStep ==
  ASSUME Inv, Inv', SchedInv, UntimedInv, [TimedNext]_timedVars
  PROVE  KillInv'
<1> USE DEF UntimedInv, KillInv
<1>1. CASE WorkerActs
  BY <1>1, WorkerMoves DEF watchdogVars
<1>2. CASE WatchdogActs
  BY <1>2, WatchdogMoves, LoopFacts
<1>3. CASE ProcManActs
  BY <1>3, ProcManMoves DEF watchdogVars
<1>4. CASE UNCHANGED vars
  BY <1>4 DEF vars, sharedVars, watchdogVars
<1> QED
  BY <1>1, <1>2, <1>3, <1>4, ActsOrWaits

\* The first report comes after the first stall.
LEMMA StartStep ==
  ASSUME Inv, Inv', SchedInv, UntimedInv, ReportInv, [TimedNext]_timedVars
  PROVE  StartInv'
<1> USE DEF UntimedInv
<1>1. CASE WorkerActs
  <2>1. /\ Program(Stmt, wcnt[active], heartbeat, restart_flag,
                   wcnt'[active], heartbeat', wpc'[active], restart_flag')
        /\ Working /\ active' = active /\ Stmt' = wpc'[active] /\ Working'
    BY <1>1, WorkerMoves DEF procmanVars, Stmt, Working
  <2>2. kill_flag' = kill_flag /\ pmPc' = pmPc
    BY <1>1, WorkerMoves DEF procmanVars
  <2> QED
    BY <2>1, <2>2 DEF StartInv, Program, BootPc
<1>2. CASE WatchdogActs
  <2>1. Stmt' = Stmt /\ pmPc' = pmPc /\ (Working' <=> Working)
    BY <1>2, WatchdogMoves DEF threadVars, procmanVars, Stmt, Working
  <2>2. kill_flag' \in {0, kill_flag} \/ wdPc = "setKill"
    BY <1>2, WatchdogMoves
  <2>3. wdPc = "setKill" =>
          Stmt \notin BootPc \cup {"beats"} /\ pmPc # "clearRestart"
    BY DEF StartInv, ReportedInv, Silent, BootPc, GiveUpPc
  <2> QED
    BY <2>1, <2>2, <2>3 DEF StartInv
<1>3. CASE ProcManActs
  <2>1. kill_flag' = kill_flag /\ kill_flag \in {0, 1} /\ pmPc' # "clearRestart"
    BY <1>3, ProcManMoves, LoopFacts DEF Consults, Cooperates, HandsOver
  <2>2. CASE Stmt \in BootPc \cup {"beats"}
    <3>1. Consults /\ kill_flag = 0
      BY <1>3, <2>2, ProcManMoves
      DEF StartInv, Cooperates, HandsOver, GiveUpPc, RebuildPc
    <3>2. Working' /\ pmPc' \in {"checkSeverity", "awaitKill"} \cup GiveUpPc
      BY <2>2, <3>1 DEF StartInv, Consults, GiveUpPc, threadVars, Working
    <3> QED
      BY <1>3, <2>1, <2>2, <3>1, <3>2, ProcManKeeps DEF StartInv, BootPc
  <2>3. CASE Stmt \notin BootPc \cup {"beats"}
    BY <1>3, <2>1, <2>3, ProcManKeeps DEF StartInv, BootPc
  <2> QED
    BY <2>2, <2>3
<1>4. CASE UNCHANGED vars
  BY <1>4 DEF StartInv, Working, Stmt, vars, sharedVars, procmanVars
<1> QED
  BY <1>1, <1>2, <1>3, <1>4, ActsOrWaits

\* A worker that has heard the request is heard before ProcMan's polls run out.
LEMMA LateIsHung ==
  ASSUME Inv, SchedInv, UntimedInv, RestartInv, Working, HasCore("procman"),
         pmPc = "pollKill", kill_flag = 1, polls + 1 >= WaitPolls
  PROVE  Stmt = "hung" /\ Outage
<1> USE TimedFacts, TimeFacts, PacingAssumption, ConstantFacts DEF UntimedInv, Measures
<1>1. Polled >= (WaitPolls - 1) * PollDelay
  <2>1. left["procman"] = 0 /\ polls \in Nat /\ polls >= WaitPolls - 1
    BY LoopFacts DEF HasCore
  <2>2. polls * PollDelay >= (WaitPolls - 1) * PollDelay
    BY <2>1
  <2> QED
    BY <2>1, <2>2 DEF Polled
<1>2. wdPc = "awaitBeat"
  BY DEF KillInv, AtomicInv, HasCore
<1>3. Stmt # "stalled"
  <2>1. SUFFICES ASSUME Stmt = "stalled" PROVE FALSE
    OBVIOUS
  <2>2. Within("worker", "procman", Meanwhile(BeatDelay) - Polled)
    BY <2>1 DEF RestartInv, PollPc
  <2>3. Meanwhile(BeatDelay) - Polled >= 0
    BY <2>2, WithinBound DEF Threads
  <2> QED
    BY <1>1, <2>3
<1>4. Stmt # "secondBeats"
  <2>1. SUFFICES ASSUME Stmt = "secondBeats" PROVE FALSE
    OBVIOUS
  <2>2. Within("watchdog", "procman", Meanwhile(BeatDelay) + Meanwhile(WatchDelay) - Polled)
    BY <1>2, <2>1 DEF RestartInv, PollPc
  <2>3. Meanwhile(BeatDelay) + Meanwhile(WatchDelay) - Polled >= 0
    BY <2>2, WithinBound DEF Threads
  <2> QED
    BY <1>1, <2>3
<1>5. Stmt \notin {"takeRestart", "resetHeartbeat", "loop"}
  BY <1>2 DEF AtomicInv, HasCore, RestartInv, PollPc
<1>6. Stmt \in WorkerPc
  BY LoopFacts DEF Stmt
<1>7. Stmt = "hung"
  BY <1>3, <1>4, <1>5, <1>6
  DEF AttemptInv, StartInv, PollPc, WorkerPc, RunPc, EntryPc, BootPc, GiveUpPc
<1> QED
  BY <1>7 DEF AttemptInv, PollPc

\* Every outcome of an attempt finds the worker where the attempt left it.
LEMMA AttemptStep ==
  ASSUME Inv, Inv', SchedInv, UntimedInv, RestartInv, [TimedNext]_timedVars
  PROVE  AttemptInv'
<1> USE DEF UntimedInv
<1>1. CASE WorkerActs
  <2>1. /\ Program(Stmt, wcnt[active], heartbeat, restart_flag,
                   wcnt'[active], heartbeat', wpc'[active], restart_flag')
        /\ Working /\ active' = active /\ Stmt' = wpc'[active] /\ HasCore("worker")
    BY <1>1, WorkerMoves DEF procmanVars, Stmt
  <2>2. /\ kill_flag' = kill_flag /\ pmPc' = pmPc /\ wdPc' = wdPc /\ last' = last
        /\ restarts' = restarts
    BY <1>1, WorkerMoves DEF procmanVars, watchdogVars
  <2>3. Stmt = "stalled" => restart_flag = 1
    BY <2>1 DEF Program, BootPc
  <2>4. restart_flag = 1 => pmPc \in PollPc \cup {"withdraw", "timeout"}
    BY DEF Inv, RequestInv, PollPc
  <2>5. Outage => pmPc \in PollPc
    <3>1. SUFFICES ASSUME Outage PROVE pmPc \in PollPc
      OBVIOUS
    <3>2. Stmt = "stalled"
      BY <2>1, <3>1 DEF Outage, Silent, Program, BootPc
    <3> QED
      BY <2>3, <2>4, <3>2 DEF AttemptInv
  <2>6. pmPc \notin {"suspend", "raiseRestart"} \cup RebuildPc \cup {"timeout"}
    BY <2>5 DEF AttemptInv, PollPc, RebuildPc
  <2>7. ~(pmPc \in {"checkSeverity", "awaitKill"} /\ kill_flag = 1)
    BY <2>5 DEF AttemptInv, PollPc
  <2>8. pmPc \in PollPc => Stmt' \notin {"stalled", "hung", "entry", "recovered"}
    BY <2>1 DEF Program, StartInv, AttemptInv, PollPc, BootPc, GiveUpPc
  <2>9. pmPc = "withdraw" => Stmt' \in {"secondBeats", "loop"}
    BY <2>1 DEF Program, AttemptInv, BootPc
  <2>10. pmPc = "awaitRecovery" =>
           Stmt' \in {"secondBeats", "loop", "entry", "recovered", "hung"}
    BY <2>1 DEF Program, AttemptInv, BootPc
  <2> QED
    BY <2>2, <2>6, <2>7, <2>8, <2>9, <2>10 DEF AttemptInv, RebuildPc
<1>2. CASE WatchdogActs
  <2>1. /\ UNCHANGED <<heartbeat, restart_flag>> /\ Stmt' = Stmt /\ pmPc' = pmPc
        /\ wpc' = wpc /\ restarts' = restarts /\ active' = active /\ tstate' = tstate
    BY <1>2, WatchdogMoves DEF threadVars, procmanVars, Stmt
  <2>2. ~Outage
    BY <1>2, WatchdogMoves DEF Outage
  <2>3. kill_flag = 0 \/ kill_flag' = 0 \/ ~(pmPc \in {"checkSeverity", "awaitKill"})
    BY <2>2, LoopFacts DEF AttemptInv
  <2>4. pmPc \in {"checkSeverity", "awaitKill"} /\ kill_flag' = 1 => Outage'
    <3>1. SUFFICES ASSUME pmPc \in {"checkSeverity", "awaitKill"}, kill_flag' = 1
                   PROVE  Outage'
      OBVIOUS
    <3>2. wdPc = "setKill" /\ wdPc' = "awaitBeat" /\ last' = last
      BY <1>2, <2>3, <3>1, WatchdogMoves
    <3> QED
      BY <2>1, <3>2 DEF ReportedInv, Outage, Silent, Working, Stmt
  <2> QED
    BY <2>1, <2>2, <2>4 DEF AttemptInv
<1>3. CASE ProcManActs
  <2>1. /\ UNCHANGED <<heartbeat, kill_flag, watchdogVars>> /\ HasCore("procman")
        /\ wdPc' = wdPc /\ last' = last
    BY <1>3, ProcManMoves DEF watchdogVars
  <2>2. CASE Consults
    <3>1. /\ tstate' = tstate /\ wpc' = wpc /\ active' = active
          /\ Stmt' = Stmt /\ (Outage' <=> Outage)
      BY <2>1, <2>2 DEF Consults, threadVars, Outage, Silent, Working, Stmt
    <3>2. pmPc' \in {"suspend", "raiseRestart"} => Outage
      BY <2>2 DEF Consults, AttemptInv
    <3>3. pmPc' \in {"checkSeverity", "awaitKill"} /\ kill_flag = 1 => Outage
      BY <2>2 DEF Consults, AttemptInv, StartInv
    <3>4. pmPc' \notin RebuildPc \cup PollPc \cup {"withdraw", "timeout", "awaitRecovery"}
      BY <2>2 DEF Consults, RebuildPc, PollPc
    <3> QED
      BY <2>1, <3>1, <3>2, <3>3, <3>4 DEF AttemptInv, RebuildPc
  <2>3. CASE Cooperates
    <3>1. /\ tstate' = tstate /\ wpc' = wpc /\ active' = active
          /\ Stmt' = Stmt /\ (Outage' <=> Outage) /\ Working
      BY <2>1, <2>3, LoopFacts
      DEF Cooperates, threadVars, Outage, Silent, Working, Stmt, RebuildPc, GiveUpPc
    <3>2. pmPc = "raiseRestart" => Stmt \in {"stalled", "hung"} /\ Outage
      BY <3>1 DEF AttemptInv, Outage, Silent
    <3>3. pmPc = "pollKill" /\ kill_flag = 0 => Stmt \in {"secondBeats", "loop"}
      <4>1. SUFFICES ASSUME pmPc = "pollKill", kill_flag = 0
                     PROVE  Stmt \in {"secondBeats", "loop"}
        OBVIOUS
      <4>2. ~Outage
        BY <4>1 DEF Outage, KillInv
      <4>3. Stmt \notin {"takeRestart", "resetHeartbeat"}
        BY <2>1, <3>1 DEF AtomicInv, HasCore
      <4>4. Stmt \in WorkerPc
        BY LoopFacts DEF Stmt
      <4> QED
        BY <4>1, <4>2, <4>3, <4>4
        DEF AttemptInv, StartInv, PollPc, WorkerPc, RunPc, EntryPc, BootPc, GiveUpPc
    <3>4. pmPc = "pollKill" /\ pmPc' = "timeout" => Stmt = "hung" /\ Outage
      <4>1. SUFFICES ASSUME pmPc = "pollKill", pmPc' = "timeout"
                     PROVE  Stmt = "hung" /\ Outage
        OBVIOUS
      <4>2. kill_flag = 1 /\ polls + 1 >= WaitPolls
        BY <2>3, <4>1, LoopFacts, ConstantFacts DEF Cooperates
      <4> QED
        BY <2>1, <3>1, <4>1, <4>2, LateIsHung
    <3>5. pmPc' = "timeout" => Stmt = "hung" /\ Outage
      BY <2>3, <3>4 DEF Cooperates
    <3>6. pmPc' = "checkSeverity" => Outage
      BY <2>3 DEF Cooperates, AttemptInv
    <3>7. pmPc' \in PollPc => /\ Stmt \notin {"entry", "recovered"}
                              /\ Stmt \in {"stalled", "hung"} => Outage
                              /\ Stmt = "stalled" => restart_flag' = 1
      BY <2>3, <3>2 DEF Cooperates, AttemptInv, PollPc
    <3>8. pmPc' \in {"withdraw", "awaitRecovery"} => Stmt \in {"secondBeats", "loop"}
      BY <2>3, <3>3 DEF Cooperates, AttemptInv
    <3>9. pmPc' \in PollPc \cup {"withdraw", "timeout", "awaitRecovery", "checkSeverity"}
      BY <2>3 DEF Cooperates, PollPc
    <3> QED
      BY <3>1, <3>5, <3>6, <3>7, <3>8, <3>9 DEF AttemptInv, RebuildPc, PollPc
  <2>4. CASE HandsOver
    <3>1. CASE pmPc = "suspend" /\ pmPc' = "configure"
      BY <2>1, <2>4, <3>1 DEF HandsOver, AttemptInv, Outage, Silent, Working, PollPc, RebuildPc
    <3>2. CASE pmPc = "suspend" /\ pmPc' = "raiseRestart"
      BY <2>1, <2>4, <3>2
      DEF HandsOver, AttemptInv, Outage, Silent, Working, Stmt, threadVars, PollPc, RebuildPc
    <3>3. CASE pmPc = "resume" /\ pmPc' = "awaitRecovery"
      BY <2>1, <2>4, <3>3 DEF HandsOver, AttemptInv, Stmt, PollPc, RebuildPc
    <3>4. CASE pmPc' = "giveUp"
      BY <3>4 DEF AttemptInv, RebuildPc, PollPc
    <3>5. CASE pmPc \in RebuildPc /\ pmPc' \in {"setPriority", "writeRegisters", "resume"}
      BY <2>1, <2>4, <3>5
      DEF HandsOver, AttemptInv, Outage, Silent, Working, Stmt, SameWorker, PollPc, RebuildPc
    <3> QED
      BY <2>4, <3>1, <3>2, <3>3, <3>4, <3>5 DEF HandsOver, RebuildPc
  <2> QED
    BY <1>3, <2>2, <2>3, <2>4, ProcManMoves
<1>4. CASE UNCHANGED vars
  BY <1>4
  DEF AttemptInv, Outage, Silent, Working, Stmt, vars, sharedVars, procmanVars, watchdogVars
<1> QED
  BY <1>1, <1>2, <1>3, <1>4, ActsOrWaits

\* A worker comes back to a Watchdog that waits for its beat.
LEMMA ReturnStep ==
  ASSUME Inv, Inv', SchedInv, UntimedInv, [TimedNext]_timedVars
  PROVE  ReturnInv'
<1> USE DEF UntimedInv
<1>1. CASE WorkerActs
  <2>1. /\ Program(Stmt, wcnt[active], heartbeat, restart_flag,
                   wcnt'[active], heartbeat', wpc'[active], restart_flag')
        /\ Working /\ active' = active /\ Stmt' = wpc'[active] /\ HasCore("worker")
    BY <1>1, WorkerMoves DEF procmanVars, Stmt
  <2>2. pmPc' = pmPc /\ wdPc' = wdPc /\ last' = last
    BY <1>1, WorkerMoves DEF procmanVars, watchdogVars
  <2>3. CASE Stmt = "stalled"
    <3>1. restart_flag = 1 /\ heartbeat' = heartbeat /\ Stmt' = "takeRestart"
      BY <2>1, <2>3 DEF Program, BootPc
    <3>2. pmPc \in PollPc
      BY <2>3, <3>1 DEF Inv, RequestInv, AttemptInv, PollPc
    <3>3. Outage
      BY <2>3, <3>2 DEF AttemptInv
    <3> QED
      BY <2>2, <3>1, <3>2, <3>3 DEF ReturnInv, Outage
  <2>4. CASE Stmt \in {"takeRestart", "entry"}
    BY <2>1, <2>2, <2>4 DEF ReturnInv, Program, BootPc
  <2>5. CASE Stmt \notin {"stalled", "takeRestart", "entry"}
    <3>1. Stmt' \notin {"takeRestart", "resetHeartbeat", "entry"}
      BY <2>1, <2>5 DEF Program, BootPc
    <3>2. ~(Stmt' = "recovered" /\ wcnt'[active] = RecoveryBase)
      <4>1. Stmt = "recovered" => wcnt[active] \in Nat /\ wcnt[active] >= RecoveryBase
        BY LoopFacts, ConstantFacts DEF Inv, CounterInv, Stmt
      <4> QED
        BY <2>1, <2>5, <4>1, ConstantFacts DEF Program, BootPc
    <3> QED
      BY <2>1, <3>1, <3>2 DEF ReturnInv
  <2> QED
    BY <2>3, <2>4, <2>5
<1>2. CASE WatchdogActs
  <2>1. /\ heartbeat' = heartbeat /\ Stmt' = Stmt /\ pmPc' = pmPc /\ (Working' <=> Working)
        /\ wcnt'[active'] = wcnt[active]
    BY <1>2, WatchdogMoves DEF threadVars, procmanVars, Stmt, Working
  <2>2. HasCore("watchdog") /\ ~(wdPc = "awaitBeat" /\ heartbeat = last)
    BY <1>2, WatchdogMoves
  <2>3. ~(Working /\ Stmt = "recovered" /\ wcnt[active] = RecoveryBase)
    BY <2>2 DEF AtomicInv, HasCore
  <2> QED
    BY <2>1, <2>2, <2>3 DEF ReturnInv
<1>3. CASE ProcManActs
  <2>1. heartbeat' = heartbeat /\ wdPc' = wdPc /\ last' = last /\ HasCore("procman")
    BY <1>3, ProcManMoves DEF watchdogVars
  <2>2. CASE Stmt' = "entry"
    <3>1. CASE pmPc = "resume" /\ pmPc' = "awaitRecovery"
      BY <2>1, <2>2, <3>1 DEF ReturnInv, AttemptInv, Outage, RebuildPc
    <3>2. CASE Working' /\ Working /\ Stmt = "entry"
      <4>1. pmPc = "awaitRecovery" /\ wdPc = "awaitBeat" /\ heartbeat = last
        BY <3>2 DEF ReturnInv
      <4>2. kill_flag = 1
        BY <4>1 DEF KillInv
      <4> QED
        BY <1>3, <4>1, <4>2, ProcManMoves DEF Consults, Cooperates, HandsOver, RebuildPc
    <3> QED
      BY <1>3, <2>2, <3>1, <3>2, ProcManKeeps DEF ReturnInv
  <2>3. CASE Stmt' # "entry"
    <3>1. ~Working' \/ (Working /\ Stmt' = Stmt /\ wcnt'[active'] = wcnt[active])
      BY <1>3, <2>3, ProcManKeeps
    <3>2. ~(Working /\ Stmt \in {"takeRestart", "resetHeartbeat"})
      BY <2>1 DEF AtomicInv, HasCore
    <3> QED
      BY <2>1, <2>3, <3>1, <3>2 DEF ReturnInv
  <2> QED
    BY <2>2, <2>3
<1>4. CASE UNCHANGED vars
  BY <1>4 DEF ReturnInv, Working, Stmt, vars, sharedVars, procmanVars, watchdogVars
<1> QED
  BY <1>1, <1>2, <1>3, <1>4, ActsOrWaits

\* Once Watchdog is at its last miss nothing that was to be done before is left undone.
LEMMA PatienceEnds ==
  ASSUME Inv, SchedInv, left["watchdog"] = 0, fc + 1 >= MissLimit,
         NEW p \in Threads, Within(p, "watchdog", Patience)
  PROVE  FALSE
<1>1. Patience >= 0
  BY TimedFacts, WithinBound DEF Threads, Measures
<1>2. (fc + 1) * WatchDelay >= MissLimit * WatchDelay
  BY LoopFacts, TimeFacts, ConstantFacts
<1>3. (fc + 1) * WatchDelay \in Int /\ MissLimit * WatchDelay \in Int
  BY LoopFacts, TimeFacts, ConstantFacts
<1> QED
  BY <1>1, <1>2, <1>3 DEF Patience, Elapsed

\* The worker has initialised before Watchdog monitors it.
LEMMA BootIsOver ==
  ASSUME Inv, wdPc \notin {"clearKill", "clearSignal", "awaitReady"}
  PROVE  Stmt \notin BootPc
<1>1. CASE active = Original
  BY <1>1 DEF Inv, BootInv, Stmt
<1>2. CASE active # Original
  <2>1. active \in Spares
    BY <1>2, LoopFacts, ConstantFacts DEF TCBs, Spares, Original
  <2> QED
    BY <2>1 DEF Inv, ProgramInv, EntryPc, BootPc, Stmt
<1> QED
  BY <1>1, <1>2

\* Watchdog reports only what is silent, and only to a ProcMan that listens.
LEMMA ReportedStep ==
  ASSUME Inv, Inv', SchedInv, UntimedInv, AlarmInv, ReportInv, [TimedNext]_timedVars
  PROVE  ReportedInv'
<1> USE DEF UntimedInv
<1>1. CASE WorkerActs
  <2>1. wdPc' = wdPc /\ HasCore("worker")
    BY <1>1, WorkerMoves DEF watchdogVars
  <2> QED
    BY <2>1 DEF ReportedInv, AtomicInv, HasCore
<1>2. CASE WatchdogActs
  <2>1. SUFFICES ASSUME wdPc' = "setKill" PROVE ReportedInv'
    BY DEF ReportedInv
  <2>2. /\ wdPc = "monitor" /\ last' = heartbeat /\ heartbeat' = heartbeat
        /\ fc' >= MissLimit /\ fc' = (IF heartbeat = last THEN fc + 1 ELSE 0)
        /\ left["watchdog"] = 0 /\ pmPc' = pmPc
        /\ (Silent' <=> Silent)
    BY <1>2, <2>1, WatchdogMoves
    DEF HasCore, procmanVars, threadVars, Silent, Working, Stmt
  <2>3. heartbeat = last /\ fc + 1 >= MissLimit
    BY <2>2, ConstantFacts
  <2>4. ~Beating
    BY <2>2, <2>3, PatienceEnds DEF AlarmInv, Threads
  <2>5. pmPc \in {"checkSeverity", "awaitKill"} \cup GiveUpPc
    BY <2>2, <2>3, PatienceEnds DEF ReportInv, Threads
  <2>6. Silent
    <3>1. SUFFICES ASSUME Working PROVE Stmt \in {"stalled", "hung"}
      BY DEF Silent
    <3>2. Stmt \notin BeatPc
      BY <2>4, <3>1 DEF Beating
    <3>3. Stmt \notin {"takeRestart", "resetHeartbeat", "entry", "none"}
      BY <2>2, <3>1 DEF ReturnInv, StartInv
    <3>4. Stmt \notin BootPc
      BY <2>2, BootIsOver
    <3>5. Stmt \in WorkerPc
      BY LoopFacts DEF Stmt
    <3> QED
      BY <3>2, <3>3, <3>4, <3>5 DEF WorkerPc, RunPc, EntryPc, BootPc, BeatPc
  <2> QED
    BY <2>2, <2>5, <2>6 DEF ReportedInv
<1>3. CASE ProcManActs
  <2>1. wdPc' = wdPc /\ HasCore("procman")
    BY <1>3, ProcManMoves DEF watchdogVars
  <2> QED
    BY <2>1 DEF ReportedInv, AtomicInv, HasCore
<1>4. CASE UNCHANGED vars
  BY <1>4
  DEF ReportedInv, Silent, Working, Stmt, vars, sharedVars, procmanVars, watchdogVars
<1> QED
  BY <1>1, <1>2, <1>3, <1>4, ActsOrWaits

\* The steps of the scheduler keep every pace.
LEMMA SchedulerStep ==
  ASSUME Inv, SchedInv, SchedInv', Spend \/ Switch \/ NewRound
  PROVE  /\ UNCHANGED vars
         /\ \A c \in Threads : left'[c] \in Nat /\ left'[c] <= left[c]
         /\ \A q \in Threads, n, m \in Int :
              m >= n - (left[q] - left'[q]) =>
                /\ q # "worker" /\ Working /\ Stmt # "hung" /\ Within("worker", q, n)
                     => WithinNext("worker", q, m)
                /\ q # "watchdog" /\ wdPc # "awaitReady" /\ Within("watchdog", q, n)
                     => WithinNext("watchdog", q, m)
                /\ q # "procman" /\ pmPc # "quarantined" /\ Within("procman", q, n)
                     => WithinNext("procman", q, m)
<1>1. UNCHANGED vars
  BY DEF Spend, Switch, NewRound
<1>2. \A c \in Threads : left'[c] \in Nat /\ left'[c] <= left[c]
  BY DEF Spend, Switch, NewRound, SchedInv, TimedTypeOK
<1>3. /\ Working /\ Stmt # "hung" => "worker" \in Runnable /\ ~Spins("worker")
      /\ "watchdog" \in Runnable /\ "procman" \in Runnable
      /\ wdPc # "awaitReady" => ~Spins("watchdog")
      /\ pmPc # "quarantined" => ~Spins("procman")
  BY LoopFacts DEF Spins, At, Stmt, Runnable, Threads
<1>4. ASSUME NEW p \in Threads, NEW q \in Threads, p # q, p \in Runnable, ~Spins(p),
             NEW n \in Int, NEW m \in Int, Within(p, q, n), m >= n - (left[q] - left'[q])
      PROVE  WithinNext(p, q, m)
  BY <1>4, WithinSched DEF WithinNext
<1> QED
  BY <1>1, <1>2, <1>3, <1>4 DEF Threads

\* Watchdog has seen one of the worker's last few beats, fewer than a turn of the counter.
LEMMA BehindBound ==
  ASSUME Inv, SchedInv, BehindInv, wdPc = "monitor", Beating, left["worker"] = 0
  PROVE  \E n \in Nat :
           /\ Behind(n) /\ n + 1 < Beats /\ n + 1 < CounterBound
           /\ Within("watchdog", "worker", Meanwhile(WatchDelay) - n * BeatDelay)
<1>1. PICK n \in Nat :
        /\ Behind(n)
        /\ Within("watchdog", "worker", Meanwhile(WatchDelay) - n * BeatDelay + left["worker"])
  BY DEF BehindInv
<1>2. n * BeatDelay \in Nat /\ Meanwhile(WatchDelay) \in Nat
  BY TimedFacts, TimeFacts, ProductIsNat DEF Measures
<1>3. Within("watchdog", "worker", Meanwhile(WatchDelay) - n * BeatDelay)
  BY <1>1, <1>2
<1>4. Meanwhile(WatchDelay) - n * BeatDelay >= 0
  <2> DEFINE m == Meanwhile(WatchDelay) - n * BeatDelay
  <2>1. m \in Int /\ Within("watchdog", "worker", m)
    BY <1>2, <1>3
  <2> HIDE DEF m
  <2>2. m >= 0
    BY <2>1, WithinBound DEF Threads
  <2> QED
    BY <2>2 DEF m
<1>5. n * BeatDelay < (Beats - 1) * BeatDelay /\ n * BeatDelay < (CounterBound - 1) * BeatDelay
  BY <1>2, <1>4, PacingAssumption, TimeFacts, ConstantFacts
<1>6. n < Beats - 1 /\ n < CounterBound - 1
  <2>1. \A a, b \in Int : a * BeatDelay < b * BeatDelay => a < b
    BY TimeFacts
  <2> QED
    BY <1>5, <2>1, ConstantFacts
<1> QED
  BY <1>1, <1>3, <1>6, ConstantFacts

\* So the next beat is one Watchdog has not seen, and it is one more behind.
LEMMA NextBeat ==
  ASSUME Inv, SchedInv, UntimedInv, BehindInv, wdPc = "monitor", Beating, WorkerActs
  PROVE  /\ heartbeat' # last
         /\ Beating' => \E n \in Nat :
              /\ Behind(n + 1)'
              /\ Within("watchdog", "worker", Meanwhile(WatchDelay) - n * BeatDelay)
<1>1. /\ Program(Stmt, wcnt[active], heartbeat, restart_flag,
                 wcnt'[active], heartbeat', wpc'[active], restart_flag')
      /\ Stmt' = wpc'[active] /\ active' = active /\ last' = last
      /\ left["worker"] = 0 /\ Stmt \in BeatPc
  BY WorkerMoves DEF procmanVars, watchdogVars, Stmt, HasCore, Beating
<1>2. PICK n \in Nat :
        /\ Behind(n) /\ n + 1 < Beats /\ n + 1 < CounterBound
        /\ Within("watchdog", "worker", Meanwhile(WatchDelay) - n * BeatDelay)
  BY <1>1, BehindBound
<1> DEFINE c == wcnt[active]
           d == wcnt'[active]
<1>3. /\ c \in Nat /\ last \in Nat
      /\ Stmt = "loop" => c <= CounterBound
      /\ Stmt \in {"beats", "secondBeats"} => c <= Beats - 1
      /\ Stmt = "recovered" => c >= RecoveryBase
      /\ Stmt = "recovered" /\ ~RepeatDeadlock => c <= RecoveryBase + CounterBound
  BY LoopFacts, ConstantFacts DEF Inv, CounterInv, Stmt
<1>4. heartbeat' # last /\ (Beating' => Behind(n + 1)')
  <2> USE <1>1, <1>2, <1>3, ConstantFacts DEF Program, Behind, Stmt
  <2>1. CASE Stmt \in {"beats", "secondBeats"}
    BY <2>1 DEF Beating, BeatPc, BootPc
  <2>2. CASE Stmt = "loop"
    BY <2>2 DEF BootPc
  <2>3. CASE Stmt = "recovered" /\ RepeatDeadlock
    BY <2>3 DEF BootPc, Beating, BeatPc
  <2>4. CASE Stmt = "recovered" /\ ~RepeatDeadlock
    BY <2>4 DEF BootPc
  <2> QED
    BY <2>1, <2>2, <2>3, <2>4 DEF BeatPc
<1> QED
  BY <1>2, <1>4

\* While Watchdog monitors, only a beat leads to a beat.
LEMMA BeatFollowsBeat ==
  ASSUME Inv, SchedInv, UntimedInv, WorkerActs, wdPc' = "monitor", Beating'
  PROVE  wdPc = "monitor" /\ Beating
<1>1. /\ Program(Stmt, wcnt[active], heartbeat, restart_flag,
                 wcnt'[active], heartbeat', wpc'[active], restart_flag')
      /\ Working /\ wdPc = "monitor" /\ wpc'[active] \in BeatPc
  BY WorkerMoves DEF procmanVars, watchdogVars, Stmt, Beating
<1>2. Stmt \notin {"resetHeartbeat", "entry"} /\ Stmt \notin BootPc
  BY <1>1, BootIsOver DEF UntimedInv, ReturnInv
<1>3. Stmt \in BeatPc
  BY <1>1, <1>2 DEF Program, BeatPc
<1> QED
  BY <1>1, <1>3 DEF Beating

\* ProcMan starts no worker while Watchdog monitors.
LEMMA MonitoredStays ==
  ASSUME Inv, SchedInv, UntimedInv, ProcManActs, wdPc' = "monitor", Beating'
  PROVE  /\ wdPc = "monitor" /\ Beating /\ active' = active /\ Stmt' = Stmt
         /\ wcnt'[active] = wcnt[active] /\ left'["worker"] = left["worker"]
<1>1. wdPc = "monitor"
  BY ProcManMoves DEF watchdogVars
<1>2. Working' /\ Stmt' \in BeatPc
  BY DEF Beating
<1> QED
  BY <1>1, <1>2, ProcManKeeps DEF UntimedInv, BeatPc, Beating

\* Each beat, and each poll that sees one, gives the worker its time anew.
LEMMA AlarmStep ==
  ASSUME Inv, Inv', SchedInv, SchedInv', UntimedInv, AlarmInv, BehindInv,
         [TimedNext]_timedVars
  PROVE  AlarmInv'
<1> SUFFICES ASSUME wdPc' = "monitor", Beating', heartbeat' = last'
             PROVE  WithinNext("worker", "watchdog", Patience')
    BY DEF AlarmInv, Within, WithinNext
<1>0. Patience \in Int /\ Patience' \in Int
  BY TimedFacts, TimedFactsNext DEF Measures
<1>1. CASE WorkerActs
  BY <1>1, BeatFollowsBeat, NextBeat, WorkerMoves DEF watchdogVars
<1>2. CASE WatchdogActs
  <2>1. /\ UNCHANGED schedVars /\ left'["worker"] = left["worker"] /\ heartbeat' = heartbeat
        /\ left["watchdog"] = 0 /\ left'["watchdog"] = WatchDelay
        /\ last' = heartbeat /\ (Beating' <=> Beating)
        /\ \/ wdPc = "arm" /\ fc' = 0
           \/ wdPc = "monitor" /\ fc' = IF heartbeat = last THEN fc + 1 ELSE 0
    BY <1>2, WatchdogMoves
    DEF HasCore, SchedInv, TimedTypeOK, Threads, procmanVars, threadVars, Beating, Working, Stmt
  <2>2. CASE fc' = 0
    <3>1. Patience' = MissLimit * WatchDelay - 1
      BY <2>1, <2>2, TimeFacts, ConstantFacts DEF Patience, Elapsed
    <3>2. Meanwhile(BeatDelay) <= Patience'
      BY <1>0, <3>1, PacingAssumption, TimedFacts, TimeFacts, ConstantFacts DEF Measures
    <3>3. left'["worker"] <= BeatDelay
      BY DEF SchedInv
    <3> QED
      BY <1>0, <3>2, <3>3, WithinFresh, TimeFacts DEF Threads
  <2>3. CASE wdPc = "monitor" /\ heartbeat = last /\ fc' = fc + 1
    <3>1. Within("worker", "watchdog", Patience)
      BY <2>1, <2>3 DEF AlarmInv
    <3>2. Patience' = Patience
      <4>1. (fc + 1 + 1) * WatchDelay = (fc + 1) * WatchDelay + WatchDelay
        BY TimedFacts, TimeFacts DEF Measures
      <4>2. (fc + 1) * WatchDelay \in Int /\ MissLimit * WatchDelay \in Int
        BY TimedFacts, TimeFacts, ConstantFacts DEF Measures
      <4> QED
        BY <2>1, <2>3, <4>1, <4>2, TimeFacts DEF Patience, Elapsed
    <3>3. left'["worker"] <= left["worker"] /\ Patience <= Patience'
      BY <1>0, <2>1, <3>2, TimedFacts DEF Measures
    <3> QED
      BY <1>0, <2>1, <3>1, <3>3, WithinActs DEF Threads
  <2> QED
    BY <2>1, <2>2, <2>3
<1>3. CASE ProcManActs
  <2>1. /\ wdPc = "monitor" /\ Beating /\ left'["worker"] = left["worker"]
    BY <1>3, MonitoredStays
  <2>2. /\ UNCHANGED schedVars /\ left'["watchdog"] = left["watchdog"]
        /\ heartbeat' = heartbeat /\ last' = last /\ fc' = fc
    BY <1>3, ProcManMoves DEF watchdogVars
  <2>3. Within("worker", "watchdog", Patience) /\ Patience' = Patience
    BY <2>1, <2>2 DEF AlarmInv, Patience, Elapsed
  <2>4. left'["worker"] <= left["worker"] /\ Patience <= Patience'
    BY <1>0, <2>1, <2>3, TimedFacts DEF Measures
  <2> QED
    BY <1>0, <2>2, <2>3, <2>4, WithinActs DEF Threads
<1>4. CASE UNCHANGED vars
  <2>1. /\ heartbeat' = heartbeat /\ last' = last /\ fc' = fc /\ Stmt' = Stmt
        /\ wdPc = "monitor" /\ Beating
    BY <1>4 DEF vars, sharedVars, watchdogVars, procmanVars, Beating, Working, Stmt
  <2>2. Within("worker", "watchdog", Patience)
    BY <2>1 DEF AlarmInv
  <2>3. CASE Spend \/ Switch \/ NewRound
    <3>1. Patience' = Patience - (left["watchdog"] - left'["watchdog"])
      <4>1. (fc + 1) * WatchDelay \in Int /\ MissLimit * WatchDelay \in Int
        BY TimedFacts, TimeFacts, ConstantFacts DEF Measures
      <4> QED
        BY <2>1, <4>1, TimedFacts, TimedFactsNext DEF Patience, Elapsed, Measures
    <3>2. Working /\ Stmt # "hung"
      BY <2>1 DEF Beating, BeatPc
    <3>3. Patience' >= Patience - (left["watchdog"] - left'["watchdog"])
      BY <1>0, <3>1
    <3> QED
      BY <1>0, <2>2, <2>3, <3>2, <3>3, SchedulerStep DEF Threads
  <2>4. CASE UNCHANGED <<left, schedVars>>
    <3>1. Patience' = Patience
      BY <2>1, <2>4 DEF Patience, Elapsed
    <3>2. left'["worker"] <= left["worker"] /\ Patience <= Patience'
      BY <1>0, <2>4, <3>1, TimedFacts DEF Measures
    <3> QED
      BY <1>0, <2>2, <2>4, <3>2, WithinActs DEF Threads
  <2>5. CASE ProcManLooks
    <3>1. UNCHANGED schedVars /\ left'["worker"] = left["worker"]
          /\ left'["watchdog"] = left["watchdog"]
      BY <2>5 DEF ProcManLooks, Delay, SchedInv, TimedTypeOK, Threads
    <3>2. Patience' = Patience
      BY <2>1, <3>1 DEF Patience, Elapsed
    <3>3. left'["worker"] <= left["worker"] /\ Patience <= Patience'
      BY <1>0, <3>1, <3>2, TimedFacts DEF Measures
    <3> QED
      BY <1>0, <2>2, <3>1, <3>3, WithinActs DEF Threads
  <2>6. CASE WorkerLooks
    BY <2>1, <2>6, LoopFacts DEF WorkerLooks, At, Beating, Stmt, BeatPc
  <2>7. CASE WatchdogLooks
    BY <2>1, <2>7 DEF WatchdogLooks
  <2> QED
    BY <1>1, <1>2, <1>3, <2>3, <2>4, <2>5, <2>6, <2>7, WaitingSteps DEF timedVars
<1> QED
  BY <1>1, <1>2, <1>3, <1>4, ActsOrWaits

\* ProcMan is through with the last report before Watchdog can make the next.
LEMMA ReportStep ==
  ASSUME Inv, Inv', SchedInv, SchedInv', UntimedInv, ReportInv, [TimedNext]_timedVars
  PROVE  ReportInv'
<1> DEFINE Listening == {"checkSeverity", "awaitKill"} \cup GiveUpPc
<1> SUFFICES ASSUME wdPc' = "monitor", pmPc' \notin Listening
             PROVE  WithinNext("procman", "watchdog", Patience')
    BY DEF ReportInv, Within, WithinNext
<1>0. Patience \in Int /\ Patience' \in Int
  BY TimedFacts, TimedFactsNext DEF Measures
<1>1. CASE WorkerActs
  <2>1. /\ wdPc = "monitor" /\ pmPc' = pmPc /\ fc' = fc /\ UNCHANGED schedVars
        /\ left'["watchdog"] = left["watchdog"] /\ left'["procman"] = left["procman"]
    BY <1>1, WorkerMoves DEF watchdogVars, procmanVars, SchedInv, TimedTypeOK, Threads
  <2>2. Within("procman", "watchdog", Patience) /\ Patience' = Patience
    BY <2>1 DEF ReportInv, Patience, Elapsed
  <2>3. left'["procman"] <= left["procman"] /\ Patience <= Patience'
    BY <1>0, <2>1, <2>2, TimedFacts DEF Measures
  <2> QED
    BY <1>0, <2>1, <2>2, <2>3, WithinActs DEF Threads
<1>2. CASE WatchdogActs
  <2>1. /\ UNCHANGED schedVars /\ left'["procman"] = left["procman"]
        /\ left["watchdog"] = 0 /\ left'["watchdog"] = WatchDelay /\ pmPc' = pmPc
        /\ \/ wdPc = "arm" /\ fc' = 0
           \/ wdPc = "monitor" /\ fc' = IF heartbeat = last THEN fc + 1 ELSE 0
    BY <1>2, WatchdogMoves DEF HasCore, SchedInv, TimedTypeOK, Threads, procmanVars
  <2>2. CASE fc' = 0
    <3>1. Patience' = MissLimit * WatchDelay - 1
      BY <2>1, <2>2, TimeFacts, ConstantFacts DEF Patience, Elapsed
    <3>2. Meanwhile(PollDelay) <= Patience'
      BY <1>0, <3>1, PacingAssumption, TimedFacts, TimeFacts, ConstantFacts DEF Measures
    <3>3. pmPc \notin {"suspend", "raiseRestart"}
      BY <2>1 DEF UntimedInv, AttemptInv, Outage
    <3>4. left'["procman"] <= PollDelay
      BY <2>1, <3>3 DEF SchedInv
    <3> QED
      BY <1>0, <3>2, <3>4, WithinFresh, TimeFacts DEF Threads
  <2>3. CASE wdPc = "monitor" /\ heartbeat = last /\ fc' = fc + 1
    <3>1. Within("procman", "watchdog", Patience)
      BY <2>1, <2>3 DEF ReportInv
    <3>2. Patience' = Patience
      <4>1. (fc + 1 + 1) * WatchDelay = (fc + 1) * WatchDelay + WatchDelay
        BY TimedFacts, TimeFacts DEF Measures
      <4>2. (fc + 1) * WatchDelay \in Int /\ MissLimit * WatchDelay \in Int
        BY TimedFacts, TimeFacts, ConstantFacts DEF Measures
      <4> QED
        BY <2>1, <2>3, <4>1, <4>2, TimeFacts DEF Patience, Elapsed
    <3>3. left'["procman"] <= left["procman"] /\ Patience <= Patience'
      BY <1>0, <2>1, <3>2, TimedFacts DEF Measures
    <3> QED
      BY <1>0, <2>1, <3>1, <3>3, WithinActs DEF Threads
  <2> QED
    BY <2>1, <2>2, <2>3
<1>3. CASE ProcManActs
  <2>1. /\ UNCHANGED schedVars /\ left'["watchdog"] = left["watchdog"] /\ HasCore("procman")
        /\ wdPc = "monitor" /\ fc' = fc /\ left'["procman"] = ProcManDelay
    BY <1>3, ProcManMoves DEF watchdogVars
  <2>2. kill_flag = 0
    BY <2>1, LoopFacts DEF UntimedInv, KillInv
  <2>3. pmPc \notin {"suspend", "raiseRestart", "timeout"} \cup RebuildPc
    BY <2>1 DEF UntimedInv, AttemptInv, Outage
  <2>4. pmPc \notin Listening /\ ProcManDelay = 0
    BY <1>3, <2>2, <2>3, ProcManMoves
    DEF Consults, Cooperates, HandsOver, ProcManDelay, GiveUpPc
  <2>5. Within("procman", "watchdog", Patience) /\ Patience' = Patience
    BY <2>1, <2>4 DEF ReportInv, Patience, Elapsed
  <2>6. left'["procman"] <= left["procman"] /\ Patience <= Patience'
    BY <1>0, <2>1, <2>4, <2>5, TimedFacts DEF Measures
  <2> QED
    BY <1>0, <2>1, <2>5, <2>6, WithinActs DEF Threads
<1>4. CASE UNCHANGED vars
  <2>1. fc' = fc /\ wdPc = "monitor" /\ pmPc \notin Listening
    BY <1>4 DEF vars, watchdogVars, procmanVars
  <2>2. Within("procman", "watchdog", Patience)
    BY <2>1 DEF ReportInv
  <2>3. CASE Spend \/ Switch \/ NewRound
    <3>1. Patience' = Patience - (left["watchdog"] - left'["watchdog"])
      <4>1. (fc + 1) * WatchDelay \in Int /\ MissLimit * WatchDelay \in Int
        BY TimedFacts, TimeFacts, ConstantFacts DEF Measures
      <4> QED
        BY <2>1, <4>1, TimedFacts, TimedFactsNext DEF Patience, Elapsed, Measures
    <3>2. pmPc # "quarantined"
      BY <2>1 DEF GiveUpPc
    <3>3. Patience' >= Patience - (left["watchdog"] - left'["watchdog"])
      BY <1>0, <3>1
    <3> QED
      BY <1>0, <2>2, <2>3, <3>2, <3>3, SchedulerStep DEF Threads
  <2>4. CASE UNCHANGED <<left, schedVars>> \/ WorkerLooks
    <3>1. UNCHANGED schedVars /\ left'["procman"] = left["procman"]
          /\ left'["watchdog"] = left["watchdog"]
      BY <2>4 DEF WorkerLooks, Delay, SchedInv, TimedTypeOK, Threads
    <3>2. Patience' = Patience
      BY <2>1, <3>1 DEF Patience, Elapsed
    <3>3. left'["procman"] <= left["procman"] /\ Patience <= Patience'
      BY <1>0, <3>1, <3>2, TimedFacts DEF Measures
    <3> QED
      BY <1>0, <2>2, <3>1, <3>3, WithinActs DEF Threads
  <2>5. CASE ProcManLooks
    BY <2>1, <2>5 DEF ProcManLooks, UntimedInv, KillInv
  <2>6. CASE WatchdogLooks
    BY <2>1, <2>6 DEF WatchdogLooks
  <2> QED
    BY <1>1, <1>2, <1>3, <2>3, <2>4, <2>5, <2>6, WaitingSteps DEF timedVars
<1> QED
  BY <1>1, <1>2, <1>3, <1>4, ActsOrWaits

\* Watchdog sees the worker's beats before their counter has come full circle.
LEMMA BehindStep ==
  ASSUME Inv, Inv', SchedInv, SchedInv', UntimedInv, BehindInv, [TimedNext]_timedVars
  PROVE  BehindInv'
<1> DEFINE Bound(n) == Meanwhile(WatchDelay) - n * BeatDelay + left["worker"]
<1> SUFFICES ASSUME wdPc' = "monitor", Beating'
             PROVE  \E n \in Nat : Behind(n)' /\ WithinNext("watchdog", "worker", Bound(n)')
    BY DEF BehindInv, Within, WithinNext
<1>0. \A n \in Nat : Bound(n) \in Int /\ Bound(n)' \in Int
  BY TimedFacts, TimedFactsNext, TimeFacts, ProductIsNat DEF Measures
<1>1. CASE WorkerActs
  <2>1. wdPc = "monitor" /\ Beating
    BY <1>1, BeatFollowsBeat
  <2>2. /\ UNCHANGED schedVars /\ left'["watchdog"] = left["watchdog"]
        /\ left'["worker"] = BeatDelay
    BY <1>1, <2>1, WorkerMoves DEF SchedInv, TimedTypeOK, Threads, Beating
  <2>3. PICK n \in Nat : /\ Behind(n + 1)'
                         /\ Within("watchdog", "worker", Meanwhile(WatchDelay) - n * BeatDelay)
    BY <1>1, <2>1, NextBeat
  <2>4. Bound(n + 1)' = Meanwhile(WatchDelay) - n * BeatDelay /\ n + 1 \in Nat
    BY <2>2, TimedFacts, TimeFacts DEF Measures
  <2>5. Within("watchdog", "worker", Bound(n + 1)')
    BY <2>3, <2>4
  <2>6. left'["watchdog"] <= left["watchdog"] /\ Bound(n + 1)' \in Int
    BY <1>0, <2>2, <2>4, TimedFacts DEF Measures
  <2>7. WithinNext("watchdog", "worker", Bound(n + 1)')
    <3> HIDE DEF Bound
    <3>1. \A m \in Int : Within("watchdog", "worker", m) => WithinNext("watchdog", "worker", m)
      BY <2>2, <2>6, WithinActs DEF Threads
    <3> QED
      BY <2>5, <2>6, <3>1
  <2> QED
    BY <2>3, <2>4, <2>7
<1>2. CASE WatchdogActs
  <2>1. /\ left'["watchdog"] = WatchDelay /\ last' = heartbeat /\ Beating /\ active' = active
        /\ wpc' = wpc /\ wcnt' = wcnt /\ wdPc \in {"arm", "monitor"}
    BY <1>2, WatchdogMoves
    DEF SchedInv, TimedTypeOK, Threads, procmanVars, threadVars, Beating, Working, Stmt
  <2>2. Behind(0)'
    <3>1. ~(Stmt = "recovered" /\ wcnt[active] = RecoveryBase)
      BY <2>1 DEF UntimedInv, ReturnInv, Beating
    <3>2. last' = wcnt[active] \/ (Stmt = "loop" /\ wcnt[active] = 0 /\ last' = Beats)
      BY <2>1, <3>1 DEF UntimedInv, BeatInv, Beating, BeatPc
    <3>3. wcnt[active] \in Nat
      BY LoopFacts
    <3> QED
      BY <2>1, <3>2, <3>3, ConstantFacts DEF Behind, Stmt
  <2>3. Meanwhile(WatchDelay) <= Bound(0)'
    BY <2>1, TimedFacts, TimedFactsNext, TimeFacts DEF Measures
  <2>4. WithinNext("watchdog", "worker", Bound(0)')
    <3> HIDE DEF Bound
    <3> QED
      BY <1>0, <2>1, <2>3, WithinFresh, TimeFacts DEF Threads
  <2> QED
    BY <2>2, <2>4
<1>3. CASE ProcManActs
  <2>1. /\ wdPc = "monitor" /\ Beating /\ active' = active /\ Stmt' = Stmt
        /\ wcnt'[active] = wcnt[active] /\ left'["worker"] = left["worker"]
    BY <1>3, MonitoredStays
  <2>2. UNCHANGED schedVars /\ left'["watchdog"] = left["watchdog"] /\ last' = last
    BY <1>3, ProcManMoves DEF watchdogVars
  <2>3. PICK n \in Nat : Behind(n) /\ Within("watchdog", "worker", Bound(n))
    BY <2>1 DEF BehindInv
  <2>4. Behind(n)' /\ Bound(n)' = Bound(n)
    BY <2>1, <2>2, <2>3 DEF Behind
  <2>5. WithinNext("watchdog", "worker", Bound(n)')
    <3> HIDE DEF Bound
    <3>1. left'["watchdog"] <= left["watchdog"] /\ Bound(n) <= Bound(n)'
      BY <1>0, <2>2, <2>4, TimedFacts DEF Measures
    <3> QED
      BY <1>0, <2>2, <2>3, <3>1, WithinActs DEF Threads
  <2> QED
    BY <2>4, <2>5
<1>4. CASE UNCHANGED vars
  <2>1. /\ last' = last /\ wpc' = wpc /\ wcnt' = wcnt /\ active' = active
        /\ wdPc = "monitor" /\ Beating
    BY <1>4 DEF vars, sharedVars, watchdogVars, procmanVars, Beating, Working, Stmt
  <2>2. PICK n \in Nat : Behind(n) /\ Within("watchdog", "worker", Bound(n))
    BY <2>1 DEF BehindInv
  <2>3. Behind(n)'
    BY <2>1, <2>2 DEF Behind, Stmt
  <2>4. CASE Spend \/ Switch \/ NewRound
    <3>1. Bound(n)' >= Bound(n) - (left["worker"] - left'["worker"])
      BY TimedFacts, TimedFactsNext, TimeFacts, ProductIsNat DEF Measures
    <3> HIDE DEF Bound
    <3>2. WithinNext("watchdog", "worker", Bound(n)')
      BY <1>0, <2>1, <2>2, <2>4, <3>1, SchedulerStep DEF Threads
    <3> QED
      BY <2>3, <3>2 DEF Bound
  <2>5. CASE UNCHANGED <<left, schedVars>> \/ ProcManLooks
    <3>1. UNCHANGED schedVars /\ left'["worker"] = left["worker"]
          /\ left'["watchdog"] = left["watchdog"]
      BY <2>5 DEF ProcManLooks, Delay, SchedInv, TimedTypeOK, Threads
    <3>2. Bound(n)' = Bound(n)
      BY <3>1
    <3> HIDE DEF Bound
    <3>3. left'["watchdog"] <= left["watchdog"] /\ Bound(n) <= Bound(n)'
      BY <1>0, <3>1, <3>2, TimedFacts DEF Measures
    <3>4. WithinNext("watchdog", "worker", Bound(n)')
      BY <1>0, <2>2, <3>1, <3>3, WithinActs DEF Threads
    <3> QED
      BY <2>3, <3>4 DEF Bound
  <2>6. CASE WorkerLooks
    BY <2>1, <2>6, LoopFacts DEF WorkerLooks, At, Beating, Stmt, BeatPc
  <2>7. CASE WatchdogLooks
    BY <2>1, <2>7 DEF WatchdogLooks
  <2> QED
    BY <1>1, <1>2, <1>3, <2>4, <2>5, <2>6, <2>7, WaitingSteps DEF timedVars
<1> QED
  BY <1>1, <1>2, <1>3, <1>4, ActsOrWaits

\* The parts of RestartInv that are about time, for the next state.
HearsInTime ==
  pmPc' \in PollPc /\ Stmt' = "stalled" =>
    WithinNext("worker", "procman", Meanwhile(BeatDelay) - Polled')

HeardInTime ==
  pmPc' \in PollPc /\ Stmt' = "secondBeats" /\ wdPc' = "awaitBeat" =>
    /\ WithinNext("watchdog", "procman", Meanwhile(BeatDelay) + Meanwhile(WatchDelay) - Polled')
    /\ WithinNext("watchdog", "worker", Meanwhile(WatchDelay) - wcnt'[active'] * BeatDelay
                                          + left'["worker"])

\* Against a ProcMan that polls, the worker and Watchdog keep their pace.
LEMMA RestartStep ==
  ASSUME Inv, Inv', SchedInv, SchedInv', UntimedInv, RestartInv, [TimedNext]_timedVars
  PROVE  RestartInv'
<1> SUFFICES ASSUME pmPc' \in PollPc
             PROVE  /\ HearsInTime /\ HeardInTime
                    /\ Stmt' \in {"takeRestart", "resetHeartbeat"} =>
                         Polled' <= Meanwhile(BeatDelay)
                    /\ wdPc' = "awaitBeat" => Stmt' # "loop"
                    /\ wdPc' = "awaitBeat" /\ Stmt' = "secondBeats" => last' = Beats
    BY DEF RestartInv, HearsInTime, HeardInTime, Within, WithinNext
<1> DEFINE MB == Meanwhile(BeatDelay)
           MW == Meanwhile(WatchDelay)
<1>0. /\ MB \in Nat /\ MW \in Nat /\ Polled \in Int /\ Polled' \in Int
      /\ wcnt[active] \in Nat /\ wcnt'[active'] \in Nat
      /\ wcnt[active] * BeatDelay \in Nat /\ wcnt'[active'] * BeatDelay \in Nat
      /\ left["worker"] \in Nat /\ left["watchdog"] \in Nat /\ left["procman"] \in Nat
      /\ left'["worker"] \in Nat /\ left'["watchdog"] \in Nat /\ left'["procman"] \in Nat
      /\ BeatDelay \in Nat /\ WatchDelay \in Nat /\ PollDelay \in Nat
  BY TimedFacts, TimedFactsNext, TimeFacts DEF Measures
<1> HIDE DEF MB, MW
<1>1. CASE WorkerActs
  <2>1. /\ Program(Stmt, wcnt[active], heartbeat, restart_flag,
                   wcnt'[active], heartbeat', wpc'[active], restart_flag')
        /\ Working /\ active' = active /\ Stmt' = wpc'[active] /\ HasCore("worker")
        /\ left["worker"] = 0 /\ left'["watchdog"] = left["watchdog"]
        /\ left'["procman"] = left["procman"]
        /\ left'["worker"] = (IF Stmt \in BeatPc THEN BeatDelay ELSE 0)
    BY <1>1, WorkerMoves DEF procmanVars, Stmt, HasCore, SchedInv, TimedTypeOK, Threads
  <2>2. /\ pmPc' = pmPc /\ wdPc' = wdPc /\ last' = last /\ polls' = polls
        /\ UNCHANGED schedVars /\ Polled' = Polled /\ pmPc \in PollPc
    BY <1>1, <2>1, WorkerMoves DEF procmanVars, watchdogVars, Polled
  <2>3. Stmt \in {"stalled", "takeRestart", "resetHeartbeat", "secondBeats", "loop"}
    BY <2>1, <2>2
    DEF UntimedInv, AttemptInv, StartInv, Program, PollPc, BootPc, GiveUpPc
  <2>4. CASE Stmt = "stalled"
    <3>1. Stmt' = "takeRestart"
      BY <2>1, <2>4 DEF Program, BootPc
    <3>2. Within("worker", "procman", MB - Polled)
      BY <2>2, <2>4 DEF RestartInv, MB
    <3>3. MB - Polled >= 0
      <4> DEFINE m == MB - Polled
      <4>1. m \in Int /\ Within("worker", "procman", m)
        BY <1>0, <3>2
      <4> HIDE DEF m
      <4>2. m >= 0
        BY <4>1, WithinBound DEF Threads
      <4> QED
        BY <4>2 DEF m
    <3> QED
      BY <1>0, <2>2, <3>1, <3>3 DEF HearsInTime, HeardInTime, MB
  <2>5. CASE Stmt = "takeRestart"
    <3>1. Stmt' = "resetHeartbeat"
      BY <2>1, <2>5 DEF Program, BootPc
    <3> QED
      BY <2>2, <2>5, <3>1 DEF HearsInTime, HeardInTime, RestartInv
  <2>6. CASE Stmt = "resetHeartbeat"
    <3>1. Stmt' = "secondBeats" /\ wcnt'[active'] = 0 /\ left'["worker"] = 0
      BY <2>1, <2>6 DEF Program, BootPc, BeatPc
    <3>2. last = Beats
      BY <2>1, <2>6 DEF UntimedInv, ReturnInv, BeatInv
    <3>3. left'["watchdog"] <= WatchDelay
      BY DEF SchedInv
    <3>4. WithinNext("watchdog", "procman", MB + MW - Polled')
      <4> DEFINE m == MB + MW - Polled'
      <4>1. Polled <= MB
        BY <2>2, <2>6 DEF RestartInv, MB
      <4>2. m \in Int /\ MW <= m
        BY <1>0, <2>2, <4>1
      <4> HIDE DEF m
      <4>3. WithinNext("watchdog", "procman", m)
        BY <1>0, <3>3, <4>2, WithinFresh DEF Threads, MW
      <4> QED
        BY <4>3 DEF m
    <3>5. WithinNext("watchdog", "worker", MW - wcnt'[active'] * BeatDelay + left'["worker"])
      <4> DEFINE m == MW - wcnt'[active'] * BeatDelay + left'["worker"]
      <4>1. m \in Int /\ MW <= m
        BY <1>0, <3>1
      <4> HIDE DEF m
      <4>2. WithinNext("watchdog", "worker", m)
        BY <1>0, <3>3, <4>1, WithinFresh DEF Threads, MW
      <4> QED
        BY <4>2 DEF m
    <3> QED
      BY <2>2, <3>1, <3>2, <3>4, <3>5 DEF HearsInTime, HeardInTime, MB, MW
  <2>7. CASE Stmt = "secondBeats" /\ wdPc = "awaitBeat"
    <3>1. /\ last = Beats
          /\ Within("watchdog", "procman", MB + MW - Polled)
          /\ Within("watchdog", "worker", MW - wcnt[active] * BeatDelay)
      BY <1>0, <2>1, <2>2, <2>7 DEF RestartInv, MB, MW
    <3>2. wcnt[active] * BeatDelay <= MW
      <4> DEFINE m == MW - wcnt[active] * BeatDelay
      <4>1. m \in Int /\ Within("watchdog", "worker", m)
        BY <1>0, <3>1
      <4> HIDE DEF m
      <4>2. m >= 0
        BY <4>1, WithinBound DEF Threads
      <4> QED
        BY <1>0, <4>2 DEF m
    <3>3. wcnt[active] + 1 # Beats
      BY <1>0, <3>2, PacingAssumption, ConstantFacts DEF MW
    <3>4. Stmt' = "secondBeats" /\ wcnt'[active'] = wcnt[active] + 1
          /\ left'["worker"] = BeatDelay
      BY <2>1, <2>7, <3>3 DEF Program, BootPc, BeatPc
    <3>5. MW - wcnt'[active'] * BeatDelay + left'["worker"] = MW - wcnt[active] * BeatDelay
      BY <1>0, <3>4
    <3>6. left'["watchdog"] <= left["watchdog"]
      BY <1>0, <2>1
    <3>7. \A m \in Int : /\ Within("watchdog", "procman", m) => WithinNext("watchdog", "procman", m)
                         /\ Within("watchdog", "worker", m) => WithinNext("watchdog", "worker", m)
      BY <2>2, <3>6, WithinActs DEF Threads
    <3>8. WithinNext("watchdog", "procman", MB + MW - Polled')
      BY <1>0, <2>2, <3>1, <3>7
    <3>9. WithinNext("watchdog", "worker", MW - wcnt'[active'] * BeatDelay + left'["worker"])
      BY <1>0, <3>1, <3>5, <3>7
    <3> QED
      BY <2>2, <3>1, <3>4, <3>8, <3>9 DEF HearsInTime, HeardInTime, MB, MW
  <2>8. CASE Stmt \in {"secondBeats", "loop"} /\ wdPc # "awaitBeat"
    <3>1. Stmt' \in {"secondBeats", "loop"}
      BY <2>1, <2>8 DEF Program, BootPc
    <3> QED
      BY <2>2, <2>8, <3>1 DEF HearsInTime, HeardInTime
  <2>9. CASE Stmt = "loop" /\ wdPc = "awaitBeat"
    BY <2>2, <2>9 DEF RestartInv
  <2> QED
    BY <2>3, <2>4, <2>5, <2>6, <2>7, <2>8, <2>9
<1>2. CASE WatchdogActs
  <2>1. /\ pmPc' = pmPc /\ Stmt' = Stmt /\ polls' = polls /\ UNCHANGED schedVars
        /\ left'["worker"] = left["worker"] /\ left'["procman"] = left["procman"]
        /\ Polled' = Polled /\ pmPc \in PollPc
    BY <1>2, WatchdogMoves
    DEF procmanVars, threadVars, Stmt, SchedInv, TimedTypeOK, Threads, Polled
  <2>2. wdPc' # "awaitBeat"
    BY <1>2, <2>1, WatchdogMoves DEF UntimedInv, ReportedInv, PollPc, GiveUpPc
  <2>3. HearsInTime
    <3>1. SUFFICES ASSUME Stmt = "stalled" PROVE WithinNext("worker", "procman", MB - Polled)
      BY <2>1 DEF HearsInTime, MB
    <3>2. Within("worker", "procman", MB - Polled)
      BY <2>1, <3>1 DEF RestartInv, MB
    <3>3. left'["worker"] <= left["worker"] /\ MB - Polled \in Int
      BY <1>0, <2>1
    <3>4. \A m \in Int : Within("worker", "procman", m) => WithinNext("worker", "procman", m)
      BY <2>1, <3>3, WithinActs DEF Threads
    <3> QED
      BY <3>2, <3>3, <3>4
  <2> QED
    BY <2>1, <2>2, <2>3 DEF HeardInTime, RestartInv
<1>3. CASE ProcManActs
  <2>1. /\ left'["watchdog"] = left["watchdog"] /\ UNCHANGED schedVars
        /\ wdPc' = wdPc /\ last' = last /\ left["procman"] = 0
        /\ left'["procman"] = ProcManDelay
        /\ left'["worker"] = (IF tstate' = tstate THEN left["worker"] ELSE 0)
        /\ HasCore("procman")
    BY <1>3, ProcManMoves DEF watchdogVars, HasCore
  <2>2. Cooperates
    BY <1>3, ProcManMoves DEF Consults, HandsOver, PollPc
  <2>3. /\ Stmt' = Stmt /\ wcnt'[active'] = wcnt[active] /\ active' = active
        /\ left'["worker"] = left["worker"]
    BY <2>1, <2>2 DEF Cooperates, threadVars, Stmt
  <2>4. CASE pmPc = "raiseRestart"
    <3>1. Stmt \in {"stalled", "hung"} /\ Polled' = 0
      <4>1. Outage /\ Working /\ polls' = 0
        BY <2>2, <2>4, LoopFacts
        DEF UntimedInv, AttemptInv, Cooperates, RebuildPc, GiveUpPc, CooperativePc, Inv, LoopInv
      <4>2. left'["procman"] = 0
        BY <2>1, <2>4 DEF ProcManDelay
      <4> QED
        BY <1>0, <4>1, <4>2 DEF Outage, Silent, Polled
    <3>2. WithinNext("worker", "procman", MB - Polled')
      <4>1. left'["worker"] <= BeatDelay /\ MB <= MB - Polled' /\ MB - Polled' \in Int
        BY <1>0, <3>1 DEF SchedInv
      <4>2. \A m \in Int : MB <= m => WithinNext("worker", "procman", m)
        BY <1>0, <4>1, WithinFresh DEF Threads, MB
      <4> QED
        BY <4>1, <4>2
    <3> QED
      BY <2>3, <3>1, <3>2 DEF HearsInTime, HeardInTime, MB
  <2>5. CASE pmPc \in PollPc
    <3>1. Polled' = Polled
      <4>1. CASE pmPc = "pollRestart"
        BY <2>1, <2>2, <4>1 DEF Cooperates, ProcManDelay, Polled
      <4>2. CASE pmPc = "pollKill"
        <5>1. polls' = polls + 1 /\ left'["procman"] = PollDelay
          BY <2>1, <2>2, <4>2 DEF Cooperates, ProcManDelay, PollPc
        <5>2. polls \in Nat
          BY LoopFacts
        <5>3. (polls + 1) * PollDelay = polls * PollDelay + PollDelay
              /\ polls * PollDelay \in Int
          BY <1>0, <5>2
        <5> QED
          BY <1>0, <2>1, <5>1, <5>3 DEF Polled
      <4> QED
        BY <2>5, <4>1, <4>2 DEF PollPc
    <3>2. left'["worker"] <= left["worker"] /\ left'["watchdog"] <= left["watchdog"]
      BY <1>0, <2>1, <2>3
    <3>3. \A m \in Int :
            /\ Within("worker", "procman", m) => WithinNext("worker", "procman", m)
            /\ Within("watchdog", "procman", m) => WithinNext("watchdog", "procman", m)
            /\ Within("watchdog", "worker", m) => WithinNext("watchdog", "worker", m)
      BY <2>1, <3>2, WithinActs DEF Threads
    <3>4. /\ MB - Polled \in Int /\ MB + MW - Polled \in Int
          /\ MW - wcnt[active] * BeatDelay + left["worker"] \in Int
      BY <1>0
    <3>5. HearsInTime
      BY <2>3, <2>5, <3>1, <3>3, <3>4 DEF RestartInv, HearsInTime, MB
    <3>6. HeardInTime
      BY <2>1, <2>3, <2>5, <3>1, <3>3, <3>4 DEF RestartInv, HeardInTime, MB, MW
    <3> QED
      BY <2>1, <2>3, <2>5, <3>1, <3>5, <3>6 DEF RestartInv
  <2> QED
    BY <2>2, <2>4, <2>5 DEF Cooperates, PollPc
<1>4. CASE UNCHANGED vars
  <2>1. /\ pmPc' = pmPc /\ wdPc' = wdPc /\ Stmt' = Stmt /\ last' = last /\ polls' = polls
        /\ wcnt'[active'] = wcnt[active] /\ pmPc \in PollPc
    BY <1>4 DEF vars, sharedVars, watchdogVars, procmanVars, Stmt
  <2>2. Working
    BY <2>1, LoopFacts DEF PollPc, RebuildPc, GiveUpPc
  <2>3. ASSUME left'["procman"] = left["procman"] \/ Stmt \notin {"takeRestart", "resetHeartbeat"},
               HearsInTime, HeardInTime
        PROVE  /\ HearsInTime /\ HeardInTime
               /\ Stmt' \in {"takeRestart", "resetHeartbeat"} => Polled' <= Meanwhile(BeatDelay)
               /\ wdPc' = "awaitBeat" => Stmt' # "loop"
               /\ wdPc' = "awaitBeat" /\ Stmt' = "secondBeats" => last' = Beats
    BY <2>1, <2>3 DEF RestartInv, Polled
  <2>4. CASE Spend \/ Switch \/ NewRound
    <3>1. left'["procman"] = left["procman"] \/ Stmt \notin {"takeRestart", "resetHeartbeat"}
      <4>1. SUFFICES ASSUME Stmt \in {"takeRestart", "resetHeartbeat"}
                     PROVE  left'["procman"] = left["procman"]
        OBVIOUS
      <4>2. HasCore("worker")
        BY <2>2, <4>1 DEF UntimedInv, AtomicInv
      <4> QED
        BY <2>4, <4>2 DEF HasCore, Spend, Switch, NewRound
    <3>2. Polled' = Polled + (left["procman"] - left'["procman"])
      <4>1. polls * PollDelay \in Int
        BY LoopFacts, TimeFacts, ProductIsNat
      <4> QED
        BY <1>0, <2>1, <4>1 DEF Polled
    <3>3. \A n, m \in Int :
            /\ m >= n - (left["procman"] - left'["procman"]) =>
                 /\ Stmt # "hung" /\ Within("worker", "procman", n)
                      => WithinNext("worker", "procman", m)
                 /\ wdPc # "awaitReady" /\ Within("watchdog", "procman", n)
                      => WithinNext("watchdog", "procman", m)
            /\ m >= n - (left["worker"] - left'["worker"]) =>
                 (wdPc # "awaitReady" /\ Within("watchdog", "worker", n)
                    => WithinNext("watchdog", "worker", m))
      BY <2>2, <2>4, SchedulerStep DEF Threads
    <3>4. HearsInTime
      <4>1. SUFFICES ASSUME Stmt = "stalled" PROVE WithinNext("worker", "procman", MB - Polled')
        BY <2>1 DEF HearsInTime, MB
      <4> DEFINE n == MB - Polled
                 m == MB - Polled'
      <4>2. n \in Int /\ m \in Int /\ m >= n - (left["procman"] - left'["procman"])
        BY <1>0, <3>2
      <4>3. Within("worker", "procman", n)
        BY <2>1, <4>1 DEF RestartInv, MB
      <4> HIDE DEF n, m
      <4>4. WithinNext("worker", "procman", m)
        BY <3>3, <4>1, <4>2, <4>3
      <4> QED
        BY <4>4 DEF m
    <3>5. HeardInTime
      <4>1. SUFFICES ASSUME Stmt = "secondBeats", wdPc = "awaitBeat"
                     PROVE  /\ WithinNext("watchdog", "procman", MB + MW - Polled')
                            /\ WithinNext("watchdog", "worker",
                                          MW - wcnt'[active'] * BeatDelay + left'["worker"])
        BY <2>1 DEF HeardInTime, MB, MW
      <4> DEFINE n == MB + MW - Polled
                 m == MB + MW - Polled'
                 i == MW - wcnt[active] * BeatDelay + left["worker"]
                 j == MW - wcnt'[active'] * BeatDelay + left'["worker"]
      <4>2. n \in Int /\ m \in Int /\ m >= n - (left["procman"] - left'["procman"])
        BY <1>0, <3>2
      <4>3. i \in Int /\ j \in Int /\ j >= i - (left["worker"] - left'["worker"])
        BY <1>0, <2>1
      <4>4. Within("watchdog", "procman", n) /\ Within("watchdog", "worker", i)
        BY <2>1, <4>1 DEF RestartInv, MB, MW
      <4> HIDE DEF n, m, i, j
      <4>5. WithinNext("watchdog", "procman", m) /\ WithinNext("watchdog", "worker", j)
        BY <3>3, <4>1, <4>2, <4>3, <4>4
      <4> QED
        BY <4>5 DEF m, j
    <3> QED
      BY <2>3, <3>1, <3>4, <3>5
  <2>5. CASE UNCHANGED <<left, schedVars>> \/ WorkerLooks \/ WatchdogLooks
    <3>1. ~WorkerLooks
      BY <2>1, LoopFacts DEF WorkerLooks, At, Stmt, UntimedInv, AttemptInv
    <3>2. ~WatchdogLooks \/ Stmt # "secondBeats"
      <4>1. SUFFICES ASSUME WatchdogLooks, Stmt = "secondBeats" PROVE FALSE
        OBVIOUS
      <4>2. last = Beats /\ heartbeat = last
        BY <2>1, <4>1 DEF RestartInv, WatchdogLooks
      <4>3. heartbeat = wcnt[active] /\ wcnt[active] \in 0 .. (Beats - 1)
        BY <2>2, <4>1, LoopFacts DEF UntimedInv, BeatInv, Inv, CounterInv, Stmt
      <4> QED
        BY <4>2, <4>3, ConstantFacts
    <3>3. /\ UNCHANGED schedVars /\ left'["worker"] = left["worker"]
          /\ left'["procman"] = left["procman"]
          /\ Stmt = "secondBeats" => left'["watchdog"] = left["watchdog"]
      BY <2>5, <3>1, <3>2 DEF WatchdogLooks, Delay, SchedInv, TimedTypeOK, Threads
    <3>4. Polled' = Polled
      BY <2>1, <3>3 DEF Polled
    <3>5. /\ left'["worker"] <= left["worker"]
          /\ Stmt = "secondBeats" => left'["watchdog"] <= left["watchdog"]
      BY <1>0, <3>3
    <3>6. \A m \in Int :
            /\ Within("worker", "procman", m) => WithinNext("worker", "procman", m)
            /\ Stmt = "secondBeats" /\ Within("watchdog", "procman", m)
                 => WithinNext("watchdog", "procman", m)
            /\ Stmt = "secondBeats" /\ Within("watchdog", "worker", m)
                 => WithinNext("watchdog", "worker", m)
      BY <3>3, <3>5, WithinActs DEF Threads
    <3>7. /\ MB - Polled \in Int /\ MB + MW - Polled \in Int
          /\ MW - wcnt[active] * BeatDelay + left["worker"] \in Int
      BY <1>0
    <3>8. HearsInTime
      BY <2>1, <3>4, <3>6, <3>7 DEF RestartInv, HearsInTime, MB
    <3>9. HeardInTime
      BY <2>1, <3>3, <3>4, <3>6, <3>7 DEF RestartInv, HeardInTime, MB, MW
    <3> QED
      BY <2>3, <3>3, <3>8, <3>9
  <2>8. CASE ProcManLooks
    BY <2>1, <2>8 DEF ProcManLooks, PollPc
  <2> QED
    BY <1>1, <1>2, <1>3, <2>4, <2>5, <2>8, WaitingSteps DEF timedVars
<1> QED
  BY <1>1, <1>2, <1>3, <1>4, ActsOrWaits

------------------------------------------------------------------------------
\* The invariant, and what it shows.

LEMMA TimedInvInit == TimedInit => TimedInv
<1> SUFFICES ASSUME TimedInit PROVE TimedInv
    OBVIOUS
<1>1. /\ wdPc = "clearKill" /\ pmPc = "clearRestart" /\ active = 0 /\ heartbeat = 0
      /\ kill_flag = 0 /\ slice = 0 /\ left = [c \in Threads |-> 0]
      /\ current \in Threads /\ waiting = Threads
      /\ tstate[active] = "running" /\ wpc[active] = "clearHeartbeat"
  BY ConstantFacts
  DEF TimedInit, Init, DataportsInit, WatchdogInit, ProcManInit, TCBs, Original
<1>2. SchedInv
  BY <1>1, TimeFacts DEF SchedInv, TimedTypeOK, Threads
<1>3. UntimedInv
  BY <1>1
  DEF UntimedInv, AtomicInv, BeatInv, KillInv, StartInv, AttemptInv, ReturnInv, ReportedInv,
      Working, Stmt, BootPc, RebuildPc, PollPc
<1>4. AlarmInv /\ ReportInv /\ BehindInv /\ RestartInv
  BY <1>1 DEF AlarmInv, ReportInv, BehindInv, RestartInv, PollPc
<1> QED
  BY <1>2, <1>3, <1>4 DEF TimedInv

LEMMA TimedInvStep ==
  Inv /\ Inv' /\ TimedInv /\ [TimedNext]_timedVars => TimedInv'
<1> SUFFICES ASSUME Inv, Inv', TimedInv, [TimedNext]_timedVars PROVE TimedInv'
    OBVIOUS
<1> USE DEF TimedInv
<1>1. SchedInv'
  BY SchedStep
<1>2. AtomicInv' /\ BeatInv' /\ KillInv'
  BY AtomicStep, BeatStep, KillStep
<1>3. StartInv' /\ AttemptInv'
  BY StartStep, AttemptStep
<1>4. ReturnInv' /\ ReportedInv'
  BY ReturnStep, ReportedStep
<1>5. AlarmInv' /\ ReportInv'
  BY <1>1, AlarmStep, ReportStep
<1>6. BehindInv' /\ RestartInv'
  BY <1>1, BehindStep, RestartStep
<1> QED
  BY <1>1, <1>2, <1>3, <1>4, <1>5, <1>6 DEF UntimedInv

\* The pace of the three components is kept for ever.
THEOREM PaceIsKept == TimedSpec => [](Inv /\ TimedInv)
<1>1. TimedInit => TimedInv
  BY TimedInvInit
<1>2. TimedSpec => []Inv
  BY TimedRefinesLoop, Invariance, PTL
<1> QED
  BY <1>1, <1>2, TimedInvStep, PTL DEF TimedSpec

\* Watchdog reports no worker that is beating ...
THEOREM AlarmsAreTrue == TimedSpec => []NoFalseAlarm
<1>1. Inv /\ TimedInv => NoFalseAlarm
  <2> SUFFICES ASSUME Inv, TimedInv, wdPc = "setKill", NEW t \in RunningTcbs
               PROVE  wpc[t] \in {"stalled", "takeRestart", "hung"}
      BY DEF NoFalseAlarm
  <2>1. t = active /\ Working
    BY LoopFacts DEF RunningTcbs, Working
  <2> QED
    BY <2>1 DEF TimedInv, UntimedInv, ReportedInv, Silent, Stmt
<1> QED
  BY <1>1, PaceIsKept, PTL

\* ... and ProcMan misses no report.
THEOREM ReportsAreHeard == TimedSpec => []NoMissedReport
<1>1. TimedInv => NoMissedReport
  BY DEF TimedInv, UntimedInv, ReportedInv, NoMissedReport
<1> QED
  BY <1>1, PaceIsKept, PTL

\* A worker that does not deadlock again is restarted once.
SingleInv ==
  /\ restarts <= 1 /\ severity_buf = 0 /\ Stmt # "hung"
  /\ pmPc \notin GiveUpPc \cup {"timeout"}
  /\ pmPc = "clearRestart" => restarts = 0
  /\ pmPc \in {"checkSeverity", "awaitKill"} /\ kill_flag = 1 => restarts = 0
  /\ Stmt \in BootPc \cup {"beats"} => restarts = 0
  /\ Stmt = "stalled" /\ wdPc # "awaitBeat" => restarts = 0
  /\ wdPc = "setKill" => restarts = 0

LEMMA SingleStep ==
  ASSUME ~RepeatDeadlock, MayRefuse \cap RebuildPc = {},
         Inv, Inv', TimedInv, SingleInv, [TimedNext]_timedVars
  PROVE  SingleInv'
<1> USE DEF TimedInv, UntimedInv
<1>1. CASE WorkerActs
  <2>1. /\ Program(Stmt, wcnt[active], heartbeat, restart_flag,
                   wcnt'[active], heartbeat', wpc'[active], restart_flag')
        /\ active' = active /\ Stmt' = wpc'[active]
    BY <1>1, WorkerMoves DEF procmanVars, Stmt
  <2>2. /\ pmPc' = pmPc /\ wdPc' = wdPc /\ restarts' = restarts /\ kill_flag' = kill_flag
        /\ severity_buf' = severity_buf
    BY <1>1, WorkerMoves DEF procmanVars, watchdogVars
  <2>3. Stmt' # "hung"
    BY <2>1 DEF Program, BootPc
  <2>4. Stmt' \in BootPc \cup {"beats"} => Stmt \in BootPc \cup {"beats"}
    BY <2>1 DEF Program, BootPc
  <2>5. Stmt' = "stalled" => Stmt = "beats"
    BY <2>1 DEF Program, BootPc
  <2> QED
    BY <2>2, <2>3, <2>4, <2>5 DEF SingleInv
<1>2. CASE WatchdogActs
  <2>1. /\ pmPc' = pmPc /\ restarts' = restarts /\ severity_buf' = severity_buf
        /\ Stmt' = Stmt /\ heartbeat' = heartbeat
    BY <1>2, WatchdogMoves DEF procmanVars, threadVars, Stmt
  <2>2. /\ kill_flag' = 1 => kill_flag = 1 \/ wdPc = "setKill"
        /\ wdPc' = "setKill" => wdPc = "monitor" /\ left["watchdog"] = 0
             /\ heartbeat = last /\ fc + 1 >= MissLimit
        /\ ~(wdPc = "awaitBeat" /\ heartbeat = last)
    BY <1>2, WatchdogMoves, ConstantFacts DEF HasCore
  <2>3. Stmt = "stalled" => restarts = 0
    <3>1. SUFFICES ASSUME Stmt = "stalled", restarts = 1 PROVE FALSE
      BY LoopFacts DEF SingleInv
    <3>2. wdPc = "awaitBeat" /\ ~Outage
      BY <2>2, <3>1 DEF SingleInv, Outage
    <3>3. kill_flag = 1
      BY <3>2 DEF KillInv
    <3>4. pmPc \notin {"suspend", "raiseRestart", "withdraw", "awaitRecovery"} \cup RebuildPc \cup PollPc
      BY <3>1, <3>2 DEF AttemptInv
    <3>5. pmPc \notin {"checkSeverity", "awaitKill", "clearRestart", "timeout"} \cup GiveUpPc
      BY <3>1, <3>3 DEF SingleInv
    <3> QED
      BY <3>4, <3>5 DEF Inv, TypeOK, ProcManTypeOK, ProcManPc, LoopPc, CooperativePc, PollPc
  <2>4. wdPc' = "setKill" => restarts = 0
    <3>1. SUFFICES ASSUME wdPc' = "setKill" PROVE Stmt = "stalled"
      BY <2>3
    <3>2. pmPc \in {"checkSeverity", "awaitKill"} \cup GiveUpPc /\ Silent'
      BY <2>1, <3>1, ReportedStep DEF ReportedInv
    <3>3. Working' /\ Stmt' = Stmt
      <4>1. Working
        BY <3>2, LoopFacts DEF SingleInv, RebuildPc, GiveUpPc
      <4> QED
        BY <1>2, <2>1, <4>1, WatchdogMoves DEF Working, threadVars, procmanVars
    <3> QED
      <4>1. Stmt' \in {"stalled", "hung"}
        BY <3>2, <3>3 DEF Silent
      <4> QED
        BY <3>3, <4>1 DEF SingleInv
  <2> QED
    BY <2>1, <2>2, <2>3, <2>4 DEF SingleInv
<1>3. CASE ProcManActs
  <2>1. /\ kill_flag' = kill_flag /\ severity_buf' = severity_buf /\ wdPc' = wdPc
        /\ HasCore("procman") /\ kill_flag \in {0, 1} /\ restarts \in Nat
    BY <1>3, ProcManMoves, LoopFacts DEF watchdogVars
  <2>2. wdPc # "setKill"
    BY <2>1 DEF AtomicInv, HasCore
  <2>3. Stmt' \in {Stmt, "entry"}
    BY <1>3, ProcManKeeps
  <2>4. CASE pmPc = "awaitKill"
    <3>1. Outage /\ restarts = 0 /\ kill_flag = 1 /\ restarts' = 1
          /\ pmPc' \in {"suspend", "raiseRestart"}
      <4>1. kill_flag = 1 /\ restarts' = restarts + 1
            /\ (restarts' > MaxRestarts \/ pmPc' \in {"suspend", "raiseRestart"})
        BY <1>3, <2>4, ProcManMoves DEF Consults, Cooperates, HandsOver, RebuildPc
      <4>2. Outage /\ restarts = 0
        BY <2>4, <4>1 DEF AttemptInv, SingleInv
      <4> QED
        BY <4>1, <4>2, ConstantFacts
    <3>2. Stmt \notin BootPc \cup {"beats"}
      BY <3>1 DEF StartInv
    <3> QED
      BY <2>1, <2>2, <2>3, <3>1, <3>2 DEF SingleInv, Outage, GiveUpPc, BootPc
  <2>5. CASE pmPc # "awaitKill"
    <3>1. restarts' = restarts
      BY <1>3, <2>5, ProcManMoves DEF Consults, Cooperates, HandsOver
    <3>2. pmPc' \notin GiveUpPc
      BY <1>3, <2>5, ProcManMoves DEF Consults, Cooperates, HandsOver, SingleInv, GiveUpPc
    <3>3. pmPc' # "timeout" /\ pmPc' # "clearRestart"
      <4>1. pmPc' = "timeout" => /\ pmPc = "pollKill" /\ kill_flag = 1
                                 /\ polls + 1 >= WaitPolls /\ Working
        BY <1>3, ProcManMoves, LoopFacts, ConstantFacts
        DEF Consults, Cooperates, HandsOver, RebuildPc, GiveUpPc
      <4>2. pmPc' # "timeout"
        BY <2>1, <4>1, LateIsHung DEF SingleInv
      <4> QED
        BY <1>3, <4>2, ProcManMoves DEF Consults, Cooperates, HandsOver
    <3>4. pmPc' \in {"checkSeverity", "awaitKill"} /\ kill_flag = 1 => restarts = 0
      BY <1>3, ProcManMoves DEF Consults, Cooperates, HandsOver, SingleInv
    <3> QED
      BY <2>1, <2>2, <2>3, <3>1, <3>2, <3>3, <3>4 DEF SingleInv, BootPc
  <2> QED
    BY <2>4, <2>5
<1>4. CASE UNCHANGED vars
  BY <1>4 DEF SingleInv, Stmt, vars, sharedVars, watchdogVars, procmanVars
<1> QED
  BY <1>1, <1>2, <1>3, <1>4, ActsOrWaits

\* Built without the repeated deadlock, and with a kernel that carries out the
\* hand-over, no worker is restarted twice and ProcMan never gives up.
THEOREM OneRestartSuffices ==
  ASSUME ~RepeatDeadlock, MayRefuse \cap RebuildPc = {}
  PROVE  TimedSpec => []NoSecondRestart
<1>1. TimedInit => SingleInv
  <2> SUFFICES ASSUME TimedInit PROVE SingleInv
      OBVIOUS
  <2>1. /\ wdPc = "clearKill" /\ pmPc = "clearRestart" /\ restarts = 0 /\ severity_buf = 0
        /\ Stmt = "clearHeartbeat"
    BY ConstantFacts
    DEF TimedInit, Init, DataportsInit, WatchdogInit, ProcManInit, TCBs, Original, Stmt
  <2> QED
    BY <2>1 DEF SingleInv, GiveUpPc
<1>2. Inv /\ Inv' /\ TimedInv /\ SingleInv /\ [TimedNext]_timedVars => SingleInv'
  BY SingleStep
<1>3. SingleInv => NoSecondRestart
  BY DEF SingleInv, NoSecondRestart
<1> QED
  BY <1>1, <1>2, <1>3, PaceIsKept, PTL DEF TimedSpec

------------------------------------------------------------------------------
\* What a recovery pass is worth under the scheduler.

\* What a kill_flag that is up tells of the attempt that answers it.
PassInv ==
  /\ passes <= restarts
  /\ kill_flag = 1 /\ pmPc \notin {"checkSeverity", "awaitKill"} \cup GiveUpPc => passes < restarts
  /\ kill_flag = 1 /\ pmPc \in GiveUpPc => Outage
  /\ kill_flag = 1 /\ Working /\ Stmt = "secondBeats" => pmPc \in PollPc
  /\ wdPc \in {"awaitBeat", "readBeat"} /\ Working => Stmt # "loop"

\* A step of Watchdog: its account of passes.
LEMMA WatchdogCounts ==
  ASSUME WatchdogActs
  PROVE  \/ /\ passes' = passes /\ recovered' = recovered
            /\ recovery_signal' \in {0, passes, recovery_signal}
         \/ /\ wdPc = "readBeat" /\ recovered' = heartbeat
            /\ UNCHANGED <<passes, recovery_signal>>
         \/ /\ wdPc = "lowerKill" /\ kill_flag' = 0
            /\ passes' = passes + 1 /\ recovered >= RecoveryBase
            /\ UNCHANGED <<recovered, recovery_signal>>
<1>1. WatchdogStep
  BY DEF WatchdogActs, WatchdogRuns, WatchdogNext
<1>2. CASE WdClearKill \/ WdClearSignal \/ WdSeeReady \/ WdArm
  BY <1>2 DEF WdClearKill, WdClearSignal, WdSeeReady, WdArm
<1>3. CASE WdMonitor \/ WdSetKill \/ WdSeeBeat \/ WdReadBeat
  BY <1>3 DEF WdMonitor, WdSetKill, WdSeeBeat, WdReadBeat
<1>4. CASE WdLowerKill \/ WdSignal \/ WdWindow
  BY <1>4 DEF WdLowerKill, WdSignal, WdWindow, AfterRecovery
<1> QED
  BY <1>1, <1>2, <1>3, <1>4 DEF WatchdogStep

\* A beat ends an outage only in the middle of the attempt that answers it.
LEMMA BeatIsAnswer ==
  ASSUME Inv, TimedInv, PassInv, kill_flag = 1, wdPc # "awaitBeat" \/ heartbeat # last
  PROVE  passes < restarts /\ Working
<1>1. pmPc \notin {"checkSeverity", "awaitKill"} \cup GiveUpPc
  BY DEF TimedInv, UntimedInv, AttemptInv, PassInv, Outage
<1>2. pmPc \notin RebuildPc
  BY DEF TimedInv, UntimedInv, AttemptInv, Outage
<1> QED
  BY <1>1, <1>2, LoopFacts DEF PassInv

\* Each step of a component keeps PassInv.
LEMMA PassStep ==
  Inv /\ Inv' /\ TimedInv /\ TimedInv' /\ PassInv /\ [TimedNext]_timedVars => PassInv'
<1> SUFFICES ASSUME Inv, Inv', TimedInv, TimedInv', PassInv, [TimedNext]_timedVars
             PROVE  PassInv'
    OBVIOUS
<1> USE DEF TimedInv, UntimedInv
<1>1. CASE WorkerActs
  <2>1. /\ Program(Stmt, wcnt[active], heartbeat, restart_flag,
                   wcnt'[active], heartbeat', wpc'[active], restart_flag')
        /\ Working /\ active' = active /\ Stmt' = wpc'[active]
    BY <1>1, WorkerMoves DEF procmanVars, Stmt
  <2>2. /\ pmPc' = pmPc /\ wdPc' = wdPc /\ restarts' = restarts /\ kill_flag' = kill_flag
        /\ passes' = passes /\ last' = last /\ HasCore("worker")
    BY <1>1, WorkerMoves DEF procmanVars, watchdogVars
  <2>3. kill_flag = 1 => pmPc \notin GiveUpPc
    <3>1. SUFFICES ASSUME kill_flag = 1, pmPc \in GiveUpPc PROVE FALSE
      BY <2>2
    <3>2. Stmt \in {"stalled", "hung"}
      BY <2>1, <3>1 DEF PassInv, Outage, Silent
    <3>3. restart_flag # 1
      BY <3>1 DEF Inv, RequestInv, GiveUpPc
    <3> QED
      BY <2>1, <3>2, <3>3 DEF Program, BootPc
  <2>4. Stmt' = "secondBeats" => Stmt \in {"resetHeartbeat", "secondBeats"}
    BY <2>1 DEF Program, BootPc
  <2>5. kill_flag = 1 /\ Stmt' = "secondBeats" => pmPc \in PollPc
    BY <2>1, <2>4 DEF PassInv, ReturnInv
  <2>6. wdPc \in {"awaitBeat", "readBeat"} => Stmt' # "loop"
    <3>1. SUFFICES ASSUME wdPc \in {"awaitBeat", "readBeat"}, Stmt' = "loop" PROVE FALSE
      OBVIOUS
    <3>2. Stmt = "secondBeats" /\ wdPc = "awaitBeat" /\ kill_flag = 1
      BY <2>1, <2>2, <3>1 DEF Program, BootPc, PassInv, AtomicInv, HasCore, KillInv
    <3>3. pmPc \in PollPc
      BY <2>1, <3>2 DEF PassInv
    <3> QED
      BY <2>2, <3>1, <3>2, <3>3 DEF RestartInv, PollPc
  <2> QED
    BY <2>2, <2>3, <2>5, <2>6 DEF PassInv
<1>2. CASE WatchdogActs
  <2>1. /\ pmPc' = pmPc /\ restarts' = restarts /\ heartbeat' = heartbeat
        /\ Stmt' = Stmt /\ Working' = Working /\ Silent' = Silent
    BY <1>2, WatchdogMoves DEF procmanVars, threadVars, Stmt, Working, Silent
  <2>2. CASE wdPc = "setKill"
    <3>1. /\ wdPc' = "awaitBeat" /\ last' = last /\ passes' = passes
      BY <1>2, <2>2, WatchdogMoves, WatchdogCounts
    <3>2. /\ heartbeat = last /\ Silent
          /\ pmPc \in {"checkSeverity", "awaitKill"} \cup GiveUpPc
      BY <2>2 DEF ReportedInv
    <3> QED
      BY <2>1, <3>1, <3>2 DEF PassInv, Outage, Silent
  <2>3. CASE wdPc # "setKill"
    <3>1. kill_flag' = 1 => kill_flag = 1
      BY <1>2, <2>3, WatchdogMoves, LoopFacts
    <3>2. kill_flag = 1 => passes < restarts /\ pmPc \notin GiveUpPc
      <4>1. ~Outage
        BY <1>2, WatchdogMoves DEF Outage
      <4>2. kill_flag = 1 => wdPc # "awaitBeat" \/ heartbeat # last
        BY <1>2, WatchdogMoves
      <4> QED
        BY <4>1, <4>2, BeatIsAnswer DEF PassInv
    <3>3. passes' <= restarts /\ (kill_flag' = 1 => passes' < restarts)
      <4>1. passes \in Nat /\ restarts \in Nat
        BY LoopFacts, ConstantFacts DEF Inv, TypeOK, WatchdogTypeOK
      <4>2. wdPc = "lowerKill" => kill_flag = 1
        BY DEF KillInv
      <4> QED
        BY <1>2, <3>1, <3>2, <4>1, <4>2, WatchdogCounts DEF PassInv
    <3>4. wdPc' \in {"awaitBeat", "readBeat"} => wdPc \in {"awaitBeat", "readBeat"}
      BY <1>2, <2>3, WatchdogMoves
    <3> QED
      BY <2>1, <3>1, <3>2, <3>3, <3>4 DEF PassInv
  <2> QED
    BY <2>2, <2>3
<1>3. CASE ProcManActs
  <2>1. /\ kill_flag' = kill_flag /\ wdPc' = wdPc /\ passes' = passes /\ last' = last
        /\ heartbeat' = heartbeat /\ HasCore("procman")
    BY <1>3, ProcManMoves DEF watchdogVars
  <2>2. passes \in Nat /\ restarts \in Nat /\ kill_flag \in {0, 1}
    BY LoopFacts, ConstantFacts DEF Inv, TypeOK, WatchdogTypeOK
  <2>3. passes' <= restarts'
    BY <1>3, <2>1, <2>2, ProcManMoves DEF PassInv, Consults, Cooperates, HandsOver
  <2>4. kill_flag = 1 /\ pmPc' \notin {"checkSeverity", "awaitKill"} \cup GiveUpPc
          => passes < restarts'
    BY <1>3, <2>2, ProcManMoves
    DEF PassInv, Consults, Cooperates, HandsOver, GiveUpPc, RebuildPc
  <2>5. kill_flag = 1 /\ pmPc' \in GiveUpPc => Outage'
    <3>1. SUFFICES ASSUME kill_flag = 1, pmPc' \in GiveUpPc PROVE Outage'
      OBVIOUS
    <3>2. pmPc \in {"checkSeverity", "awaitKill"} \cup GiveUpPc \cup RebuildPc
      BY <1>3, <3>1, ProcManMoves DEF Consults, Cooperates, HandsOver, GiveUpPc, RebuildPc
    <3>3. Outage
      BY <3>1, <3>2 DEF PassInv, AttemptInv
    <3>4. Stmt' = Stmt /\ (Working' => Working)
      BY <1>3, <3>1, ProcManKeeps DEF GiveUpPc
    <3> QED
      BY <2>1, <3>3, <3>4 DEF Outage, Silent
  <2>6. Working' /\ Stmt' \in {"secondBeats", "loop"} => Working /\ Stmt' = Stmt
    BY <1>3, ProcManKeeps
  <2>7. kill_flag = 1 /\ Working' /\ Stmt' = "secondBeats" => pmPc' \in PollPc
    <3>1. SUFFICES ASSUME kill_flag = 1, Working, Stmt = "secondBeats", pmPc' \notin PollPc
                   PROVE  FALSE
      BY <2>6
    <3>2. pmPc \in PollPc
      BY <3>1 DEF PassInv
    <3>3. pmPc = "pollKill" /\ polls + 1 >= WaitPolls
      BY <1>3, <3>1, <3>2, ProcManMoves, LoopFacts, ConstantFacts
      DEF Consults, Cooperates, HandsOver, PollPc, RebuildPc, GiveUpPc
    <3> QED
      BY <2>1, <3>1, <3>3, LateIsHung
  <2> QED
    BY <2>1, <2>3, <2>4, <2>5, <2>6, <2>7 DEF PassInv
<1>4. CASE UNCHANGED vars
  BY <1>4 DEF PassInv, Outage, Silent, Working, Stmt, vars, sharedVars, watchdogVars, procmanVars
<1> QED
  BY <1>1, <1>2, <1>3, <1>4, ActsOrWaits

LEMMA PassInvInit == TimedInit => PassInv
  BY ConstantFacts
  DEF TimedInit, Init, DataportsInit, WatchdogInit, ProcManInit, PassInv, GiveUpPc

\* Every pass that Watchdog counts answers a restart attempt of its own.
PassesAreAttempts == passes <= restarts

\* Under the scheduler no pass comes without an attempt of its own.
THEOREM PassesAreEarned == TimedSpec => []PassesAreAttempts
<1>1. PassInv => PassesAreAttempts
  BY DEF PassInv, PassesAreAttempts
<1> QED
  BY <1>1, PassInvInit, PassStep, PaceIsKept, PTL DEF TimedSpec

\* What Watchdog has taken for a recovery, was one.
ProofInv ==
  recovered >= RecoveryBase \/ passes > 0 \/ recovery_signal > 0 => Respawned

\* The beat that Watchdog judges is no beat of a worker that has run for long.
LEMMA JudgedBeat ==
  ASSUME Beats < RecoveryBase, Inv, TimedInv, PassInv,
         wdPc = "readBeat", heartbeat >= RecoveryBase
  PROVE  Respawned
<1>1. Working
  BY BeatIsAnswer DEF TimedInv, UntimedInv, KillInv
<1>2. Stmt # "loop"
  BY <1>1 DEF PassInv
<1>3. Stmt \notin BootPc \cup {"stalled", "takeRestart", "resetHeartbeat"}
  BY <1>1, ConstantFacts DEF TimedInv, UntimedInv, BeatInv
<1>4. Stmt \notin {"beats", "secondBeats"}
  <2>1. Stmt \in {"beats", "secondBeats"} => wcnt[active] < Beats
    BY LoopFacts, ConstantFacts DEF Inv, CounterInv, Stmt
  <2> QED
    BY <1>1, <2>1, LoopFacts, ConstantFacts DEF TimedInv, UntimedInv, BeatInv
<1>5. active # Original
  BY <1>2, <1>3, <1>4 DEF Inv, ProgramInv, RunPc, BootPc, Stmt
<1> QED
  BY <1>1, <1>5, LoopFacts DEF Respawned, Working, TCBs, Spares, Original

\* A pass is counted only of a beat that JudgedBeat speaks of.
LEMMA ProofStep ==
  ASSUME Beats < RecoveryBase
  PROVE  Inv /\ TimedInv /\ PassInv /\ ProofInv /\ [TimedNext]_timedVars => ProofInv'
<1> SUFFICES ASSUME Inv, TimedInv, PassInv, ProofInv, [TimedNext]_timedVars
             PROVE  ProofInv'
    OBVIOUS
<1>1. Respawned => Respawned'
  BY TimedStep, RespawnedStays
<1>2. CASE WatchdogActs
  <2>1. passes \in Nat
    BY ConstantFacts DEF Inv, TypeOK, WatchdogTypeOK
  <2> QED
    BY <1>1, <1>2, <2>1, WatchdogCounts, JudgedBeat DEF ProofInv
<1>3. CASE WorkerActs
  BY <1>1, <1>3, WorkerMoves DEF TimedInv, ProofInv, watchdogVars
<1>4. CASE ProcManActs
  <2>1. recovery_signal' = recovery_signal
    BY <1>4 DEF ProcManActs, ProcManRuns, ProcManNext
  <2> QED
    BY <1>1, <1>4, <2>1, ProcManMoves DEF TimedInv, ProofInv, watchdogVars
<1>5. CASE UNCHANGED vars
  BY <1>5 DEF ProofInv, Respawned, vars, sharedVars, watchdogVars, procmanVars, threadVars
<1> QED
  BY <1>2, <1>3, <1>4, <1>5, ActsOrWaits

\* Under the scheduler a recovery pass implies a respawned TCB, however far run()
\* counts: a long-lived worker earns no pass unless it is starved.
THEOREM PassesStayProofs ==
  ASSUME Beats < RecoveryBase
  PROVE  TimedSpec => []PassProvesRespawn
<1>1. TimedInit => ProofInv
  BY ConstantFacts DEF TimedInit, Init, DataportsInit, WatchdogInit, ProofInv
<1>2. Inv /\ TimedInv /\ PassInv /\ ProofInv /\ [TimedNext]_timedVars => ProofInv'
  BY ProofStep
<1>3. ProofInv => PassProvesRespawn
  BY DEF ProofInv, Respawned, PassProvesRespawn
<1> QED
  BY <1>1, <1>2, <1>3, PassInvInit, PassStep, PaceIsKept, PTL DEF TimedSpec

==============================================================================
