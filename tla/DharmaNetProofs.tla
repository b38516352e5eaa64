--------------------------- MODULE DharmaNetProofs ---------------------------
(***************************************************************************)
(* Proofs about DharmaNet under any sequence of shares and recovery        *)
(* passes, for every value of the thresholds and dwell times.              *)
(***************************************************************************)
EXTENDS DharmaNetHistory, SequenceTheorems, TLAPS

\* Nothing is counted that did not happen since the last fresh start: each dwell
\* counter is at most the age (which is capped), and each level is at least its dwell old.
EarnedInv ==
  /\ rising <= age \/ age = EscalationTime
  /\ climbing <= age
  /\ level = "warn" => age >= WarnDwell \/ age >= CritDwell
  /\ level = "crit" =>
       /\ crit_ep >= 1
       /\ age >= CritDwell - 1 + crit_ep
  /\ level # "crit" => crit_ep = 0

\* What ProcMan was last told agrees with the level.
ToldInv ==
  /\ severity_buf = 2 => level = "crit" /\ crit_ep = EscalateEpochs
  /\ severity_buf > 0 => level # "ok"

Inv == TypeOK /\ EarnedInv /\ ToldInv

LEMMA ConstantFacts ==
  /\ SmoothWin \in Nat /\ SmoothWin > 0
  /\ WarnDwell \in Nat /\ WarnDwell > 0
  /\ CritDwell \in Nat /\ CritDwell > 0
  /\ CritExitDwell \in Nat /\ CritExitDwell > 0
  /\ EscalateEpochs \in Nat /\ EscalateEpochs > 0
  /\ WarnEnter \in Int /\ WarnExit \in Int /\ CritEnter \in Int /\ CritExit \in Int
  /\ EscalationTime \in Nat
  /\ EscalationTime = CritDwell + EscalateEpochs - 1
<1>1. {SmoothWin, WarnDwell, CritDwell, CritExitDwell, EscalateEpochs} \subseteq Nat \ {0}
  BY DharmaNetAssumption
<1>2. {WarnEnter, WarnExit, CritEnter, CritExit} \subseteq 0 .. 100
  BY DharmaNetAssumption
<1> QED
  BY <1>1, <1>2 DEF EscalationTime

LEMMA InitInv == HistoryInit => Inv
BY ConstantFacts DEF HistoryInit, DharmaNetInit, Inv, TypeOK, DharmaNetTypeOK,
   EarnedInv, ToldInv

\* The window keeps its length and its range; the smoothed share is a number.
LEMMA SmoothType ==
  ASSUME TypeOK, NEW pa \in 0 .. 100, Smooth(pa)
  PROVE  /\ hist' \in Seq(0 .. 100) /\ Len(hist') <= SmoothWin
         /\ hsum' \in Int
         /\ Smoothed(pa) \in Int
<1>1. hist \in Seq(0 .. 100) /\ Len(hist) <= SmoothWin /\ hsum \in Int
  BY DEF TypeOK, DharmaNetTypeOK
<1>2. CASE Len(hist) < SmoothWin
  <2>1. hist' = Append(hist, pa) /\ hsum' = hsum + pa
    BY <1>2 DEF Smooth
  <2>2. hist' \in Seq(0 .. 100) /\ Len(hist') = Len(hist) + 1 /\ hsum' \in Int
    BY <1>1, <2>1
  <2>3. hsum' \div SmoothWin \in Int
    BY <2>2, ConstantFacts
  <2> QED
    BY <1>1, <1>2, <2>2, <2>3, ConstantFacts DEF Smoothed
<1>3. CASE ~(Len(hist) < SmoothWin)
  <2>1. hist' = Append(Tail(hist), pa) /\ hsum' = hsum - Head(hist) + pa
    BY <1>3 DEF Smooth
  <2>2. Len(hist) \in Nat /\ Len(hist) > 0 /\ hist # <<>>
    BY <1>1, <1>3, ConstantFacts
  <2>3. /\ Head(hist) \in 0 .. 100
        /\ Tail(hist) \in Seq(0 .. 100) /\ Len(Tail(hist)) = Len(hist) - 1
    BY <1>1, <2>2, HeadTailProperties
  <2>4. hist' \in Seq(0 .. 100) /\ Len(hist') = Len(hist) /\ hsum' \in Int
    BY <1>1, <2>1, <2>2, <2>3
  <2>5. hsum' \div SmoothWin \in Int
    BY <2>4, ConstantFacts
  <2> QED
    BY <1>1, <2>4, <2>5, ConstantFacts DEF Smoothed
<1> QED
  BY <1>2, <1>3

\* What an epoch with the smoothed share sp does to the level and its counters.
LEMMA LevelStep ==
  ASSUME Inv, NEW sp \in Int,
         level' = WarnLevel(CritLevel(sp), sp), Dwell(sp),
         age' = Capped(age, EscalationTime),
         crit_ep' = IF level' # "crit" THEN 0
                    ELSE IF crit_ep < EscalateEpochs THEN crit_ep + 1 ELSE crit_ep
  PROVE  /\ level' \in {"ok", "warn", "crit"}
         /\ rising' \in 0 .. (WarnDwell - 1) /\ falling' \in 0 .. (WarnDwell - 1)
         /\ climbing' \in 0 .. (CritDwell - 1) /\ leaving' \in 0 .. (CritExitDwell - 1)
         /\ crit_ep' \in 0 .. EscalateEpochs
         /\ age' \in 0 .. EscalationTime
         /\ EarnedInv'
<1> DEFINE l == CritLevel(sp)
<1>1. /\ level \in {"ok", "warn", "crit"}
      /\ rising \in 0 .. (WarnDwell - 1) /\ falling \in 0 .. (WarnDwell - 1)
      /\ climbing \in 0 .. (CritDwell - 1) /\ leaving \in 0 .. (CritExitDwell - 1)
      /\ crit_ep \in 0 .. EscalateEpochs
      /\ age \in 0 .. EscalationTime
  BY DEF Inv, TypeOK, DharmaNetTypeOK
<1>2. EarnedInv
  BY DEF Inv
<1>3. /\ age' \in 0 .. EscalationTime
      /\ age' >= age
      /\ age' >= age + 1 \/ age' = EscalationTime
  BY <1>1, ConstantFacts DEF Capped
<1>4. l \in {"ok", "warn", "crit"} /\ level' \in {"ok", "warn", "crit"}
  BY <1>1 DEF CritLevel, WarnLevel
<1>5. climbing' \in 0 .. (CritDwell - 1) /\ climbing' <= age'
  BY <1>1, <1>2, <1>3, ConstantFacts DEF CritLevel, Dwell, EarnedInv
<1>6. leaving' \in 0 .. (CritExitDwell - 1)
  BY <1>1, ConstantFacts DEF CritLevel, Dwell
<1>7. rising' \in 0 .. (WarnDwell - 1) /\ (rising' <= age' \/ age' = EscalationTime)
  BY <1>1, <1>2, <1>3, ConstantFacts DEF WarnLevel, Dwell, EarnedInv
<1>8. falling' \in 0 .. (WarnDwell - 1)
  BY <1>1, ConstantFacts DEF WarnLevel, Dwell
<1>9. crit_ep' \in 0 .. EscalateEpochs
  BY <1>1, ConstantFacts
<1>10. level' = "warn" => age' >= WarnDwell \/ age' >= CritDwell
  BY <1>1, <1>2, <1>3, ConstantFacts DEF WarnLevel, CritLevel, EarnedInv
<1>11. level' = "crit" <=> l = "crit"
  BY <1>4 DEF WarnLevel
<1>12. level' = "crit" => crit_ep' >= 1 /\ age' >= CritDwell - 1 + crit_ep'
  BY <1>1, <1>2, <1>3, <1>11, ConstantFacts DEF CritLevel, EarnedInv
<1>13. level' # "crit" => crit_ep' = 0
  OBVIOUS
<1> QED
  BY <1>3, <1>4, <1>5, <1>6, <1>7, <1>8, <1>9, <1>10, <1>12, <1>13 DEF EarnedInv

LEMMA SampleInv ==
  ASSUME Inv, NEW pa \in Shares, Samples(pa)
  PROVE  Inv'
<1> DEFINE sp == Smoothed(pa)
<1>1. DnSample(pa)
  BY DEF Samples
<1>2. pa \in 0 .. 100 /\ Smooth(pa)
  BY <1>1, DharmaNetAssumption DEF DnSample, Severity
<1>3. /\ hist' \in Seq(0 .. 100) /\ Len(hist') <= SmoothWin
      /\ hsum' \in Int
      /\ sp \in Int
  BY <1>2, SmoothType DEF Inv
<1>4. /\ level' = WarnLevel(CritLevel(sp), sp)
      /\ Dwell(sp)
      /\ age' = Capped(age, EscalationTime)
      /\ crit_ep' = IF level' # "crit" THEN 0
                    ELSE IF crit_ep < EscalateEpochs THEN crit_ep + 1 ELSE crit_ep
  BY <1>1 DEF DnSample, Severity, Samples
<1> HIDE DEF sp
<1>5. /\ level' \in {"ok", "warn", "crit"}
      /\ rising' \in 0 .. (WarnDwell - 1) /\ falling' \in 0 .. (WarnDwell - 1)
      /\ climbing' \in 0 .. (CritDwell - 1) /\ leaving' \in 0 .. (CritExitDwell - 1)
      /\ crit_ep' \in 0 .. EscalateEpochs
      /\ age' \in 0 .. EscalationTime
      /\ EarnedInv'
  BY <1>3, <1>4, LevelStep
<1>6. severity_buf' = CASE level' = "crit" /\ crit_ep' >= EscalateEpochs -> 2
                       [] level' = "ok" -> 0
                       [] OTHER -> 1
  BY <1>1 DEF DnSample, Severity
<1>7. severity_buf' \in 0 .. 2 /\ ToldInv'
  BY <1>5, <1>6, ConstantFacts DEF ToldInv
<1>8. TypeOK'
  <2>1. /\ dnPc' = "look"
        /\ recovery_pass' = recovery_pass /\ seen_recovery' = seen_recovery
        /\ recovery_signal' = recovery_signal
    BY <1>1 DEF DnSample, Severity, Samples
  <2>2. share' \in 0 .. 100 /\ high' \in {0, 1}
    BY <1>2 DEF Inv, TypeOK, Samples
  <2> QED
    BY <1>3, <1>5, <1>7, <2>1, <2>2 DEF Inv, TypeOK, DharmaNetTypeOK
<1> QED
  BY <1>5, <1>7, <1>8 DEF Inv

LEMMA InvStep == Inv /\ [HistoryNext]_vars => Inv'
<1> SUFFICES ASSUME Inv, [HistoryNext]_vars
             PROVE  Inv'
  OBVIOUS
<1>1. CASE Looks
  BY <1>1 DEF Looks, DnLook, Inv, TypeOK, DharmaNetTypeOK, EarnedInv, ToldInv,
     levelVars, historyVars
<1>2. CASE Idles
  BY <1>2 DEF Idles, DnIdle, Inv, TypeOK, DharmaNetTypeOK, EarnedInv, ToldInv,
     levelVars, historyVars
<1>3. CASE Recovers
  BY <1>3, ConstantFacts DEF Recovers, DnRecover, Inv, TypeOK, DharmaNetTypeOK,
     EarnedInv, ToldInv
<1>4. CASE SampleStep
  BY <1>4, SampleInv DEF SampleStep
<1>5. CASE Publish
  BY <1>5 DEF Publish, Inv, TypeOK, DharmaNetTypeOK, EarnedInv, ToldInv,
     dharmaVars, levelVars, historyVars
<1>6. CASE UNCHANGED vars
  BY <1>6 DEF vars, Inv, TypeOK, DharmaNetTypeOK, EarnedInv, ToldInv,
     dharmaVars, levelVars, historyVars
<1> QED
  BY <1>1, <1>2, <1>3, <1>4, <1>5, <1>6 DEF HistoryNext

\* Inv holds in every reachable state.
THEOREM Invariance == HistorySpec => []Inv
BY InitInv, InvStep, PTL DEF HistorySpec

\* Every variable of DharmaNet stays in its range; no dwell counter ever reaches
\* the dwell time at which its threshold is passed (dharmanet.c lines 36 to 44).
THEOREM TypeCorrect == HistorySpec => []TypeOK
<1>1. Inv => TypeOK
  BY DEF Inv
<1> QED
  BY <1>1, Invariance, PTL

\* Whatever was counted before a recovery, severity 2 takes the full CRIT dwell
\* and escalation time after it (dharmanet.c lines 29 and 42).
THEOREM SeveritiesAreEarned == HistorySpec => []SeverityIsEarned
<1>1. Inv => SeverityIsEarned
  BY ConstantFacts DEF Inv, TypeOK, DharmaNetTypeOK, EarnedInv, ToldInv, SeverityIsEarned
<1> QED
  BY <1>1, Invariance, PTL

\* What the window holds: q[j] is the sum of its newest j shares, hsum that of all,
\* and the shares since the last recovery are low as long as none was high.
Sums(q) ==
  /\ q[0] = 0
  /\ \A j \in 0 .. Len(hist) - 1 : q[j + 1] = q[j] + hist[Len(hist) - j]
  /\ hsum = q[Len(hist)]
  /\ high = 0 => \A j \in 0 .. Len(hist) : j <= age => q[j] <= j * WarnEnter

WindowInv == \E q \in [0 .. SmoothWin -> Int] : Sums(q)

\* Nothing is reported only at level OK.
QuietInv == severity_buf = 0 => level = "ok"

LEMMA AverageBound ==
  ASSUME NEW h \in Int, NEW d \in Nat, d > 0, NEW w \in Int, h <= d * w
  PROVE  h \div d <= w
BY SMT

\* The newest share is in front, and the others have moved on by one.
LEMMA WindowMoves ==
  ASSUME TypeOK, NEW pa \in 0 .. 100, Smooth(pa)
  PROVE  /\ Len(hist') \in Nat /\ Len(hist') > 0 /\ Len(hist') - 1 <= Len(hist)
         /\ hist'[Len(hist')] = pa
         /\ \A j \in 1 .. Len(hist') - 1 : hist'[Len(hist') - j] = hist[Len(hist) - j + 1]
         /\ hsum' = IF Len(hist) < SmoothWin THEN hsum + pa ELSE hsum - hist[1] + pa
         /\ Len(hist') = IF Len(hist) < SmoothWin THEN Len(hist) + 1 ELSE Len(hist)
<1>1. hist \in Seq(0 .. 100) /\ Len(hist) <= SmoothWin /\ hsum \in Int
  BY DEF TypeOK, DharmaNetTypeOK
<1>2. CASE Len(hist) < SmoothWin
  <2>1. hist' = Append(hist, pa) /\ hsum' = hsum + pa
    BY <1>2 DEF Smooth
  <2>2. /\ Len(hist') = Len(hist) + 1 /\ hist'[Len(hist) + 1] = pa
        /\ \A i \in 1 .. Len(hist) : hist'[i] = hist[i]
    BY <1>1, <2>1, AppendProperties
  <2> QED
    BY <1>1, <1>2, <2>1, <2>2
<1>3. CASE ~(Len(hist) < SmoothWin)
  <2>1. hist' = Append(Tail(hist), pa) /\ hsum' = hsum - Head(hist) + pa
    BY <1>3 DEF Smooth
  <2>2. Len(hist) \in Nat /\ Len(hist) > 0 /\ hist # <<>>
    BY <1>1, <1>3, ConstantFacts
  <2>3. /\ Tail(hist) \in Seq(0 .. 100) /\ Len(Tail(hist)) = Len(hist) - 1
        /\ \A i \in 1 .. Len(Tail(hist)) : Tail(hist)[i] = hist[i + 1]
    BY <1>1, <2>2, HeadTailProperties
  <2>4. /\ Len(hist') = Len(hist) /\ hist'[Len(hist)] = pa
        /\ \A i \in 1 .. Len(hist) - 1 : hist'[i] = Tail(hist)[i]
    BY <1>1, <2>1, <2>2, <2>3, AppendProperties
  <2>5. \A i \in 1 .. Len(hist) - 1 : hist'[i] = hist[i + 1]
    BY <2>3, <2>4
  <2>6. Head(hist) = hist[1]
    BY <1>1, <2>2
  <2>7. \A j \in 1 .. Len(hist) - 1 : hist'[Len(hist) - j] = hist[Len(hist) - j + 1]
    <3> SUFFICES ASSUME NEW j \in 1 .. Len(hist) - 1
                 PROVE  hist'[Len(hist) - j] = hist[Len(hist) - j + 1]
      OBVIOUS
    <3>1. Len(hist) - j \in 1 .. Len(hist) - 1
      BY <2>2
    <3> QED
      BY <2>5, <3>1
  <2>8. \A j \in 1 .. Len(hist') - 1 : hist'[Len(hist') - j] = hist[Len(hist) - j + 1]
    BY <2>4, <2>7
  <2>9. hist'[Len(hist')] = pa /\ hsum' = hsum - hist[1] + pa
    BY <2>1, <2>4, <2>6
  <2>10. Len(hist') \in Nat /\ Len(hist') > 0 /\ Len(hist') - 1 <= Len(hist)
    BY <2>2, <2>4
  <2> QED
    BY <1>3, <2>4, <2>8, <2>9, <2>10
<1> QED
  BY <1>2, <1>3

LEMMA SampleWindow ==
  ASSUME TypeOK, WindowInv, NEW pa \in Shares, Samples(pa)
  PROVE  /\ WindowInv'
         /\ high' = 0 /\ age' >= SmoothWin => Smoothed(pa) <= WarnEnter
<1> DEFINE m == Len(hist)
           n == Len(hist')
<1>1. pa \in 0 .. 100 /\ Smooth(pa)
  BY DharmaNetAssumption DEF Samples, DnSample, Severity
<1>2. m \in Nat /\ m <= SmoothWin /\ age \in Nat /\ high \in {0, 1}
  BY DEF TypeOK, DharmaNetTypeOK
<1>3. /\ n \in Nat /\ n > 0 /\ n - 1 <= m /\ n <= SmoothWin
      /\ hist'[n] = pa
      /\ \A j \in 1 .. n - 1 : hist'[n - j] = hist[m - j + 1]
      /\ hsum' = IF m < SmoothWin THEN hsum + pa ELSE hsum - hist[1] + pa
      /\ n = IF m < SmoothWin THEN m + 1 ELSE m
  BY <1>1, WindowMoves, SmoothType
<1>4. PICK q \in [0 .. SmoothWin -> Int] : Sums(q)
  BY DEF WindowInv
<1>5. /\ q[0] = 0
      /\ \A j \in 0 .. m - 1 : q[j + 1] = q[j] + hist[m - j]
      /\ hsum = q[m]
      /\ high = 0 => \A j \in 0 .. m : j <= age => q[j] <= j * WarnEnter
  BY <1>4 DEF Sums
<1>6. /\ age' <= age + 1 /\ age' \in Nat
      /\ high' = IF pa > WarnEnter THEN 1 ELSE high
  BY <1>2, ConstantFacts DEF Samples, Capped
<1> DEFINE r == [j \in 0 .. SmoothWin |-> IF j = 0 THEN 0 ELSE q[j - 1] + pa]
<1>7. r \in [0 .. SmoothWin -> Int] /\ r[0] = 0
      /\ \A j \in 1 .. SmoothWin : r[j] = q[j - 1] + pa
  <2>1. \A j \in 1 .. SmoothWin : j - 1 \in 0 .. SmoothWin /\ j \in 0 .. SmoothWin /\ j # 0
    BY ConstantFacts
  <2>2. \A j \in 1 .. SmoothWin : q[j - 1] \in Int
    BY <2>1
  <2>3. \A j \in 0 .. SmoothWin : j = 0 \/ j \in 1 .. SmoothWin
    BY ConstantFacts
  <2>4. pa \in Int /\ 0 \in 0 .. SmoothWin
    BY <1>1, ConstantFacts
  <2>5. r[0] = 0
    BY <2>4
  <2>6. ASSUME NEW j \in 1 .. SmoothWin PROVE r[j] = q[j - 1] + pa
    BY <2>1
  <2>7. ASSUME NEW j \in 0 .. SmoothWin PROVE (IF j = 0 THEN 0 ELSE q[j - 1] + pa) \in Int
    BY <2>2, <2>3, <2>4
  <2>8. r \in [0 .. SmoothWin -> Int]
    BY <2>7
  <2> HIDE DEF r
  <2> QED
    BY <2>5, <2>6, <2>8
<1> HIDE DEF m, n, r
<1>8. \A j \in 0 .. n - 1 : r[j + 1] = r[j] + hist'[n - j]
  <2> SUFFICES ASSUME NEW j \in 0 .. n - 1 PROVE r[j + 1] = r[j] + hist'[n - j]
    OBVIOUS
  <2>1. CASE j = 0
    <3>1. 1 \in 1 .. SmoothWin
      BY ConstantFacts
    <3>2. r[1] = q[0] + pa
      BY <1>7, <3>1
    <3>3. n - j = n /\ j + 1 = 1
      BY <1>3, <2>1
    <3> QED
      BY <1>1, <1>3, <1>5, <1>7, <2>1, <3>2, <3>3
  <2>2. CASE j > 0
    <3>1. j - 1 \in 0 .. m - 1 /\ j \in 1 .. n - 1 /\ j \in 1 .. SmoothWin
          /\ j + 1 \in 1 .. SmoothWin /\ m - (j - 1) = m - j + 1
      BY <1>2, <1>3, <2>2, ConstantFacts
    <3>2. q[(j - 1) + 1] = q[j - 1] + hist[m - (j - 1)]
      BY <1>5, <3>1
    <3>3. q[j] = q[j - 1] + hist'[n - j]
      BY <1>3, <3>1, <3>2
    <3>4. r[j + 1] = q[j] + pa /\ r[j] = q[j - 1] + pa
      BY <1>7, <3>1
    <3>5. q[j - 1] \in Int /\ q[j] \in Int
      BY <3>1, ConstantFacts
    <3>6. hist'[n - j] \in Int
      <4>1. hist' \in Seq(0 .. 100)
        BY <1>1, SmoothType
      <4>2. \A i \in 1 .. n : hist'[i] \in 0 .. 100
        <5> SUFFICES ASSUME NEW i \in 1 .. n PROVE hist'[i] \in 0 .. 100
          OBVIOUS
        <5>1. i \in 1 .. Len(hist')
          BY DEF n
        <5> QED
          BY <4>1, <5>1, ElementOfSeq
      <4>3. n - j \in 1 .. n
        BY <1>3, <3>1
      <4>4. hist'[n - j] \in 0 .. 100
        BY <4>2, <4>3, Zenon
      <4>5. 0 .. 100 \subseteq Int
        OBVIOUS
      <4> QED
        BY <4>4, <4>5, Zenon
    <3> QED
      BY <1>1, <3>3, <3>4, <3>5, <3>6
  <2> QED
    BY <1>3, <2>1, <2>2
<1>9. hsum' = r[n]
  <2>1. n \in 1 .. SmoothWin /\ r[n] = q[n - 1] + pa
    <3>1. n \in Nat
      BY <1>3
    <3>2. n > 0 /\ n <= SmoothWin
      BY <1>3
    <3>3. n \in 1 .. SmoothWin
      BY <3>1, <3>2, ConstantFacts
    <3> QED
      BY <1>7, <3>3
  <2>2. CASE m < SmoothWin
    BY <1>2, <1>3, <1>5, <2>1, <2>2
  <2>3. CASE ~(m < SmoothWin)
    <3>1. m = n /\ m - 1 \in 0 .. m - 1 /\ m - (m - 1) = 1 /\ m \in 0 .. SmoothWin
          /\ m - 1 \in 0 .. SmoothWin
      BY <1>2, <1>3, <2>3, ConstantFacts
    <3>2. q[(m - 1) + 1] = q[m - 1] + hist[m - (m - 1)]
      BY <1>5, <3>1
    <3>3. hsum = q[m - 1] + hist[1]
      BY <1>2, <1>5, <3>1, <3>2
    <3>4. hist[1] \in Int
      <4>1. hist \in Seq(0 .. 100)
        BY DEF TypeOK, DharmaNetTypeOK
      <4>2. \A i \in 1 .. m : hist[i] \in 0 .. 100
        <5> SUFFICES ASSUME NEW i \in 1 .. m PROVE hist[i] \in 0 .. 100
          OBVIOUS
        <5>1. i \in 1 .. Len(hist)
          BY DEF m
        <5> QED
          BY <4>1, <5>1, ElementOfSeq
      <4>3. 1 \in 1 .. m
        BY <1>2, <1>3, <3>1
      <4>4. hist[1] \in 0 .. 100
        BY <4>2, <4>3, Zenon
      <4>5. 0 .. 100 \subseteq Int
        OBVIOUS
      <4> QED
        BY <4>4, <4>5, Zenon
    <3>5. q[m - 1] \in Int
      BY <3>1
    <3> QED
      BY <1>1, <1>3, <2>1, <2>3, <3>1, <3>3, <3>4, <3>5
  <2> QED
    BY <2>2, <2>3
<1>10. ASSUME high' = 0
       PROVE  \A j \in 0 .. n : j <= age' => r[j] <= j * WarnEnter
  <2> SUFFICES ASSUME NEW j \in 0 .. n, j <= age' PROVE r[j] <= j * WarnEnter
    OBVIOUS
  <2>1. high = 0 /\ pa <= WarnEnter
    BY <1>1, <1>2, <1>6, <1>10, ConstantFacts
  <2>2. CASE j = 0
    BY <1>7, <2>2, ConstantFacts
  <2>3. CASE j > 0
    <3>1. j - 1 \in 0 .. m
      BY <1>2, <1>3, <2>3
    <3>2. j - 1 <= age
      BY <1>2, <1>6
    <3>3. j \in 1 .. SmoothWin /\ j - 1 \in 0 .. SmoothWin
      BY <1>3, <2>3, ConstantFacts
    <3>4. q[j - 1] <= (j - 1) * WarnEnter
      BY <1>5, <2>1, <3>1, <3>2
    <3>5. q[j - 1] \in Int
      BY <3>3
    <3>6. r[j] = q[j - 1] + pa
      BY <1>7, <3>3
    <3>7. (j - 1) * WarnEnter + WarnEnter = j * WarnEnter
      BY ConstantFacts
    <3>8. (j - 1) * WarnEnter \in Int /\ j * WarnEnter \in Int
      BY ConstantFacts
    <3> QED
      BY <1>1, <2>1, <3>4, <3>5, <3>6, <3>7, <3>8, ConstantFacts
  <2> QED
    BY <1>3, <2>2, <2>3
<1>11. WindowInv'
  <2>1. Sums(r)'
    BY <1>3, <1>7, <1>8, <1>9, <1>10 DEF Sums, n
  <2> QED
    BY <1>7, <2>1 DEF WindowInv
<1>12. high' = 0 /\ age' >= SmoothWin => Smoothed(pa) <= WarnEnter
  <2> SUFFICES ASSUME high' = 0, age' >= SmoothWin PROVE Smoothed(pa) <= WarnEnter
    OBVIOUS
  <2>1. CASE n = SmoothWin
    <3>1. hsum' <= SmoothWin * WarnEnter /\ hsum' \in Int
      BY <1>3, <1>6, <1>7, <1>9, <1>10, <2>1, ConstantFacts
    <3> QED
      BY <2>1, <3>1, AverageBound, ConstantFacts DEF Smoothed, n
  <2>2. CASE n # SmoothWin
    BY <1>1, <1>6, <2>2, ConstantFacts DEF Smoothed, n
  <2> QED
    BY <2>1, <2>2
<1> QED
  BY <1>11, <1>12

LEMMA InitWindow == HistoryInit => WindowInv /\ QuietInv
<1> SUFFICES ASSUME HistoryInit PROVE WindowInv /\ QuietInv
  OBVIOUS
<1> DEFINE r == [j \in 0 .. SmoothWin |-> 0]
<1>1. r \in [0 .. SmoothWin -> Int] /\ r[0] = 0
  BY ConstantFacts
<1>2. hist = <<>> /\ Len(hist) = 0 /\ hsum = 0 /\ age = 0
  BY DEF HistoryInit, DharmaNetInit
<1> HIDE DEF r
<1>3. Sums(r)
  BY <1>1, <1>2, ConstantFacts DEF Sums
<1> QED
  BY <1>1, <1>3 DEF WindowInv, QuietInv, HistoryInit, DharmaNetInit

LEMMA WindowStep ==
  ASSUME Inv, WindowInv, QuietInv, [HistoryNext]_vars
  PROVE  WindowInv' /\ QuietInv'
<1>1. CASE Looks \/ Idles \/ Publish \/ UNCHANGED vars
  <2>1. UNCHANGED <<severity_buf, level, hist, hsum, age, high>>
    BY <1>1 DEF Looks, Idles, Publish, vars, DnLook, DnIdle, dharmaVars, levelVars,
       historyVars
  <2>2. \A q : Sums(q) => Sums(q)'
    BY <2>1 DEF Sums
  <2>3. WindowInv'
    BY <2>2 DEF WindowInv
  <2> QED
    BY <2>1, <2>3 DEF QuietInv
<1>2. CASE Recovers
  <2>1. UNCHANGED <<hist, hsum>> /\ age' = 0 /\ level' = "ok"
    BY <1>2 DEF Recovers, DnRecover
  <2>2. PICK q \in [0 .. SmoothWin -> Int] : Sums(q)
    BY DEF WindowInv
  <2>3. hist \in Seq(0 .. 100)
    BY DEF Inv, TypeOK, DharmaNetTypeOK
  <2>4. Sums(q)'
    BY <2>1, <2>2, <2>3, ConstantFacts DEF Sums
  <2> QED
    BY <2>1, <2>2, <2>4 DEF WindowInv, QuietInv
<1>3. CASE SampleStep
  <2>1. PICK pa \in Shares : Samples(pa)
    BY <1>3 DEF SampleStep
  <2>2. WindowInv'
    BY <2>1, SampleWindow DEF Inv
  <2>3. QuietInv'
    BY <2>1 DEF Samples, DnSample, Severity, QuietInv
  <2> QED
    BY <2>2, <2>3
<1> QED
  BY <1>1, <1>2, <1>3 DEF HistoryNext

\* A warning that no share since the recovery would raise comes while the window
\* still holds shares from before it, whatever the window and the thresholds, if
\* CRIT is not entered below WARN (dharmanet.c lines 29 and 36).
THEOREM CarryOversAreBounded ==
  ASSUME WarnEnter <= CritEnter
  PROVE  HistorySpec => CarryOverIsBounded
<1>1. Inv /\ WindowInv /\ QuietInv /\ [HistoryNext]_vars
        => [severity_buf = 0 /\ severity_buf' > 0 /\ high' = 0 => age' < SmoothWin]_vars
  <2> SUFFICES ASSUME Inv, WindowInv, QuietInv, [HistoryNext]_vars,
                      severity_buf = 0, severity_buf' > 0, high' = 0
               PROVE  age' < SmoothWin
    OBVIOUS
  <2>1. severity_buf' # severity_buf /\ age' \in Int
    BY InvStep, ConstantFacts DEF Inv, TypeOK
  <2>2. CASE SampleStep
    <3>1. PICK pa \in Shares : Samples(pa)
      BY <2>2 DEF SampleStep
    <3> SUFFICES ASSUME age' >= SmoothWin PROVE FALSE
      BY <2>1, ConstantFacts
    <3>2. Smoothed(pa) <= WarnEnter
      BY <3>1, SampleWindow DEF Inv
    <3>3. Smoothed(pa) \in Int
      <4>1. pa \in 0 .. 100 /\ Smooth(pa)
        BY <3>1, DharmaNetAssumption DEF Samples, DnSample, Severity
      <4> QED
        BY <4>1, SmoothType DEF Inv
    <3> DEFINE sp == Smoothed(pa)
    <3>4. level' = WarnLevel(CritLevel(sp), sp) /\ level = "ok"
      BY <3>1 DEF Samples, DnSample, QuietInv
    <3>5. severity_buf' = Severity
      BY <3>1 DEF Samples, DnSample
    <3> HIDE DEF sp
    <3>6. sp \in Int /\ sp <= WarnEnter
      BY <3>2, <3>3 DEF sp
    <3>7. level' = "ok"
      BY <3>4, <3>6, ConstantFacts DEF WarnLevel, CritLevel
    <3> QED
      BY <3>5, <3>7 DEF Severity
  <2>3. CASE Looks \/ Idles \/ Publish \/ Recovers \/ UNCHANGED vars
    BY <2>1, <2>3 DEF Looks, DnLook, Idles, DnIdle, Publish, Recovers, DnRecover, vars
  <2> QED
    BY <2>2, <2>3 DEF HistoryNext
<1>2. Inv /\ WindowInv /\ QuietInv /\ [HistoryNext]_vars => WindowInv' /\ QuietInv'
  BY WindowStep
<1>3. HistorySpec => [](WindowInv /\ QuietInv)
  BY InitWindow, Invariance, <1>2, PTL DEF HistorySpec
<1> QED
  BY <1>1, <1>3, Invariance, PTL DEF HistorySpec, CarryOverIsBounded

==============================================================================
