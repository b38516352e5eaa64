-------------------------- MODULE LoadCountersProofs --------------------------
(***************************************************************************)
(* Proofs about LoadCounters for every bound of the counters, every dwell, *)
(* all thresholds and both orders of zeroing: the types, and what DharmaNet*)
(* finds of the workers' unlocked increments.                              *)
(***************************************************************************)
EXTENDS LoadCounters, TLAPS

\* An increment under way holds the count as it was before it, or an older one
\* if the counter has been zeroed since.
StoreInv ==
  \A w \in Workers :
    wpc[w] = "store" => count[w] <= copy[w] /\ (torn[w] = 0 => count[w] = copy[w])

\* Unseen work exists only between DharmaNet's read and its zeroing, and none
\* before a worker has started.
EpochInv ==
  /\ dnPc = "judge" => next = "a"
  /\ \A w \in Workers :
       /\ ~Read(w) => unseen[w] = 0
       /\ wpc[w] = "clear" => count[w] = 0 /\ worked[w] = 0

Inv == TypeOK /\ StoreInv /\ EpochInv /\ CountIsHonest

LEMMA ConstantFacts ==
  /\ WarnDwell \in Nat /\ WarnDwell > 0
  /\ CountBound \in Nat /\ CountBound > 0
  BY LoadCountersAssumption

LEMMA OtherWorker == Other("a") = "b" /\ Other("b") = "a"
  BY DEF Other, Workers

LEMMA InitInv == Init => Inv
  BY ConstantFacts
  DEF Init, Inv, TypeOK, StoreInv, EpochInv, CountIsHonest, Read, Workers

LEMMA TypeStep == TypeOK /\ [Next]_vars => TypeOK'
<1> SUFFICES ASSUME TypeOK, [Next]_vars PROVE TypeOK'
    OBVIOUS
<1> USE ConstantFacts DEF TypeOK
<1>1. ASSUME NEW w \in Workers, WorkerStep(w) PROVE TypeOK'
  <2>1. CASE Clear(w)
    BY <2>1 DEF Clear, dharmaVars
  <2>2. CASE Load(w)
    BY <2>2 DEF Load, dharmaVars
  <2>3. CASE Store(w)
    BY <2>3 DEF Store, dharmaVars
  <2> QED
    BY <1>1, <2>1, <2>2, <2>3 DEF WorkerStep
<1>2. CASE ReadCounter
  BY <1>2 DEF ReadCounter, Workers
<1>3. CASE ZeroCounter
  BY <1>3, OtherWorker DEF ZeroCounter, Workers
<1>4. CASE Skip
  BY <1>4 DEF Skip
<1>5. CASE Judge
  BY <1>5 DEF Judge
<1>6. CASE UNCHANGED vars
  BY <1>6 DEF vars, dharmaVars
<1> QED
  BY <1>1, <1>2, <1>3, <1>4, <1>5, <1>6 DEF Next, DharmaStep

LEMMA HonestStep ==
  Inv /\ [Next]_vars => StoreInv' /\ EpochInv' /\ CountIsHonest'
<1> SUFFICES ASSUME Inv, [Next]_vars
             PROVE  StoreInv' /\ EpochInv' /\ CountIsHonest'
    OBVIOUS
<1> USE ConstantFacts DEF Inv, TypeOK, StoreInv, EpochInv, CountIsHonest, Read
<1>1. ASSUME NEW w \in Workers, WorkerStep(w)
      PROVE  StoreInv' /\ EpochInv' /\ CountIsHonest'
  <2>1. CASE Clear(w)
    BY <2>1 DEF Clear, dharmaVars
  <2>2. CASE Load(w)
    BY <2>2 DEF Load, dharmaVars
  <2>3. CASE Store(w)
    BY <2>3 DEF Store, dharmaVars
  <2> QED
    BY <1>1, <2>1, <2>2, <2>3 DEF WorkerStep
<1>2. CASE ReadCounter
  BY <1>2 DEF ReadCounter, Workers
<1>3. CASE ZeroCounter
  BY <1>3, OtherWorker DEF ZeroCounter, Workers
<1>4. CASE Skip
  BY <1>4 DEF Skip, Workers
<1>5. CASE Judge
  BY <1>5 DEF Judge, Workers
<1>6. CASE UNCHANGED vars
  BY <1>6 DEF vars, dharmaVars
<1> QED
  BY <1>1, <1>2, <1>3, <1>4, <1>5, <1>6 DEF Next, DharmaStep

LEMMA Invariance == Spec => []Inv
<1>1. Inv /\ [Next]_vars => Inv'
  BY TypeStep, HonestStep DEF Inv
<1> QED
  BY InitInv, <1>1, PTL DEF Spec

\* The counters, the sample and the dwell counts stay in their ranges.
THEOREM TypeCorrect == Spec => []TypeOK
<1>1. Inv => TypeOK
  BY DEF Inv
<1> QED
  BY Invariance, <1>1, PTL

\* However the unlocked accesses interleave, an epoch misses only the increments
\* between a read and its zeroing, and counts nothing twice unless the zeroing
\* fell into an increment.
THEOREM SampleIsHonest == Spec => []CountIsHonest
<1>1. Inv => CountIsHonest
  BY DEF Inv
<1> QED
  BY Invariance, <1>1, PTL

==============================================================================
