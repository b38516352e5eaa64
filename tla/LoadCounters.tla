----------------------------- MODULE LoadCounters -----------------------------
(***************************************************************************)
(* WorkerA and WorkerB count their work in one dataport each, and          *)
(* DharmaNet of dharmanet_severity reads both counters, zeroes them, and   *)
(* makes a warning of WorkerA's share.  Nothing is locked: a worker's      *)
(* increment is a read and a write, DharmaNet reads one counter after the  *)
(* other and zeroes them later, and any of this may interleave.            *)
(*                                                                         *)
(* verse_unified samples the same way but zeroes b before a, so that both  *)
(* orders are allowed here; what it does with the sample is in DharmaNet.  *)
(***************************************************************************)
EXTENDS Integers

CONSTANTS
  WarnEnter,   \* 55
  WarnExit,    \* 45
  WarnDwell,   \* 3
  CountBound   \* bound: a worker waits for DharmaNet when its counter is here

ASSUME LoadCountersAssumption ==
  /\ {WarnEnter, WarnExit} \subseteq 0 .. 100
  /\ {WarnDwell, CountBound} \subseteq Nat \ {0}

VARIABLES
  count,              \* dataports workerA_buf and workerB_buf
  wpc, copy,          \* each worker: next access, register of its increment
  dnPc, next,         \* DharmaNet: what it does next, and to which counter
  sample,             \* DharmaNet: ta and tb
  warn_count, ok_count, warned, previous_severity,
  first,              \* the counter that is zeroed first
  worked,             \* history: increments stored since the counter was zeroed
  unseen,             \* history: of these, the ones since DharmaNet read it
  torn                \* history: 1 if the zeroing fell into an increment

dharmaVars == <<dnPc, next, sample, warn_count, ok_count, warned, previous_severity>>
vars == <<count, wpc, copy, dharmaVars, first, worked, unseen, torn>>

Workers == {"a", "b"}
Other(w) == CHOOSE v \in Workers : v # w

Init ==
  /\ count = [w \in Workers |-> 0]
  /\ wpc = [w \in Workers |-> "clear"]
  /\ copy = [w \in Workers |-> 0]
  /\ dnPc = "read" /\ next = "a"
  /\ sample = [w \in Workers |-> 0]
  /\ warn_count = 0 /\ ok_count = 0 /\ warned = 0 /\ previous_severity = -1
  /\ first \in Workers
  /\ worked = [w \in Workers |-> 0]
  /\ unseen = [w \in Workers |-> 0]
  /\ torn = [w \in Workers |-> 0]

\* The counter has been read in this epoch and not yet been zeroed.
Read(w) ==
  \/ dnPc = "read" /\ next = "b" /\ w = "a"
  \/ dnPc = "zero" /\ (next = first \/ next = w)

\* *c = 0, before the first increment
Clear(w) ==
  /\ wpc[w] = "clear"
  /\ count' = [count EXCEPT ![w] = 0]
  /\ wpc' = [wpc EXCEPT ![w] = "load"]
  /\ UNCHANGED <<copy, dharmaVars, first, worked, unseen, torn>>

\* The increment: its read.
Load(w) ==
  /\ wpc[w] = "load"
  /\ count[w] < CountBound
  /\ copy' = [copy EXCEPT ![w] = count[w]]
  /\ wpc' = [wpc EXCEPT ![w] = "store"]
  /\ UNCHANGED <<count, dharmaVars, first, worked, unseen, torn>>

\* The increment: its write.
Store(w) ==
  /\ wpc[w] = "store"
  /\ count' = [count EXCEPT ![w] = copy[w] + 1]
  /\ wpc' = [wpc EXCEPT ![w] = "load"]
  /\ worked' = [worked EXCEPT ![w] = @ + 1]
  /\ unseen' = [unseen EXCEPT ![w] = IF Read(w) THEN @ + 1 ELSE @]
  /\ UNCHANGED <<copy, dharmaVars, first, torn>>

WorkerStep(w) == Clear(w) \/ Load(w) \/ Store(w)

\* ta = *a, then tb = *b
ReadCounter ==
  /\ dnPc = "read"
  /\ sample' = [sample EXCEPT ![next] = count[next]]
  /\ IF next = "a" THEN next' = "b" /\ UNCHANGED dnPc
                   ELSE next' = first /\ dnPc' = "zero"
  /\ UNCHANGED <<count, wpc, copy, warn_count, ok_count, warned, previous_severity,
                 first, worked, unseen, torn>>

\* Mutant of ZeroCounter: only the first counter is zeroed.
ZeroFirstOnly ==
  /\ dnPc = "zero"
  /\ count' = [count EXCEPT ![next] = IF next = first THEN 0 ELSE @]
  /\ IF next = first THEN next' = Other(first) /\ UNCHANGED dnPc
                     ELSE next' = "a" /\ dnPc' = "judge"
  /\ worked' = [worked EXCEPT ![next] = 0]
  /\ unseen' = [unseen EXCEPT ![next] = 0]
  /\ torn' = [torn EXCEPT ![next] = IF wpc[next] = "store" THEN 1 ELSE 0]
  /\ UNCHANGED <<wpc, copy, sample, warn_count, ok_count, warned, previous_severity, first>>

\* *a = 0 and *b = 0
ZeroCounter ==
  /\ dnPc = "zero"
  /\ count' = [count EXCEPT ![next] = 0]
  /\ IF next = first THEN next' = Other(first) /\ UNCHANGED dnPc
                     ELSE next' = "a" /\ dnPc' = "judge"
  /\ worked' = [worked EXCEPT ![next] = 0]
  /\ unseen' = [unseen EXCEPT ![next] = 0]
  /\ torn' = [torn EXCEPT ![next] = IF wpc[next] = "store" THEN 1 ELSE 0]
  /\ UNCHANGED <<wpc, copy, sample, warn_count, ok_count, warned, previous_severity, first>>

\* if (!total) continue
Skip ==
  /\ dnPc = "judge"
  /\ sample["a"] + sample["b"] = 0
  /\ dnPc' = "read"
  /\ UNCHANGED <<next, sample, warn_count, ok_count, warned, previous_severity, count,
                 wpc, copy, first, worked, unseen, torn>>

Percent == (sample["a"] * 100) \div (sample["a"] + sample["b"])

\* The warning with its two thresholds and its dwell, and the log of a change.
Judge ==
  /\ dnPc = "judge"
  /\ sample["a"] + sample["b"] > 0
  /\ LET rises == warned = 0 /\ Percent > WarnEnter
         falls == warned = 1 /\ Percent < WarnExit
         turns == (rises /\ warn_count + 1 >= WarnDwell) \/ (falls /\ ok_count + 1 >= WarnDwell)
     IN  /\ warned' = IF turns THEN 1 - warned ELSE warned
         /\ warn_count' = IF rises /\ ~turns THEN warn_count + 1 ELSE 0
         /\ ok_count' = IF falls /\ ~turns THEN ok_count + 1 ELSE 0
  /\ previous_severity' = warned'
  /\ dnPc' = "read"
  /\ UNCHANGED <<next, sample, count, wpc, copy, first, worked, unseen, torn>>

DharmaStep == ReadCounter \/ ZeroCounter \/ Skip \/ Judge

Next == (\E w \in Workers : WorkerStep(w)) \/ DharmaStep

Spec == Init /\ [][Next]_vars
\* DharmaNet's thread keeps getting the core; nothing is assumed of the workers.
FairSpec == Spec /\ WF_vars(DharmaStep)

------------------------------------------------------------------------------

TypeOK ==
  /\ count \in [Workers -> 0 .. CountBound]
  /\ wpc \in [Workers -> {"clear", "load", "store"}]
  /\ copy \in [Workers -> 0 .. CountBound]
  /\ \A w \in Workers : wpc[w] = "store" => copy[w] < CountBound
  /\ dnPc \in {"read", "zero", "judge"}
  /\ next \in Workers /\ first \in Workers
  /\ sample \in [Workers -> 0 .. CountBound]
  /\ warn_count \in 0 .. (WarnDwell - 1) /\ ok_count \in 0 .. (WarnDwell - 1)
  /\ warned \in {0, 1} /\ previous_severity \in {-1, 0, 1}
  /\ worked \in [Workers -> Nat] /\ unseen \in [Workers -> Nat]
  /\ torn \in [Workers -> {0, 1}]

\* What DharmaNet finds of an epoch's work, in the counter or in its sample: all
\* of it but what was added between its read and its zeroing (lines 28 to 31),
\* and nothing else unless the zeroing before it fell into an increment, whose
\* write then brings the old count back.
CountIsHonest ==
  \A w \in Workers :
    LET found == IF Read(w) THEN sample[w] + unseen[w] ELSE count[w]
    IN  /\ found >= worked[w]
        /\ torn[w] = 0 => found = worked[w]

\* A worker that stops, wherever in its increment, is out of the judgement: the
\* other one's share decides alone, if epochs with work in them go on.
LoneWorkerDecides ==
  []<><<Judge>>_vars =>
    /\ <>[][~WorkerStep("b")]_vars => <>[](warned = 1)
    /\ <>[][~WorkerStep("a")]_vars => <>[](warned = 0)

==============================================================================
