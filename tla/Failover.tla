------------------------------ MODULE Failover ------------------------------
(***************************************************************************)
(* What the recovery loop promises, with no flag, no heartbeat and no      *)
(* kernel call: a unit serves; after a detected failure it is either       *)
(* revived in place or retired for good and replaced by a unit that has    *)
(* never been retired; the number of attempts is bounded; and giving up is *)
(* final.  Two units never run together, and whenever the supervisor is    *)
(* back at monitoring exactly one runs.                                    *)
(***************************************************************************)
EXTENDS Integers

CONSTANTS Units, FirstUnit, MaxAttempts

VARIABLES
  phase,      \* "monitoring", "recovering" or "quarantined"
  attempts,   \* recoveries begun
  running,    \* the units that run
  retired     \* the units that never run again

failoverVars == <<phase, attempts, running, retired>>

FailoverInit ==
  /\ phase = "monitoring"
  /\ attempts = 0
  /\ running = {FirstUnit}
  /\ retired = {}

Detect ==
  /\ phase = "monitoring"
  /\ attempts < MaxAttempts
  /\ attempts' = attempts + 1
  /\ phase' = "recovering"
  /\ UNCHANGED <<running, retired>>

\* The unit is left in place: it revived, or the attempt timed out.
Keep ==
  /\ phase = "recovering"
  /\ running # {}
  /\ phase' = "monitoring"
  /\ UNCHANGED <<attempts, running, retired>>

Retire ==
  /\ phase = "recovering"
  /\ running # {}
  /\ retired' = retired \cup running
  /\ running' = {}
  /\ UNCHANGED <<phase, attempts>>

Replace ==
  /\ phase = "recovering"
  /\ running = {}
  /\ \E u \in Units \ retired : running' = {u}
  /\ phase' = "monitoring"
  /\ UNCHANGED <<attempts, retired>>

\* The replacement failed: nothing runs any more.
Abandon ==
  /\ phase = "recovering"
  /\ running = {}
  /\ phase' = "quarantined"
  /\ UNCHANGED <<attempts, running, retired>>

\* A failure with every attempt used up.
Exhaust ==
  /\ phase = "monitoring"
  /\ attempts = MaxAttempts
  /\ attempts' = attempts + 1
  /\ phase' = "quarantined"
  /\ UNCHANGED <<running, retired>>

\* The load monitor escalated.
Escalate ==
  /\ phase = "monitoring"
  /\ phase' = "quarantined"
  /\ UNCHANGED <<attempts, running, retired>>

FailoverNext ==
  Detect \/ Keep \/ Retire \/ Replace \/ Abandon \/ Exhaust \/ Escalate

FailoverSpec == FailoverInit /\ [][FailoverNext]_failoverVars

==============================================================================
