------------------------------- MODULE Alerts -------------------------------
(***************************************************************************)
(* What the intake and the correlator share: the fingerprints Alertmanager *)
(* identifies alerts by, and the wall clock.                               *)
(***************************************************************************)
EXTENDS Integers

CONSTANTS
  Fingerprints,
  MaxTime        \* bound on the clock

ASSUME ClockAssumption == MaxTime \in Nat

VARIABLE now

(* The clock stops at MaxTime, which stands for every later time.          *)
Passed(t) == t <= now \/ now = MaxTime

=============================================================================
