---------------------------- MODULE MCScheduler ----------------------------
(* Instances of Scheduler for TLC. *)
EXTENDS Scheduler

CONSTANTS a, b, p, t, u

MCTriggers == LogicalActions \cup PhysicalActions \cup Timers \cup {STARTUP, SHUTDOWN}

(* a has no min_delay, b and p have one *)
MCMinDelay == [x \in LogicalActions \cup PhysicalActions |-> IF x = a THEN 0 ELSE 1]

(* t triggers at 0 and 2, u at 1 only *)
MCTimerOffset == [x \in Timers |-> IF x = t THEN 0 ELSE 1]
MCTimerPeriod == [x \in Timers |-> IF x = t THEN 2 ELSE 0]

(* actions b and p trigger no reaction *)
MCReacting == Triggers \ {b, p}
=============================================================================
