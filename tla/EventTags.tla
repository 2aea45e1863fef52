----------------------------- MODULE EventTags -----------------------------
(***************************************************************************)
(* Tags of reactor-rs, scheduler/events.rs and time.rs: superdense logical *)
(* time.  A tag is an offset from the start of the program plus a          *)
(* microstep, ordered lexicographically (the derived Ord of EventTag).     *)
(* Offsets are abstract time units, counted from initial_time = 0.         *)
(***************************************************************************)
EXTENDS Naturals

CONSTANT MicroMax          \* largest MicroStep: 2^32 - 1 in the code (MS = u32)

ASSUME MicroMaxAssumption == MicroMax \in Nat \ {0}

Tags == [offset : Nat, micro : 0..MicroMax]

ORIGIN == [offset |-> 0, micro |-> 0]

(* The derived Ord: field by field, in declaration order. *)
Before(s, t) ==
  \/ s.offset < t.offset
  \/ s.offset = t.offset /\ s.micro < t.micro

AtOrBefore(s, t) == s = t \/ Before(s, t)

(* EventTag::absolute and EventTag::now: microstep zero of an instant. *)
Absolute(instant) == [offset |-> instant, micro |-> 0]

(* Microsteps are added on u32: a release build wraps. *)
NextMicrostep(t) == [t EXCEPT !.micro = (t.micro + 1) % (MicroMax + 1)]

(* Faulty variant of Successor: a zero offset stays at the tag. *)
SuccessorInPlace(t, offset) ==
  IF offset = 0 THEN t ELSE Absolute(t.offset + offset)

(* EventTag::successor: a zero offset still moves one microstep on. *)
Successor(t, offset) ==
  IF offset = 0 THEN NextMicrostep(t) ELSE Absolute(t.offset + offset)
=============================================================================
