---------------------------- MODULE MCEventQueue ----------------------------
(* An instance of EventQueue for TLC: tags that differ in the offset, in the
   microstep, and in both directions at once. *)
EXTENDS EventQueue

MCPushedTags == {[offset |-> 0, micro |-> 1], [offset |-> 1, micro |-> 0], [offset |-> 1, micro |-> 1]}
=============================================================================
