------------------------------- MODULE Ports -------------------------------
(***************************************************************************)
(* The ports of a program and their shared cells (ports.rs).  A port       *)
(* refers to a cell with the value of the current tag; ports that are      *)
(* bound to each other share the cell of the one that is free, so that a   *)
(* value set there can be read at all of them.                             *)
(*                                                                         *)
(* A cell is known by the port that it was created with.                   *)
(***************************************************************************)
CONSTANTS Ports, Values, Absent

ASSUME ValuesAssumption == Absent \notin Values

VARIABLES
  cell,          \* upstream_binding: the cell that each port refers to
  downstreams,   \* PortCell::downstreams: the ports listed in each cell
  bound,         \* ports whose bind_status is Bound
  value          \* PortCell::value of each cell

portVars == <<cell, downstreams, bound, value>>

PortsInit ==
  /\ cell = [p \in Ports |-> p]
  /\ downstreams = [p \in Ports |-> {}]
  /\ bound = {}
  /\ value = [p \in Ports |-> Absent]

(* Faulty variant of IsBound: a port may have any number of upstream ports. *)
IsNeverBound(down) == FALSE

IsBound(down) == down \in bound

(* forward_to lists the downstream port in the cell of the upstream one, *)
Listed(up, down) == [downstreams EXCEPT ![cell[up]] = @ \cup {down}]

(* check_cycle: then looks the upstream port up in the cell of the downstream
   one, *)
FindsCycle(up, down) == up \in Listed(up, down)[cell[down]]

(* Faulty variant of Redirected: the ports below are forgotten. *)
RedirectedAlone(up, down) == [cell EXCEPT ![down] = cell[up]]

(* set_upstream: and makes the ports listed there, and the downstream port,
   refer to the cell of the upstream one. *)
Redirected(up, down) ==
  [p \in Ports |-> IF p = down \/ p \in Listed(up, down)[cell[down]] THEN cell[up] ELSE cell[p]]

(* forward_to, when it returns Ok *)
ForwardTo(up, down) ==
  /\ ~IsBound(down) /\ ~FindsCycle(up, down)
  /\ downstreams' = Listed(up, down)
  /\ bound' = bound \cup {down}
  /\ cell' = Redirected(up, down)
  /\ UNCHANGED value

(* use_ref, get *)
Read(p) == value[cell[p]]

(* set_impl *)
SetImpl(p, v) ==
  /\ p \notin bound
  /\ value' = [value EXCEPT ![cell[p]] = v]
  /\ UNCHANGED <<cell, downstreams, bound>>

(* Faulty variant of Cleared: only ports that nothing is bound to are cleared. *)
ClearedUnshared ==
  [c \in Ports |-> IF \E p \in Ports \ bound : cell[p] = c /\ downstreams[c] = {} THEN Absent ELSE value[c]]

(* clear_value of every port *)
Cleared == [c \in Ports |-> IF \E p \in Ports \ bound : cell[p] = c THEN Absent ELSE value[c]]

PortsTypeOK ==
  /\ cell \in [Ports -> Ports]
  /\ downstreams \in [Ports -> SUBSET Ports]
  /\ bound \subseteq Ports
  /\ value \in [Ports -> Values \cup {Absent}]
=============================================================================
