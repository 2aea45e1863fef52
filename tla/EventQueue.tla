----------------------------- MODULE EventQueue -----------------------------
(***************************************************************************)
(* EventQueue of scheduler/events.rs: a VecDeque of events sorted by tag.  *)
(* The scheduler pushes events in any order and takes the earliest one.    *)
(***************************************************************************)
EXTENDS Events

CONSTANTS
  PushedTags,   \* the tags events are pushed for
  Nothing       \* None of take_earliest

ASSUME PushedTagsAssumption == PushedTags \subseteq Tags

VARIABLES
  value_list,
  pushed,       \* history: the argument of the last call, if it was a push
  taken         \* history: the result of the last call, if it was take_earliest

vars == <<value_list, pushed, taken>>

Init == value_list = <<>> /\ pushed = Nothing /\ taken = Nothing

PushEvent(evt) ==
  /\ value_list' = Push(value_list, evt)
  /\ pushed' = evt /\ taken' = Nothing

(* take_earliest: pop_front *)
TakeEarliest ==
  /\ pushed' = Nothing
  /\ IF value_list = <<>>
       THEN taken' = Nothing /\ UNCHANGED value_list
       ELSE taken' = Head(value_list) /\ value_list' = Tail(value_list)

Next ==
  \/ \E tag \in PushedTags, plan \in SUBSET Triggers, stop \in BOOLEAN :
       PushEvent([tag |-> tag, reactions |-> plan, terminate |-> stop])
  \/ TakeEarliest

Spec == Init /\ [][Next]_vars

-----------------------------------------------------------------------------
TypeOK ==
  /\ value_list \in Seq(Events)
  /\ pushed \in Events \cup {Nothing}
  /\ taken \in Events \cup {Nothing}

(* The list is strictly ascending by tag, which both the binary search of push
   and the pop_front of take_earliest rely on. *)
QueueSorted == Sorted(value_list)

(* The list behaves as a set with one event for each tag: whatever the order of
   the pushes, the earliest event comes out, with everything pushed for it. *)
Contents == {value_list[i] : i \in DOMAIN value_list}
Agenda == INSTANCE EventAgenda WITH pending <- Contents
ImplementsAgenda == Agenda!Spec
=============================================================================
