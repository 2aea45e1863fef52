------------------------------- MODULE Events -------------------------------
(***************************************************************************)
(* Events and the operations of EventQueue, scheduler/events.rs.           *)
(*                                                                         *)
(* A reaction plan (Option<Cow<ExecutableReactions>>) is abstracted to the *)
(* set of triggers whose reactions it holds: reactions_triggered_by is a   *)
(* function of the trigger and merge_cows is a union, so the reactions of  *)
(* a plan are the union of the reactions of its triggers.  None is {}.     *)
(***************************************************************************)
EXTENDS EventTags, Sequences

CONSTANT Triggers

Events == [tag : Tags, reactions : SUBSET Triggers, terminate : BOOLEAN]

(* Event::execute and Event::terminate_at; PhysicalEvent::trigger and
   PhysicalEvent::terminate_at, seen through make_executable. *)
Execute(tag, trigger) ==
  [tag |-> tag, reactions |-> {trigger}, terminate |-> FALSE]
TerminateAt(tag) ==
  [tag |-> tag, reactions |-> {}, terminate |-> TRUE]

(* Faulty variant of Absorb: the other event's stop request is forgotten. *)
AbsorbPlan(evt, other) ==
  [evt EXCEPT !.reactions = @ \cup other.reactions]

(* Event::absorb *)
Absorb(evt, other) ==
  [tag |-> evt.tag,
   reactions |-> evt.reactions \cup other.reactions,
   terminate |-> evt.terminate \/ other.terminate]

(* The order of the queue: strictly ascending tags, so at most one event
   for each tag. *)
Sorted(queue) ==
  \A i, j \in DOMAIN queue : i < j => Before(queue[i].tag, queue[j].tag)

(* VecDeque::binary_search_by_key, by its contract on a sorted queue: Ok(i)
   is an i with Hit(queue, tag, i), Err(i) an i with Gap(queue, tag, i). *)
Hit(queue, tag, i) == i \in DOMAIN queue /\ queue[i].tag = tag
Gap(queue, tag, i) ==
  /\ i \in 1..(Len(queue) + 1)
  /\ \A j \in DOMAIN queue : IF j < i THEN Before(queue[j].tag, tag)
                                      ELSE Before(tag, queue[j].tag)

(* EventQueue::push *)
InsertAt(queue, i, evt) ==
  [j \in 1..(Len(queue) + 1) |-> IF j < i THEN queue[j]
                                 ELSE IF j = i THEN evt ELSE queue[j - 1]]

(* Faulty variants of Push: without the binary search; with the later event of
   a tag in place of the earlier one. *)
PushBack(queue, evt) == Append(queue, evt)
PushReplace(queue, evt) ==
  IF \E i \in DOMAIN queue : Hit(queue, evt.tag, i)
    THEN [i \in DOMAIN queue |-> IF queue[i].tag = evt.tag THEN evt ELSE queue[i]]
    ELSE InsertAt(queue, CHOOSE i \in 1..(Len(queue) + 1) : Gap(queue, evt.tag, i), evt)

Push(queue, evt) ==
  IF \E i \in DOMAIN queue : Hit(queue, evt.tag, i)
    THEN LET i == CHOOSE i \in DOMAIN queue : Hit(queue, evt.tag, i)
         IN  [queue EXCEPT ![i] = Absorb(queue[i], evt)]
    ELSE InsertAt(queue, CHOOSE i \in 1..(Len(queue) + 1) : Gap(queue, evt.tag, i), evt)

(* The work of an event: one pair for each of its triggers.  The tags of a
   sequence of events, and its work. *)
Work(evt) == {evt.tag} \X evt.reactions
TagsOf(evts) == {evts[i].tag : i \in DOMAIN evts}
WorkOf(evts) == UNION {Work(evts[i]) : i \in DOMAIN evts}
=============================================================================
