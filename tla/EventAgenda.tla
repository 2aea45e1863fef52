---------------------------- MODULE EventAgenda ----------------------------
(***************************************************************************)
(* What EventQueue promises: a set of pending events, one for each tag,    *)
(* where posting for a tag that is already pending unites the two events,  *)
(* and taking returns an event of the earliest tag.                        *)
(***************************************************************************)
EXTENDS EventTags

CONSTANTS Triggers, PushedTags, Nothing

VARIABLES
  pending,
  pushed,      \* the argument of the last operation, if it was a post
  taken        \* what the last operation returned, if it was a take

(* What the set with evt added holds for the tag of evt. *)
United(evt) ==
  LET same == {e \in pending : e.tag = evt.tag} \cup {evt} IN
    [tag |-> evt.tag,
     reactions |-> UNION {e.reactions : e \in same},
     terminate |-> \E e \in same : e.terminate]

Init == pending = {} /\ pushed = Nothing /\ taken = Nothing

Post(evt) ==
  /\ pending' = {e \in pending : e.tag # evt.tag} \cup {United(evt)}
  /\ pushed' = evt /\ taken' = Nothing

Take ==
  \E e \in pending :
    /\ \A other \in pending : AtOrBefore(e.tag, other.tag)
    /\ pending' = pending \ {e}
    /\ taken' = e /\ pushed' = Nothing

TakeNothing ==
  /\ pending = {} /\ pending' = {}
  /\ taken' = Nothing /\ pushed' = Nothing

Next ==
  \/ \E tag \in PushedTags, plan \in SUBSET Triggers, stop \in BOOLEAN :
       Post([tag |-> tag, reactions |-> plan, terminate |-> stop])
  \/ Take \/ TakeNothing

Spec == Init /\ [][Next]_<<pending, pushed, taken>>
=============================================================================
