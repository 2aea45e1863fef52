-------------------------- MODULE EventQueueProofs --------------------------
(***************************************************************************)
(* The event queue is sorted whatever is pushed, and implements a set with *)
(* one event for each tag.                                                 *)
(***************************************************************************)
EXTENDS EventQueue, EventsProofs

QInv == TypeOK /\ QueueSorted

LEMMA PushedEventType ==
  ASSUME NEW tag \in PushedTags, NEW plan \in SUBSET Triggers, NEW stop \in BOOLEAN
  PROVE  [tag |-> tag, reactions |-> plan, terminate |-> stop] \in Events
BY PushedTagsAssumption DEF Events

LEMMA QInvStep == QInv /\ [Next]_vars => QInv'
<1> SUFFICES ASSUME QInv, [Next]_vars PROVE QInv'
  OBVIOUS
<1> USE DEF QInv, TypeOK, QueueSorted
<1>1. ASSUME NEW tag \in PushedTags, NEW plan \in SUBSET Triggers, NEW stop \in BOOLEAN,
             PushEvent([tag |-> tag, reactions |-> plan, terminate |-> stop])
      PROVE  QInv'
  BY <1>1, PushedEventType, PushElements DEF PushEvent
<1>2. CASE TakeEarliest
  <2>1. CASE value_list = <<>>
    BY <1>2, <2>1 DEF TakeEarliest
  <2>2. CASE value_list # <<>>
    BY <1>2, <2>2, TailProperties DEF TakeEarliest
  <2> QED BY <2>1, <2>2
<1>3. CASE UNCHANGED vars
  BY <1>3 DEF vars
<1> QED BY <1>1, <1>2, <1>3 DEF Next

LEMMA QInvInit == Init => QInv
<1>1. <<>> \in Seq(Events) /\ DOMAIN <<>> = {}
  BY EmptySeq, QueueElements
<1> QED BY <1>1 DEF Init, QInv, TypeOK, QueueSorted, Sorted

(* The list of the queue is strictly ascending by tag after any sequence of
   pushes and takes. *)
THEOREM QueueStaysSorted == Spec => []QueueSorted
<1>1. QInv => QueueSorted
  BY DEF QInv
<1> QED BY QInvInit, QInvStep, <1>1, PTL DEF Spec

(* What a push does to the set of events. *)
LEMMA PushUnites ==
  ASSUME QInv, NEW evt \in Events, value_list' = Push(value_list, evt)
  PROVE  Contents' = {e \in Contents : e.tag # evt.tag} \cup {Agenda!United(evt)}
<1> USE DEF QInv, TypeOK, QueueSorted
<1>0. /\ Len(value_list) \in Nat /\ DOMAIN value_list = 1..Len(value_list)
      /\ \A i \in DOMAIN value_list : value_list[i] \in Events
  BY QueueElements
<1>1. CASE \E i \in DOMAIN value_list : value_list[i].tag = evt.tag
  <2>1. PICK i \in DOMAIN value_list : value_list[i].tag = evt.tag
    BY <1>1
  <2>2. value_list' = [value_list EXCEPT ![i] = Absorb(value_list[i], evt)]
    BY <2>1, PushOnHit
  <2>3. \A j \in DOMAIN value_list : j # i => value_list[j].tag # evt.tag
    <3>1. ~Before(evt.tag, evt.tag)
      BY BeforeIrreflexive DEF Events
    <3> QED BY <1>0, <2>1, <3>1 DEF Sorted
  <2>4. {e \in Contents : e.tag = evt.tag} = {value_list[i]}
    BY <2>1, <2>3 DEF Contents
  <2>5. Agenda!United(evt) = [tag |-> evt.tag,
                              reactions |-> value_list[i].reactions \cup evt.reactions,
                              terminate |-> value_list[i].terminate \/ evt.terminate]
    BY <2>4 DEF Agenda!United
  <2>6. Absorb(value_list[i], evt) = Agenda!United(evt)
    BY <2>1, <2>5 DEF Absorb
  <2>7. Contents' = {value_list[j] : j \in DOMAIN value_list \ {i}} \cup {Absorb(value_list[i], evt)}
    BY <2>2 DEF Contents
  <2>8. {value_list[j] : j \in DOMAIN value_list \ {i}} = {e \in Contents : e.tag # evt.tag}
    BY <2>1, <2>3 DEF Contents
  <2> QED BY <2>6, <2>7, <2>8
<1>2. CASE \A i \in DOMAIN value_list : value_list[i].tag # evt.tag
  <2>1. PICK i \in 1..(Len(value_list) + 1) : value_list' = InsertAt(value_list, i, evt)
    BY <1>2, PushOnMiss
  <2>2. \A x : (\E j \in DOMAIN value_list' : value_list'[j] = x)
               <=> (x = evt \/ \E j \in DOMAIN value_list : value_list[j] = x)
    BY <2>1, InsertAtElements
  <2>3. Contents' = Contents \cup {evt}
    <3>1. \A j \in DOMAIN value_list' : value_list'[j] \in Contents \cup {evt}
      <4> TAKE j \in DOMAIN value_list'
      <4>1. value_list'[j] = evt \/ \E k \in DOMAIN value_list : value_list[k] = value_list'[j]
        BY <2>2
      <4> QED BY <4>1 DEF Contents
    <3>2. \A j \in DOMAIN value_list : \E k \in DOMAIN value_list' : value_list'[k] = value_list[j]
      BY <2>2
    <3>3. \E k \in DOMAIN value_list' : value_list'[k] = evt
      BY <2>2
    <3>4. Contents \subseteq Contents' /\ evt \in Contents'
      BY <3>2, <3>3 DEF Contents
    <3> QED BY <3>1, <3>4 DEF Contents
  <2>4. {e \in Contents : e.tag # evt.tag} = Contents /\ {e \in Contents : e.tag = evt.tag} = {}
    BY <1>2 DEF Contents
  <2>5. Agenda!United(evt) = [tag |-> evt.tag, reactions |-> evt.reactions, terminate |-> evt.terminate]
    <3>1. {e \in Contents : e.tag = evt.tag} \cup {evt} = {evt}
      BY <2>4
    <3>2. UNION {e.reactions : e \in {evt}} = evt.reactions
      OBVIOUS
    <3>3. evt.terminate \in BOOLEAN
      BY DEF Events
    <3>4. (\E e \in {evt} : e.terminate) = evt.terminate
      BY <3>3
    <3> QED BY <3>1, <3>2, <3>4, Zenon DEF Agenda!United
  <2>6. Agenda!United(evt) = evt
    BY <2>5 DEF Events
  <2> QED BY <2>3, <2>4, <2>6
<1> QED BY <1>1, <1>2

(* What a take does to the set of events. *)
LEMMA TakeRemovesEarliest ==
  ASSUME QInv, value_list # <<>>, TakeEarliest
  PROVE  Agenda!Take
<1> USE DEF QInv, TypeOK, QueueSorted
<1> DEFINE e == Head(value_list)
<1>1. /\ Len(value_list) \in Nat \ {0} /\ DOMAIN value_list = 1..Len(value_list)
      /\ e = value_list[1]
  BY QueueElements, EmptySeq, HeadTailProperties
<1>2. /\ value_list' = Tail(value_list) /\ taken' = e
      /\ DOMAIN value_list' = 1..(Len(value_list) - 1)
      /\ \A i \in DOMAIN value_list' : value_list'[i] = value_list[i + 1]
  <2>1. /\ Tail(value_list) \in Seq(Events) /\ Len(Tail(value_list)) = Len(value_list) - 1
        /\ \A i \in 1..Len(Tail(value_list)) : Tail(value_list)[i] = value_list[i + 1]
    BY HeadTailProperties
  <2>2. DOMAIN Tail(value_list) = 1..(Len(value_list) - 1)
    BY <2>1, QueueElements
  <2> QED BY <2>1, <2>2 DEF TakeEarliest
<1>3. ASSUME NEW i \in DOMAIN value_list, i # 1
      PROVE  /\ value_list[i].tag # e.tag
             /\ Before(e.tag, value_list[i].tag)
             /\ \E j \in DOMAIN value_list' : value_list'[j] = value_list[i]
  <2>1. Before(e.tag, value_list[i].tag)
    BY <1>1, <1>3 DEF Sorted
  <2>2. ~Before(e.tag, e.tag)
    <3>1. 1 \in DOMAIN value_list
      BY <1>1
    <3>2. e.tag \in Tags
      BY <1>1, <3>1, QueueElements
    <3> QED BY <3>2, BeforeIrreflexive
  <2>3. i - 1 \in DOMAIN value_list' /\ value_list'[i - 1] = value_list[i]
    BY <1>1, <1>2, <1>3
  <2> QED BY <2>1, <2>2, <2>3
<1>4. e \in Contents /\ \A other \in Contents : Agenda!AtOrBefore(e.tag, other.tag)
  BY <1>1, <1>3 DEF Contents, Agenda!AtOrBefore, Agenda!Before, Before
<1>5. Contents' = Contents \ {e}
  <2>1. \A i \in DOMAIN value_list' : i + 1 \in DOMAIN value_list /\ i + 1 # 1
    BY <1>1, <1>2
  <2>2. \A i \in DOMAIN value_list' : value_list'[i] \in Contents \ {e}
    <3> TAKE i \in DOMAIN value_list'
    <3>1. value_list'[i] = value_list[i + 1] /\ i + 1 \in DOMAIN value_list
      BY <1>2, <2>1
    <3>2. value_list[i + 1].tag # e.tag
      BY <1>3, <2>1
    <3> HIDE DEF e
    <3>3. value_list[i + 1] # e
      BY <3>2
    <3> QED BY <3>1, <3>3 DEF Contents
  <2>3. \A x \in Contents \ {e} : \E j \in DOMAIN value_list' : value_list'[j] = x
    BY <1>1, <1>3 DEF Contents
  <2> QED BY <2>2, <2>3 DEF Contents
<1>6. pushed' = Nothing
  BY DEF TakeEarliest
<1> QED BY <1>2, <1>4, <1>5, <1>6 DEF Agenda!Take

(* The queue implements the set: every step of the list is a step of the set. *)
THEOREM QueueImplementsAgenda == Spec => ImplementsAgenda
<1>1. Init => Agenda!Init
  <2>1. DOMAIN <<>> = {}
    BY EmptySeq, QueueElements
  <2> QED BY <2>1 DEF Init, Agenda!Init, Contents
<1>2. QInv /\ [Next]_vars => [Agenda!Next]_<<Contents, pushed, taken>>
  <2> SUFFICES ASSUME QInv, [Next]_vars PROVE [Agenda!Next]_<<Contents, pushed, taken>>
    OBVIOUS
  <2>1. ASSUME NEW tag \in PushedTags, NEW plan \in SUBSET Triggers, NEW stop \in BOOLEAN,
               PushEvent([tag |-> tag, reactions |-> plan, terminate |-> stop])
        PROVE  Agenda!Next
    <3> DEFINE evt == [tag |-> tag, reactions |-> plan, terminate |-> stop]
    <3>1. Agenda!Post(evt)
      BY <2>1, PushedEventType, PushUnites DEF PushEvent, Agenda!Post
    <3> QED BY <3>1 DEF Agenda!Next
  <2>2. CASE TakeEarliest
    <3>1. CASE value_list = <<>>
      <4>1. DOMAIN <<>> = {}
        BY EmptySeq, QueueElements
      <4>2. Agenda!TakeNothing
        BY <2>2, <3>1, <4>1 DEF TakeEarliest, Agenda!TakeNothing, Contents
      <4> QED BY <4>2 DEF Agenda!Next
    <3>2. CASE value_list # <<>>
      BY <2>2, <3>2, TakeRemovesEarliest DEF Agenda!Next
    <3> QED BY <3>1, <3>2
  <2>3. CASE UNCHANGED vars
    BY <2>3 DEF vars, Contents
  <2> QED BY <2>1, <2>2, <2>3 DEF Next
<1> QED BY QInvInit, QInvStep, <1>1, <1>2, PTL DEF Spec, ImplementsAgenda, Agenda!Spec

(* The types of the queue hold: proved rather than checked, since they follow
   from the type of what is pushed. *)
THEOREM EventQueueTypes == Spec => []TypeOK
<1>1. QInv => TypeOK
  BY DEF QInv
<1> QED BY QInvInit, QInvStep, <1>1, PTL DEF Spec
=============================================================================
