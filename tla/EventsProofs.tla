---------------------------- MODULE EventsProofs ----------------------------
(***************************************************************************)
(* Facts about tags and about the operations of the event queue, for every *)
(* queue and every set of triggers.                                        *)
(***************************************************************************)
EXTENDS Events, Integers, SequenceTheorems, WellFoundedInduction, TLAPS

-----------------------------------------------------------------------------
(* Tags *)

(* The derived order of EventTag is a strict total order. *)
THEOREM BeforeIsStrictTotalOrder ==
  /\ \A s \in Tags : ~Before(s, s)
  /\ \A s, t \in Tags : Before(s, t) \/ s = t \/ Before(t, s)
  /\ \A s, t, u \in Tags : Before(s, t) /\ Before(t, u) => Before(s, u)
BY MicroMaxAssumption DEF Tags, Before

LEMMA BeforeIrreflexive == ASSUME NEW s \in Tags PROVE ~Before(s, s)
BY BeforeIsStrictTotalOrder

LEMMA BeforeTotal ==
  ASSUME NEW s \in Tags, NEW t \in Tags
  PROVE  Before(s, t) \/ s = t \/ Before(t, s)
BY BeforeIsStrictTotalOrder

LEMMA BeforeTransitive ==
  ASSUME NEW s \in Tags, NEW t \in Tags, NEW u \in Tags, Before(s, t), Before(t, u)
  PROVE  Before(s, u)
BY BeforeIsStrictTotalOrder

(* A microstep zero tag, such as absolute and now build. *)
LEMMA AbsoluteType == ASSUME NEW i \in Nat PROVE Absolute(i) \in Tags
BY MicroMaxAssumption DEF Absolute, Tags

LEMMA OriginType == ORIGIN \in Tags
BY MicroMaxAssumption DEF ORIGIN, Tags

(* "Returns a tag that is strictly greater than this one" (successor), as long
   as the microsteps of one instant do not exhaust their 32 bits. *)
THEOREM SuccessorIsAfter ==
  ASSUME NEW t \in Tags, NEW offset \in Nat, offset # 0 \/ t.micro < MicroMax
  PROVE  Successor(t, offset) \in Tags /\ Before(t, Successor(t, offset))
<1>1. CASE offset = 0
  <2>1. (t.micro + 1) % (MicroMax + 1) = t.micro + 1
    BY <1>1, MicroMaxAssumption DEF Tags
  <2> QED BY <1>1, <2>1, MicroMaxAssumption DEF Successor, NextMicrostep, Tags, Before
<1>2. CASE offset # 0
  BY <1>2, MicroMaxAssumption DEF Successor, Absolute, Tags, Before
<1> QED BY <1>1, <1>2

-----------------------------------------------------------------------------
(* The queue *)

LEMMA QueueElements ==
  ASSUME NEW queue \in Seq(Events)
  PROVE  /\ Len(queue) \in Nat
         /\ DOMAIN queue = 1..Len(queue)
         /\ \A i \in DOMAIN queue : queue[i] \in Events /\ queue[i].tag \in Tags
<1>1. Len(queue) \in Nat /\ DOMAIN queue = 1..Len(queue)
  BY LenProperties
<1>2. \A i \in DOMAIN queue : queue[i] \in Events
  BY <1>1, ElementOfSeq
<1>3. \A e \in Events : e.tag \in Tags
  BY DEF Events
<1> QED BY <1>1, <1>2, <1>3

(* On a sorted queue without an event for tag, binary search finds the one
   position where an event for it belongs. *)
LEMMA GapExists ==
  ASSUME NEW queue \in Seq(Events), Sorted(queue), NEW tag \in Tags,
         \A i \in DOMAIN queue : ~Hit(queue, tag, i)
  PROVE  \E i \in 1..(Len(queue) + 1) : Gap(queue, tag, i)
<1> DEFINE after == {k \in Nat : k = Len(queue) + 1 \/ (k \in DOMAIN queue /\ Before(tag, queue[k].tag))}
<1>1. Len(queue) \in Nat /\ DOMAIN queue = 1..Len(queue)
  BY QueueElements
<1>2. \A j \in DOMAIN queue : queue[j].tag \in Tags
  BY <1>1, QueueElements
<1>3. PICK i \in after : \A k \in after : ~(k < i)
  <2>1. Len(queue) + 1 \in after
    BY <1>1
  <2>2. PICK i \in after : \A k \in after : <<k, i>> \notin OpToRel(<, Nat)
    BY <2>1, NatLessThanWellFounded, WFMin, Zenon
  <2> QED BY <2>2 DEF OpToRel
<1>4. i \in 1..(Len(queue) + 1)
  BY <1>1
<1>5. ASSUME NEW j \in DOMAIN queue
      PROVE  IF j < i THEN Before(queue[j].tag, tag) ELSE Before(tag, queue[j].tag)
  <2>1. CASE j < i
    <3>1. ~Before(tag, queue[j].tag)
      BY <1>1, <1>3, <2>1
    <3> QED BY <3>1, <1>2, <2>1, BeforeTotal DEF Hit
  <2>2. CASE ~(j < i)
    <3>1. i \in DOMAIN queue /\ Before(tag, queue[i].tag)
      BY <1>1, <1>4, <2>2
    <3>2. CASE j = i
      BY <3>1, <3>2
    <3>3. CASE i < j
      <4>1. Before(queue[i].tag, queue[j].tag)
        BY <3>1, <3>3 DEF Sorted
      <4> QED BY <4>1, <3>1, <3>3, <1>2, BeforeTransitive, <1>1
    <3> QED BY <1>1, <1>4, <2>2, <3>2, <3>3
  <2> QED BY <2>1, <2>2
<1> QED BY <1>4, <1>5 DEF Gap

LEMMA AbsorbType ==
  ASSUME NEW evt \in Events, NEW other \in Events
  PROVE  Absorb(evt, other) \in Events /\ Absorb(evt, other).tag = evt.tag
BY DEF Absorb, Events

(* push, when the queue has an event for the tag: that event absorbs the new
   one, and nothing moves. *)
LEMMA PushOnHit ==
  ASSUME NEW queue \in Seq(Events), Sorted(queue), NEW evt \in Events,
         NEW i \in DOMAIN queue, queue[i].tag = evt.tag
  PROVE  Push(queue, evt) = [queue EXCEPT ![i] = Absorb(queue[i], evt)]
<1> DEFINE c == CHOOSE j \in DOMAIN queue : Hit(queue, evt.tag, j)
<1>1. c \in DOMAIN queue /\ queue[c].tag = evt.tag
  BY DEF Hit
<1>2. c = i
  <2>1. ~Before(evt.tag, evt.tag)
    BY BeforeIrreflexive DEF Events
  <2>2. ~(c < i) /\ ~(i < c)
    BY <1>1, <2>1 DEF Sorted
  <2> HIDE DEF c
  <2> QED BY <1>1, <2>2, QueueElements
<1>3. \E j \in DOMAIN queue : Hit(queue, evt.tag, j)
  BY DEF Hit
<1> QED BY <1>2, <1>3 DEF Push

(* push, when it has none: the event is inserted at the gap. *)
LEMMA PushOnMiss ==
  ASSUME NEW queue \in Seq(Events), Sorted(queue), NEW evt \in Events,
         \A i \in DOMAIN queue : queue[i].tag # evt.tag
  PROVE  \E i \in 1..(Len(queue) + 1) :
           Gap(queue, evt.tag, i) /\ Push(queue, evt) = InsertAt(queue, i, evt)
<1>1. \A i \in DOMAIN queue : ~Hit(queue, evt.tag, i)
  BY DEF Hit
<1>2. evt.tag \in Tags
  BY DEF Events
<1>3. \E i \in 1..(Len(queue) + 1) : Gap(queue, evt.tag, i)
  BY <1>1, <1>2, GapExists
<1> QED BY <1>1, <1>3 DEF Push

LEMMA InsertAtProperties ==
  ASSUME NEW queue \in Seq(Events), NEW evt \in Events, NEW i \in 1..(Len(queue) + 1)
  PROVE  /\ InsertAt(queue, i, evt) \in Seq(Events)
         /\ DOMAIN InsertAt(queue, i, evt) = 1..(Len(queue) + 1)
         /\ \A j \in 1..(Len(queue) + 1) :
              InsertAt(queue, i, evt)[j] = IF j < i THEN queue[j]
                                           ELSE IF j = i THEN evt ELSE queue[j - 1]
<1> DEFINE n == Len(queue) + 1
           f == InsertAt(queue, i, evt)
<1>1. n \in Nat /\ Len(queue) \in Nat /\ DOMAIN queue = 1..Len(queue)
  BY QueueElements
<1>2. f = [j \in 1..n |-> IF j < i THEN queue[j] ELSE IF j = i THEN evt ELSE queue[j - 1]]
  BY DEF InsertAt
<1>3. ASSUME NEW j \in 1..n
      PROVE  (IF j < i THEN queue[j] ELSE IF j = i THEN evt ELSE queue[j - 1]) \in Events
  <2>1. j < i => j \in DOMAIN queue
    BY <1>1
  <2>2. ~(j < i) /\ j # i => j - 1 \in DOMAIN queue
    BY <1>1
  <2> QED BY <2>1, <2>2, QueueElements
<1>4. f \in [1..n -> Events]
  BY <1>2, <1>3
<1>5. f \in Seq(Events)
  BY <1>1, <1>4, SeqDef
<1> QED BY <1>2, <1>5

(* What is in the queue after an insertion. *)
LEMMA InsertAtElements ==
  ASSUME NEW queue \in Seq(Events), NEW evt \in Events, NEW i \in 1..(Len(queue) + 1)
  PROVE  \A x : (\E j \in DOMAIN InsertAt(queue, i, evt) : InsertAt(queue, i, evt)[j] = x)
                 <=> (x = evt \/ \E j \in DOMAIN queue : queue[j] = x)
<1> DEFINE q == InsertAt(queue, i, evt)
<1>1. Len(queue) \in Nat /\ DOMAIN queue = 1..Len(queue)
  BY QueueElements
<1>2. /\ DOMAIN q = 1..(Len(queue) + 1)
      /\ \A j \in 1..(Len(queue) + 1) :
           q[j] = IF j < i THEN queue[j] ELSE IF j = i THEN evt ELSE queue[j - 1]
  BY InsertAtProperties
<1> HIDE DEF q
<1>3. \A j \in DOMAIN q : q[j] = evt \/ \E k \in DOMAIN queue : queue[k] = q[j]
  <2> TAKE j \in DOMAIN q
  <2>1. CASE j < i
    BY <1>1, <1>2, <2>1
  <2>2. CASE j = i
    BY <1>2, <2>2
  <2>3. CASE i < j
    <3>1. j - 1 \in DOMAIN queue /\ q[j] = queue[j - 1]
      BY <1>1, <1>2, <2>3
    <3> QED BY <3>1
  <2> QED BY <1>1, <1>2, <2>1, <2>2, <2>3
<1>4. \A j \in DOMAIN queue : \E k \in DOMAIN q : q[k] = queue[j]
  <2> TAKE j \in DOMAIN queue
  <2>1. CASE j < i
    BY <1>1, <1>2, <2>1
  <2>2. CASE ~(j < i)
    <3>1. j + 1 \in DOMAIN q /\ q[j + 1] = queue[j]
      BY <1>1, <1>2, <2>2
    <3> QED BY <3>1
  <2> QED BY <2>1, <2>2
<1>5. i \in DOMAIN q /\ q[i] = evt
  BY <1>1, <1>2
<1>6. \A x : (\E j \in DOMAIN q : q[j] = x) <=> (x = evt \/ \E j \in DOMAIN queue : queue[j] = x)
  BY <1>3, <1>4, <1>5
<1> QED BY <1>6 DEF q

(* The two effects of push on the elements: every old event of another tag
   stays, and for the tag there is one event, which holds the new one. *)
LEMMA PushElements ==
  ASSUME NEW queue \in Seq(Events), Sorted(queue), NEW evt \in Events
  PROVE  /\ Push(queue, evt) \in Seq(Events)
         /\ Sorted(Push(queue, evt))
         /\ TagsOf(Push(queue, evt)) = TagsOf(queue) \cup {evt.tag}
<1> DEFINE q == Push(queue, evt)
<1>0. /\ Len(queue) \in Nat /\ DOMAIN queue = 1..Len(queue)
      /\ \A i \in DOMAIN queue : queue[i] \in Events /\ queue[i].tag \in Tags
  BY QueueElements
<1>1. CASE \E i \in DOMAIN queue : queue[i].tag = evt.tag
  <2>1. PICK i \in DOMAIN queue : queue[i].tag = evt.tag
    BY <1>1
  <2>2. q = [queue EXCEPT ![i] = Absorb(queue[i], evt)]
    BY <2>1, PushOnHit
  <2>3. Absorb(queue[i], evt) \in Events /\ Absorb(queue[i], evt).tag = evt.tag
    BY <1>0, <2>1, AbsorbType
  <2>4. q \in Seq(Events) /\ Len(q) = Len(queue)
    BY <1>0, <2>2, <2>3, ExceptSeq
  <2>5. DOMAIN q = DOMAIN queue
    BY <2>2
  <2>6. \A j \in DOMAIN queue : q[j].tag = queue[j].tag
    BY <2>1, <2>2, <2>3
  <2>7. Sorted(q)
    BY <2>5, <2>6 DEF Sorted
  <2>8. TagsOf(q) = TagsOf(queue) \cup {evt.tag}
    BY <2>1, <2>5, <2>6 DEF TagsOf
  <2> QED BY <2>4, <2>7, <2>8
<1>2. CASE \A i \in DOMAIN queue : queue[i].tag # evt.tag
  <2>1. PICK i \in 1..(Len(queue) + 1) : Gap(queue, evt.tag, i) /\ q = InsertAt(queue, i, evt)
    BY <1>2, PushOnMiss
  <2>2. /\ q \in Seq(Events)
        /\ DOMAIN q = 1..(Len(queue) + 1)
        /\ \A j \in DOMAIN q : q[j] = IF j < i THEN queue[j] ELSE IF j = i THEN evt ELSE queue[j - 1]
    <3>1. /\ InsertAt(queue, i, evt) \in Seq(Events)
          /\ DOMAIN InsertAt(queue, i, evt) = 1..(Len(queue) + 1)
          /\ \A j \in 1..(Len(queue) + 1) :
               InsertAt(queue, i, evt)[j] = IF j < i THEN queue[j]
                                            ELSE IF j = i THEN evt ELSE queue[j - 1]
      BY InsertAtProperties
    <3>2. q = InsertAt(queue, i, evt)
      BY <2>1
    <3> HIDE DEF q
    <3> QED BY <3>1, <3>2
  <2>3. \A j \in DOMAIN queue : IF j < i THEN Before(queue[j].tag, evt.tag) ELSE Before(evt.tag, queue[j].tag)
    BY <2>1 DEF Gap
  <2>4. Sorted(q)
    <3> SUFFICES ASSUME NEW j \in DOMAIN q, NEW k \in DOMAIN q, j < k
                 PROVE  Before(q[j].tag, q[k].tag)
      BY DEF Sorted
    <3>1. \A m, n \in DOMAIN queue : m < n => Before(queue[m].tag, queue[n].tag)
      BY DEF Sorted
    <3>2. CASE k < i
      BY <3>1, <3>2, <2>2, <1>0
    <3>3. CASE k = i
      <4>1. j \in DOMAIN queue /\ q[j] = queue[j] /\ q[k] = evt
        BY <3>3, <2>2, <1>0
      <4> QED BY <4>1, <2>3, <3>3
    <3>4. CASE i < k
      <4>1. k - 1 \in DOMAIN queue /\ q[k] = queue[k - 1]
        BY <3>4, <2>2, <1>0
      <4>2. CASE j < i
        <5>1. j \in DOMAIN queue /\ q[j] = queue[j] /\ j < k - 1
          BY <3>4, <4>2, <2>2, <1>0
        <5> QED BY <5>1, <4>1, <3>1
      <4>3. CASE j = i
        <5>1. q[j] = evt /\ ~(k - 1 < i)
          BY <3>4, <4>3, <2>2, <1>0
        <5> QED BY <5>1, <4>1, <2>3
      <4>4. CASE i < j
        <5>1. j - 1 \in DOMAIN queue /\ q[j] = queue[j - 1] /\ j - 1 < k - 1
          BY <4>4, <2>2, <1>0
        <5> QED BY <5>1, <4>1, <3>1
      <4> QED BY <4>2, <4>3, <4>4, <1>0, <2>2
    <3> QED BY <3>2, <3>3, <3>4, <1>0, <2>2
  <2>5. TagsOf(q) = TagsOf(queue) \cup {evt.tag}
    <3> HIDE DEF q
    <3>0. q = InsertAt(queue, i, evt)
      BY <2>1
    <3>1. \A x : (\E j \in DOMAIN q : q[j] = x) <=> (x = evt \/ \E j \in DOMAIN queue : queue[j] = x)
      <4>1. \A x : (\E j \in DOMAIN InsertAt(queue, i, evt) : InsertAt(queue, i, evt)[j] = x)
                    <=> (x = evt \/ \E j \in DOMAIN queue : queue[j] = x)
        BY InsertAtElements
      <4> QED BY <3>0, <4>1, Zenon
    <3>2. \A j \in DOMAIN q : q[j].tag \in TagsOf(queue) \cup {evt.tag}
      <4> TAKE j \in DOMAIN q
      <4>1. q[j] = evt \/ \E k \in DOMAIN queue : queue[k] = q[j]
        BY <3>1
      <4> QED BY <4>1 DEF TagsOf
    <3>3. \A j \in DOMAIN queue : \E k \in DOMAIN q : q[k] = queue[j]
      BY <3>1
    <3>4. \E k \in DOMAIN q : q[k] = evt
      BY <3>1
    <3>5. TagsOf(queue) \subseteq TagsOf(q) /\ evt.tag \in TagsOf(q)
      BY <3>3, <3>4 DEF TagsOf
    <3> QED BY <3>2, <3>5 DEF TagsOf
  <2> QED BY <2>2, <2>4, <2>5
<1> QED BY <1>1, <1>2

(* pop_front leaves a sorted queue, all of whose tags are after the first. *)
LEMMA TailProperties ==
  ASSUME NEW queue \in Seq(Events), Sorted(queue), queue # <<>>
  PROVE  /\ Head(queue) \in Events
         /\ Tail(queue) \in Seq(Events)
         /\ Sorted(Tail(queue))
         /\ TagsOf(Tail(queue)) \subseteq TagsOf(queue)
         /\ Head(queue).tag \in TagsOf(queue)
         /\ \A tag \in TagsOf(Tail(queue)) : Before(Head(queue).tag, tag)
<1>1. /\ Len(queue) \in Nat \ {0} /\ DOMAIN queue = 1..Len(queue)
      /\ Head(queue) = queue[1] /\ Head(queue) \in Events
  BY QueueElements, EmptySeq, HeadTailProperties
<1>2. /\ Tail(queue) \in Seq(Events) /\ Len(Tail(queue)) = Len(queue) - 1
      /\ \A i \in 1..Len(Tail(queue)) : Tail(queue)[i] = queue[i + 1]
  BY HeadTailProperties
<1>3. DOMAIN Tail(queue) = 1..(Len(queue) - 1)
  BY <1>2, QueueElements
<1>4. \A i \in DOMAIN Tail(queue) : i + 1 \in DOMAIN queue /\ 1 < i + 1 /\ Tail(queue)[i] = queue[i + 1]
  BY <1>1, <1>2, <1>3
<1>5. Sorted(Tail(queue))
  <2> SUFFICES ASSUME NEW i \in DOMAIN Tail(queue), NEW j \in DOMAIN Tail(queue), i < j
               PROVE  Before(Tail(queue)[i].tag, Tail(queue)[j].tag)
    BY DEF Sorted
  <2>1. i + 1 < j + 1
    BY <1>1, <1>3
  <2> QED BY <2>1, <1>4 DEF Sorted
<1>6. 1 \in DOMAIN queue
  BY <1>1
<1>7. \A i \in DOMAIN Tail(queue) : Before(Head(queue).tag, Tail(queue)[i].tag)
  BY <1>1, <1>4, <1>6 DEF Sorted
<1> QED BY <1>1, <1>2, <1>4, <1>5, <1>6, <1>7 DEF TagsOf

-----------------------------------------------------------------------------
(* The work that the operations on sequences of events add and remove. *)

(* A push adds the work of the event and takes none away. *)
LEMMA PushWork ==
  ASSUME NEW queue \in Seq(Events), Sorted(queue), NEW evt \in Events
  PROVE  WorkOf(Push(queue, evt)) = WorkOf(queue) \cup Work(evt)
<1>1. CASE \E i \in DOMAIN queue : queue[i].tag = evt.tag
  <2>1. PICK i \in DOMAIN queue : queue[i].tag = evt.tag
    BY <1>1
  <2> DEFINE q == [queue EXCEPT ![i] = Absorb(queue[i], evt)]
  <2>2. Push(queue, evt) = q
    BY <2>1, PushOnHit
  <2>3. DOMAIN q = DOMAIN queue /\ q[i] = Absorb(queue[i], evt)
        /\ \A j \in DOMAIN queue : j # i => q[j] = queue[j]
    BY <2>1
  <2>4. Work(Absorb(queue[i], evt)) = Work(queue[i]) \cup Work(evt)
    BY <2>1 DEF Work, Absorb
  <2> HIDE DEF q
  <2>5. WorkOf(q) \subseteq WorkOf(queue) \cup Work(evt)
    <3>1. \A j \in DOMAIN q : Work(q[j]) \subseteq WorkOf(queue) \cup Work(evt)
      BY <2>1, <2>3, <2>4 DEF WorkOf
    <3> QED BY <3>1 DEF WorkOf
  <2>6. WorkOf(queue) \subseteq WorkOf(q)
    <3>1. \A j \in DOMAIN queue : Work(queue[j]) \subseteq Work(q[j])
      BY <2>1, <2>3, <2>4
    <3> QED BY <2>3, <3>1 DEF WorkOf
  <2>7. Work(evt) \subseteq WorkOf(q)
    BY <2>1, <2>3, <2>4 DEF WorkOf
  <2> QED BY <2>2, <2>5, <2>6, <2>7
<1>2. CASE \A i \in DOMAIN queue : queue[i].tag # evt.tag
  <2>1. PICK i \in 1..(Len(queue) + 1) : Push(queue, evt) = InsertAt(queue, i, evt)
    BY <1>2, PushOnMiss
  <2>2. \A x : (\E j \in DOMAIN Push(queue, evt) : Push(queue, evt)[j] = x)
               <=> (x = evt \/ \E j \in DOMAIN queue : queue[j] = x)
    BY <2>1, InsertAtElements
  <2>3. \A j \in DOMAIN Push(queue, evt) : Work(Push(queue, evt)[j]) \subseteq WorkOf(queue) \cup Work(evt)
    <3> TAKE j \in DOMAIN Push(queue, evt)
    <3>1. Push(queue, evt)[j] = evt \/ \E k \in DOMAIN queue : queue[k] = Push(queue, evt)[j]
      BY <2>2
    <3> QED BY <3>1 DEF WorkOf
  <2>4. \A j \in DOMAIN queue : \E k \in DOMAIN Push(queue, evt) : Push(queue, evt)[k] = queue[j]
    BY <2>2
  <2>5. \E k \in DOMAIN Push(queue, evt) : Push(queue, evt)[k] = evt
    BY <2>2
  <2>6. WorkOf(Push(queue, evt)) \subseteq WorkOf(queue) \cup Work(evt)
    BY <2>3 DEF WorkOf
  <2>7. Work(evt) \subseteq WorkOf(Push(queue, evt))
    BY <2>5 DEF WorkOf
  <2>8. \A j \in DOMAIN queue : Work(queue[j]) \subseteq WorkOf(Push(queue, evt))
    BY <2>4 DEF WorkOf
  <2>9. WorkOf(queue) \subseteq WorkOf(Push(queue, evt))
    BY <2>8 DEF WorkOf
  <2> QED BY <2>6, <2>7, <2>9
<1> QED BY <1>1, <1>2

(* The work of a sequence is that of its first event and of the others. *)
LEMMA HeadTailWork ==
  ASSUME NEW queue \in Seq(Events), queue # <<>>
  PROVE  WorkOf(queue) = Work(Head(queue)) \cup WorkOf(Tail(queue))
<1>1. /\ Len(queue) \in Nat \ {0} /\ DOMAIN queue = 1..Len(queue) /\ Head(queue) = queue[1]
  BY QueueElements, EmptySeq, HeadTailProperties
<1>2. /\ Tail(queue) \in Seq(Events) /\ Len(Tail(queue)) = Len(queue) - 1
      /\ \A i \in 1..Len(Tail(queue)) : Tail(queue)[i] = queue[i + 1]
  BY HeadTailProperties
<1>3. DOMAIN Tail(queue) = 1..(Len(queue) - 1)
  BY <1>2, QueueElements
<1>4. \A i \in DOMAIN Tail(queue) : i + 1 \in DOMAIN queue /\ Tail(queue)[i] = queue[i + 1]
  BY <1>1, <1>2, <1>3
<1>5. \A i \in DOMAIN queue : i = 1 \/ (i - 1 \in DOMAIN Tail(queue) /\ queue[i] = Tail(queue)[i - 1])
  BY <1>1, <1>2, <1>3
<1>6. WorkOf(Tail(queue)) \subseteq WorkOf(queue)
  BY <1>4 DEF WorkOf
<1>7. Work(Head(queue)) \subseteq WorkOf(queue)
  <2>1. 1 \in DOMAIN queue
    BY <1>1
  <2> QED BY <1>1, <2>1 DEF WorkOf
<1>8. \A i \in DOMAIN queue : Work(queue[i]) \subseteq Work(Head(queue)) \cup WorkOf(Tail(queue))
  BY <1>1, <1>5 DEF WorkOf
<1> QED BY <1>6, <1>7, <1>8 DEF WorkOf

LEMMA AppendWork ==
  ASSUME NEW queue \in Seq(Events), NEW evt \in Events
  PROVE  WorkOf(Append(queue, evt)) = WorkOf(queue) \cup Work(evt)
<1> DEFINE q == Append(queue, evt)
<1>1. /\ Len(queue) \in Nat /\ DOMAIN queue = 1..Len(queue)
      /\ DOMAIN q = 1..(Len(queue) + 1)
      /\ q[Len(queue) + 1] = evt /\ \A j \in DOMAIN queue : q[j] = queue[j]
  BY QueueElements, AppendProperties
<1> HIDE DEF q
<1>2. \A j \in DOMAIN q : j = Len(queue) + 1 \/ j \in DOMAIN queue
  BY <1>1
<1>3. DOMAIN queue \subseteq DOMAIN q /\ Len(queue) + 1 \in DOMAIN q
  BY <1>1
<1>4. WorkOf(q) = WorkOf(queue) \cup Work(evt)
  BY <1>1, <1>2, <1>3 DEF WorkOf
<1> QED BY <1>4 DEF q

(* The same for the tags. *)
LEMMA AppendTags ==
  ASSUME NEW queue \in Seq(Events), NEW evt \in Events
  PROVE  TagsOf(Append(queue, evt)) = TagsOf(queue) \cup {evt.tag}
<1> DEFINE q == Append(queue, evt)
<1>1. /\ Len(queue) \in Nat /\ DOMAIN queue = 1..Len(queue)
      /\ DOMAIN q = 1..(Len(queue) + 1)
      /\ q[Len(queue) + 1] = evt /\ \A j \in DOMAIN queue : q[j] = queue[j]
  BY QueueElements, AppendProperties
<1> HIDE DEF q
<1>2. \A j \in DOMAIN q : j = Len(queue) + 1 \/ j \in DOMAIN queue
  BY <1>1
<1>3. DOMAIN queue \subseteq DOMAIN q /\ Len(queue) + 1 \in DOMAIN q
  BY <1>1
<1>4. TagsOf(q) = TagsOf(queue) \cup {evt.tag}
  BY <1>1, <1>2, <1>3 DEF TagsOf
<1> QED BY <1>4 DEF q

LEMMA HeadTailTags ==
  ASSUME NEW queue \in Seq(Events), queue # <<>>
  PROVE  TagsOf(queue) = TagsOf(Tail(queue)) \cup {Head(queue).tag}
<1>1. /\ Len(queue) \in Nat \ {0} /\ DOMAIN queue = 1..Len(queue) /\ Head(queue) = queue[1]
  BY QueueElements, EmptySeq, HeadTailProperties
<1>2. /\ Tail(queue) \in Seq(Events) /\ Len(Tail(queue)) = Len(queue) - 1
      /\ \A i \in 1..Len(Tail(queue)) : Tail(queue)[i] = queue[i + 1]
  BY HeadTailProperties
<1>3. DOMAIN Tail(queue) = 1..(Len(queue) - 1)
  BY <1>2, QueueElements
<1>4. \A i \in DOMAIN Tail(queue) : i + 1 \in DOMAIN queue /\ Tail(queue)[i] = queue[i + 1]
  BY <1>1, <1>2, <1>3
<1>5. \A i \in DOMAIN queue : i = 1 \/ (i - 1 \in DOMAIN Tail(queue) /\ queue[i] = Tail(queue)[i - 1])
  BY <1>1, <1>2, <1>3
<1>6. 1 \in DOMAIN queue
  BY <1>1
<1>7. Head(queue).tag \in TagsOf(queue) /\ TagsOf(Tail(queue)) \subseteq TagsOf(queue)
  BY <1>1, <1>4, <1>6 DEF TagsOf
<1>8. \A i \in DOMAIN queue : queue[i].tag \in TagsOf(Tail(queue)) \cup {Head(queue).tag}
  BY <1>1, <1>5 DEF TagsOf
<1> QED BY <1>7, <1>8 DEF TagsOf

LEMMA EmptyWork == WorkOf(<<>>) = {} /\ TagsOf(<<>>) = {}
<1>1. <<>> \in Seq(Events) /\ DOMAIN <<>> = {}
  BY EmptySeq, QueueElements
<1> QED BY <1>1 DEF WorkOf, TagsOf

(* What the work and the tags of a queue have in common. *)
LEMMA WorkTags ==
  /\ \A evts : \A w \in WorkOf(evts) : w[1] \in TagsOf(evts)
  /\ \A evt : \A w \in Work(evt) : w[1] = evt.tag
BY DEF WorkOf, Work, TagsOf

(* Every element of a queue is in a set. *)
Among(queue, S) == \A i \in DOMAIN queue : queue[i] \in S

LEMMA AmongEmpty == ASSUME NEW S PROVE Among(<<>>, S)
BY EmptySeq, QueueElements DEF Among

(* push keeps the elements in a set of events that absorb preserves. *)
LEMMA PushAmong ==
  ASSUME NEW S \in SUBSET Events, NEW queue \in Seq(Events), Sorted(queue), Among(queue, S),
         NEW evt \in S, \A e, f \in S : e.tag = f.tag => Absorb(e, f) \in S
  PROVE  Among(Push(queue, evt), S)
<1>1. CASE \E i \in DOMAIN queue : queue[i].tag = evt.tag
  <2>1. PICK i \in DOMAIN queue : queue[i].tag = evt.tag
    BY <1>1
  <2>2. Push(queue, evt) = [queue EXCEPT ![i] = Absorb(queue[i], evt)]
    BY <2>1, PushOnHit
  <2>3. Absorb(queue[i], evt) \in S
    BY <2>1 DEF Among
  <2> QED BY <2>2, <2>3 DEF Among
<1>2. CASE \A i \in DOMAIN queue : queue[i].tag # evt.tag
  <2>1. PICK i \in 1..(Len(queue) + 1) : Push(queue, evt) = InsertAt(queue, i, evt)
    BY <1>2, PushOnMiss
  <2>2. \A x : (\E j \in DOMAIN Push(queue, evt) : Push(queue, evt)[j] = x)
               => (x = evt \/ \E j \in DOMAIN queue : queue[j] = x)
    BY <2>1, InsertAtElements
  <2> QED BY <2>2 DEF Among
<1> QED BY <1>1, <1>2

LEMMA AppendAmong ==
  ASSUME NEW S, NEW queue \in Seq(Events), Among(queue, S), NEW evt \in Events, evt \in S
  PROVE  Among(Append(queue, evt), S)
<1>1. /\ Len(queue) \in Nat /\ DOMAIN queue = 1..Len(queue)
      /\ Append(queue, evt) \in Seq(Events) /\ Len(Append(queue, evt)) = Len(queue) + 1
      /\ \A i \in 1..Len(queue) : Append(queue, evt)[i] = queue[i]
      /\ Append(queue, evt)[Len(queue) + 1] = evt
  BY QueueElements, AppendProperties
<1>2. DOMAIN Append(queue, evt) = 1..(Len(queue) + 1)
  BY <1>1, QueueElements
<1> QED BY <1>1, <1>2 DEF Among

LEMMA HeadTailAmong ==
  ASSUME NEW S, NEW queue \in Seq(Events), queue # <<>>, Among(queue, S)
  PROVE  Head(queue) \in S /\ Among(Tail(queue), S)
<1>1. /\ Len(queue) \in Nat \ {0} /\ DOMAIN queue = 1..Len(queue) /\ Head(queue) = queue[1]
  BY QueueElements, EmptySeq, HeadTailProperties
<1>2. /\ Tail(queue) \in Seq(Events) /\ Len(Tail(queue)) = Len(queue) - 1
      /\ \A i \in 1..Len(Tail(queue)) : Tail(queue)[i] = queue[i + 1]
  BY HeadTailProperties
<1>3. DOMAIN Tail(queue) = 1..(Len(queue) - 1)
  BY <1>2, QueueElements
<1> QED BY <1>1, <1>2, <1>3 DEF Among

=============================================================================
