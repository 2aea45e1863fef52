-------------------------- MODULE PlanMergeProofs --------------------------
(***************************************************************************)
(* Theorems about the merge of two plans of any size, from any level on.   *)
(***************************************************************************)
EXTENDS PlanMerge, Integers, SequenceTheorems, WellFoundedInduction, TLAPS

Has(v, l, x) == \E i \in DOMAIN v : v[i].level = l /\ x \in v[i].reactions

(* The entries that the binary search has given up are on their sides of the
   sought key. *)
SearchInv ==
  pc \in {"find_source", "find_entry"} =>
    /\ left <= right /\ right <= Len(Searched) + 1
    /\ \A j \in DOMAIN Searched : /\ j < left => Searched[j].level < Sought
                                  /\ j >= right => Searched[j].level > Sought

(* The entry of src that is merged next. *)
NextInv ==
  /\ pc \in {"find_entry", "scan_entry", "write"} =>
       next_src \in DOMAIN src /\ src[next_src].level >= min_level
  /\ pc = "find_source" => next_src = 1
  /\ pc \in {"done", "next"} => next_src = Len(src) + 1

(* The position where its level belongs. *)
SlotInv ==
  pc = "write" =>
    \A j \in DOMAIN dst : IF j < slot THEN dst[j].level < Sought ELSE dst[j].level >= Sought

(* What has been merged so far. *)
Merged(d, b, s, n, m) ==
  \A l, x : Has(d, l, x) <=>
    \/ Has(b, l, x)
    \/ \E i \in DOMAIN s : i < n /\ s[i].level = l /\ l >= m /\ x \in s[i].reactions
MergedInv == Merged(dst, before, src, next_src, min_level)

MergeInv ==
  /\ TypeOK
  /\ Ascending(src) /\ StaysAscending
  /\ SearchInv /\ NextInv /\ SlotInv /\ HintValid
  /\ MergedInv
  /\ NoLevelSkipped

-----------------------------------------------------------------------------
(* Sorted vectors *)

LEMMA VectorElements ==
  ASSUME NEW v \in Seq(Entry)
  PROVE  /\ Len(v) \in Nat /\ DOMAIN v = 1..Len(v)
         /\ \A i \in DOMAIN v : v[i] \in Entry /\ v[i].level \in Nat /\ v[i].reactions \subseteq Reactions
<1>1. Len(v) \in Nat /\ DOMAIN v = 1..Len(v)
  BY LenProperties
<1>2. \A i \in DOMAIN v : v[i] \in Entry
  BY <1>1, ElementOfSeq
<1>3. \A e \in Entry : e.level \in Nat /\ e.reactions \subseteq Reactions
  BY DEF Entry
<1> QED
  BY <1>1, <1>2, <1>3

(* A scan from a position stops at the first entry of a set, or after the last
   entry. *)
LEMMA ScanStops ==
  ASSUME NEW v \in Seq(Entry), NEW from \in Positions(v), NEW Stops
  PROVE  \E n \in Positions(v) :
           from <= n /\ (n > Len(v) \/ n \in Stops) /\ \A j \in from..(n - 1) : j \notin Stops
<1> DEFINE ends == {n \in Nat : n \in Positions(v) /\ from <= n /\ (n > Len(v) \/ n \in Stops)}
<1>1. Len(v) \in Nat
  BY VectorElements
<1>2. Len(v) + 1 \in ends
  BY <1>1 DEF Positions
<1>3. PICK n \in ends : \A k \in ends : <<k, n>> \notin OpToRel(<, Nat)
  <2> HIDE DEF ends
  <2>1. ends \subseteq Nat
    BY DEF ends
  <2> QED
    BY <1>2, <2>1, NatLessThanWellFounded, WFMin, Zenon
<1>4. \A k \in ends : ~(k < n)
  BY <1>3 DEF OpToRel
<1>5. \A j \in from..(n - 1) : j \notin Stops
  BY <1>1, <1>4 DEF Positions
<1> QED
  BY <1>3, <1>5

(* entry_from_ref, with any hint *)
LEMMA ScanFromProperties ==
  ASSUME NEW v \in Seq(Entry), NEW hnt \in Positions(v), NEW l \in Nat
  PROVE  LET i == ScanFrom(v, hnt, l) IN
           /\ i \in Positions(v) /\ hnt <= i
           /\ i > Len(v) \/ v[i].level >= l
           /\ \A j \in hnt..(i - 1) : v[j].level < l
<1> DEFINE Stops == {i \in DOMAIN v : v[i].level >= l}
<1>1. PICK n \in Positions(v) :
        hnt <= n /\ (n > Len(v) \/ n \in Stops) /\ \A j \in hnt..(n - 1) : j \notin Stops
  <2> HIDE DEF Stops
  <2> QED
    BY ScanStops
<1>2. \A j \in hnt..(n - 1) : v[j].level < l
  BY <1>1, VectorElements DEF Positions
<1> QED
  BY <1>1, <1>2 DEF ScanFrom

(* next_mapping: in a sorted vector, nothing before its result is above l,
   whatever the hint. *)
LEMMA NextMappingProperties ==
  ASSUME NEW v \in Seq(Entry), Ascending(v), NEW hnt, NEW l \in Nat
  PROVE  LET n == NextMapping(v, hnt, l) IN
           /\ n \in Positions(v)
           /\ n \in DOMAIN v => v[n].level > l
           /\ \A j \in DOMAIN v : j < n => v[j].level <= l
<1> DEFINE from == IF hnt \in DOMAIN v /\ v[hnt].level <= l THEN hnt ELSE 1
           Stops == {i \in DOMAIN v : v[i].level > l}
<1>1. from \in Positions(v) /\ \A j \in DOMAIN v : j < from => v[j].level <= l
  <2>1. CASE hnt \in DOMAIN v /\ v[hnt].level <= l
    <3>1. \A j \in DOMAIN v : j < hnt => v[j].level < v[hnt].level
      BY <2>1 DEF Ascending
    <3> QED
      BY <2>1, <3>1, VectorElements DEF Positions
  <2>2. CASE ~(hnt \in DOMAIN v /\ v[hnt].level <= l)
    BY <2>2, VectorElements DEF Positions
  <2> QED
    BY <2>1, <2>2
<1> HIDE DEF from
<1>2. PICK n \in Positions(v) :
        from <= n /\ (n > Len(v) \/ n \in Stops) /\ \A j \in from..(n - 1) : j \notin Stops
  <2> HIDE DEF Stops
  <2> QED
    BY <1>1, ScanStops
<1>3. \A j \in from..(n - 1) : v[j].level <= l
  BY <1>1, <1>2, VectorElements DEF Positions
<1> DEFINE f == FirstAbove(v, from, l)
<1>4. /\ f \in Positions(v) /\ from <= f
      /\ f > Len(v) \/ v[f].level > l
      /\ \A j \in from..(f - 1) : v[j].level <= l
  BY <1>2, <1>3 DEF FirstAbove
<1>5. NextMapping(v, hnt, l) = f
  BY DEF NextMapping, from
<1> HIDE DEF f
<1>6. f \in DOMAIN v => v[f].level > l
  BY <1>4, VectorElements
<1>7. \A j \in DOMAIN v : j < f => v[j].level <= l
  BY <1>1, <1>4, VectorElements DEF Positions
<1> QED
  BY <1>4, <1>5, <1>6, <1>7

(* The mapping after an entry is the next entry. *)
LEMMA NextMappingOfEntry ==
  ASSUME NEW v \in Seq(Entry), Ascending(v), NEW i \in DOMAIN v
  PROVE  NextMapping(v, i, v[i].level) = i + 1
<1> DEFINE n == NextMapping(v, i, v[i].level)
<1>1. Len(v) \in Nat /\ DOMAIN v = 1..Len(v) /\ \A j \in DOMAIN v : v[j].level \in Nat
  BY VectorElements
<1>2. /\ n \in Positions(v)
      /\ n \in DOMAIN v => v[n].level > v[i].level
      /\ \A j \in DOMAIN v : j < n => v[j].level <= v[i].level
  BY <1>1, NextMappingProperties
<1> HIDE DEF n
<1>3. i < n
  <2> SUFFICES ASSUME n <= i PROVE FALSE
    BY <1>1, <1>2 DEF Positions
  <2>1. n \in DOMAIN v
    BY <1>1, <1>2 DEF Positions
  <2>2. n = i \/ v[n].level < v[i].level
    BY <1>1, <2>1 DEF Ascending
  <2> QED
    BY <1>1, <1>2, <2>1, <2>2
<1>4. ~(i + 1 < n)
  <2> SUFFICES ASSUME i + 1 < n PROVE FALSE
    OBVIOUS
  <2>1. i + 1 \in DOMAIN v
    BY <1>1, <1>2 DEF Positions
  <2>2. v[i].level < v[i + 1].level
    BY <1>1, <2>1 DEF Ascending
  <2> QED
    BY <1>1, <1>2, <2>1, <2>2
<1>5. n = i + 1
  BY <1>1, <1>2, <1>3, <1>4 DEF Positions
<1> QED
  BY <1>5 DEF n

LEMMA InsertInternalProperties ==
  ASSUME NEW v \in Seq(Entry), NEW e \in Entry, NEW i \in Positions(v)
  PROVE  /\ InsertInternal(v, i, e) \in Seq(Entry)
         /\ DOMAIN InsertInternal(v, i, e) = 1..(Len(v) + 1)
         /\ \A j \in 1..(Len(v) + 1) :
              InsertInternal(v, i, e)[j] = IF j < i THEN v[j] ELSE IF j = i THEN e ELSE v[j - 1]
<1> DEFINE n == Len(v) + 1
           f == InsertInternal(v, i, e)
<1>1. n \in Nat /\ Len(v) \in Nat /\ DOMAIN v = 1..Len(v)
  BY VectorElements
<1>2. f = [j \in 1..n |-> IF j < i THEN v[j] ELSE IF j = i THEN e ELSE v[j - 1]]
  BY DEF InsertInternal, Positions
<1>3. ASSUME NEW j \in 1..n
      PROVE  (IF j < i THEN v[j] ELSE IF j = i THEN e ELSE v[j - 1]) \in Entry
  <2>1. j < i => j \in DOMAIN v
    BY <1>1 DEF Positions
  <2>2. ~(j < i) /\ j # i => j - 1 \in DOMAIN v
    BY <1>1 DEF Positions
  <2> QED
    BY <2>1, <2>2, VectorElements
<1>4. f \in [1..n -> Entry]
  BY <1>2, <1>3
<1>5. f \in Seq(Entry)
  BY <1>1, <1>4, SeqDef
<1> QED
  BY <1>2, <1>5

(* What the write does: the level keeps its place, and gets the reactions. *)
LEMMA AbsorbedProperties ==
  ASSUME MergeInv, pc = "write"
  PROVE  /\ Absorbed \in Seq(Entry) /\ Ascending(Absorbed)
         /\ slot \in DOMAIN Absorbed /\ Absorbed[slot].level = src[next_src].level
         /\ \A l, x : Has(Absorbed, l, x) <=>
              Has(dst, l, x) \/ (l = src[next_src].level /\ x \in src[next_src].reactions)
<1> DEFINE e == src[next_src]
<1>1. dst \in Seq(Entry) /\ src \in Seq(Entry) /\ Ascending(dst) /\ slot \in Positions(dst)
      /\ next_src \in DOMAIN src /\ Sought = e.level
  BY DEF MergeInv, TypeOK, StaysAscending, NextInv, Sought
<1>2. e \in Entry /\ e.level \in Nat /\ e.reactions \subseteq Reactions
  BY <1>1, VectorElements
<1>3. Len(dst) \in Nat /\ DOMAIN dst = 1..Len(dst)
      /\ \A i \in DOMAIN dst : dst[i] \in Entry /\ dst[i].level \in Nat
  BY <1>1, VectorElements
<1>4. \A j \in DOMAIN dst : IF j < slot THEN dst[j].level < e.level ELSE dst[j].level >= e.level
  BY <1>1 DEF MergeInv, SlotInv
<1>5. CASE Occupied(dst, slot, e.level)
  <2>1. slot \in DOMAIN dst /\ dst[slot].level = e.level
    BY <1>5 DEF Occupied
  <2> DEFINE new == [dst[slot] EXCEPT !.reactions = dst[slot].reactions \cup e.reactions]
  <2>2. Absorbed = [dst EXCEPT ![slot] = new]
    BY <1>1, <1>5 DEF Absorbed
  <2>3. new \in Entry /\ new.level = e.level /\ new.reactions = dst[slot].reactions \cup e.reactions
    <3>1. dst[slot] \in [level : Nat, reactions : SUBSET Reactions]
      BY <1>3, <2>1 DEF Entry
    <3> QED
      BY <1>2, <2>1, <3>1 DEF Entry
  <2> HIDE DEF new
  <2>4. DOMAIN Absorbed = DOMAIN dst /\ Absorbed[slot] = new
        /\ \A j \in DOMAIN dst \ {slot} : Absorbed[j] = dst[j]
    BY <1>3, <2>1, <2>2
  <2>5. Absorbed \in Seq(Entry)
    BY <1>1, <2>1, <2>2, <2>3, ExceptSeq
  <2>6. \A j \in DOMAIN dst : Absorbed[j].level = dst[j].level
    BY <2>1, <2>3, <2>4
  <2>7. Ascending(Absorbed)
    BY <1>1, <2>4, <2>6 DEF Ascending
  <2>8. ASSUME NEW l, NEW x
        PROVE  Has(Absorbed, l, x) <=> Has(dst, l, x) \/ (l = e.level /\ x \in e.reactions)
    BY <2>1, <2>3, <2>4 DEF Has
  <2> QED
    BY <2>1, <2>3, <2>4, <2>5, <2>7, <2>8
<1>6. CASE ~Occupied(dst, slot, e.level)
  <2>1. Absorbed = InsertInternal(dst, slot, e)
    BY <1>1, <1>6 DEF Absorbed
  <2>2. /\ Absorbed \in Seq(Entry) /\ DOMAIN Absorbed = 1..(Len(dst) + 1)
        /\ \A j \in 1..(Len(dst) + 1) :
             Absorbed[j] = IF j < slot THEN dst[j] ELSE IF j = slot THEN e ELSE dst[j - 1]
    BY <1>1, <1>2, <2>1, InsertInternalProperties
  <2>3. slot \in 1..(Len(dst) + 1) /\ Absorbed[slot] = e
    BY <1>1, <1>3, <2>2 DEF Positions
  <2>4. \A j \in DOMAIN dst : j >= slot => dst[j].level > e.level
    <3> SUFFICES ASSUME NEW j \in DOMAIN dst, j >= slot PROVE dst[j].level > e.level
      OBVIOUS
    <3>1. slot \in DOMAIN dst
      BY <1>3, <2>3
    <3>2. dst[slot].level > e.level
      BY <1>2, <1>3, <1>4, <1>6, <3>1, <2>3 DEF Occupied
    <3>3. j = slot \/ dst[slot].level < dst[j].level
      BY <1>1, <1>3, <2>3, <3>1 DEF Ascending
    <3> QED
      BY <1>2, <1>3, <3>1, <3>2, <3>3
  <2>5. Ascending(Absorbed)
    <3> SUFFICES ASSUME NEW i \in 1..(Len(dst) + 1), NEW j \in 1..(Len(dst) + 1), i < j
                 PROVE  Absorbed[i].level < Absorbed[j].level
      BY <2>2 DEF Ascending
    <3>1. CASE j < slot
      <4>1. i \in DOMAIN dst /\ j \in DOMAIN dst
        BY <1>3, <2>3, <3>1
      <4>2. Absorbed[i] = dst[i] /\ Absorbed[j] = dst[j]
        BY <2>2, <2>3, <3>1
      <4>3. dst[i].level < dst[j].level
        BY <1>1, <4>1 DEF Ascending
      <4> QED
        BY <4>2, <4>3
    <3>2. CASE j = slot
      BY <1>3, <1>4, <2>2, <2>3, <3>2
    <3>3. CASE j > slot /\ i < slot
      <4>1. j - 1 \in DOMAIN dst /\ j - 1 >= slot /\ i \in DOMAIN dst
        BY <1>3, <2>3, <3>3
      <4>2. dst[i].level < e.level /\ dst[j - 1].level > e.level
        BY <1>4, <2>4, <3>3, <4>1
      <4>3. Absorbed[i] = dst[i] /\ Absorbed[j] = dst[j - 1]
        BY <2>2, <2>3, <3>3
      <4> QED
        BY <1>2, <1>3, <4>1, <4>2, <4>3
    <3>4. CASE j > slot /\ i = slot
      <4>1. j - 1 \in DOMAIN dst /\ j - 1 >= slot
        BY <1>3, <2>3, <3>4
      <4> QED
        BY <2>2, <2>3, <2>4, <3>4, <4>1
    <3>5. CASE j > slot /\ i > slot
      <4>1. j - 1 \in DOMAIN dst /\ i - 1 \in DOMAIN dst /\ i - 1 < j - 1
        BY <1>3, <2>3, <3>5
      <4>2. Absorbed[i] = dst[i - 1] /\ Absorbed[j] = dst[j - 1]
        BY <2>2, <2>3, <3>5
      <4>3. dst[i - 1].level < dst[j - 1].level
        BY <1>1, <4>1 DEF Ascending
      <4> QED
        BY <4>2, <4>3
    <3> QED
      BY <2>3, <3>1, <3>2, <3>3, <3>4, <3>5
  <2>6. ASSUME NEW l, NEW x
        PROVE  Has(Absorbed, l, x) <=> Has(dst, l, x) \/ (l = e.level /\ x \in e.reactions)
    <3>1. ASSUME Has(Absorbed, l, x)
          PROVE  Has(dst, l, x) \/ (l = e.level /\ x \in e.reactions)
      <4>1. PICK i \in 1..(Len(dst) + 1) : Absorbed[i].level = l /\ x \in Absorbed[i].reactions
        BY <2>2, <3>1 DEF Has
      <4>2. CASE i < slot
        BY <1>3, <2>2, <2>3, <4>1, <4>2 DEF Has
      <4>3. CASE i = slot
        BY <2>3, <4>1, <4>3
      <4>4. CASE i > slot
        <5>1. i - 1 \in DOMAIN dst /\ Absorbed[i] = dst[i - 1]
          BY <1>3, <2>2, <2>3, <4>4
        <5> QED
          BY <4>1, <5>1 DEF Has
      <4> QED
        BY <2>3, <4>2, <4>3, <4>4
    <3>2. ASSUME Has(dst, l, x)
          PROVE  Has(Absorbed, l, x)
      <4>1. PICK i \in DOMAIN dst : dst[i].level = l /\ x \in dst[i].reactions
        BY <3>2 DEF Has
      <4>2. CASE i < slot
        <5>1. i \in DOMAIN Absorbed /\ Absorbed[i] = dst[i]
          BY <1>3, <2>2, <4>2
        <5> QED
          BY <4>1, <5>1 DEF Has
      <4>3. CASE i >= slot
        <5>1. i + 1 \in DOMAIN Absorbed /\ Absorbed[i + 1] = dst[i]
          BY <1>3, <2>2, <2>3, <4>3
        <5> QED
          BY <4>1, <5>1 DEF Has
      <4> QED
        BY <1>3, <2>3, <4>2, <4>3
    <3>3. ASSUME l = e.level, x \in e.reactions
          PROVE  Has(Absorbed, l, x)
      BY <2>2, <2>3, <3>3 DEF Has
    <3> QED
      BY <3>1, <3>2, <3>3
  <2> QED
    BY <2>2, <2>3, <2>5, <2>6
<1> QED
  BY <1>5, <1>6

-----------------------------------------------------------------------------
(* The steps *)

LEMMA MergeInitial == Init => MergeInv
<1> SUFFICES ASSUME Init PROVE MergeInv
  OBVIOUS
<1>1. src \in Seq(Entry) /\ dst \in Seq(Entry) /\ before = dst /\ Ascending(src) /\ Ascending(dst)
      /\ min_level \in Nat
  BY PlansAssumption DEF Init
<1>2. Len(src) \in Nat /\ Len(dst) \in Nat /\ DOMAIN src = 1..Len(src)
  BY <1>1, VectorElements
<1>3. pc = "find_source" /\ left = 1 /\ right = Len(src) + 1
      /\ next_src = 1 /\ hint = 1 /\ slot = 1 /\ cur_level = 0
  BY DEF Init
<1>4. TypeOK
  BY <1>1, <1>2, <1>3 DEF TypeOK, Positions, Searched
<1>5. SearchInv
  BY <1>2, <1>3 DEF SearchInv, Searched
<1>6. MergedInv
  BY <1>1, <1>2, <1>3 DEF MergedInv, Merged
<1> QED
  BY <1>1, <1>3, <1>4, <1>5, <1>6
  DEF MergeInv, StaysAscending, NextInv, SlotInv, HintValid, NoLevelSkipped

LEMMA MergeUnchanged == MergeInv /\ UNCHANGED vars => MergeInv'
BY DEF MergeInv, vars, TypeOK, Ascending, StaysAscending, SearchInv, NextInv, SlotInv, HintValid,
       MergedInv, Merged, NoLevelSkipped, Has, Searched, Sought, Positions

LEMMA MergeProbe ==
  ASSUME MergeInv, Probe
  PROVE  MergeInv'
<1> DEFINE mid == Middle(left, right)
<1>1. pc \in {"find_source", "find_entry"} /\ left < right
      /\ UNCHANGED <<src, dst, min_level, before, pc, next_src, hint, slot, cur_level>>
  BY DEF Probe
<1>2. \/ Searched[mid].level < Sought /\ left' = mid + 1 /\ right' = right
      \/ Searched[mid].level > Sought /\ right' = mid /\ left' = left
  BY DEF Probe, AfterProbe
<1>3. Searched' = Searched /\ Sought' = Sought
  BY <1>1 DEF Searched, Sought
<1>4. Searched \in Seq(Entry) /\ Ascending(Searched) /\ Sought \in Nat
  <2>1. CASE pc = "find_source"
    BY <2>1 DEF MergeInv, TypeOK, Searched, Sought
  <2>2. CASE pc = "find_entry"
    <3>1. next_src \in DOMAIN src /\ src \in Seq(Entry)
      BY <2>2 DEF MergeInv, TypeOK, NextInv
    <3> QED
      BY <2>2, <3>1, VectorElements DEF MergeInv, TypeOK, StaysAscending, Searched, Sought
  <2> QED
    BY <1>1, <2>1, <2>2
<1>5. Len(Searched) \in Nat /\ DOMAIN Searched = 1..Len(Searched)
      /\ \A j \in DOMAIN Searched : Searched[j].level \in Nat
  BY <1>4, VectorElements
<1>6. left \in Nat /\ left >= 1 /\ right \in Nat /\ right <= Len(Searched) + 1
  BY <1>1, <1>5 DEF MergeInv, TypeOK, SearchInv
<1>7. mid \in Nat /\ left <= mid /\ mid < right
  BY <1>1, <1>6 DEF Middle
<1>8. mid \in DOMAIN Searched
  BY <1>5, <1>6, <1>7
<1> HIDE DEF mid
<1>9. left' \in Nat \ {0} /\ right' \in Nat \ {0} /\ left' <= right' /\ right' <= Len(Searched) + 1
  BY <1>2, <1>5, <1>6, <1>7
<1>10. \A j \in DOMAIN Searched : /\ j < left' => Searched[j].level < Sought
                                  /\ j >= right' => Searched[j].level > Sought
  <2> TAKE j \in DOMAIN Searched
  <2>1. /\ j < left => Searched[j].level < Sought
        /\ j >= right => Searched[j].level > Sought
    BY <1>1 DEF MergeInv, SearchInv
  <2>2. j = mid \/ (j < mid /\ Searched[j].level < Searched[mid].level)
                \/ (mid < j /\ Searched[mid].level < Searched[j].level)
    BY <1>4, <1>5, <1>7, <1>8 DEF Ascending
  <2> QED
    BY <1>2, <1>4, <1>5, <1>6, <1>7, <1>8, <2>1, <2>2
<1>11. SearchInv'
  BY <1>1, <1>3, <1>9, <1>10 DEF SearchInv
<1>12. TypeOK'
  <2>1. {left', right'} \subseteq Positions(Searched)
    BY <1>5, <1>9 DEF Positions
  <2> QED
    BY <1>1, <1>3, <1>9, <2>1 DEF MergeInv, TypeOK, Positions
<1>13. Ascending(src)' /\ StaysAscending' /\ NextInv' /\ SlotInv' /\ HintValid' /\ NoLevelSkipped'
  BY <1>1 DEF MergeInv, Ascending, StaysAscending, NextInv, SlotInv, HintValid, NoLevelSkipped
<1>14. MergedInv'
  BY <1>1 DEF MergeInv, MergedInv
<1> QED
  BY <1>11, <1>12, <1>13, <1>14 DEF MergeInv

(* Where the binary search ends, everything before is less and the rest is
   not. *)
LEMMA ReturnsProperties ==
  ASSUME MergeInv, pc \in {"find_source", "find_entry"}, NEW i, Returns(i)
  PROVE  /\ i \in Positions(Searched)
         /\ \A j \in DOMAIN Searched :
              IF j < i THEN Searched[j].level < Sought ELSE Searched[j].level >= Sought
<1>1. Searched \in Seq(Entry) /\ Ascending(Searched) /\ Sought \in Nat
  <2>1. CASE pc = "find_source"
    BY <2>1 DEF MergeInv, TypeOK, Searched, Sought
  <2>2. CASE pc = "find_entry"
    <3>1. next_src \in DOMAIN src /\ src \in Seq(Entry)
      BY <2>2 DEF MergeInv, TypeOK, NextInv
    <3> QED
      BY <2>2, <3>1, VectorElements DEF MergeInv, TypeOK, StaysAscending, Searched, Sought
  <2> QED
    BY <2>1, <2>2
<1>2. Len(Searched) \in Nat /\ DOMAIN Searched = 1..Len(Searched)
      /\ \A j \in DOMAIN Searched : Searched[j].level \in Nat
  BY <1>1, VectorElements
<1>3. /\ left \in Nat /\ left >= 1 /\ right \in Nat /\ left <= right /\ right <= Len(Searched) + 1
      /\ \A j \in DOMAIN Searched : /\ j < left => Searched[j].level < Sought
                                    /\ j >= right => Searched[j].level > Sought
  BY <1>2 DEF MergeInv, TypeOK, SearchInv
<1>4. CASE left < right /\ i = Middle(left, right) /\ Searched[i].level = Sought
  <2>1. i \in DOMAIN Searched
    BY <1>2, <1>3, <1>4 DEF Middle
  <2>2. \A j \in DOMAIN Searched : /\ j < i => Searched[j].level < Searched[i].level
                                   /\ i < j => Searched[i].level < Searched[j].level
    BY <1>1, <2>1 DEF Ascending
  <2>3. \A j \in DOMAIN Searched : j < i \/ j = i \/ i < j
    BY <1>2, <2>1
  <2> QED
    BY <1>1, <1>2, <1>4, <2>1, <2>2, <2>3 DEF Positions
<1>5. CASE left >= right /\ i = left
  BY <1>1, <1>2, <1>3, <1>5 DEF Positions
<1> QED
  BY <1>4, <1>5 DEF Returns

LEMMA MergeFindSource ==
  ASSUME MergeInv, FindSource
  PROVE  MergeInv'
<1>1. PICK i \in Positions(src) :
        Returns(i) /\ next_src' = i /\ pc' = IF i > Len(src) THEN "done" ELSE "find_entry"
  BY DEF FindSource
<1>2. /\ pc = "find_source" /\ left' = 1 /\ right' = Len(dst) + 1
      /\ UNCHANGED <<src, dst, min_level, before, hint, slot, cur_level>>
  BY DEF FindSource
<1>3. Searched = src /\ Sought = min_level
  BY <1>2 DEF Searched, Sought
<1>4. \A j \in DOMAIN src : IF j < i THEN src[j].level < min_level ELSE src[j].level >= min_level
  BY <1>1, <1>2, <1>3, ReturnsProperties
<1>5. src \in Seq(Entry) /\ dst \in Seq(Entry) /\ min_level \in Nat
  BY DEF MergeInv, TypeOK
<1>6. Len(src) \in Nat /\ Len(dst) \in Nat /\ DOMAIN src = 1..Len(src) /\ DOMAIN dst = 1..Len(dst)
      /\ \A j \in DOMAIN src : src[j].level \in Nat
  BY <1>5, VectorElements
<1>7. i \in 1..(Len(src) + 1)
  BY <1>1 DEF Positions
<1>8. TypeOK'
  <2>1. pc' # "find_source" => Searched' = dst
    BY <1>2 DEF Searched
  <2>2. {left', right'} \subseteq Positions(dst) /\ left' \in Nat \ {0} /\ right' \in Nat \ {0}
    BY <1>2, <1>6 DEF Positions
  <2>3. next_src' \in Positions(src')
    BY <1>1, <1>2
  <2>4. hint' \in Positions(dst') /\ slot' \in Positions(dst')
    BY <1>2 DEF MergeInv, TypeOK
  <2>5. src' \in Seq(Entry) /\ dst' \in Seq(Entry) /\ before' \in Seq(Entry) /\ min_level' \in Nat
        /\ cur_level' \in Nat
    BY <1>2 DEF MergeInv, TypeOK
  <2>6. pc' \in {"find_entry", "done"}
    BY <1>1
  <2>7. {left', right'} \subseteq Positions(Searched')
    BY <2>1, <2>2, <2>6
  <2>8. (Positions(Searched))' = Positions(Searched')
    BY DEF Positions
  <2> QED
    BY <2>2, <2>3, <2>4, <2>5, <2>6, <2>7, <2>8 DEF TypeOK, Positions
<1>9. SearchInv'
  BY <1>1, <1>2, <1>6 DEF SearchInv, Searched
<1>10. NextInv'
  BY <1>1, <1>2, <1>4, <1>6, <1>7 DEF NextInv
<1>11. MergedInv'
  <2>1. \A k \in DOMAIN src : k < next_src' => src[k].level < min_level
    BY <1>1, <1>4
  <2>2. \A k \in DOMAIN src : ~(k < next_src)
    BY <1>2, <1>6 DEF MergeInv, NextInv
  <2>3. \A l, x : Has(dst, l, x) <=> Has(before, l, x)
    BY <2>2 DEF MergeInv, MergedInv, Merged
  <2>4. \A l, x : ~(\E k \in DOMAIN src : k < next_src' /\ src[k].level = l /\ l >= min_level
                                            /\ x \in src[k].reactions)
    BY <1>5, <1>6, <2>1
  <2>5. \A l, x : Has(dst', l, x) <=> Has(before', l, x)
    BY <1>2, <2>3
  <2> QED
    <3>1. Merged(dst', before', src, next_src', min_level)
      BY <2>4, <2>5 DEF Merged
    <3> QED
      BY <1>2, <3>1 DEF MergedInv
<1>12. Ascending(src)' /\ StaysAscending' /\ SlotInv' /\ HintValid' /\ NoLevelSkipped'
  BY <1>1, <1>2 DEF MergeInv, Ascending, StaysAscending, SlotInv, HintValid, NoLevelSkipped
<1> QED
  BY <1>8, <1>9, <1>10, <1>11, <1>12 DEF MergeInv

(* Both ways to find the entry give the position where the level belongs. *)
LEMMA MergeToWrite ==
  ASSUME MergeInv, pc \in {"find_entry", "scan_entry"}, pc' = "write",
         slot' \in Positions(dst),
         \A j \in DOMAIN dst : IF j < slot' THEN dst[j].level < src[next_src].level
                                            ELSE dst[j].level >= src[next_src].level,
         UNCHANGED <<src, dst, min_level, before, left, right, next_src, hint, cur_level>>
  PROVE  MergeInv'
<1>1. Sought' = src[next_src].level
  BY DEF Sought
<1>2. SlotInv'
  BY <1>1 DEF SlotInv
<1>3. TypeOK'
  BY DEF MergeInv, TypeOK, Positions
<1>4. MergedInv'
  BY DEF MergeInv, MergedInv
<1>5. Ascending(src)' /\ StaysAscending' /\ SearchInv' /\ NextInv' /\ HintValid' /\ NoLevelSkipped'
  BY DEF MergeInv, Ascending, StaysAscending, SearchInv, NextInv, HintValid, NoLevelSkipped
<1> QED
  BY <1>2, <1>3, <1>4, <1>5 DEF MergeInv

LEMMA MergeFindEntry ==
  ASSUME MergeInv, FindEntry
  PROVE  MergeInv'
<1>1. pc = "find_entry" /\ Searched = dst /\ Sought = src[next_src].level
  BY DEF FindEntry, Searched, Sought
<1>2. PICK i \in Positions(dst) : Returns(i) /\ slot' = i
  BY DEF FindEntry
<1>3. \A j \in DOMAIN dst : IF j < i THEN dst[j].level < src[next_src].level
                                     ELSE dst[j].level >= src[next_src].level
  BY <1>1, <1>2, ReturnsProperties
<1> QED
  BY <1>1, <1>2, <1>3, MergeToWrite DEF FindEntry

LEMMA MergeScanEntry ==
  ASSUME MergeInv, ScanEntry
  PROVE  MergeInv'
<1> DEFINE l == src[next_src].level
           i == ScanFrom(dst, hint, l)
<1>1. pc = "scan_entry" /\ Sought = l /\ slot' = i
  BY DEF ScanEntry, Sought
<1>2. dst \in Seq(Entry) /\ src \in Seq(Entry) /\ Ascending(dst) /\ next_src \in DOMAIN src
  BY <1>1 DEF MergeInv, TypeOK, StaysAscending, NextInv
<1>3. l \in Nat /\ Len(dst) \in Nat /\ DOMAIN dst = 1..Len(dst) /\ \A j \in DOMAIN dst : dst[j].level \in Nat
  BY <1>2, VectorElements
<1>4. hint \in DOMAIN dst /\ dst[hint].level < l
  BY <1>1 DEF MergeInv, HintValid
<1>5. hint \in Positions(dst)
  BY <1>3, <1>4 DEF Positions
<1> HIDE DEF l
<1>6. /\ i \in Positions(dst) /\ hint <= i
      /\ i > Len(dst) \/ dst[i].level >= l
      /\ \A j \in hint..(i - 1) : dst[j].level < l
  BY <1>2, <1>3, <1>5, ScanFromProperties
<1> HIDE DEF i
<1>7. ASSUME NEW j \in DOMAIN dst
      PROVE  IF j < i THEN dst[j].level < l ELSE dst[j].level >= l
  <2>1. CASE j < hint
    <3>1. dst[j].level < dst[hint].level
      BY <1>2, <1>4, <2>1 DEF Ascending
    <3> QED
      BY <1>3, <1>4, <1>6, <2>1, <3>1 DEF Positions
  <2>2. CASE hint <= j /\ j < i
    BY <1>3, <1>4, <1>6, <2>2 DEF Positions
  <2>3. CASE i <= j
    <3>1. i \in DOMAIN dst /\ dst[i].level >= l
      BY <1>3, <1>6, <2>3 DEF Positions
    <3>2. i = j \/ dst[i].level < dst[j].level
      BY <1>2, <1>3, <2>3, <3>1 DEF Ascending
    <3> QED
      BY <1>3, <2>3, <3>1, <3>2
  <2> QED
    BY <1>3, <1>4, <1>6, <2>1, <2>2, <2>3 DEF Positions
<1> QED
  BY <1>1, <1>6, <1>7, MergeToWrite DEF ScanEntry, l

LEMMA MergeWrite ==
  ASSUME MergeInv, Write
  PROVE  MergeInv'
<1>1. /\ pc = "write" /\ dst' = Absorbed /\ hint' = slot
      /\ next_src' = NextMapping(src, next_src, src[next_src].level)
      /\ pc' = IF next_src' > Len(src) THEN "done" ELSE "scan_entry"
      /\ UNCHANGED <<src, min_level, before, left, right, slot, cur_level>>
  BY DEF Write, KeyRef
<1>2. src \in Seq(Entry) /\ Ascending(src) /\ next_src \in DOMAIN src
      /\ src[next_src].level >= min_level /\ min_level \in Nat
  BY <1>1 DEF MergeInv, TypeOK, NextInv
<1>3. Len(src) \in Nat /\ DOMAIN src = 1..Len(src) /\ \A j \in DOMAIN src : src[j].level \in Nat
  BY <1>2, VectorElements
<1>4. next_src' = next_src + 1
  BY <1>1, <1>2, NextMappingOfEntry
<1>5. /\ dst' \in Seq(Entry) /\ Ascending(dst')
      /\ slot \in DOMAIN dst' /\ dst'[slot].level = src[next_src].level
      /\ \A l, x : Has(dst', l, x) <=>
           Has(dst, l, x) \/ (l = src[next_src].level /\ x \in src[next_src].reactions)
  BY <1>1, AbsorbedProperties
<1>6. slot \in Positions(dst')
  BY <1>5, VectorElements DEF Positions
<1>7. pc' \in {"done", "scan_entry"} /\ (pc' = "done" <=> next_src' = Len(src) + 1)
      /\ (pc' = "scan_entry" => next_src' \in DOMAIN src /\ src[next_src].level < src[next_src'].level)
  <2>1. next_src' = Len(src) + 1 \/ next_src' \in DOMAIN src
    BY <1>2, <1>3, <1>4
  <2>2. next_src' \in DOMAIN src => src[next_src].level < src[next_src'].level
    BY <1>2, <1>3, <1>4 DEF Ascending
  <2> QED
    BY <1>1, <1>3, <2>1, <2>2
<1>8. TypeOK'
  <2>1. next_src' \in Positions(src)
    BY <1>2, <1>3, <1>4 DEF Positions
  <2> QED
    BY <1>1, <1>5, <1>6, <1>7, <2>1 DEF MergeInv, TypeOK, Positions
<1>9. NextInv'
  BY <1>1, <1>2, <1>3, <1>7 DEF NextInv
<1>10. HintValid'
  BY <1>1, <1>5, <1>7 DEF HintValid, Sought
<1>11. MergedInv'
  <2>1. ASSUME NEW l, NEW x
        PROVE  (\E i \in DOMAIN src : i < next_src' /\ src[i].level = l /\ l >= min_level
                                        /\ x \in src[i].reactions)
               <=> \/ \E i \in DOMAIN src : i < next_src /\ src[i].level = l /\ l >= min_level
                                              /\ x \in src[i].reactions
                   \/ l = src[next_src].level /\ x \in src[next_src].reactions
    <3>1. \A i \in DOMAIN src : i < next_src' <=> (i < next_src \/ i = next_src)
      BY <1>2, <1>3, <1>4
    <3> QED
      BY <1>2, <3>1
  <2>2. \A l, x : Has(dst, l, x) <=>
          \/ Has(before, l, x)
          \/ \E i \in DOMAIN src : i < next_src /\ src[i].level = l /\ l >= min_level
                                     /\ x \in src[i].reactions
    BY DEF MergeInv, MergedInv, Merged
  <2>3. \A l, x : Has(dst', l, x) <=>
          \/ Has(before, l, x)
          \/ \E i \in DOMAIN src : i < next_src' /\ src[i].level = l /\ l >= min_level
                                     /\ x \in src[i].reactions
    BY <1>5, <2>1, <2>2
  <2> QED
    <3>1. Merged(dst', before, src, next_src', min_level)
      BY <2>3 DEF Merged
    <3> QED
      BY <1>1, <3>1 DEF MergedInv
<1>12. Ascending(src)' /\ StaysAscending' /\ SearchInv' /\ SlotInv' /\ NoLevelSkipped'
  BY <1>1, <1>5, <1>7 DEF MergeInv, Ascending, StaysAscending, SearchInv, SlotInv, NoLevelSkipped
<1> QED
  BY <1>8, <1>9, <1>10, <1>11, <1>12 DEF MergeInv

LEMMA MergeNextBatch ==
  ASSUME MergeInv, NextBatch
  PROVE  MergeInv'
<1>1. PICK v \in {before, src} : \E i \in DOMAIN v :
        v[i].level + 1 = min_level /\ cur_level' = v[i].level /\ slot' = NextMapping(dst, i, v[i].level)
  BY DEF NextBatch
<1>2. PICK i \in DOMAIN v :
        v[i].level + 1 = min_level /\ cur_level' = v[i].level /\ slot' = NextMapping(dst, i, v[i].level)
  BY <1>1
<1>3. pc = "done" /\ pc' = "next"
      /\ UNCHANGED <<src, dst, min_level, before, left, right, next_src, hint>>
  BY DEF NextBatch
<1>4. v \in Seq(Entry) /\ dst \in Seq(Entry) /\ Ascending(dst)
  BY DEF MergeInv, TypeOK, StaysAscending
<1>5. cur_level' \in Nat
  BY <1>2, <1>4, VectorElements
<1>6. /\ slot' \in Positions(dst)
      /\ slot' \in DOMAIN dst => dst[slot'].level > cur_level'
      /\ \A j \in DOMAIN dst : j < slot' => dst[j].level <= cur_level'
  BY <1>2, <1>4, <1>5, NextMappingProperties
<1>7. NoLevelSkipped'
  BY <1>3, <1>6 DEF NoLevelSkipped
<1>8. TypeOK'
  BY <1>3, <1>5, <1>6 DEF MergeInv, TypeOK, Positions
<1>9. MergedInv'
  BY <1>3 DEF MergeInv, MergedInv
<1>10. Ascending(src)' /\ StaysAscending' /\ SearchInv' /\ NextInv' /\ SlotInv' /\ HintValid'
  BY <1>3 DEF MergeInv, Ascending, StaysAscending, SearchInv, NextInv, SlotInv, HintValid
<1> QED
  BY <1>7, <1>8, <1>9, <1>10 DEF MergeInv

LEMMA MergeStep == MergeInv /\ [Next]_vars => MergeInv'
<1> SUFFICES ASSUME MergeInv, [Next]_vars PROVE MergeInv'
  OBVIOUS
<1>1. CASE Probe
  BY <1>1, MergeProbe
<1>2. CASE FindSource
  BY <1>2, MergeFindSource
<1>3. CASE FindEntry
  BY <1>3, MergeFindEntry
<1>4. CASE ScanEntry
  BY <1>4, MergeScanEntry
<1>5. CASE Write
  BY <1>5, MergeWrite
<1>6. CASE NextBatch
  BY <1>6, MergeNextBatch
<1>7. CASE Return \/ UNCHANGED vars
  BY <1>7, MergeUnchanged DEF Return
<1> QED
  BY <1>1, <1>2, <1>3, <1>4, <1>5, <1>6, <1>7 DEF Next, Merge

-----------------------------------------------------------------------------
(* The theorems *)

LEMMA MergeInvariant == Spec => []MergeInv
BY MergeInitial, MergeStep, PTL DEF Spec

(* Every position is one of the vector it is used for. *)
THEOREM MergeTypesHold == Spec => []TypeOK
<1>1. MergeInv => TypeOK
  BY DEF MergeInv
<1> QED
  BY <1>1, MergeInvariant, PTL

(* The levels of the plan stay in ascending order, each once. *)
THEOREM StaysAscendingHolds == Spec => []StaysAscending
<1>1. MergeInv => StaysAscending
  BY DEF MergeInv
<1> QED
  BY <1>1, MergeInvariant, PTL

(* The position that was taken before an insertion is a valid hint after it. *)
THEOREM HintValidHolds == Spec => []HintValid
<1>1. MergeInv => HintValid
  BY DEF MergeInv
<1> QED
  BY <1>1, MergeInvariant, PTL

(* The next batch is that of the next level, also when the position of the
   current level is one of another plan. *)
THEOREM NoLevelSkippedHolds == Spec => []NoLevelSkipped
<1>1. MergeInv => NoLevelSkipped
  BY DEF MergeInv
<1> QED
  BY <1>1, MergeInvariant, PTL

LEMMA HeldIsHas == \A v, l, x : x \in Held(v, l) <=> Has(v, l, x)
BY DEF Held, Has

(* A merge adds the levels of src from min_level on, and nothing else. *)
THEOREM MergeCompleteHolds == Spec => []MergeComplete
<1>1. ASSUME MergeInv PROVE MergeComplete
  <2> SUFFICES ASSUME pc = "done", NEW l
               PROVE  Held(dst, l) = Held(before, l) \cup (IF l >= min_level THEN Held(src, l) ELSE {})
    BY DEF MergeComplete
  <2>1. src \in Seq(Entry) /\ next_src = Len(src) + 1
    BY <1>1 DEF MergeInv, TypeOK, NextInv
  <2>2. \A i \in DOMAIN src : i < next_src
    BY <2>1, VectorElements
  <2>3. \A x : Has(dst, l, x) <=> Has(before, l, x) \/ (l >= min_level /\ Has(src, l, x))
    <3>1. \A x : Has(src, l, x) <=>
                 \E i \in DOMAIN src : i < next_src /\ src[i].level = l /\ x \in src[i].reactions
      BY <2>2 DEF Has
    <3> QED
      BY <1>1, <3>1 DEF MergeInv, MergedInv, Merged
  <2> QED
    BY <2>3, HeldIsHas
<1> QED
  BY <1>1, MergeInvariant, PTL
=============================================================================
