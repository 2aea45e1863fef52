----------------------------- MODULE PlanMerge -----------------------------
(***************************************************************************)
(* absorb_after (scheduler/dependencies.rs): the merge of the levels of a  *)
(* plan src, from min_level on, into a plan dst, with the searches it does *)
(* in the sorted vectors of both (util/vecmap.rs); and the search for the  *)
(* next batch in the result.  The first entry of src and the first entry   *)
(* of dst are found by binary search; every other one of dst by scanning   *)
(* from the previous one, which relies on a position that was taken before *)
(* dst was changed.  The batch that has just been run is known by its      *)
(* position in one of the two plans before the merge.                      *)
(***************************************************************************)
EXTENDS VecMap

CONSTANTS Plans, MinLevels    \* plans to merge, and values of min_level

ASSUME PlansAssumption ==
  /\ Plans \subseteq {v \in Seq(Entry) : Ascending(v)}
  /\ MinLevels \subseteq Nat

VARIABLES
  src, dst, min_level,
  before,           \* history: dst at the call
  pc,               \* find_source, find_entry, scan_entry, write, done or next
  left, right,      \* of find_k
  next_src,         \* position in src
  hint,             \* position in dst: dst_position_hint
  slot,             \* position in dst: dst_entry, then that of the next batch
  cur_level         \* the level that has been run

vars == <<src, dst, min_level, before, pc, left, right, next_src, hint, slot, cur_level>>

(* The vector that find_k searches, and the key that is sought. *)
Searched == IF pc = "find_source" THEN src ELSE dst
Sought == IF pc = "find_source" THEN min_level ELSE src[next_src].level

Init ==
  /\ src \in Plans /\ dst \in Plans /\ before = dst
  /\ min_level \in MinLevels
  /\ pc = "find_source"
  /\ left = 1 /\ right = Len(src) + 1
  /\ next_src = 1 /\ hint = 1 /\ slot = 1 /\ cur_level = 0

(* find_k: a round of the binary search that does not meet the key *)
Probe ==
  /\ pc \in {"find_source", "find_entry"} /\ left < right
  /\ LET mid == Middle(left, right) IN
       \/ Searched[mid].level < Sought /\ left' = AfterProbe(mid) /\ UNCHANGED right
       \/ Searched[mid].level > Sought /\ right' = mid /\ UNCHANGED left
  /\ UNCHANGED <<src, dst, min_level, before, pc, next_src, hint, slot, cur_level>>

(* find_k returns Ok(i) or Err(i) *)
Returns(i) ==
  \/ left < right /\ i = Middle(left, right) /\ Searched[i].level = Sought
  \/ left >= right /\ i = left

(* find_random_mapping_after; then the first call of entry, on all of dst *)
FindSource ==
  /\ pc = "find_source"
  /\ \E i \in Positions(src) :
       /\ Returns(i)
       /\ next_src' = i
       /\ pc' = IF i > Len(src) THEN "done" ELSE "find_entry"
  /\ left' = 1 /\ right' = Len(dst) + 1
  /\ UNCHANGED <<src, dst, min_level, before, hint, slot, cur_level>>

(* entry *)
FindEntry ==
  /\ pc = "find_entry"
  /\ \E i \in Positions(dst) : Returns(i) /\ slot' = i
  /\ pc' = "write"
  /\ UNCHANGED <<src, dst, min_level, before, left, right, next_src, hint, cur_level>>

(* entry_from_ref *)
ScanEntry ==
  /\ pc = "scan_entry"
  /\ slot' = ScanFrom(dst, hint, Sought)
  /\ pc' = "write"
  /\ UNCHANGED <<src, dst, min_level, before, left, right, next_src, hint, cur_level>>

(* Faulty variants of Absorbed: the level of src replaces that of dst; a new
   entry goes to the end. *)
Replaced ==
  IF Occupied(dst, slot, Sought)
    THEN [dst EXCEPT ![slot].reactions = src[next_src].reactions]
    ELSE InsertInternal(dst, slot, src[next_src])
Appended ==
  IF Occupied(dst, slot, Sought)
    THEN [dst EXCEPT ![slot].reactions = @ \cup src[next_src].reactions]
    ELSE Append(dst, src[next_src])

(* The entry is inserted, or extended.  (An empty level is replaced, which is
   the same as extending it.) *)
Absorbed ==
  IF Occupied(dst, slot, Sought)
    THEN [dst EXCEPT ![slot].reactions = @ \cup src[next_src].reactions]
    ELSE InsertInternal(dst, slot, src[next_src])

(* the end of the loop's body *)
Write ==
  /\ pc = "write"
  /\ dst' = Absorbed
  /\ hint' = KeyRef(slot)
  /\ next_src' = NextMapping(src, next_src, src[next_src].level)
  /\ pc' = IF next_src' > Len(src) THEN "done" ELSE "scan_entry"
  /\ UNCHANGED <<src, min_level, before, left, right, slot, cur_level>>

(* next_batch, in the loop of process_tag, which merges from the level after
   the current one on *)
NextBatch ==
  /\ pc = "done"
  /\ \E v \in {before, src} : \E i \in DOMAIN v :
       /\ v[i].level + 1 = min_level
       /\ cur_level' = v[i].level
       /\ slot' = NextMapping(dst, i, v[i].level)
  /\ pc' = "next"
  /\ UNCHANGED <<src, dst, min_level, before, left, right, next_src, hint>>

Return == pc \in {"done", "next"} /\ UNCHANGED vars

Merge == Probe \/ FindSource \/ FindEntry \/ ScanEntry \/ Write
Next == Merge \/ NextBatch \/ Return

Spec == Init /\ [][Next]_vars
FairSpec == Spec /\ WF_vars(Merge)

-----------------------------------------------------------------------------
(* Positions stay within the vectors they are used for. *)
TypeOK ==
  /\ src \in Seq(Entry) /\ dst \in Seq(Entry) /\ before \in Seq(Entry)
  /\ min_level \in Nat
  /\ pc \in {"find_source", "find_entry", "scan_entry", "write", "done", "next"}
  /\ left \in Nat \ {0} /\ right \in Nat \ {0}
  /\ pc \in {"find_source", "find_entry"} => {left, right} \subseteq Positions(Searched)
  /\ next_src \in Positions(src)
  /\ hint \in Positions(dst) /\ slot \in Positions(dst)
  /\ cur_level \in Nat

(* The levels of the plan stay in ascending order without duplicates, which
   the next search and the order of the batches rely on. *)
StaysAscending == Ascending(dst)

(* What entry_from_ref assumes of the position it is given, although entries
   have been inserted since: "the underlying key is in the map" and
   "key_hint.key <= key". *)
HintValid ==
  pc = "scan_entry" => hint \in DOMAIN dst /\ dst[hint].level < Sought

(* The merge adds the reactions of each level from min_level on, and nothing
   else: "the produced reaction plan has all the reactions of x and y". *)
MergeComplete ==
  pc = "done" => \A l \in Keys(dst) \cup Keys(before) \cup Keys(src) :
    Held(dst, l) = Held(before, l) \cup (IF l >= min_level THEN Held(src, l) ELSE {})

(* The batch that comes next is that of the next level of the merged plan: no
   level is skipped, although the position of the current one is that in the
   plan before the merge, and none is run again. *)
NoLevelSkipped ==
  pc = "next" =>
    /\ slot \in DOMAIN dst => dst[slot].level > cur_level
    /\ \A i \in DOMAIN dst : i < slot => dst[i].level <= cur_level

(* The searches and the loop come to an end. *)
MergeEnds == <>(pc \in {"done", "next"})
=============================================================================
