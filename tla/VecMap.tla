------------------------------- MODULE VecMap -------------------------------
(***************************************************************************)
(* The sorted vector map (util/vecmap.rs) of a reaction plan: a sequence   *)
(* of levels in ascending order, each with its reactions.  Positions count *)
(* from 1, and Len(v) + 1 is the position after the last entry.            *)
(***************************************************************************)
EXTENDS Naturals, Sequences

CONSTANT Reactions

Entry == [level : Nat, reactions : SUBSET Reactions]

Ascending(v) == \A i, j \in DOMAIN v : i < j => v[i].level < v[j].level

Positions(v) == 1..(Len(v) + 1)

(* One step of find_k: the middle of the positions left..right - 1 *)
Middle(left, right) == left + (right - left) \div 2

(* Faulty variants of AfterProbe: the probed entry is kept, or one too many is
   given up. *)
AfterProbeKeeping(mid) == mid
AfterProbeSkipping(mid) == mid + 2

(* find_k: where to go on when the probed key is less *)
AfterProbe(mid) == mid + 1

(* entry_from_ref: the first position from the hint on with key l or a greater
   one, which is where l belongs if the hint is valid *)
ScanFrom(v, hint, l) ==
  CHOOSE i \in Positions(v) :
    /\ hint <= i
    /\ i > Len(v) \/ v[i].level >= l
    /\ \A j \in hint..(i - 1) : v[j].level < l

Occupied(v, i, l) == i \in DOMAIN v /\ v[i].level = l

(* Faulty variant of KeyRef: the position after the entry. *)
KeyRefBehind(i) == i + 1

(* Entry::keyref: the position of the entry *)
KeyRef(i) == i

(* insert_internal: Vec::insert *)
InsertInternal(v, i, entry) ==
  [j \in Positions(v) |-> IF j < i THEN v[j] ELSE IF j = i THEN entry ELSE v[j - 1]]

(* The first position from the given one on whose key is greater than l *)
FirstAbove(v, from, l) ==
  CHOOSE n \in Positions(v) :
    /\ from <= n
    /\ n > Len(v) \/ v[n].level > l
    /\ \A j \in from..(n - 1) : v[j].level <= l

(* Faulty variant of NextMapping: the hint is not checked. *)
NextMappingUnchecked(v, hint, l) ==
  FirstAbove(v, IF hint \in DOMAIN v THEN hint ELSE 1, l)

(* next_mapping: the position of the next key after l, Len(v) + 1 if there is
   none.  The hint is ignored if it is not the position of a key up to l; it
   may come from another map. *)
NextMapping(v, hint, l) ==
  FirstAbove(v, IF hint \in DOMAIN v /\ v[hint].level <= l THEN hint ELSE 1, l)

(* The keys of a map, and what it holds for a key. *)
Keys(v) == {v[i].level : i \in DOMAIN v}
Held(v, l) == UNION {v[i].reactions : i \in {j \in DOMAIN v : v[j].level = l}}
=============================================================================
