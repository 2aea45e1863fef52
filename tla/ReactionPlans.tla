--------------------------- MODULE ReactionPlans ---------------------------
(***************************************************************************)
(* Reaction plans (ExecutableReactions, scheduler/dependencies.rs), by     *)
(* what they hold: a set of reactions, each in its level lev, and whether  *)
(* the copy-on-write handle owns it.  PlanMerge models the same merge on   *)
(* the sorted vectors that plans are made of.                              *)
(***************************************************************************)
EXTENDS Naturals

CONSTANT NoPlan

Borrowed(rs) == [owned |-> FALSE, reactions |-> rs]
Owned(rs) == [owned |-> TRUE, reactions |-> rs]

(* max_level: zero for a plan without levels *)
MaxLevel(lev, plan) ==
  IF plan.reactions = {} THEN 0
  ELSE CHOOSE l \in {lev[r] : r \in plan.reactions} : \A r \in plan.reactions : lev[r] <= l

(* absorb_after *)
AbsorbAfter(lev, dst, src, min) ==
  Owned(dst.reactions \cup {r \in src.reactions : lev[r] >= min})

(* Faulty variants of MergePlansAfter: the plan with more levels is taken for
   the union; the plan of the wave is only kept if nothing was added. *)
MergeDeeper(lev, x, y, min) ==
  IF y = NoPlan THEN x
  ELSE IF x = NoPlan THEN y
  ELSE IF MaxLevel(lev, x) < MaxLevel(lev, y) THEN y ELSE x
MergeLatest(lev, x, y, min) == IF y = NoPlan THEN x ELSE y

(* merge_plans_after *)
MergePlansAfter(lev, x, y, min) ==
  IF y = NoPlan THEN x
  ELSE IF x = NoPlan THEN y
  ELSE IF MaxLevel(lev, x) < min THEN y
  ELSE IF MaxLevel(lev, y) < min THEN x
  ELSE IF x.owned \/ (~y.owned /\ MaxLevel(lev, x) <= MaxLevel(lev, y))
    THEN AbsorbAfter(lev, x, y, min)
    ELSE AbsorbAfter(lev, y, x, min)

(* Faulty variant of Later: the current level is run again. *)
LaterOrEqual(lev, plan, after) ==
  IF plan = NoPlan THEN {} ELSE {r \in plan.reactions : lev[r] >= after}

(* The reactions of a plan in the levels after the given one, and those of the
   first of these levels (next_batch). *)
Later(lev, plan, after) ==
  IF plan = NoPlan THEN {} ELSE {r \in plan.reactions : lev[r] > after}

FirstOf(lev, rs) == {r \in rs : \A q \in rs : lev[r] <= lev[q]}
=============================================================================
