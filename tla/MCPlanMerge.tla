---------------------------- MODULE MCPlanMerge ----------------------------
(* An instance of PlanMerge for TLC: all plans of five reactions in four
   levels, one of which has two. *)
EXTENDS PlanMerge, FiniteSets

CONSTANTS r0, r1, r2, r3, r4

MCLevel(r) == CASE r = r0 -> 0 [] r \in {r1, r4} -> 1 [] r = r2 -> 2 [] r = r3 -> 3

MCPlan(rs) ==
  LET levels == {MCLevel(r) : r \in rs}
      nth(n) == CHOOSE l \in levels : Cardinality({k \in levels : k < l}) = n - 1
  IN  [n \in 1..Cardinality(levels) |->
         [level |-> nth(n), reactions |-> {r \in rs : MCLevel(r) = nth(n)}]]

MCPlans == {MCPlan(rs) : rs \in SUBSET Reactions}
=============================================================================
