----------------------- MODULE DependencyGraphProofs -----------------------
(***************************************************************************)
(* Facts about the dependency graph of any program: the levels ascend      *)
(* along every edge, hence along every dependency between reactions, and   *)
(* no two declared reactions of a reactor share a level.                   *)
(***************************************************************************)
EXTENDS DependencyGraph, WellFoundedInduction, TLAPS

(* A node that has been visited has been visited after its predecessors, and
   is below its successors. *)
GraphInv ==
  /\ GraphTypeOK
  /\ \A n \in visited, m \in Nodes : <<m, n>> \in Edges => m \in visited
  /\ \A n \in visited, m \in Nodes : <<n, m>> \in Edges => level[n] < level[m]
  /\ assembly = "assembled" =>
       visited = Nodes /\ \A t \in TriggerIds : trigger_to_plan[t] = PlanOf(t)

LEMMA EdgesKept == program' = program => Edges' = Edges
BY DEF Edges, Priority, BankEdges, PerChannel

LEMMA PlanOfKept ==
  ASSUME program' = program, NEW t
  PROVE  PlanOf(t)' = PlanOf(t)
BY DEF PlanOf, Carriers, PerChannel, BankEdges

LEMMA GraphInitial == GraphInit => GraphInv
BY DEF GraphInit, GraphInv, GraphTypeOK

LEMMA GraphUnchanged ==
  ASSUME GraphInv, UNCHANGED graphVars
  PROVE  GraphInv'
<1>1. Edges' = Edges
  BY EdgesKept DEF graphVars
<1>2. \A t : PlanOf(t)' = PlanOf(t)
  BY PlanOfKept DEF graphVars
<1> QED
  BY <1>1, <1>2 DEF GraphInv, GraphTypeOK, graphVars

LEMMA PlanOfType == \A t : PlanOf(t) \in SUBSET Reactions
BY DEF PlanOf

(* The turn of a node raises its successors, none of which has been visited,
   and changes no visited node. *)
LEMMA NumberNodeStep ==
  ASSUME GraphInv, NEW n \in Nodes, NumberNode(n)
  PROVE  GraphInv'
<1>1. Edges' = Edges
  BY EdgesKept DEF NumberNode
<1>2. n \in Nodes \ visited /\ \A m \in Nodes : <<m, n>> \in Edges => m \in visited
  BY DEF NumberNode, Numberable
<1>3. level \in [Nodes -> Nat] /\ visited \subseteq Nodes
  BY DEF GraphInv, GraphTypeOK
<1>4. level' = [m \in Nodes |-> Raised(n, m)] /\ visited' = visited \cup {n}
  BY DEF NumberNode
<1>5. \A m \in Nodes : level'[m] \in Nat /\ level[m] <= level'[m]
  BY <1>2, <1>3, <1>4 DEF Raised
<1>6. \A m \in Nodes : <<n, m>> \in Edges => level[n] < level'[m]
  BY <1>2, <1>3, <1>4 DEF Raised
<1>7. \A k \in visited' : <<n, k>> \notin Edges
  BY <1>2, <1>3, <1>4 DEF GraphInv
<1>8. \A k \in visited' : level'[k] = level[k]
  BY <1>2, <1>3, <1>4, <1>7 DEF Raised
<1>9. GraphTypeOK'
  BY <1>2, <1>3, <1>4, <1>5 DEF GraphInv, GraphTypeOK, NumberNode
<1>10. \A k \in visited', m \in Nodes : <<m, k>> \in Edges' => m \in visited'
  BY <1>1, <1>2, <1>4 DEF GraphInv
<1>11. \A k \in visited', m \in Nodes : <<k, m>> \in Edges' => level'[k] < level'[m]
  <2> SUFFICES ASSUME NEW k \in visited', NEW m \in Nodes, <<k, m>> \in Edges
               PROVE  level'[k] < level'[m]
    BY <1>1
  <2>1. CASE k = n
    BY <2>1, <1>2, <1>3, <1>5, <1>6, <1>8
  <2>2. CASE k \in visited
    <3>1. level[k] < level[m] /\ level'[k] = level[k] /\ k \in Nodes
      BY <2>2, <1>3, <1>8 DEF GraphInv
    <3> QED
      BY <3>1, <1>3, <1>5
  <2> QED
    BY <2>1, <2>2, <1>4
<1>12. assembly' # "assembled"
  BY DEF NumberNode
<1> QED
  BY <1>9, <1>10, <1>11, <1>12 DEF GraphInv

LEMMA AssembleStep ==
  ASSUME GraphInv, Assemble
  PROVE  GraphInv'
<1>1. ASSUME NEW n \in Nodes, NumberNode(n) PROVE GraphInv'
  BY <1>1, NumberNodeStep
<1>2. CASE Refuse
  <2>1. Edges' = Edges
    BY <1>2, EdgesKept DEF Refuse
  <2> QED
    BY <1>2, <2>1 DEF Refuse, GraphInv, GraphTypeOK
<1>3. CASE CollectPlans
  <2>1. Edges' = Edges
    BY <1>3, EdgesKept DEF CollectPlans
  <2>2. \A t : PlanOf(t)' = PlanOf(t)
    BY <1>3, PlanOfKept DEF CollectPlans
  <2>3. trigger_to_plan' = [t \in TriggerIds |-> PlanOf(t)]
    BY <1>3 DEF CollectPlans
  <2>4. GraphTypeOK'
    BY <1>3, <2>3, PlanOfType DEF CollectPlans, GraphInv, GraphTypeOK
  <2> QED
    BY <1>3, <2>1, <2>2, <2>3, <2>4 DEF CollectPlans, GraphInv
<1> QED
  BY <1>1, <1>2, <1>3 DEF Assemble

-----------------------------------------------------------------------------
(* What follows for an assembled program *)

LEMMA EdgeAscends ==
  ASSUME GraphInv, assembly = "assembled",
         NEW n \in Nodes, NEW m \in Nodes, <<n, m>> \in Edges
  PROVE  level[n] < level[m]
BY DEF GraphInv

(* Whatever carries what is written to t is at the level of t or above. *)
LEMMA CarriersAscend ==
  ASSUME GraphInv, assembly = "assembled", NEW t \in TriggerIds, NEW p \in Carriers(t)
  PROVE  p \in TriggerIds /\ level[t] <= level[p]
<1> DEFINE S == {q \in Ports \cup {t} : level[t] <= level[q]}
<1>1. level \in [Nodes -> Nat] /\ TriggerIds \subseteq Nodes /\ Ports \cup {t} \subseteq TriggerIds
  BY DEF GraphInv, GraphTypeOK, Nodes, TriggerIds
<1>2. t \in S
  BY <1>1
<1>3. ASSUME NEW e \in BankEdges \cup program.bindings, e[1] \in S
      PROVE  e[2] \in S
  <2>1. program \in Programs
    BY DEF GraphInv, GraphTypeOK
  <2>2. program.bindings \subseteq Ports \X Ports
    BY <2>1, ProgramsAssumption
  <2>3. e = <<e[1], e[2]>> /\ e[2] \in Ports
    BY <1>3, <2>2 DEF BankEdges
  <2>4. <<e[1], e[2]>> \in Edges
    BY <1>3, <2>3 DEF Edges
  <2>5. e[1] \in Nodes /\ e[2] \in Nodes
    BY <1>1, <1>3, <2>3
  <2>6. level[e[1]] < level[e[2]]
    BY <2>4, <2>5, EdgeAscends
  <2> QED
    BY <1>1, <1>3, <2>3, <2>5, <2>6
<1>4. p \in S
  <2>1. S \in SUBSET (Ports \cup {t})
    OBVIOUS
  <2> QED
    BY <1>2, <1>3, <2>1 DEF Carriers
<1> QED
  BY <1>1, <1>4

(* A reaction that depends on another is above it. *)
LEMMA PrecedesAscends ==
  ASSUME GraphInv, assembly = "assembled",
         NEW n \in Reactions, NEW m \in Reactions, Precedes(n, m)
  PROVE  level[n] < level[m]
<1>1. level \in [Nodes -> Nat] /\ Reactions \subseteq Nodes /\ TriggerIds \subseteq Nodes
  BY DEF GraphInv, GraphTypeOK, Nodes
<1>2. CASE <<n, m>> \in Priority
  BY <1>1, <1>2, EdgeAscends DEF Edges
<1>3. ASSUME NEW t \in TriggerIds, <<n, t>> \in program.effects,
             NEW p \in Carriers(t), <<p, m>> \in PerChannel(program.triggers \cup program.uses)
      PROVE  level[n] < level[m]
  <2>1. <<n, t>> \in Edges
    BY <1>3 DEF Edges
  <2>2. <<p, m>> \in Edges
    BY <1>3 DEF Edges, PerChannel
  <2>3. level[n] < level[t]
    BY <1>1, <2>1, EdgeAscends
  <2>4. p \in TriggerIds /\ level[t] <= level[p]
    BY CarriersAscend
  <2>5. level[p] < level[m]
    BY <1>1, <2>2, <2>4, EdgeAscends
  <2> QED
    BY <1>1, <2>3, <2>4, <2>5
<1> QED
  BY <1>2, <1>3 DEF Precedes

(* A reaction that is triggered by t is above t. *)
LEMMA PlanAscends ==
  ASSUME GraphInv, assembly = "assembled", NEW t \in TriggerIds, NEW r \in trigger_to_plan[t]
  PROVE  r \in Reactions /\ level[t] < level[r]
<1>1. level \in [Nodes -> Nat] /\ Reactions \subseteq Nodes /\ TriggerIds \subseteq Nodes
  BY DEF GraphInv, GraphTypeOK, Nodes
<1>2. r \in PlanOf(t)
  BY DEF GraphInv
<1>3. PICK p \in Carriers(t) : r \in Reactions /\ <<p, r>> \in PerChannel(program.triggers)
  BY <1>2 DEF PlanOf
<1>4. p \in TriggerIds /\ level[t] <= level[p]
  BY CarriersAscend
<1>5. level[p] < level[r]
  BY <1>1, <1>3, <1>4, EdgeAscends DEF Edges
<1> QED
  BY <1>1, <1>3, <1>4, <1>5

(* Priority edges order all declared reactions of a reactor, by the least one
   that is not above an earlier one. *)
LEMMA RanksAscend ==
  ASSUME GraphInv, assembly = "assembled",
         NEW r \in Declared, NEW q \in Declared, ReactorOf[r] = ReactorOf[q], Rank[r] < Rank[q]
  PROVE  level[r] < level[q]
<1> DEFINE Bad(k) == \E x, y \in Declared :
                       /\ ReactorOf[x] = ReactorOf[y] /\ Rank[x] < Rank[y] /\ Rank[y] = k
                       /\ ~(level[x] < level[y])
           Ks == {k \in Nat : Bad(k)}
<1>1. level \in [Nodes -> Nat] /\ Declared \subseteq Nodes /\ Rank \in [Reactions -> Nat]
      /\ Declared \subseteq Reactions
  BY ComponentsAssumption, RankAssumption DEF GraphInv, GraphTypeOK, Nodes
<1>2. SUFFICES ASSUME Ks # {} PROVE FALSE
  BY <1>1
<1>3. PICK k \in Ks : \A j \in Ks : ~(<<j, k>> \in OpToRel(<, Nat))
  BY <1>2, NatLessThanWellFounded, WFMin, Zenon
<1>4. \A j \in Ks : ~(j < k)
  BY <1>3 DEF OpToRel
<1>5. PICK x \in Declared, y \in Declared :
        /\ ReactorOf[x] = ReactorOf[y] /\ Rank[x] < Rank[y] /\ Rank[y] = k
        /\ ~(level[x] < level[y])
  OBVIOUS
<1>6. PICK p \in Declared : ReactorOf[p] = ReactorOf[y] /\ Rank[y] = Rank[p] + 1
  BY <1>1, <1>5, RankAssumption
<1>7. level[p] < level[y]
  <2>1. <<p, y>> \in Priority
    BY <1>6 DEF Priority
  <2> QED
    BY <1>1, <2>1, EdgeAscends DEF Edges
<1>8. x # p
  BY <1>1, <1>5, <1>7
<1>9. Rank[x] # Rank[p]
  BY <1>5, <1>6, <1>8, RankAssumption
<1>10. Rank[x] < Rank[p] /\ Rank[p] < k /\ Rank[p] \in Nat
  BY <1>1, <1>5, <1>6, <1>9
<1>11. level[x] < level[p]
  BY <1>4, <1>5, <1>6, <1>10
<1> QED
  BY <1>1, <1>5, <1>7, <1>11

(* No two declared reactions of a reactor are in the same level. *)
LEMMA LevelsDistinct ==
  ASSUME GraphInv, assembly = "assembled",
         NEW r \in Declared, NEW q \in Declared, r # q, ReactorOf[r] = ReactorOf[q]
  PROVE  level[r] # level[q]
<1>1. Rank[r] \in Nat /\ Rank[q] \in Nat /\ Rank[r] # Rank[q]
  BY ComponentsAssumption, RankAssumption
<1>2. level[r] \in Nat /\ level[q] \in Nat
  BY ComponentsAssumption DEF GraphInv, GraphTypeOK, Nodes
<1>3. CASE Rank[r] < Rank[q]
  BY <1>2, <1>3, RanksAscend
<1>4. CASE Rank[q] < Rank[r]
  BY <1>2, <1>4, RanksAscend
<1> QED
  BY <1>1, <1>3, <1>4
=============================================================================
