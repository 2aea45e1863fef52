-------------------------- MODULE DependencyGraph --------------------------
(***************************************************************************)
(* DepGraph and DataflowInfo (scheduler/dependencies.rs): the graph of the *)
(* dependencies that a program declares while it is assembled, the levels  *)
(* of its reactions, and the reactions that each trigger has at run time.  *)
(*                                                                         *)
(* A program is the record of its declarations (DependencyDeclarator in    *)
(* scheduler/assembly_impl.rs); the components it declares them for are    *)
(* constants.  petgraph's toposort and the loop over its result are fused: *)
(* a node is numbered when its predecessors are, in any order, and there   *)
(* is a cycle when some nodes remain and none can be numbered.             *)
(***************************************************************************)
EXTENDS Naturals, FiniteSets

CONSTANTS
  Reactions, ReactorOf,
  Declared,          \* the reactions of the LF program; the others are synthesized
  Rank,              \* the local number of a reaction
  Ports,             \* channels of multiports included
  Banks, Channels,   \* multiports
  Others,            \* startup, shutdown, actions and timers
  Programs           \* the programs to assemble

TriggerIds == Ports \cup Banks \cup Others
Nodes == Reactions \cup TriggerIds

ASSUME ComponentsAssumption ==
  /\ IsFiniteSet(Reactions)
  /\ Declared \subseteq Reactions
  /\ Channels \in [Banks -> SUBSET Ports]
  /\ Reactions \cap TriggerIds = {}
  /\ Ports \cap Banks = {} /\ Others \cap (Ports \cup Banks) = {}

(* The declared reactions of a reactor are numbered from zero. *)
ASSUME RankAssumption ==
  /\ Rank \in [Reactions -> Nat]
  /\ \A r, q \in Declared : ReactorOf[r] = ReactorOf[q] /\ Rank[r] = Rank[q] => r = q
  /\ \A r \in Declared : Rank[r] > 0 =>
       \E q \in Declared : ReactorOf[q] = ReactorOf[r] /\ Rank[r] = Rank[q] + 1

ASSUME ProgramsAssumption ==
  Programs \subseteq [triggers : SUBSET (TriggerIds \X Reactions),
                      uses     : SUBSET (TriggerIds \X Reactions),
                      effects  : SUBSET (Reactions \X TriggerIds),
                      bindings : SUBSET (Ports \X Ports)]

VARIABLES
  program,
  assembly,          \* number, assembled or refused
  visited,           \* nodes whose turn in the topological order has come
  level,             \* LevelIx of each node
  trigger_to_plan    \* the reactions to run when a trigger is present

graphVars == <<program, assembly, visited, level, trigger_to_plan>>

-----------------------------------------------------------------------------
(* Faulty variant of Priority: reactions of a reactor are not ordered. *)
NoPriority == {}

(* new_reactions: each declared reaction before the next one of its reactor *)
Priority ==
  {e \in Declared \X Declared :
     ReactorOf[e[1]] = ReactorOf[e[2]] /\ Rank[e[2]] = Rank[e[1]] + 1}

(* trigger_to_reaction_edge: a dependency on a multiport is one on each channel *)
PerChannel(deps) ==
  {e \in (Ports \cup Others) \X Reactions :
     e \in deps \/ \E b \in Banks : e[1] \in Channels[b] /\ <<b, e[2]>> \in deps}

(* record_port_bank_component: a multiport precedes its channels *)
BankEdges == {e \in Banks \X Ports : e[2] \in Channels[e[1]]}

Edges == Priority \cup BankEdges \cup program.bindings \cup program.effects
         \cup PerChannel(program.triggers) \cup PerChannel(program.uses)

(* The ports that carry what is written to t: the smallest set that holds t,
   its channels, and the ports bound to one of its ports. *)
Carriers(t) ==
  {p \in Ports \cup {t} :
     \A S \in SUBSET (Ports \cup {t}) :
       (t \in S /\ \A e \in BankEdges \cup program.bindings : e[1] \in S => e[2] \in S)
         => p \in S}

(* collect_reactions_rec *)
PlanOf(t) ==
  {r \in Reactions : \E p \in Carriers(t) : <<p, r>> \in PerChannel(program.triggers)}

-----------------------------------------------------------------------------
GraphInit ==
  /\ program \in Programs
  /\ assembly = "number"
  /\ visited = {}
  /\ level = [n \in Nodes |-> 0]
  /\ trigger_to_plan = [t \in TriggerIds |-> {}]

Numberable(n) ==
  n \in Nodes \ visited /\ \A m \in Nodes : <<m, n>> \in Edges => m \in visited

(* Faulty variants of Raised: the predecessor numbered last decides; levels
   count down. *)
RaisedLast(n, m) == IF <<n, m>> \in Edges THEN level[n] + 1 ELSE level[m]

RaisedDown(n, m) == IF <<n, m>> \in Edges THEN level[n] - 1 ELSE level[m]

Raised(n, m) ==
  IF <<n, m>> \in Edges /\ level[m] <= level[n] THEN level[n] + 1 ELSE level[m]

(* number_reactions_by_level: the turn of a node *)
NumberNode(n) ==
  /\ assembly = "number" /\ Numberable(n)
  /\ visited' = visited \cup {n}
  /\ level' = [m \in Nodes |-> Raised(n, m)]
  /\ UNCHANGED <<program, assembly, trigger_to_plan>>

(* toposort finds a cycle, and the program panics *)
Refuse ==
  /\ assembly = "number" /\ visited # Nodes /\ \A n \in Nodes : ~Numberable(n)
  /\ assembly' = "refused"
  /\ UNCHANGED <<program, visited, level, trigger_to_plan>>

(* collect_trigger_to_plan *)
CollectPlans ==
  /\ assembly = "number" /\ visited = Nodes
  /\ trigger_to_plan' = [t \in TriggerIds |-> PlanOf(t)]
  /\ assembly' = "assembled"
  /\ UNCHANGED <<program, visited, level>>

Assemble == (\E n \in Nodes : NumberNode(n)) \/ Refuse \/ CollectPlans

-----------------------------------------------------------------------------
GraphTypeOK ==
  /\ program \in Programs
  /\ assembly \in {"number", "assembled", "refused"}
  /\ visited \subseteq Nodes
  /\ level \in [Nodes -> Nat]
  /\ trigger_to_plan \in [TriggerIds -> SUBSET Reactions]

(* m must see everything n does at a tag: n writes a port that m is triggered
   by or reads, directly or through bindings, or comes before m in their reactor. *)
Precedes(n, m) ==
  \/ <<n, m>> \in Priority
  \/ \E t \in TriggerIds : <<n, t>> \in program.effects
       /\ \E p \in Carriers(t) : <<p, m>> \in PerChannel(program.triggers \cup program.uses)

(* The level of a node is above those of its predecessors, whatever order
   the topological sort chose ("a reaction in level i has no dependency on
   reactions in levels j >= i", ExecutableReactions::levels). *)
LevelsAscend ==
  assembly = "assembled" => \A n, m \in Nodes : <<n, m>> \in Edges => level[n] < level[m]
=============================================================================
