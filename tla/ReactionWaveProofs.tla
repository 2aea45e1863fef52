------------------------- MODULE ReactionWaveProofs -------------------------
(***************************************************************************)
(* Theorems about the reactions of a tag, for every program, any number of *)
(* workers and any threshold.                                              *)
(***************************************************************************)
EXTENDS WaveValues, DependencyGraphProofs, FiniteSetTheorems

PlanRecords == [owned : BOOLEAN, reactions : SUBSET Reactions]

(* What is triggered by what is present. *)
Triggered == UNION {trigger_to_plan[t] : t \in present}

WaveTypes ==
  /\ wave \in {"ready", "batch", "over"}
  /\ present \subseteq Ports \cup Others
  /\ plan \in Plans
  /\ cur_level \in Nat
  /\ batch \subseteq Reactions
  /\ crew \subseteq Workers
  /\ running \in [Workers -> Reactions \cup {Idle}]
  /\ todo_now \in [Workers -> Plans]
  /\ begun \subseteq Reactions

(* Before the wave, there is nothing to run. *)
ReadyInv ==
  wave = "ready" => /\ begun = {} /\ batch = {}
                    /\ \A w \in Workers : running[w] = Idle /\ todo_now[w] = NoPlan

(* The batch is at the current level, and everything that has begun is at that
   level or below. *)
LevelInv ==
  /\ \A r \in begun : level[r] <= cur_level
  /\ \A r \in batch : level[r] = cur_level /\ r \notin begun

(* Workers are in different reactions of the current level. *)
RunningInv ==
  /\ \A w \in Workers : running[w] # Idle =>
       wave = "batch" /\ running[w] \in begun /\ level[running[w]] = cur_level
  /\ \A v, w \in Workers : v # w /\ running[v] # Idle => running[v] # running[w]

(* No reaction is dropped or added: those that have begun and those that wait
   are those that are triggered. *)
ContentInv ==
  /\ wave # "ready" => begun \cup Waiting = Triggered
  /\ wave = "over" => Waiting = {}

WaveInv ==
  /\ GraphInv
  /\ WaveTypes
  /\ wave # "ready" => assembly = "assembled"
  /\ ReadyInv
  /\ LevelInv
  /\ RunningInv
  /\ ContentInv

-----------------------------------------------------------------------------
(* Plans and their merges *)

LEMMA LevelType == GraphInv => level \in [Nodes -> Nat] /\ Reactions \subseteq Nodes
BY DEF GraphInv, GraphTypeOK, Nodes

(* The greatest level of a plan: take a reaction with the fewest above it. *)
LEMMA MaxLevelBounds ==
  ASSUME level \in [Nodes -> Nat], NEW x \in PlanRecords
  PROVE  MaxLevel(level, x) \in Nat /\ \A r \in x.reactions : level[r] <= MaxLevel(level, x)
<1> DEFINE Above(r) == {q \in x.reactions : level[q] > level[r]}
           Counts == {Cardinality(Above(r)) : r \in x.reactions}
           Levels == {level[r] : r \in x.reactions}
<1>1. x.reactions \subseteq Reactions /\ Reactions \subseteq Nodes
  BY DEF PlanRecords, Nodes
<1>2. IsFiniteSet(x.reactions)
  BY <1>1, ComponentsAssumption, FS_Subset
<1>3. CASE x.reactions = {}
  BY <1>3 DEF MaxLevel
<1>4. CASE x.reactions # {}
  <2>1. \A r \in x.reactions : IsFiniteSet(Above(r)) /\ Cardinality(Above(r)) \in Nat
    <3> TAKE r \in x.reactions
    <3>1. Above(r) \in SUBSET x.reactions
      OBVIOUS
    <3> QED
      BY <1>2, <3>1, FS_Subset, FS_CardinalityType
  <2>2. Counts \subseteq Nat /\ Counts # {}
    BY <1>4, <2>1
  <2>3. PICK n \in Counts : \A k \in Counts : ~(<<k, n>> \in OpToRel(<, Nat))
    <3> HIDE DEF Counts
    <3> QED
      BY <2>2, NatLessThanWellFounded, WFMin, Zenon
  <2>4. PICK r \in x.reactions : n = Cardinality(Above(r))
    OBVIOUS
  <2>5. \A q \in x.reactions : level[q] <= level[r]
    <3> SUFFICES ASSUME NEW q \in x.reactions, level[q] > level[r] PROVE FALSE
      BY <1>1
    <3>1. Above(q) \in SUBSET Above(r) /\ q \in Above(r) /\ q \notin Above(q)
      BY <1>1
    <3>2. Cardinality(Above(q)) <= Cardinality(Above(r))
      BY <2>1, <3>1, FS_Subset
    <3>3. Cardinality(Above(q)) # Cardinality(Above(r))
      BY <2>1, <3>1, FS_Subset
    <3>4. Cardinality(Above(q)) \in Counts
      OBVIOUS
    <3>5. Cardinality(Above(q)) < n /\ Cardinality(Above(q)) \in Nat /\ n \in Nat
      BY <2>1, <2>4, <3>2, <3>3
    <3> QED
      BY <2>3, <3>4, <3>5 DEF OpToRel
  <2>6. \E l \in Levels : \A q \in x.reactions : level[q] <= l
    BY <2>4, <2>5
  <2>7. MaxLevel(level, x) = CHOOSE l \in Levels : \A q \in x.reactions : level[q] <= l
    BY <1>4 DEF MaxLevel
  <2>8. MaxLevel(level, x) \in Levels /\ \A q \in x.reactions : level[q] <= MaxLevel(level, x)
    <3> HIDE DEF Levels
    <3> QED
      BY <2>6, <2>7
  <2> QED
    BY <1>1, <2>8
<1> QED
  BY <1>3, <1>4

(* A merge from the level after l on keeps what both plans have after l. *)
LEMMA MergeContents ==
  ASSUME level \in [Nodes -> Nat], NEW l \in Nat, NEW x \in Plans, NEW y \in Plans
  PROVE  /\ MergePlansAfter(level, x, y, l + 1) \in Plans
         /\ Later(level, MergePlansAfter(level, x, y, l + 1), l)
              = Later(level, x, l) \cup Later(level, y, l)
<1> DEFINE z == MergePlansAfter(level, x, y, l + 1)
<1>1. NoPlan \notin PlanRecords /\ Plans = {NoPlan} \cup PlanRecords
  BY WorkersAssumption DEF PlanRecords, Plans
<1>2. CASE y = NoPlan
  BY <1>2 DEF MergePlansAfter, Later
<1>3. CASE x = NoPlan
  BY <1>3 DEF MergePlansAfter, Later
<1>4. CASE x # NoPlan /\ y # NoPlan
  <2>1. x \in PlanRecords /\ y \in PlanRecords
    BY <1>1, <1>4
  <2>2. x.reactions \subseteq Reactions /\ y.reactions \subseteq Reactions /\ Reactions \subseteq Nodes
    BY <2>1 DEF PlanRecords, Nodes
  <2>3. ASSUME NEW u \in PlanRecords, NEW v \in PlanRecords
        PROVE  /\ AbsorbAfter(level, u, v, l + 1) \in PlanRecords
               /\ AbsorbAfter(level, u, v, l + 1).reactions
                    = u.reactions \cup {r \in v.reactions : level[r] >= l + 1}
    BY DEF PlanRecords, AbsorbAfter, Owned
  <2>4. ASSUME NEW u \in PlanRecords, MaxLevel(level, u) < l + 1
        PROVE  Later(level, u, l) = {}
    <3>1. \A r \in u.reactions : level[r] <= MaxLevel(level, u) /\ level[r] \in Nat
      BY <2>4, MaxLevelBounds, LevelType DEF PlanRecords, Nodes
    <3>2. MaxLevel(level, u) \in Nat
      BY MaxLevelBounds
    <3> QED
      BY <1>1, <2>4, <3>1, <3>2 DEF Later
  <2>5. ASSUME NEW u \in PlanRecords, NEW v \in PlanRecords
        PROVE  Later(level, AbsorbAfter(level, u, v, l + 1), l)
                 = Later(level, u, l) \cup Later(level, v, l)
    <3>1. \A r \in u.reactions \cup v.reactions : level[r] \in Nat
      BY DEF PlanRecords, Nodes
    <3> QED
      BY <1>1, <2>3, <3>1 DEF Later
  <2>6. CASE MaxLevel(level, x) < l + 1
    <3>1. z = y
      BY <1>4, <2>6 DEF MergePlansAfter
    <3> QED
      BY <2>1, <2>4, <2>6, <3>1
  <2>7. CASE ~(MaxLevel(level, x) < l + 1) /\ MaxLevel(level, y) < l + 1
    <3>1. z = x
      BY <1>4, <2>7 DEF MergePlansAfter
    <3> QED
      BY <2>1, <2>4, <2>7, <3>1
  <2>8. CASE ~(MaxLevel(level, x) < l + 1) /\ ~(MaxLevel(level, y) < l + 1)
    <3>1. z \in {AbsorbAfter(level, x, y, l + 1), AbsorbAfter(level, y, x, l + 1)}
      BY <1>4, <2>8 DEF MergePlansAfter
    <3>2. CASE z = AbsorbAfter(level, x, y, l + 1)
      BY <1>1, <2>1, <2>3, <2>5, <3>2
    <3>3. CASE z = AbsorbAfter(level, y, x, l + 1)
      BY <1>1, <2>1, <2>3, <2>5, <3>3
    <3> QED
      BY <3>1, <3>2, <3>3
  <2> QED
    BY <2>6, <2>7, <2>8
<1> QED
  BY <1>2, <1>3, <1>4

(* The plans of all forks together. *)
LEMMA MergedContents ==
  ASSUME todo_now \in [Workers -> Plans], NEW l \in Nat
  PROVE  /\ Merged \in Plans
         /\ Later(level, Merged, l) = UNION {Later(level, todo_now[w], l) : w \in Workers}
<1> DEFINE busy == {w \in Workers : todo_now[w] # NoPlan}
<1>1. NoPlan \notin PlanRecords /\ Plans = {NoPlan} \cup PlanRecords
  BY WorkersAssumption DEF PlanRecords, Plans
<1>2. \A w \in Workers \ busy : Later(level, todo_now[w], l) = {}
  BY DEF Later
<1>3. UNION {Later(level, todo_now[w], l) : w \in Workers}
        = UNION {Later(level, todo_now[w], l) : w \in busy}
  BY <1>2
<1>4. CASE busy = {}
  BY <1>3, <1>4, <1>1 DEF Merged, Later
<1>5. CASE busy # {} /\ Cardinality(busy) = 1
  <2>1. IsFiniteSet(busy)
    BY WorkersAssumption, FS_Subset
  <2>2. PICK w : busy = {w}
    BY <1>5, <2>1, FS_Singleton
  <2>3. Merged = todo_now[w]
    <3>1. (CHOOSE v \in busy : TRUE) = w
      BY <2>2
    <3> QED
      BY <1>5, <3>1 DEF Merged
  <2> QED
    BY <1>3, <2>2, <2>3
<1>6. CASE busy # {} /\ Cardinality(busy) # 1
  <2>1. Merged = Owned(UNION {todo_now[w].reactions : w \in busy})
    BY <1>6 DEF Merged
  <2>2. \A w \in busy : todo_now[w] \in PlanRecords
    BY <1>1
  <2>3. Merged \in PlanRecords
    BY <2>1, <2>2 DEF Owned, PlanRecords
  <2>4. Merged.reactions = UNION {todo_now[w].reactions : w \in busy}
    BY <2>1 DEF Owned
  <2>5. Later(level, Merged, l) = {r \in Merged.reactions : level[r] > l}
    BY <1>1, <2>3 DEF Later
  <2>6. \A w \in busy : Later(level, todo_now[w], l) = {r \in todo_now[w].reactions : level[r] > l}
    BY DEF Later
  <2>7. \A r : r \in Later(level, Merged, l) <=> \E w \in busy : r \in Later(level, todo_now[w], l)
    BY <2>4, <2>5, <2>6
  <2>8. Later(level, Merged, l) = UNION {Later(level, todo_now[w], l) : w \in busy}
    BY <2>7
  <2> QED
    BY <1>1, <1>3, <2>3, <2>8
<1> QED
  BY <1>4, <1>5, <1>6

(* What the choice of the next batch does. *)
LEMMA RunLevelFacts ==
  ASSUME level \in [Nodes -> Nat], cur_level \in Nat,
         NEW later \in SUBSET Reactions, RunLevel(later)
  PROVE  /\ wave' \in {"batch", "over"} /\ batch' \subseteq later
         /\ later = {} => wave' = "over" /\ cur_level' = cur_level /\ crew' = crew
         /\ later # {} =>
              /\ wave' = "batch" /\ crew' \in {{Main}, Workers}
              /\ cur_level' \in {level[r] : r \in later}
              /\ \A r \in batch' : level[r] = cur_level'
              /\ \A r \in later \ batch' : level[r] > cur_level'
<1>1. batch' = {r \in later : \A q \in later : level[r] <= level[q]}
  BY DEF RunLevel, FirstOf
<1>2. \A r \in later : level[r] \in Nat
  BY DEF Nodes
<1>3. CASE later = {}
  BY <1>1, <1>3 DEF RunLevel
<1>4. CASE later # {}
  <2>1. wave' = "batch" /\ crew' \in {{Main}, Workers}
    BY <1>4 DEF RunLevel
  <2>2. PICK b \in batch' : cur_level' = level[b]
    BY <1>4 DEF RunLevel
  <2>3. \A r \in batch' : level[r] = cur_level'
    BY <1>1, <1>2, <2>2
  <2>4. \A r \in later \ batch' : level[r] > cur_level'
    BY <1>1, <1>2, <2>2
  <2> QED
    BY <1>1, <1>4, <2>1, <2>2, <2>3, <2>4
<1> QED
  BY <1>3, <1>4

(* enqueue_now adds the downstream of a port, which is above the level. *)
LEMMA EnqueueContents ==
  ASSUME level \in [Nodes -> Nat], cur_level \in Nat, NEW todo \in Plans,
         NEW S \in SUBSET Reactions, \A r \in S : level[r] > cur_level
  PROVE  /\ EnqueueNow(todo, Borrowed(S)) \in Plans
         /\ Later(level, EnqueueNow(todo, Borrowed(S)), cur_level)
              = Later(level, todo, cur_level) \cup S
<1>1. NoPlan \notin PlanRecords /\ Plans = {NoPlan} \cup PlanRecords
  BY WorkersAssumption DEF PlanRecords, Plans
<1>2. \A r \in S : level[r] \in Nat
  BY DEF Nodes
<1>3. Borrowed(S) \in PlanRecords /\ Borrowed(S).reactions = S
  BY DEF Borrowed, PlanRecords
<1>4. CASE todo = NoPlan
  BY <1>1, <1>3, <1>4 DEF EnqueueNow, Later
<1>5. CASE todo # NoPlan
  <2>1. todo \in PlanRecords
    BY <1>1, <1>5
  <2>2. EnqueueNow(todo, Borrowed(S)) = Owned(todo.reactions \cup {r \in S : level[r] >= cur_level + 1})
    BY <1>3, <1>5 DEF EnqueueNow, AbsorbAfter
  <2>3. {r \in S : level[r] >= cur_level + 1} = S
    BY <1>2
  <2>4. EnqueueNow(todo, Borrowed(S)) = Owned(todo.reactions \cup S)
    BY <2>2, <2>3
  <2>5. Owned(todo.reactions \cup S) \in PlanRecords
        /\ Owned(todo.reactions \cup S).reactions = todo.reactions \cup S
    BY <2>1 DEF Owned, PlanRecords
  <2> QED
    BY <1>1, <1>5, <2>1, <2>4, <2>5 DEF Later
<1> QED
  BY <1>4, <1>5

-----------------------------------------------------------------------------
(* The steps *)

LEMMA WaveInitial == Init => WaveInv
<1> SUFFICES ASSUME Init PROVE WaveInv
  OBVIOUS
<1>1. GraphInv
  BY GraphInitial DEF Init
<1>2. WaveTypes
  BY WorkersAssumption DEF Init, WaveTypes, Plans
<1>3. ReadyInv /\ LevelInv /\ RunningInv /\ ContentInv
  BY DEF Init, ReadyInv, LevelInv, RunningInv, ContentInv
<1> QED
  BY <1>1, <1>2, <1>3 DEF Init, WaveInv

LEMMA WaveUnchanged ==
  ASSUME WaveInv, UNCHANGED vars
  PROVE  WaveInv'
<1>1. GraphInv'
  BY GraphUnchanged DEF WaveInv, vars
<1>2. UNCHANGED waveVars /\ UNCHANGED graphVars
  BY DEF vars
<1>3. WaveTypes' /\ ReadyInv' /\ LevelInv' /\ RunningInv'
  BY <1>2 DEF WaveInv, WaveTypes, ReadyInv, LevelInv, RunningInv, waveVars, graphVars
<1>4. ContentInv'
  <2>1. Waiting' = Waiting /\ Triggered' = Triggered
    BY <1>2 DEF Waiting, Triggered, Later, waveVars, graphVars
  <2> QED
    BY <1>2, <2>1 DEF WaveInv, ContentInv, waveVars
<1> QED
  BY <1>1, <1>2, <1>3, <1>4 DEF WaveInv, waveVars, graphVars

(* The program is assembled before the wave. *)
LEMMA WaveAssemble ==
  ASSUME WaveInv, Assemble, UNCHANGED waveVars
  PROVE  WaveInv'
<1>1. GraphInv'
  BY AssembleStep DEF WaveInv
<1>2. assembly = "number"
  BY DEF Assemble, NumberNode, Refuse, CollectPlans
<1>3. wave = "ready" /\ wave' = "ready"
  BY <1>2 DEF WaveInv, waveVars
<1>4. WaveTypes' /\ ReadyInv'
  BY <1>3 DEF WaveInv, WaveTypes, ReadyInv, waveVars
<1>5. LevelInv' /\ RunningInv' /\ ContentInv'
  BY <1>3, <1>4 DEF ReadyInv, LevelInv, RunningInv, ContentInv
<1> QED
  BY <1>1, <1>3, <1>4, <1>5 DEF WaveInv

LEMMA WaveStart ==
  ASSUME WaveInv, NEW triggers \in SUBSET Others, StartWave(triggers)
  PROVE  WaveInv'
<1> DEFINE roots == UNION {trigger_to_plan[t] : t \in triggers}
<1>1. GraphInv' /\ UNCHANGED <<graphVars, running, todo_now, begun>>
  BY GraphUnchanged DEF StartWave, WaveInv
<1>2. roots \in SUBSET Reactions
  <2>1. triggers \subseteq TriggerIds
    BY DEF TriggerIds
  <2>2. trigger_to_plan \in [TriggerIds -> SUBSET Reactions]
    BY DEF WaveInv, GraphInv, GraphTypeOK
  <2> QED
    BY <2>1, <2>2
<1>3. /\ assembly = "assembled" /\ wave = "ready" /\ present' = triggers
      /\ plan' \in {Borrowed(roots), Owned(roots)} /\ RunLevel(roots)
  BY DEF StartWave
<1>4. level \in [Nodes -> Nat] /\ cur_level \in Nat
  BY LevelType DEF WaveInv, WaveTypes
<1>5. begun' = {} /\ batch = {} /\ \A w \in Workers : running'[w] = Idle /\ todo_now'[w] = NoPlan
  BY <1>1, <1>3 DEF WaveInv, ReadyInv
<1> HIDE DEF roots
<1>6. plan' \in PlanRecords /\ plan'.reactions = roots /\ plan' # NoPlan
  <2>1. Borrowed(roots) \in PlanRecords /\ Borrowed(roots).reactions = roots
    BY <1>2 DEF Borrowed, PlanRecords
  <2>2. Owned(roots) \in PlanRecords /\ Owned(roots).reactions = roots
    BY <1>2 DEF Owned, PlanRecords
  <2>3. NoPlan \notin PlanRecords
    BY WorkersAssumption DEF PlanRecords
  <2> QED
    BY <1>3, <2>1, <2>2, <2>3
<1>7. /\ wave' \in {"batch", "over"} /\ batch' \subseteq roots
      /\ roots = {} => wave' = "over" /\ cur_level' = cur_level /\ crew' = crew
      /\ roots # {} =>
              /\ wave' = "batch" /\ crew' \in {{Main}, Workers}
              /\ cur_level' \in {level[r] : r \in roots}
              /\ \A r \in batch' : level[r] = cur_level'
              /\ \A r \in roots \ batch' : level[r] > cur_level'
  BY <1>2, <1>3, <1>4, RunLevelFacts
<1>8. cur_level' \in Nat /\ crew' \subseteq Workers
  BY <1>2, <1>4, <1>7, WorkersAssumption DEF WaveInv, WaveTypes, Nodes
<1>9. WaveTypes'
  BY <1>1, <1>2, <1>3, <1>6, <1>7, <1>8 DEF WaveInv, WaveTypes, Plans, PlanRecords
<1>10. level' = level /\ assembly' = assembly /\ trigger_to_plan' = trigger_to_plan
  BY <1>1 DEF graphVars
<1>11. LevelInv' /\ RunningInv' /\ ReadyInv'
  BY <1>5, <1>7, <1>10 DEF LevelInv, RunningInv, ReadyInv
<1>12. ContentInv'
  <2>1. Later(level, plan, cur_level)' = roots \ batch'
    <3>1. \A r \in roots : level[r] \in Nat
      BY <1>2, <1>4 DEF Nodes
    <3>2. Later(level, plan, cur_level)' = {r \in roots : level[r] > cur_level'}
      BY <1>6, <1>10 DEF Later
    <3> QED
      BY <1>7, <1>8, <3>1, <3>2
  <2>2. \A w \in Workers : Later(level, todo_now[w], cur_level)' = {}
    BY <1>5 DEF Later
  <2>3. Waiting' = roots
    BY <1>7, <2>1, <2>2 DEF Waiting
  <2>4. Triggered' = roots
    BY <1>3, <1>10 DEF Triggered, roots
  <2> QED
    BY <1>5, <1>7, <2>3, <2>4 DEF ContentInv
<1> QED
  BY <1>1, <1>3, <1>9, <1>10, <1>11, <1>12 DEF WaveInv

LEMMA WaveBegin ==
  ASSUME WaveInv, NEW w \in Workers, NEW r \in Reactions, Begin(w, r)
  PROVE  WaveInv'
<1>1. GraphInv'
  BY GraphUnchanged DEF Begin, WaveInv
<1>2. /\ wave = "batch" /\ running[w] = Idle /\ r \in batch
      /\ running' = [running EXCEPT ![w] = r] /\ batch' = batch \ {r} /\ begun' = begun \cup {r}
      /\ UNCHANGED <<graphVars, wave, present, plan, cur_level, crew, todo_now>>
  BY DEF Begin
<1>3. level' = level /\ assembly' = assembly /\ trigger_to_plan' = trigger_to_plan
  BY <1>2 DEF graphVars
<1>4. WaveTypes'
  BY <1>2 DEF WaveInv, WaveTypes
<1>5. level[r] = cur_level /\ cur_level \in Nat /\ r \notin begun
  BY <1>2 DEF WaveInv, WaveTypes, LevelInv
<1>6. LevelInv'
  BY <1>2, <1>3, <1>5 DEF WaveInv, LevelInv
<1>7. RunningInv'
  <2>1. running \in [Workers -> Reactions \cup {Idle}]
    BY DEF WaveInv, WaveTypes
  <2>2. \A v \in Workers \ {w} : running'[v] = running[v]
    BY <1>2, <2>1
  <2>3. running'[w] = r
    BY <1>2, <2>1
  <2>4. \A v \in Workers : running[v] # Idle => running[v] # r
    BY <1>5 DEF WaveInv, RunningInv
  <2>5. \A v \in Workers : running'[v] # Idle =>
          wave' = "batch" /\ running'[v] \in begun' /\ level'[running'[v]] = cur_level'
    BY <1>2, <1>3, <1>5, <2>2, <2>3 DEF WaveInv, RunningInv
  <2>6. \A u, v \in Workers : u # v /\ running'[u] # Idle => running'[u] # running'[v]
    BY <2>2, <2>3, <2>4, WorkersAssumption DEF WaveInv, RunningInv
  <2> QED
    BY <2>5, <2>6 DEF RunningInv
<1>8. ContentInv'
  <2>1. Waiting' \cup begun' = Waiting \cup begun
    BY <1>2, <1>3 DEF Waiting, Later
  <2>2. Triggered' = Triggered
    BY <1>2, <1>3 DEF Triggered
  <2> QED
    BY <1>2, <2>1, <2>2 DEF WaveInv, ContentInv
<1> QED
  BY <1>1, <1>2, <1>3, <1>4, <1>6, <1>7, <1>8 DEF WaveInv, ReadyInv

(* What a reaction sets is above the reaction, and so is all it triggers. *)
LEMMA SettableAscends ==
  ASSUME GraphInv, assembly = "assembled",
         NEW r \in Reactions, NEW t \in Settable(r), NEW q \in trigger_to_plan[t]
  PROVE  t \in TriggerIds /\ q \in Reactions /\ level[r] < level[q]
<1>1. level \in [Nodes -> Nat] /\ Reactions \subseteq Nodes /\ TriggerIds \subseteq Nodes
      /\ Banks \subseteq TriggerIds
  BY LevelType DEF Nodes, TriggerIds
<1>2. t \in TriggerIds
  BY DEF Settable, TriggerIds
<1>3. level[r] < level[t]
  <2>1. CASE <<r, t>> \in program.effects
    <3>1. <<r, t>> \in Edges
      BY <2>1 DEF Edges
    <3> QED
      BY <1>1, <1>2, <3>1, EdgeAscends
  <2>2. ASSUME NEW b \in Banks, <<r, b>> \in program.effects, t \in Channels[b]
        PROVE  level[r] < level[t]
    <3>1. <<r, b>> \in Edges
      BY <2>2 DEF Edges
    <3>2. <<b, t>> \in Edges
      BY <2>2, ComponentsAssumption DEF Edges, BankEdges
    <3>3. level[r] < level[b] /\ level[b] < level[t]
      BY <1>1, <1>2, <3>1, <3>2, EdgeAscends
    <3> QED
      BY <1>1, <1>2, <3>3
  <2> QED
    BY <2>1, <2>2 DEF Settable
<1>4. q \in Reactions /\ level[t] < level[q]
  BY <1>2, PlanAscends
<1> QED
  BY <1>1, <1>2, <1>3, <1>4

LEMMA WaveSet ==
  ASSUME WaveInv, NEW w \in Workers, NEW t \in Ports \cup Others, Set(w, t)
  PROVE  WaveInv'
<1> DEFINE S == trigger_to_plan[t]
<1>1. GraphInv'
  BY GraphUnchanged DEF Set, WaveInv
<1>2. /\ running[w] # Idle /\ t \in Settable(running[w])
      /\ todo_now' = [todo_now EXCEPT ![w] = EnqueueNow(todo_now[w], Borrowed(S))]
      /\ present' = present \cup {t}
      /\ UNCHANGED <<graphVars, wave, plan, cur_level, batch, crew, running, begun>>
  BY DEF Set
<1>3. level' = level /\ assembly' = assembly /\ trigger_to_plan' = trigger_to_plan
  BY <1>2 DEF graphVars
<1>4. wave = "batch" /\ assembly = "assembled" /\ level[running[w]] = cur_level
  BY <1>2 DEF WaveInv, RunningInv
<1>5. running[w] \in Reactions /\ todo_now \in [Workers -> Plans] /\ cur_level \in Nat
  BY <1>2 DEF WaveInv, WaveTypes
<1>6. S \in SUBSET Reactions /\ \A q \in S : level[q] > cur_level
  <2>1. GraphInv
    BY DEF WaveInv
  <2>2. \A q \in S : q \in Reactions /\ level[running[w]] < level[q]
    BY <1>2, <1>4, <1>5, <2>1, SettableAscends
  <2>3. \A q \in S : level[q] \in Nat
    BY <2>1, <2>2, LevelType DEF Nodes
  <2> QED
    BY <1>4, <1>5, <2>2, <2>3
<1> HIDE DEF S
<1>7. /\ EnqueueNow(todo_now[w], Borrowed(S)) \in Plans
      /\ Later(level, EnqueueNow(todo_now[w], Borrowed(S)), cur_level)
           = Later(level, todo_now[w], cur_level) \cup S
  <2>1. level \in [Nodes -> Nat]
    BY LevelType DEF WaveInv
  <2> QED
    BY <1>5, <1>6, <2>1, EnqueueContents
<1>8. WaveTypes'
  BY <1>2, <1>7 DEF WaveInv, WaveTypes
<1>9. LevelInv' /\ RunningInv' /\ ReadyInv'
  BY <1>2, <1>3, <1>4 DEF WaveInv, LevelInv, RunningInv, ReadyInv
<1>10. ContentInv'
  <2>1. todo_now'[w] = EnqueueNow(todo_now[w], Borrowed(S))
        /\ \A v \in Workers \ {w} : todo_now'[v] = todo_now[v]
    BY <1>2, <1>5
  <2>2. Later(level, todo_now'[w], cur_level) = Later(level, todo_now[w], cur_level) \cup S
    BY <1>7, <2>1
  <2>3. UNION {Later(level, todo_now'[v], cur_level) : v \in Workers}
          = S \cup UNION {Later(level, todo_now[v], cur_level) : v \in Workers}
    BY <2>1, <2>2
  <2>4. Waiting' = batch \cup Later(level, plan, cur_level)
                         \cup UNION {Later(level, todo_now'[v], cur_level) : v \in Workers}
    BY <1>2, <1>3 DEF Waiting, Later
  <2>5. Waiting' = Waiting \cup S
    BY <2>3, <2>4 DEF Waiting
  <2>6. Triggered' = Triggered \cup S
    BY <1>2, <1>3 DEF Triggered, S
  <2> QED
    BY <1>2, <1>4, <2>5, <2>6 DEF WaveInv, ContentInv
<1> QED
  BY <1>1, <1>2, <1>3, <1>8, <1>9, <1>10 DEF WaveInv

LEMMA WaveEnd ==
  ASSUME WaveInv, NEW w \in Workers, End(w)
  PROVE  WaveInv'
<1>1. GraphInv'
  BY GraphUnchanged DEF End, WaveInv
<1>2. /\ running[w] # Idle /\ running' = [running EXCEPT ![w] = Idle]
      /\ UNCHANGED <<graphVars, wave, present, plan, cur_level, batch, crew, todo_now, begun>>
  BY DEF End
<1>3. level' = level /\ assembly' = assembly /\ trigger_to_plan' = trigger_to_plan
  BY <1>2 DEF graphVars
<1>4. running \in [Workers -> Reactions \cup {Idle}]
  BY DEF WaveInv, WaveTypes
<1>5. WaveTypes' /\ LevelInv' /\ ReadyInv'
  BY <1>2, <1>3, <1>4 DEF WaveInv, WaveTypes, LevelInv, ReadyInv
<1>6. RunningInv'
  <2>1. running'[w] = Idle /\ \A v \in Workers \ {w} : running'[v] = running[v]
    BY <1>2, <1>4
  <2> QED
    BY <1>2, <1>3, <2>1 DEF WaveInv, RunningInv
<1>7. ContentInv'
  <2>1. Waiting' = Waiting /\ Triggered' = Triggered
    BY <1>2, <1>3 DEF Waiting, Triggered, Later
  <2> QED
    BY <1>2, <2>1 DEF WaveInv, ContentInv
<1> QED
  BY <1>1, <1>2, <1>3, <1>5, <1>6, <1>7 DEF WaveInv

LEMMA WaveNextBatch ==
  ASSUME WaveInv, NextBatch
  PROVE  WaveInv'
<1> DEFINE merged == MergePlansAfter(level, plan, Merged, cur_level + 1)
           later == Later(level, merged, cur_level)
<1>1. GraphInv' /\ UNCHANGED <<graphVars, present, running, begun>>
  BY GraphUnchanged DEF NextBatch, WaveInv
<1>2. /\ wave = "batch" /\ batch = {} /\ \A w \in Workers : running[w] = Idle
      /\ plan' = merged /\ RunLevel(later) /\ todo_now' = [w \in Workers |-> NoPlan]
  BY DEF NextBatch, BatchOver
<1>3. level \in [Nodes -> Nat] /\ cur_level \in Nat /\ plan \in Plans
      /\ todo_now \in [Workers -> Plans] /\ begun \subseteq Reactions
  BY LevelType DEF WaveInv, WaveTypes
<1>4. level' = level /\ assembly' = assembly /\ trigger_to_plan' = trigger_to_plan
  BY <1>1 DEF graphVars
<1>5. Merged \in Plans
      /\ Later(level, Merged, cur_level) = UNION {Later(level, todo_now[w], cur_level) : w \in Workers}
  BY <1>3, MergedContents
<1>6. merged \in Plans
      /\ later = Later(level, plan, cur_level) \cup Later(level, Merged, cur_level)
  BY <1>3, <1>5, MergeContents
<1> HIDE DEF merged
<1>7. later = Waiting
  BY <1>2, <1>5, <1>6 DEF Waiting
<1>8. later \in SUBSET Reactions /\ \A r \in later : level[r] > cur_level
  <2>1. CASE merged = NoPlan
    BY <2>1 DEF Later
  <2>2. CASE merged # NoPlan
    <3>1. merged.reactions \subseteq Reactions
      BY <1>6, <2>2 DEF Plans
    <3> QED
      BY <2>2, <3>1 DEF Later
  <2> QED
    BY <2>1, <2>2
<1>9. /\ wave' \in {"batch", "over"} /\ batch' \subseteq later
      /\ later = {} => wave' = "over" /\ cur_level' = cur_level /\ crew' = crew
      /\ later # {} =>
              /\ wave' = "batch" /\ crew' \in {{Main}, Workers}
              /\ cur_level' \in {level[r] : r \in later}
              /\ \A r \in batch' : level[r] = cur_level'
              /\ \A r \in later \ batch' : level[r] > cur_level'
  <2> HIDE DEF later
  <2> QED
    BY <1>2, <1>3, <1>8, RunLevelFacts
<1>10. cur_level' \in Nat /\ cur_level <= cur_level' /\ crew' \subseteq Workers
       /\ (later # {} => cur_level < cur_level')
  <2> HIDE DEF later
  <2>1. \A r \in later : level[r] \in Nat
    BY <1>3, <1>8 DEF Nodes
  <2> QED
    BY <1>3, <1>8, <1>9, <2>1, WorkersAssumption DEF WaveInv, WaveTypes
<1>11. WaveTypes'
  <2>1. batch' \subseteq Reactions
    BY <1>8, <1>9
  <2>2. plan' \in Plans /\ todo_now' \in [Workers -> Plans]
    BY <1>2, <1>6 DEF Plans
  <2> QED
    BY <1>1, <1>9, <1>10, <2>1, <2>2 DEF WaveInv, WaveTypes
<1>12. LevelInv'
  <2>1. \A r \in begun : level[r] \in Nat /\ level[r] <= cur_level
    BY <1>3 DEF WaveInv, LevelInv, Nodes
  <2>2. \A r \in begun' : level'[r] <= cur_level'
    BY <1>1, <1>3, <1>4, <1>10, <2>1
  <2>3. \A r \in batch' : level'[r] = cur_level' /\ r \notin begun'
    <3> HIDE DEF later
    <3> QED
      BY <1>1, <1>3, <1>4, <1>8, <1>9, <2>1
  <2> QED
    BY <2>2, <2>3 DEF LevelInv
<1>13. RunningInv' /\ ReadyInv'
  BY <1>1, <1>2, <1>9 DEF RunningInv, ReadyInv
<1>14. ContentInv'
  <2>1. Later(level, plan, cur_level)' = later \ batch'
    <3>1. CASE merged = NoPlan
      BY <1>2, <3>1 DEF Later
    <3>2. CASE merged # NoPlan
      <4>1. Later(level, plan, cur_level)' = {r \in merged.reactions : level[r] > cur_level'}
        BY <1>2, <1>4, <3>2 DEF Later
      <4>2. later = {r \in merged.reactions : level[r] > cur_level}
        BY <3>2 DEF Later
      <4>3. \A r \in merged.reactions : level[r] \in Nat
        BY <1>3, <1>6, <3>2 DEF Plans, Nodes
      <4> HIDE DEF later
      <4> QED
        BY <1>3, <1>8, <1>9, <1>10, <4>1, <4>2, <4>3
    <3> QED
      BY <3>1, <3>2
  <2> HIDE DEF later
  <2>2. \A w \in Workers : Later(level, todo_now[w], cur_level)' = {}
    BY <1>2 DEF Later
  <2>3. Waiting' = later
    BY <1>9, <2>1, <2>2 DEF Waiting
  <2>4. Triggered' = Triggered
    BY <1>1, <1>4 DEF Triggered
  <2> QED
    BY <1>1, <1>2, <1>7, <1>9, <2>3, <2>4 DEF WaveInv, ContentInv
<1> QED
  BY <1>1, <1>2, <1>4, <1>11, <1>12, <1>13, <1>14 DEF WaveInv

LEMMA WaveStep == WaveInv /\ [Next]_vars => WaveInv'
<1> SUFFICES ASSUME WaveInv, [Next]_vars PROVE WaveInv'
  OBVIOUS
<1>1. CASE Assemble /\ UNCHANGED waveVars
  BY <1>1, WaveAssemble
<1>2. ASSUME NEW triggers \in SUBSET Others \ {{}}, StartWave(triggers) PROVE WaveInv'
  BY <1>2, WaveStart
<1>3. ASSUME NEW w \in Workers, NEW r \in Reactions, Begin(w, r) PROVE WaveInv'
  BY <1>3, WaveBegin
<1>4. ASSUME NEW w \in Workers, End(w) PROVE WaveInv'
  BY <1>4, WaveEnd
<1>5. CASE NextBatch
  BY <1>5, WaveNextBatch
<1>6. ASSUME NEW w \in Workers, NEW t \in Ports \cup Others, Set(w, t) PROVE WaveInv'
  BY <1>6, WaveSet
<1>7. CASE Rest
  BY <1>7, WaveUnchanged DEF Rest
<1>8. CASE UNCHANGED vars
  BY <1>8, WaveUnchanged
<1> QED
  BY <1>1, <1>2, <1>3, <1>4, <1>5, <1>6, <1>7, <1>8 DEF Next, Step

-----------------------------------------------------------------------------
(* The theorems *)

LEMMA WaveInvariant == Spec => []WaveInv
BY WaveInitial, WaveStep, PTL DEF Spec

(* Every variable of the graph and of the wave keeps its type. *)
THEOREM WaveTypesHold == Spec => []TypeOK
<1>1. WaveInv => TypeOK
  BY DEF WaveInv, WaveTypes, GraphInv, TypeOK
<1> QED
  BY <1>1, WaveInvariant, PTL

(* Levels respect every dependency of an assembled program, in whatever order
   the nodes were numbered. *)
THEOREM LevelsAscendHolds == Spec => []LevelsAscend
<1>1. WaveInv => LevelsAscend
  BY EdgeAscends DEF WaveInv, LevelsAscend
<1> QED
  BY <1>1, WaveInvariant, PTL

(* No reaction runs twice at a tag. *)
THEOREM RunOnceHolds == Spec => []RunOnce
<1>1. ASSUME WaveInv PROVE RunOnce
  <2>1. \A r \in begun : level[r] \in Nat /\ level[r] <= cur_level /\ cur_level \in Nat
    BY <1>1, LevelType DEF WaveInv, WaveTypes, LevelInv
  <2>2. \A r, x : r \in Later(level, x, cur_level) => level[r] > cur_level
    BY DEF Later
  <2>3. \A r \in Waiting : r \in batch \/ level[r] > cur_level
    BY <2>2 DEF Waiting
  <2> QED
    BY <1>1, <2>1, <2>3 DEF WaveInv, LevelInv, RunOnce
<1> QED
  BY <1>1, WaveInvariant, PTL

(* What has begun is at the current level or below, and what can run or runs is
   at that level or above. *)
LEMMA NothingBeforeBegun == WaveInv => DependenciesFirst
<1> SUFFICES ASSUME WaveInv,
                    NEW n \in Waiting \cup InProgress, NEW m \in begun, Precedes(n, m)
             PROVE  FALSE
  BY DEF DependenciesFirst
<1>1. GraphInv /\ level \in [Nodes -> Nat] /\ Reactions \subseteq Nodes /\ cur_level \in Nat
  BY LevelType DEF WaveInv, WaveTypes
<1>2. m \in Reactions /\ level[m] <= cur_level /\ wave # "ready" /\ assembly = "assembled"
  BY DEF WaveInv, WaveTypes, ReadyInv, LevelInv
<1>3. begun \cup Waiting \subseteq Reactions
  <2>1. Triggered \subseteq Reactions
    BY <1>1 DEF Triggered, WaveInv, WaveTypes, GraphInv, GraphTypeOK, TriggerIds
  <2> QED
    BY <1>2, <2>1 DEF WaveInv, ContentInv
<1>4. \A r, x : r \in Later(level, x, cur_level) => level[r] > cur_level
  BY DEF Later
<1>5. n \in Reactions /\ level[n] >= cur_level
  <2>1. CASE n \in Waiting
    <3>1. level[n] = cur_level \/ level[n] > cur_level
      BY <1>4, <2>1 DEF Waiting, WaveInv, LevelInv
    <3> QED
      BY <1>1, <1>3, <2>1, <3>1
  <2>2. CASE n \in InProgress
    BY <1>1, <1>3, <2>2 DEF InProgress, WaveInv, RunningInv
  <2> QED
    BY <2>1, <2>2
<1>6. level[n] < level[m]
  BY <1>1, <1>2, <1>5, PrecedesAscends
<1> QED
  BY <1>1, <1>2, <1>5, <1>6

(* A reaction begins when everything it depends on has run and nothing of it
   can run any more. *)
THEOREM DependenciesFirstHolds == Spec => []DependenciesFirst
BY NothingBeforeBegun, WaveInvariant, PTL

(* Two workers are never inside declared reactions of the same reactor: its
   mutable reference is unique. *)
THEOREM ReactorNotSharedHolds == Spec => []ReactorNotShared
<1>1. ASSUME WaveInv PROVE ReactorNotShared
  <2> SUFFICES ASSUME NEW v \in Workers, NEW w \in Workers, v # w,
                      running[v] \in Declared, running[w] \in Declared,
                      ReactorOf[running[v]] = ReactorOf[running[w]]
               PROVE  FALSE
    BY DEF ReactorNotShared
  <2>1. running[v] # Idle /\ running[w] # Idle
    BY ComponentsAssumption, WorkersAssumption
  <2>2. running[v] # running[w] /\ level[running[v]] = level[running[w]]
        /\ GraphInv /\ assembly = "assembled"
    BY <1>1, <2>1 DEF WaveInv, RunningInv
  <2> QED
    BY <2>2, LevelsDistinct
<1> QED
  BY <1>1, WaveInvariant, PTL

(* What has run at the end of a tag is exactly what its triggers and the ports
   that were set have asked for. *)
THEOREM WaveCompleteHolds == Spec => []WaveComplete
<1>1. ASSUME WaveInv PROVE WaveComplete
  <2> SUFFICES ASSUME wave = "over"
               PROVE  begun = {r \in Reactions : \E t \in present : \E p \in Carriers(t) :
                                 <<p, r>> \in PerChannel(program.triggers)}
    BY DEF WaveComplete
  <2>1. begun = Triggered
    BY <1>1 DEF WaveInv, ContentInv
  <2>2. \A t \in present : trigger_to_plan[t] = PlanOf(t)
    BY <1>1 DEF WaveInv, WaveTypes, GraphInv, TriggerIds
  <2>3. \A r : r \in Triggered <=> \E t \in present : r \in PlanOf(t)
    BY <2>2 DEF Triggered
  <2> QED
    BY <2>1, <2>3 DEF PlanOf
<1> QED
  BY <1>1, WaveInvariant, PTL
-----------------------------------------------------------------------------
(* The values of ports *)

(* Every cell is that of the free port above; nothing is forgotten of what was
   read. *)
ValuesInv ==
  /\ WaveInv
  /\ cell = [p \in Ports |-> CellOf(p)]
  /\ value \in [Ports -> Reactions \cup {Absent}]
  /\ DOMAIN seen = begun
  /\ ReadsFinal

(* A port whose cell is that of a free port carries what is set there. *)
LEMMA CellCarries ==
  ASSUME NEW t \in Ports \ Bound, NEW p \in Ports, CellOf(p) = CellOf(t)
  PROVE  p \in Carriers(t)
<1>1. CellOf(t) = t
  BY DEF CellOf
<1>2. CASE p \notin Bound
  <2>1. p = t
    BY <1>1, <1>2 DEF CellOf
  <2> QED
    BY <2>1 DEF Carriers
<1>3. CASE p \in Bound
  <2> DEFINE upstream == {q \in Ports \ Bound : p \in Carriers(q)}
  <2>1. CellOf(p) = IF upstream = {} THEN p ELSE CHOOSE q \in upstream : TRUE
    BY <1>3 DEF CellOf
  <2>2. upstream # {}
    BY <1>1, <1>3, <2>1
  <2>3. t \in upstream
    BY <1>1, <2>1, <2>2
  <2> QED
    BY <2>3
<1> QED
  BY <1>2, <1>3

(* A reaction that may set a port precedes all that read what it carries. *)
LEMMA SettablePrecedes ==
  ASSUME program \in Programs,
         NEW n \in Reactions, NEW t \in Settable(n) \cap Ports, NEW m \in Reactions,
         NEW p \in Carriers(t), p \in Inputs(m)
  PROVE  Precedes(n, m)
<1>1. t \in TriggerIds /\ Banks \subseteq TriggerIds
  BY DEF TriggerIds
<1>2. CASE <<n, t>> \in program.effects
  BY <1>1, <1>2 DEF Precedes, Inputs
<1>3. ASSUME NEW b \in Banks, <<n, b>> \in program.effects, t \in Channels[b]
      PROVE  Precedes(n, m)
  <2>1. ASSUME NEW S \in SUBSET (Ports \cup {b}), b \in S,
               \A e \in BankEdges \cup program.bindings : e[1] \in S => e[2] \in S
        PROVE  p \in S
    <3>1. <<b, t>> \in BankEdges
      BY <1>3 DEF BankEdges
    <3>2. t \in S
      BY <2>1, <3>1
    <3>3. \A e \in BankEdges : e[1] \in Banks /\ e[2] \in Ports
      BY DEF BankEdges
    <3>4. t \in S \cap (Ports \cup {t}) /\ S \cap (Ports \cup {t}) \in SUBSET (Ports \cup {t})
      BY <3>2
    <3>5. \A e \in BankEdges \cup program.bindings :
            e[1] \in S \cap (Ports \cup {t}) => e[2] \in S \cap (Ports \cup {t})
      <4>1. \A e \in program.bindings : e[2] \in Ports
        BY ProgramsAssumption
      <4> QED
        BY <2>1, <3>3, <4>1, ComponentsAssumption
    <3> QED
      BY <3>4, <3>5 DEF Carriers
  <2>2. p \in Ports
    BY DEF Inputs
  <2>3. p \in Carriers(b)
    BY <2>1, <2>2 DEF Carriers
  <2> QED
    BY <1>1, <1>3, <2>3 DEF Precedes, Inputs
<1> QED
  BY <1>2, <1>3 DEF Settable

LEMMA ValuesInitial == ValuesInit => ValuesInv
<1> SUFFICES ASSUME ValuesInit PROVE ValuesInv
  OBVIOUS
<1>1. WaveInv /\ begun = {}
  BY WaveInitial DEF ValuesInit, Init
<1> QED
  BY <1>1 DEF ValuesInit, ValuesInv, ReadsFinal

(* Steps that neither begin a reaction nor set a port. *)
LEMMA ValuesQuiet ==
  ASSUME ValuesInv, WaveInv', UNCHANGED valueVars, program' = program, begun' = begun
  PROVE  ValuesInv'
<1>1. \A p : CellOf(p)' = CellOf(p)
  BY DEF CellOf, Bound, Carriers, BankEdges
<1>2. \A r : Reads(r)' = Reads(r)
  BY DEF Reads, Inputs, PerChannel, Cells!Read, valueVars
<1> QED
  BY <1>1, <1>2 DEF ValuesInv, ReadsFinal, valueVars

LEMMA ValuesBegin ==
  ASSUME ValuesInv, WaveInv', NEW w \in Workers, NEW r \in Reactions, BeginReading(w, r)
  PROVE  ValuesInv'
<1>1. program' = program /\ begun' = begun \cup {r} /\ cell' = cell /\ value' = value
  BY DEF BeginReading, Begin, graphVars
<1>2. \A p : CellOf(p)' = CellOf(p)
  BY <1>1 DEF CellOf, Bound, Carriers, BankEdges
<1>3. \A q : Reads(q)' = Reads(q)
  BY <1>1 DEF Reads, Inputs, PerChannel, Cells!Read
<1>4. \A q \in begun' : seen'[q] = IF q = r THEN Reads(r) ELSE seen[q]
  BY <1>1 DEF BeginReading
<1>5. DOMAIN seen' = begun'
  BY <1>1 DEF BeginReading
<1> QED
  BY <1>1, <1>2, <1>3, <1>4, <1>5 DEF ValuesInv, ReadsFinal

(* Nothing that has begun reads a port that is set now. *)
LEMMA ValuesSet ==
  ASSUME ValuesInv, WaveInv', NEW w \in Workers, NEW t \in Ports, SetPort(w, t)
  PROVE  ValuesInv'
<1>1. program' = program /\ begun' = begun /\ cell' = cell /\ seen' = seen
  BY DEF SetPort, Set, Cells!SetImpl, graphVars
<1>2. t \in Settable(running[w]) /\ t \notin Bound /\ running[w] \in Reactions
      /\ running[w] \in InProgress
  BY DEF SetPort, Set, Cells!SetImpl, ValuesInv, WaveInv, WaveTypes, InProgress
<1>3. value' = [value EXCEPT ![cell[t]] = running[w]]
  BY DEF SetPort, Cells!SetImpl
<1>4. \A p : CellOf(p)' = CellOf(p)
  BY <1>1 DEF CellOf, Bound, Carriers, BankEdges
<1>5. ASSUME NEW m \in begun PROVE Reads(m)' = Reads(m)
  <2>1. Inputs(m)' = Inputs(m)
    BY <1>1 DEF Inputs, PerChannel
  <2>2. ASSUME NEW p \in Inputs(m) PROVE cell[p] # cell[t]
    <3>1. m \in Reactions /\ p \in Ports
      BY DEF ValuesInv, WaveInv, WaveTypes, Inputs
    <3>2. ~Precedes(running[w], m)
      BY <1>2, NothingBeforeBegun DEF ValuesInv, DependenciesFirst
    <3>3. cell[p] = CellOf(p) /\ cell[t] = CellOf(t)
      BY <3>1 DEF ValuesInv
    <3> QED
      <4>1. program \in Programs
        BY DEF ValuesInv, WaveInv, GraphInv, GraphTypeOK
      <4> QED
        BY <1>2, <3>1, <3>2, <3>3, <4>1, CellCarries, SettablePrecedes
  <2>3. \A p \in Inputs(m) : value'[cell[p]] = value[cell[p]]
    BY <1>3, <2>2 DEF ValuesInv
  <2> QED
    BY <1>1, <2>1, <2>3 DEF Reads, Cells!Read
<1>6. value' \in [Ports -> Reactions \cup {Absent}]
  BY <1>2, <1>3 DEF ValuesInv
<1> QED
  BY <1>1, <1>4, <1>5, <1>6 DEF ValuesInv, ReadsFinal

(* The composition takes the steps of a wave, so that all that holds of a wave
   holds of it. *)
THEOREM ValuesImplementWave == ValuesSpec => Spec
<1>1. ValuesInit => Init
  BY DEF ValuesInit
<1>2. [ValuesNext]_<<vars, valueVars>> => [Next]_vars
  BY DEF ValuesNext, ValuesStep, Next, Step, BeginReading, SetPort, StartTimer
<1> QED
  BY <1>1, <1>2, PTL DEF ValuesSpec, Spec

LEMMA ValuesInvariant == ValuesSpec => []ValuesInv
<1>1. ASSUME ValuesInv, [ValuesNext]_<<vars, valueVars>> PROVE ValuesInv'
  <2>1. [Next]_vars
    BY <1>1 DEF ValuesNext, ValuesStep, Next, Step, BeginReading, SetPort, StartTimer
  <2>2. WaveInv'
    BY <1>1, <2>1, WaveStep DEF ValuesInv
  <2>3. CASE Assemble /\ UNCHANGED <<waveVars, valueVars>>
    BY <1>1, <2>2, <2>3, ValuesQuiet
       DEF Assemble, NumberNode, Refuse, CollectPlans, waveVars
  <2>4. ASSUME NEW triggers \in SUBSET Others \ {{}}, StartWave(triggers) /\ UNCHANGED valueVars
        PROVE  ValuesInv'
    BY <1>1, <2>2, <2>4, ValuesQuiet DEF StartWave, graphVars
  <2>5. ASSUME NEW w \in Workers, NEW r \in Reactions, BeginReading(w, r) PROVE ValuesInv'
    BY <1>1, <2>2, <2>5, ValuesBegin
  <2>6. ASSUME NEW w \in Workers, End(w) /\ UNCHANGED valueVars PROVE ValuesInv'
    BY <1>1, <2>2, <2>6, ValuesQuiet DEF End, graphVars
  <2>7. CASE NextBatch /\ UNCHANGED valueVars
    BY <1>1, <2>2, <2>7, ValuesQuiet DEF NextBatch, graphVars
  <2>8. ASSUME NEW w \in Workers, NEW p \in Ports, SetPort(w, p) PROVE ValuesInv'
    BY <1>1, <2>2, <2>8, ValuesSet
  <2>9. ASSUME NEW w \in Workers, NEW t \in Others, StartTimer(w, t) PROVE ValuesInv'
    BY <1>1, <2>2, <2>9, ValuesQuiet DEF StartTimer, Set, graphVars
  <2>10. CASE Rest /\ UNCHANGED valueVars
    BY <1>1, <2>2, <2>10, ValuesQuiet DEF Rest, vars, graphVars, waveVars
  <2>11. CASE UNCHANGED <<vars, valueVars>>
    BY <1>1, <2>2, <2>11, ValuesQuiet DEF vars, graphVars, waveVars
  <2> QED
    BY <1>1, <2>3, <2>4, <2>5, <2>6, <2>7, <2>8, <2>9, <2>10, <2>11 DEF ValuesNext, ValuesStep
<1> QED
  BY <1>1, ValuesInitial, PTL DEF ValuesSpec

(* A reaction reads the final values of its ports, however the workers
   interleave: an unsynchronized cell is never set while it may be read. *)
THEOREM ReadsFinalHolds == ValuesSpec => []ReadsFinal
<1>1. ValuesInv => ReadsFinal
  BY DEF ValuesInv
<1> QED
  BY <1>1, ValuesInvariant, PTL
=============================================================================
