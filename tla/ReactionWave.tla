---------------------------- MODULE ReactionWave ----------------------------
(***************************************************************************)
(* The reactions of one tag: the loop of process_tag over batches          *)
(* (scheduler/scheduler_impl.rs) and the part of ReactionCtx that adds     *)
(* reactions to the tag (scheduler/context.rs), on a program assembled by  *)
(* DependencyGraph.  A batch is run by the scheduler's thread alone or, if *)
(* it is large enough in a parallel build, by rayon: each worker has a     *)
(* fork of the context, and the forks are merged when the batch is over.   *)
(*                                                                         *)
(* A reaction sets any of the ports it declared as its effects, in any     *)
(* order; ports can only be reached through such declarations.             *)
(***************************************************************************)
EXTENDS DependencyGraph, ReactionPlans

CONSTANTS
  Workers, Main,         \* threads of rayon; Main runs the scheduler
  ParallelThreshold,     \* PARALLEL_THRESHOLD: 3 in the code
  Idle

ASSUME WorkersAssumption ==
  /\ IsFiniteSet(Workers) /\ Main \in Workers
  /\ ParallelThreshold \in Nat
  /\ Idle \notin Reactions
  /\ NoPlan \notin [owned : BOOLEAN, reactions : SUBSET Reactions]

VARIABLES
  wave,         \* ready, batch or over
  present,      \* history: triggers of the event, and triggers set since
  plan,         \* reactions, in process_tag
  cur_level,
  batch,        \* reactions of the batch that no worker has begun
  crew,         \* the workers that run the batch
  running,      \* the reaction that each worker is in, or Idle
  todo_now,     \* the plan that each worker's context has collected
  begun         \* history: reactions that have begun at this tag

waveVars == <<wave, present, plan, cur_level, batch, crew, running, todo_now, begun>>
vars == <<graphVars, waveVars>>

Init ==
  /\ GraphInit
  /\ wave = "ready"
  /\ present = {} /\ plan = NoPlan /\ cur_level = 0
  /\ batch = {} /\ crew = {Main}
  /\ running = [w \in Workers |-> Idle]
  /\ todo_now = [w \in Workers |-> NoPlan]
  /\ begun = {}

-----------------------------------------------------------------------------
(* The reactions of the next level form the batch, or the wave is over. *)
RunLevel(later) ==
  /\ batch' = FirstOf(level, later)
  /\ IF later = {}
       THEN wave' = "over" /\ UNCHANGED <<cur_level, crew>>
       ELSE /\ wave' = "batch"
            /\ \E l \in {level[r] : r \in batch'} : cur_level' = l
            /\ crew' = {Main} \/ (Cardinality(batch') >= ParallelThreshold /\ crew' = Workers)

(* process_tag: the plan of an event, borrowed from its only trigger or owned
   when the plans of several were merged, up to the first batch *)
StartWave(triggers) ==
  /\ assembly = "assembled" /\ wave = "ready"
  /\ present' = triggers
  /\ LET roots == UNION {trigger_to_plan[t] : t \in triggers} IN
       /\ plan' = IF Cardinality(triggers) = 1 THEN Borrowed(roots) ELSE Owned(roots)
       /\ RunLevel(roots)
  /\ UNCHANGED <<graphVars, running, todo_now, begun>>

(* ReactionCtx::execute, the call of react *)
Begin(w, r) ==
  /\ wave = "batch" /\ w \in crew /\ running[w] = Idle /\ r \in batch
  /\ running' = [running EXCEPT ![w] = r]
  /\ batch' = batch \ {r}
  /\ begun' = begun \cup {r}
  /\ UNCHANGED <<graphVars, wave, present, plan, cur_level, crew, todo_now>>

(* What a reaction may set: ports, channels of multiports, and, in the
   synthesized reaction that starts it, a timer without offset. *)
Settable(r) ==
  {t \in Ports \cup Others :
     \/ <<r, t>> \in program.effects
     \/ \E b \in Banks : <<r, b>> \in program.effects /\ t \in Channels[b]}

(* enqueue_now *)
EnqueueNow(todo, downstream) ==
  IF todo = NoPlan THEN downstream ELSE AbsorbAfter(level, todo, downstream, cur_level + 1)

(* ReactionCtx::set, or bootstrap_timer *)
Set(w, t) ==
  /\ running[w] # Idle /\ t \in Settable(running[w])
  /\ todo_now' = [todo_now EXCEPT ![w] = EnqueueNow(@, Borrowed(trigger_to_plan[t]))]
  /\ present' = present \cup {t}
  /\ UNCHANGED <<graphVars, wave, plan, cur_level, batch, crew, running, begun>>

(* The reaction returns. *)
End(w) ==
  /\ running[w] # Idle
  /\ running' = [running EXCEPT ![w] = Idle]
  /\ UNCHANGED <<graphVars, wave, present, plan, cur_level, batch, crew, todo_now, begun>>

(* RContextForwardableStuff::merge and absorb: the plans of all forks, united
   by merge_cows.  A single plan is passed on as it is. *)
Merged ==
  LET busy == {w \in Workers : todo_now[w] # NoPlan} IN
    IF busy = {} THEN NoPlan
    ELSE IF Cardinality(busy) = 1 THEN todo_now[CHOOSE w \in busy : TRUE]
    ELSE Owned(UNION {todo_now[w].reactions : w \in busy})

(* Faulty variant of BatchOver: it is over when its last reaction has begun. *)
BatchTaken == batch = {}

(* process_batch returns when every worker has left its last reaction. *)
BatchOver == batch = {} /\ \A w \in Workers : running[w] = Idle

(* What the batch added to the tag is merged into the plan. *)
NextBatch ==
  /\ wave = "batch" /\ BatchOver
  /\ LET merged == MergePlansAfter(level, plan, Merged, cur_level + 1) IN
       /\ plan' = merged
       /\ RunLevel(Later(level, merged, cur_level))
  /\ todo_now' = [w \in Workers |-> NoPlan]
  /\ UNCHANGED <<graphVars, present, running, begun>>

(* The tag has been processed, or there is no program to run. *)
Rest == (wave = "over" \/ assembly = "refused") /\ UNCHANGED vars

Step ==
  \/ \E triggers \in SUBSET Others \ {{}} : StartWave(triggers)
  \/ \E w \in Workers, r \in Reactions : Begin(w, r)
  \/ \E w \in Workers : End(w)
  \/ NextBatch

Next ==
  \/ Assemble /\ UNCHANGED waveVars
  \/ Step
  \/ \E w \in Workers, t \in Ports \cup Others : Set(w, t)
  \/ Rest

Spec == Init /\ [][Next]_vars

(* Reactions return: nothing makes a reaction set a port. *)
FairSpec == Spec /\ WF_vars(Step) /\ WF_vars(Assemble /\ UNCHANGED waveVars)

-----------------------------------------------------------------------------
Plans == {NoPlan} \cup [owned : BOOLEAN, reactions : SUBSET Reactions]

TypeOK ==
  /\ GraphTypeOK
  /\ wave \in {"ready", "batch", "over"}
  /\ present \subseteq Ports \cup Others
  /\ plan \in Plans
  /\ cur_level \in Nat
  /\ batch \subseteq Reactions
  /\ crew \subseteq Workers
  /\ running \in [Workers -> Reactions \cup {Idle}]
  /\ todo_now \in [Workers -> Plans]
  /\ begun \subseteq Reactions

(* Reactions that have yet to begin at this tag. *)
Waiting ==
  batch \cup Later(level, plan, cur_level)
        \cup UNION {Later(level, todo_now[w], cur_level) : w \in Workers}
InProgress == {running[w] : w \in Workers} \ {Idle}

(* Two workers are never inside reactions of the same reactor: "no two
   reactions in the batch belong to the same reactor", which is what makes the
   unsafe mutable access of process_batch sound, for the reactions of the
   program. *)
ReactorNotShared ==
  \A v, w \in Workers :
    v # w /\ {running[v], running[w]} \subseteq Declared
      => ReactorOf[running[v]] # ReactorOf[running[w]]

(* When a reaction has begun, no reaction that it depends on is still running
   or waiting: it sees the final values of its ports, in any order of the
   workers and whatever is added to the tag. *)
DependenciesFirst ==
  \A n \in Waiting \cup InProgress, m \in begun : ~Precedes(n, m)

(* No reaction runs twice at a tag: merging plans eliminates duplicates. *)
RunOnce == begun \cap Waiting = {}

(* When the wave is over, the reactions that have run are those that are
   triggered by what was present, directly or through bindings: none is dropped
   by a merge, and none runs without cause. *)
WaveComplete ==
  wave = "over" =>
    begun = {r \in Reactions : \E t \in present : \E p \in Carriers(t) :
               <<p, r>> \in PerChannel(program.triggers)}

(* A program is refused or its tag is processed to the end. *)
WaveEnds == <>(wave = "over" \/ assembly = "refused")
=============================================================================
