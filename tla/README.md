# Verification of reactor-rs

TLA+ models of the runtime library of the Rust target of Lingua Franca
(`src/`, crate `reactor_rt`), the TLC runs that check them on small programs,
and theorems proved with TLAPS for every program.

A reactor program is a tree of *reactors* whose *reactions* are triggered by
ports, actions, timers and the start and end of the program.  Time is logical:
each reaction runs at a *tag*, a pair of an offset from the start and a
microstep.  The scheduler processes the events of its queue tag by tag, not
before physical time has reached the tag.  Threads outside of the reactor
program may send events to it, tagged with physical time.  What makes the
program deterministic is the order of tags, and what makes it hard is that the
queue, the channel, the clock and the shutdown meet in one loop.

## Inventory

| Component | State | Operations | Must be right |
|---|---|---|---|
| Tags (`scheduler/events.rs`, `time.rs`) | offset, microstep (u32) | order, `successor`, `absolute`, `now` | a strict total order; a successor is later |
| Event queue (`scheduler/events.rs`) | `value_list`, sorted | `push`, `take_earliest`, `absorb` | one event for each tag, with everything pushed for it; the earliest comes out |
| Event loop (`scheduler/scheduler_impl.rs`) | latest tag, queue, shutdown time, receiver | `startup`, flush, take, sleep, wait, `process_tag`, `shutdown` | tags ascend; no event is lost; the earliest stop ends the program, at its tag; the program ends |
| Reaction context (`scheduler/context.rs`) | plan of the wave, future events | `schedule`, `set`, `request_stop`, timers, `spawn_physical_thread` | events are for later tags only |
| Async threads (`scheduler/context.rs`) | sender, flag | `schedule_physical`, `request_stop`, `was_terminated` | an event that was sent is processed or the program ends |
| Actions (`actions.rs`) | map from tags to values; a lock if physical | store, read and forget a value | a value lives as long as its event |
| Timers (`timers.rs`) | offset, period | bootstrap, reschedule, `is_present` | present when it triggers |
| Reaction plans (`scheduler/dependencies.rs`) | levels of reactions | merge, next batch | a reaction runs once, after those it depends on |
| Parallel runtime (`scheduler_impl.rs`) | forked contexts | batch, merge | same result as the sequential one; no reactor is used twice in a batch |
| Dependency graph (`scheduler/dependencies.rs`) | graph of reactions, ports, triggers | levels, reactions of a trigger | levels respect every dependency; cycles are refused |
| Ports (`ports.rs`) | shared cells, set of downstream ports | bind, set, read, clear | a bound port sees the value of its upstream; nobody reads a value that is not final |
| Assembly (`scheduler/assembly_impl.rs`, `assembly.rs`) | next ids, graph | create components, declare dependencies, bind rows of ports | ids are unique and dense; wrong programs are refused |
| Sorted vector map (`util/vecmap.rs`) | sorted vector | entries from a hint | a map, whatever the hint |
| Debug registry (`scheduler/debug.rs`) | ranges of ids, container of each reactor | reactor of a trigger, its container | a reaction may set its outputs and the inputs of its children only |

Interactions: reactions call the context, which collects events for later tags
and reactions for this one; the loop pushes the former into the queue when the
wave is over and runs the latter level by level.  Threads share three things
with the loop: the channel (whose number of senders also decides whether the
program may end), the flag `was_terminated`, and the lock of each physical
action, which a thread holds from reading the clock until the event is sent
and which the loop takes to clean the action up.

The hazards of this code are listed in `PROJECT.json` at the lines where they
bite, with the properties that cover them.

## Modules

| Module | Models | Extends |
|---|---|---|
| `EventTags` | tags, their order and successors, with the wrap of the microstep | |
| `Events` | events and the operations of the queue as operators | `EventTags` |
| `EventAgenda` | *abstract*: a set of events, one for each tag | `EventTags` |
| `EventQueue` | the queue as a state machine; implements `EventAgenda` | `Events` |
| `DiscreteEvents` | *abstract*: a discrete event simulation | `EventTags` |
| `Scheduler` | the event loop, the reaction API, timers, threads, clock; implements `DiscreteEvents` | `Events` |
| `DependencyGraph` | the graph that a program declares, the levels of its nodes, the reactions of each trigger | |
| `ReactionPlans` | plans as sets of reactions, and their merges as operators | |
| `ReactionWave` | the reactions of one tag: batches, workers, what reactions add to the tag | `DependencyGraph`, `ReactionPlans` |
| `WaveValues` | the same reactions with the cells of the ports they set and read on several workers | `ReactionWave`, instance of `Ports` |
| `VecMap` | the sorted vector of a plan, and its searches as operators | |
| `PlanMerge` | `absorb_after` and the look-up of the next batch as a state machine on two such vectors | `VecMap` |
| `Ports` | the ports, their cells, binding, setting and clearing as operators | |
| `Assembly` | the assembly of the tree of reactors, ids, bindings and the registry, then values at the ports from tag to tag | `Ports` |
| `MCEventQueue`, `MCScheduler`, `MCReactionWave`, `MCPlanMerge`, `MCAssembly` | instances for TLC | |
| `EventsProofs` | lemmas about tags and queues | `Events` |
| `EventQueueProofs` | the queue is sorted and implements the agenda | `EventQueue` |
| `SchedulerProofs` | theorems about every program | `Scheduler` |
| `LogicalTimeProofs` | theorems about programs of logical time | `SchedulerProofs` |
| `DependencyGraphProofs` | lemmas: levels ascend along every edge, within plans and reactors | `DependencyGraph` |
| `ReactionWaveProofs` | theorems about waves and their values on every graph | `WaveValues`, `DependencyGraphProofs` |
| `PlanMergeProofs` | theorems about merges of plans of any size | `PlanMerge` |
| `AssemblyProofs` | theorems about the ids, the bindings, the refusal and the values at the ports of every program | `Assembly` |

**Events.**  A reaction plan is represented by the set of triggers whose
reactions it holds.  `reactions_triggered_by` is a function of the trigger and
merging plans is a union, so this loses nothing that the order of tags depends
on.  `binary_search_by_key` is the standard library's, and is taken by its
contract: on a sorted list it finds the event of the tag, or the place for it.
`Push` chooses by that contract, so a queue that is not sorted would be found.

**Scheduler.**  `pc` is the point that the thread of the scheduler has reached;
each value is named in the header of the module next to its place in the code.
A step is what happens between two points where another thread can make a
difference: each receive, each push of a batch, each read of the clock that
decides something is a step of its own.  `process_tag` is split into `react`
(API calls of the reactions, in any order), `drain` (future events go into the
queue one at a time) and `cleanup`; a plan without reactions returns early, as
the code does.  What reactions do is open: any call of the API with any
delay of `Delays`, up to `MaxCalls` in a run.  The synthesized reactions of
timers always run (`synthetic`).  A thread stamps an event (lock, clock, value)
and sends it in two steps, since the loop can run in between.  A reaction can
schedule a physical action too (`SchedulePhysical`): its tag is read from the
clock, which may not have moved past the current tag, and nothing compares them.
`IsPresent` is what a reaction is told of its triggers: an action looks for the
tag among its values, a timer recomputes from the elapsed time, which does not
know of microsteps.  Hence a timer is present at every microstep of an instant
at which it triggered, and `PresenceAgrees` says so.  The clock is
`Instant::now`: monotonic, and two reads may return the same instant, so
`Tick` is a step of its own and no step has to be preceded by one.

**Dependency graph and wave.**  A program is the record of what its reactors
declare: which triggers have which reactions, what reactions use and what they
set, and which ports are bound.  `NumberNode` gives a node its turn in the
topological order; any node whose predecessors have had theirs may be next, so
every order that a topological sort could choose is covered, and a cycle shows
as nodes of which none can be next (`Refuse`).  `ReactionWave` runs a tag on the
graph it numbered.  A *crew* of workers takes reactions from the batch: the
thread of the scheduler alone, or all workers if the batch reaches the
threshold of a parallel build.  Reactions set ports, or return, in any
interleaving.  Each worker has the plan that its forked context collected
(`todo_now`); `NextBatch` merges them with the plan of the wave, as
`merge_plans_after` does case by case, with the copy-on-write handles that decide
which side is extended.  (The comment in its last case, that `x` is the largest
one after the swap, is wrong, and harmless: the union is the same.)

The wave represents plans by the sets they hold.  That the vectors behind them
hold the same is the subject of `PlanMerge`, which has the binary searches, the
scan from the last position, the insertion and the look-up of the next
batch, on all pairs of small plans.

**Values.**  `WaveValues` joins the wave to the cells of `Ports`.  The cells of a
port are shared by the workers in an `UnsafeCell`, without a lock.  When a
reaction begins, `seen` records all that it could read; `ReadsFinal` says that
this is still what it could read at any later time, while it runs and when the
tag is over.  So no worker sets a port that another one may be reading, and
what a reaction reads does not depend on the order of the workers.  `Bound` ports
refer to the cell of the free port above them, which is what `Assembly` shows of
every port that has not moved twice.

**Ports and assembly.**  A program says, for each reactor, what the generated code of
that reactor does: its children, its components and the ports that it binds, in order.
`stack` holds the reactors whose assembly has begun, so that the order of the code is
kept: children first, then the id, the components, the bindings, and the registration of
the children.  (A bank is a row of children.)  A multiport is a component with
channels.  `NewComponent` gives it an id of its own and reserves the ids after that for
its channels, as `record_port_bank` does, and `NewChannel` creates the channels one by
one: the limit is computed twice, in `ReservationFails` for all of them and in
`Exhausted` for each.  A multiport without channels is refused.  A binding is a row of
pairs, as `bind_ports_zip` and `bind_ports_iterated` make them: the shorter side
decides, or the upstream ports start over, and an empty upstream row that is to be
repeated is refused.  A single binding is a row of one.  A cell is named by the port
that it was created with; `cell` is the cell that a port refers to and `downstreams`
what is listed in each cell.  An error, the panic when the ids are used up and the
rejection of a cyclic graph all lead to `refused`.  When the program runs, reactions set
free ports in any order and `CleanupTag` ends a tag; that reactions run in the order of
dependencies is the subject of the wave.  The id of a reactor wraps silently in a
release build (`Incremented`), the one of a component does not (`Exhausted`).  `MaySet`
is the check of a debug build that a reaction may set a port, by the kind of the port
and the containers that the registry finds; a reference to a port of a child passes,
whatever reaction sets it.  `source`, `moves` and `written` are history variables: the
free port that feeds a port by the declarations alone, how often it has changed, and
what has been set at this tag.

`Scheduler` does not use the wave: there, the reactions of a tag call the API
in any order, which is every order that a wave can produce and more.

The models follow a release build: debug assertions are not executed.  They are
stated as properties instead.

`accepted`, `stops` and `executed` are history variables: what the runtime
agreed to process, and what it has run.

## Runs

| Run | Program | Shows |
|---|---|---|
| `MCEventQueue` | three tags, two triggers | the list stays sorted and implements the agenda |
| `MCLogicalTimeout` | two logical actions (with and without `min_delay`), a periodic and a one-shot timer, stops, a timeout | tags ascend; events are ahead; nothing due is left when the program ends, the earliest stop wins; values match events and presence tells what triggered; reactions are not early; refinement of `DiscreteEvents` |
| `MCThreads` | a logical and a physical action, two threads, no timeout | the scheduler leaves only when no event can come; stops end the program, and it ends by itself when all threads have; what is sent is processed |
| `MCThreadsTimeout` | the same with one thread that sends twice, and a timeout | no event is lost in any interleaving up to the timeout, after which no tag is processed, and which always ends the program |
| `MCReactionWave` | three reactors with seven reactions, a multiport, a binding and a timer; 144 variants of what triggers, uses and sets what, some of them cyclic; two workers | levels ascend along every dependency; a reaction runs once, after all it depends on; no two declared reactions of a reactor at the same time; what has run is exactly what was triggered; what a reaction reads is final; the wave ends |
| `MCPlanMerge` | any two plans of five reactions in four levels, any first level | the searches stay within bounds and end; hints are valid when used; the result is the union, in order; no level is skipped by the next batch |
| `MCAssembly` | six reactors in a tree of four levels, one of them without components; 800 choices and orders of bindings, with ports that are bound twice and cycles through two reactors; 30 programs with rows of bindings and a multiport of no, one or two channels, which are inputs or references to outputs of children; no channels are refused, and two need an id too many | of the programs, exactly those with a wrong component or binding are refused; the ids do not run out in the middle of a multiport, and those reserved for its channels are theirs alone; a debug build lets each reaction set the inputs and outputs it should; every reactor has its place, up to the last id; values reach bound ports as long as no source has moved twice, and never a port that they are not for, or the next tag |

Five further runs look for a violation and find it.  Each states what the
repository says of itself and the code does not do:

- `LateAsyncEvent`: an event reaches the queue for a tag before the latest
  processed one, if its thread is delayed between reading the clock and
  sending (`events.rs:137` says this cannot be).
- `EarlyWave`: a message for a later tag ends the sleep of the scheduler, which
  then runs the event it slept for before its time
  (`scheduler_impl.rs:220`).
- `RepeatedTag`: a message for the very tag that the scheduler sleeps for is
  pushed back, and the tag is processed twice (the assertion
  at `scheduler_impl.rs:409`).
- `LeakedValue`: the value of an action without reactions is never removed
  (`actions.rs:54`).
- `UnforwardedValue`: a value that is passed down through the inputs of three
  nested reactors does not reach the innermost one (`ports.rs:45`, `ports.rs:298`).
  Reactors bind bottom up.  Binding the middle input moves the innermost one to the
  cell of the middle one's source, but does not list it there, and when that
  source is bound in turn only listed ports are moved.  `MCAssembly` shows that this
  is the only way in which a value gets lost (`ForwardsUnlessMovedTwice`).

Six divergences are plain from reading and need no run: a thread that has
read `was_terminated` can still send without an error until the scheduler is
dropped (`context.rs:606` says that calls fail), physical threads are
not joined (`context.rs:407` says they are), physical actions ignore their
`min_delay` (`context.rs:655`), and when nothing can come any more the shutdown
is processed at its tag without waiting for it (`scheduler_impl.rs:91` says
that processed tags are behind physical time).  The reaction synthesized for a
timer has no priority edges (`assembly_impl.rs:220`), so it can be in one batch
with a declared reaction of its reactor, and both get a mutable reference to
the reactor (`scheduler_impl.rs:479` and `dependencies.rs:580` say that no two
reactions of a batch belong to one reactor; `new_reactions` says that synthesized
reactions have no observable side effect).  And a reactor without components
makes two upper bounds of ids equal, so the binary search of the registry may
return that reactor for the first component of the next one (`SetsAreChecked`
allows exactly this); a debug build, which looks the reactor up in
`check_set_port_is_legal`, may then reject a legal `set`.  (References to ports of
children are not checked at all: `context.rs:274` has a "todo" there, and
`SetsAreChecked` claims nothing of them.)  Two more are limits of the
code: after 2^16 reactors the next id would be one that is taken
(the properties of the assembly are claimed up to the last id; beyond it
`DepGraph::record` panics if a reaction of the second reactor is recorded again,
`dependencies.rs:289`, which is not modelled), and a timer is present at later
microsteps of its instant, where it did not trigger, although `is_present` promises
the current logical time (`PresenceAgrees` states what the code does).  The models
follow the code.

A property marked *(logical)* in `Scheduler` is claimed of programs without
threads and physical actions.

**Bounds.**  `MaxCalls` limits the API calls of reactions, `MaxSends` the calls of each
thread, `Horizon` the clock and the tags that calls may ask for, and `MicroMax` the
microsteps.  Three calls are enough to have two pending events for one tag and a stop
before, at or after it; two threads with one message each, or one with two, reach every
order of two messages with respect to a flush, a sleep and the shutdown.  Delays 0 and 1
with a `min_delay` of 0 and 1 give equal tags, next microsteps and next instants.  The
periodic timer has period 2, so that there is an instant at which it is not present.
Calls stop short of the largest microstep, so that the wrap of u32 is not reached (its
consequence is stated exactly by the theorem `SuccessorIsAfter`).  A timer that repeats
for ever is used with a timeout only.

`MCReactionWave` uses two workers, which is enough for two reactions to overlap,
and the threshold 2 in place of the 3 of the code, so that batches of two are run
in parallel and more interleavings happen.
The program has a chain through a binding into a multiport, reactions that
read a port without being triggered by it, and reactions that set a port at the
level before it is read.  `MCPlanMerge` has four levels: enough for a binary
search of two rounds, for an insertion before, between and after the levels of
the other plan, and for a hint that points behind the next level.

The runs have about 120000 states (`MCLogicalTimeout`), 55000 (`MCReactionWave`) and
49000 (`MCAssembly`); all end within two minutes.

`MCAssembly` has the smallest tree in which a source can move twice, three nested
inputs below a sibling, and bindings of every kind: from a sibling, down to a
child, up from a child, and through a reactor.  One value is enough, since it is
told apart from the absent one.  `TriggerLimit` is 11 in place of the largest u32, so
that a multiport with one channel takes the last id and one with two does not fit,
whether other components follow it or, in the main reactor, none does.
There are as many ids of reactors as reactors, so the counter wraps after the last one.

**Fairness.**  `FairSpec` assumes that the thread of the scheduler takes a step
when it can (the operating system runs it), that the clock advances, and that
a thread inside a call that sends a message finishes it (`send` on an unbounded
channel does not block).  It does not assume that a thread ever calls the API
or ever ends: a program with such a thread stays alive, as in the code.
Reactions are assumed to end: the calls are bounded, and `FinishReactions`
belongs to the fair steps.  In the wave, reactions begin and return and the loop
goes on, but nothing makes a reaction set a port.  The merge is sequential code:
its steps are fair.

**Mutants.**  Each property of a passing run is shown to depend on the code: the
operators called *faulty variant* stand for plausible bugs (a missing binary
search, an event that replaces another, a stop that is forgotten when events
are united, a comparison that is off by one, a sender that is created too
late), and each makes TLC find a violation in place of the definition
after it.

## Proofs

All constants are arbitrary, within the assumptions of the modules: sets of triggers
that are disjoint as in the code, natural delays, finitely many reactions and workers,
and reactions of a reactor that are numbered from zero.

- `EventsProofs`: tags are strictly and totally ordered; a successor is later, unless
  microsteps are exhausted.  `GapExists`, by the least number principle on the sorted
  list, shows that binary search has an answer; `PushElements`, `PushWork`,
  `HeadTailWork` say what a push and a take do to the tags and the work of the queue.
- `EventQueueProofs`: `EventQueueTypes`, `QueueStaysSorted` and `QueueImplementsAgenda`,
  the refinement by `Contents`, the set of the events of the list.
- `SchedulerProofs`, for every program with any number of threads:
  - `TypesHold` and `SchedulerQueueSorted`, from the invariant `SInv`, which adds to the
    types which events exist at which `pc`.  (That the queue of the scheduler is sorted
    is proved only; `MCEventQueue` checks the queue alone.)
  - `TimeoutBoundHolds` and `TerminatedAfterShutdownHolds`, from `ShutInv`: the shutdown
    time only moves to earlier tags, and after the loop has decided to stop, the latest
    tag is the shutdown time.  `TimeoutBound` speaks of every tag that is processed, by
    a wave or by the shutdown, and is not inductive by itself: with a timeout there
    always is a shutdown time and it is not after the timeout (`WithinTimeout`), and the
    loop does not take up an event after the shutdown time, also when a sleep was
    interrupted.
  - `NothingLostHolds`: accepted work is in the queue, in the channel, in the hand of
    the loop, or done; by one lemma for each way in which work moves.
  - `KeepsAliveHolds`, from `AliveInv`: without a shutdown time, the loop is past its
    last wait only if the channel is empty and nobody can send.
- `LogicalTimeProofs`, for programs without threads and physical actions
  (`LogicalOnly`): `EventsAheadHolds` and, with a timeout, `TagsAscendHolds`, from
  `LogicalInv`, which bounds from below what the queue can hold at each point of the
  loop.
  - `NotEarlyHolds`, from `OnTimeInv`: the loop leaves a sleep only when the instant of
    the event it took has come, since nothing else can wake it.
  - `DueWorkDoneHolds`, from `NothingLost` and `LogicalInv`: what is left in the queue
    when the last tag has been processed is for tags after it.
  - `EarliestStopWinsHolds`, from `StopInv`: a stop that was agreed to is honored by the
    shutdown time, or is still in an event of the queue, of the wave or in the hand of
    the loop; it joins another event and is not lost there (`PushStops`).
  - `ValuesMatchEventsHolds` and `ValuesReclaimedHolds`, from `MatchInv`, for programs
    in which every logical action triggers a reaction.  Without that they fail, as the
    run `LeakedValue` shows.
  - `SimulationHolds`: the loop implements the safety part of `DiscreteEvents`
    (`Simulation!Spec`).  What is pending in the simulation is the work in the queue, in
    the hand of the loop and in the events that reactions have collected.  The steps
    that process a tag are the ones to map: by `SimInv` every event says something, none
    asks for the startup reactions, and an event that ends the program, like the
    shutdown time itself, is a stop that was requested, so the tag that is processed
    next is the tag of the simulation (`NextTag`), with all the work for it.
  - `PresenceAgreesHolds`, from `TimerInv` and `FreshInv`.  A timer has no map of
    values: `is_present` computes from its period whether it is due.  So the invariant
    is about every instant at which it is due: its reaction was run then, or the timer
    is in an event for that instant or an earlier one, or the reaction that schedules it
    has yet to run, or the instant is beyond the shutdown; and it is never run at
    another instant.  `FreshInv` says that an action has a value for a tag to come
    exactly if it is pending for the tag.  The theorem is about programs with a timeout,
    or in which every logical action triggers a reaction: otherwise, a program that ends
    because nothing is left does so at a tag that may lie in its past, and a value that
    no reaction saw, and hence nobody removed, shows again there.
- `DependencyGraphProofs`: `GraphInv` says that the visited nodes are closed under
  predecessors and have higher levels than these.  From it, levels ascend along every
  dependency (`PrecedesAscends`), also across bindings and multiports, and along the
  priorities of a reactor (`RanksAscend`, by the least number principle: priority edges
  only join neighbours, so the order of two distant reactions needs that the numbers
  between them are taken).
- `ReactionWaveProofs`, for every program with any number of workers: `WaveTypesHold`,
  `LevelsAscendHolds`, `RunOnceHolds`, `DependenciesFirstHolds`, `ReactorNotSharedHolds`
  and `WaveCompleteHolds`, all from `WaveInv`.  None of these properties is inductive:
  `LevelInv` places what has begun at or below the current level, `RunningInv` what is
  running exactly at it, and `ContentInv` says that what has begun and what waits, in
  the plans of all workers together, is what was triggered.  That a merge keeps the
  contents needs that no fork adds a level at or below the current one, which is
  `PrecedesAscends` again.  `ReactorNotSharedHolds` is about declared reactions; it does
  not hold of synthesized ones.  `ValuesImplementWave` carries all of these over to the
  wave with values, and `ReadsFinalHolds` is `PrecedesAscends` once more: who sets a
  port is at a lower level than who reads its cell, through any binding.
- `PlanMergeProofs`: `MergeTypesHold`, `StaysAscendingHolds`, `HintValidHolds`,
  `NoLevelSkippedHolds` and `MergeCompleteHolds`, from `MergeInv`: `SearchInv`, the
  halves that binary search has given up are on their sides of the key; `SlotInv`, the
  position found is where the level belongs; `MergedInv`, what the plan holds in the
  middle of the merge.
- `AssemblyProofs`, for every tree of reactors with any bindings:
  `ForwardsUnlessMovedTwiceHolds` and `NoForeignValueHolds`, from `AssemblyInv`.
  Neither property says anything about cells, so the invariant does: `CellInv`, a free
  port keeps its own cell, and what refers to that cell or is listed in it is fed by the
  port; `FollowInv`, as long as no port has moved twice, each refers to the cell of its
  source, and is listed there unless it has moved; `ValueInv`, only cells of free ports
  hold values.  `check_cycle` looks at one list, so it misses a cycle through a port
  that has moved; then none of this holds, but `ClosedCycle` shows that the wiring has a
  cycle and that the program is refused.  About ids:
  - `AssemblyTypesHold`, from `CounterTypes` and `RegistryTypes`: no id of a component
    is above the limit.
  - `OrderInvHolds`: the reactors that have an id are those that the walk of the tree
    has come back to, and the stack is a path of the tree.
  - `ReactorsInPlaceHolds`, from `IdsInv` (as long as there are enough ids, the next one
    is the number of those that are given, which are all distinct) and `PlaceInv` (a
    reactor is in its place, or its parent is still on the stack and will put it there).
  - `ReservationKeptHolds`, from `RangeInv`, the ids of a component and of the channels
    it has so far follow each other, and those of the channels to come are within the
    limit; `MiddleId`, in the middle of a multiport the counter is at the next of its
    ids; and `GivenIds`, every id that was given is below the counter, and none was
    given twice.  So the counter cannot be exhausted by a channel (`NeverInTheMiddle`).
  - `RefusedForCauseHolds`.  The property compares the whole program with the phase, and
    the walk sees a program one row at a time, so each part of the fault has an
    invariant: `TreeInv`, a reactor that has an id is in the tree, with all that is
    below it, and a program runs when its main reactor has one; `BindInv`, what is wired
    is what the finished rows declare, each port once, and none of these rows is
    malformed; `FilledInv`, no multiport that was created is empty; `CountInv`, the
    counter of triggers is as far as there are components and channels created;
    `CauseInv`, what was refused was refused for a fault of the program.  A cycle is
    found among the ports wired so far, and at the end these are all that the program
    declares.  It is about components and bindings: a program may also be refused for a
    cycle of its reactions, which `DependencyGraph` models (`Refuse`).  It is
    about the reactors below the main one (`Tree`); a declaration of a reactor that
    nothing instantiates is never read.
  - `SetsAreCheckedHolds`, from `BoundInv` and `ContainerInv`.  Upper bounds ascend with
    the ids of reactors, and the ids of the components of a reactor lie between the
    bound before it and its own, so binary search ends at the owner of a trigger or at a
    reactor with no components next to it; the container of a reactor is its parent.  It
    is about ports of the kinds `Input` and `Output`, the two that are checked, and
    needs that the ids of reactors suffice: beyond the last id the bounds of two
    reactors are at one position.

The safety properties of all passing runs are proved.  One assumption on a program is
used by `TimerInv` alone: if there are timers, the startup has reactions
(`ReactingAssumption`), which is so because `bootstrap_timer` (`context.rs:484`) is
called by a reaction to the startup that is synthesized with each timer.

Only model-checked: what involves fairness (`StopsEventually`, `EndsAlone`,
`SentIsProcessed`, `WaveEnds`, `MergeEnds`, and the fairness condition of
`DiscreteEvents` in `ImplementsDiscreteEvents`), since liveness and `ENABLED` are out of
the reach of the proof system.

## Not modelled, and why

- The levels of a wave are not composed with the event loop: in `Scheduler` the
  reactions of a tag call the API in any order, which is every order that a wave
  can produce and more, so what is shown of the loop holds for every wave.  The
  events for later tags that forked contexts collect reach the loop in some order
  of these; `ReactionWave` leaves them out.
- The values of actions: only which tags have one.  The `VecMap` of an
  action is a map by the theorems of `PlanMerge`; its `remove` is the subtraction
  of a key in `Forget`.
- Iterators over multiports, labels and the names of the debug registry,
  formatting of tags and ids, the dot output of the graph, logging, the macros for
  durations, the options record and the start of the thread pool: they keep no state
  that the scheduler reads.
- An `AsyncCtx` can be cloned into another thread; in the model, threads
  are spawned by reactions only, in any number.  Poisoned locks and panics of reactions
  end the process or the thread.
- `petgraph`, `rayon`, `crossbeam`'s channel and the binary search of the standard
  library are taken by what they promise: any topological order, any
  assignment of a batch to workers, first in first out, a position that fits.

What would come next: the levels of a wave in place of the plan of `Scheduler`, with
forks that collect events for later tags in `ReactionWave`, and an abstract
specification of programs with threads and physical actions.
