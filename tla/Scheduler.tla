----------------------------- MODULE Scheduler -----------------------------
(***************************************************************************)
(* The event loop of SyncScheduler (scheduler/scheduler_impl.rs), the API  *)
(* that reactions call while a tag is processed (ReactionCtx), and the     *)
(* threads that send it events (AsyncCtx, both scheduler/context.rs).      *)
(*                                                                         *)
(* pc is the point the scheduler's thread has reached:                     *)
(*   startup                launch_event_loop calls startup                *)
(*   flush, take            top of the loop: try_iter, then take_earliest  *)
(*   sleep                  blocked in catch_up_physical_time              *)
(*   execute                awake, about to run the event it took          *)
(*   wait                   blocked in receive_event                       *)
(*   react, drain, cleanup  inside process_tag                             *)
(*   exit                   out of the loop by break                       *)
(*   notify, drop, done     end of shutdown, destruction of the scheduler  *)
(*                                                                         *)
(* The order of the reactions inside a tag is left to a separate model: a  *)
(* wave here is a set of API calls in any order.  Debug assertions are not *)
(* executed, as in a release build; they are stated as properties.         *)
(***************************************************************************)
EXTENDS Events, FiniteSets

CONSTANTS
  LogicalActions, PhysicalActions, Timers,  \* triggers, with STARTUP, SHUTDOWN
  STARTUP, SHUTDOWN,
  Reacting,       \* triggers for which reactions_triggered_by is not empty
  MinDelay,       \* min_delay of each action
  TimerOffset, TimerPeriod,
  Timeout,        \* SchedulerOptions::timeout, or None
  Threads,        \* identities for spawned threads
  Delays,         \* the offsets that API calls pass
  MaxCalls,       \* bound: API calls made by reactions, over a run
  MaxSends,       \* bound: API calls made by a thread
  Horizon,        \* bound: the last instant of the clock, and of requested tags
  None

Actions == LogicalActions \cup PhysicalActions

ASSUME TriggersAssumption ==
  /\ Triggers = Actions \cup Timers \cup {STARTUP, SHUTDOWN}
  /\ LogicalActions \cap PhysicalActions = {}
  /\ Timers \cap (Actions \cup {STARTUP, SHUTDOWN}) = {}
  /\ {STARTUP, SHUTDOWN} \cap Actions = {}
  /\ STARTUP # SHUTDOWN

ASSUME ConfigurationAssumption ==
  /\ MinDelay \in [Actions -> Nat]
  /\ TimerOffset \in [Timers -> Nat]
  /\ TimerPeriod \in [Timers -> Nat]
  /\ Delays \subseteq Nat
  /\ Timeout \in Nat \cup {None}
  /\ {MaxCalls, MaxSends, Horizon} \subseteq Nat

(* Timers come with a synthesized reaction, so they always react, and so does
   the startup, whose reactions start them. *)
ASSUME ReactingAssumption ==
  /\ Reacting \subseteq Triggers /\ Timers \subseteq Reacting
  /\ Timers # {} => STARTUP \in Reacting

ASSUME NoneAssumption == None \notin Tags \cup Events \cup Nat

VARIABLES
  now,             \* physical time since initial_time
  pc,
  latest,          \* latest_processed_tag
  event_queue,     \* EventQueue::value_list
  cur,             \* the event the loop took, or None
  shutdown_time,
  is_shutdown,     \* parameter of process_tag
  reactions,       \* the plan of process_tag: triggers processed in this wave
  synthetic,       \* timer reactions of this wave that have not run yet
  future_events,   \* ReactionCtx: events for later tags
  values,          \* <<action, tag>>: keys of the value map of each action
  rx,              \* messages in the channel
  rx_open,         \* the receiver has not been dropped
  was_terminated,
  thread,          \* unborn, running or dead
  outbox,          \* the message a thread has stamped and not sent yet, or None
  calls, sends,    \* API calls made so far (bounds)
  accepted,        \* history: <<tag, trigger>> the runtime agreed to process
  stops,           \* history: tags of the stop requests it agreed to
  executed         \* history: <<tag, trigger>> whose reactions have been run

loopVars   == <<latest, event_queue, cur, shutdown_time>>
waveVars   == <<is_shutdown, reactions, synthetic, future_events, calls>>
threadVars == <<thread, outbox, sends>>
channel    == <<rx, rx_open, was_terminated>>
history    == <<accepted, stops, executed>>
vars == <<now, pc, loopVars, waveVars, values, channel, threadVars, history>>

TypeOK ==
  /\ now \in Nat
  /\ pc \in {"startup", "flush", "take", "sleep", "execute", "wait", "react",
             "drain", "cleanup", "exit", "notify", "drop", "done"}
  /\ latest \in Tags \cup {None}
  /\ event_queue \in Seq(Events)
  /\ cur \in Events \cup {None}
  /\ shutdown_time \in Tags \cup {None}
  /\ is_shutdown \in BOOLEAN
  /\ reactions \subseteq Triggers
  /\ synthetic \subseteq {"bootstrap", "reschedule"} \X Timers
  /\ future_events \in Seq(Events)
  /\ values \subseteq Actions \X Tags
  /\ rx \in Seq(Events)
  /\ rx_open \in BOOLEAN /\ was_terminated \in BOOLEAN
  /\ thread \in [Threads -> {"unborn", "running", "dead"}]
  /\ outbox \in [Threads -> Events \cup {None}]
  /\ calls \in Nat /\ sends \in [Threads -> Nat]
  /\ accepted \subseteq Tags \X Triggers
  /\ stops \subseteq Tags
  /\ executed \subseteq Tags \X Triggers

(* SyncScheduler::new *)
Init ==
  /\ now = 0 /\ pc = "startup"
  /\ latest = None /\ event_queue = <<>> /\ cur = None
  /\ shutdown_time = IF Timeout = None THEN None ELSE Successor(ORIGIN, Timeout)
  /\ is_shutdown = FALSE /\ reactions = {} /\ synthetic = {} /\ future_events = <<>>
  /\ values = {}
  /\ rx = <<>> /\ rx_open = TRUE /\ was_terminated = FALSE
  /\ thread = [th \in Threads |-> "unborn"]
  /\ outbox = [th \in Threads |-> None]
  /\ calls = 0 /\ sends = [th \in Threads |-> 0]
  /\ accepted = {} /\ executed = {}
  /\ stops = IF Timeout = None THEN {} ELSE {Successor(ORIGIN, Timeout)}

-----------------------------------------------------------------------------
(* Processing a tag. *)

(* Faulty variant of AfterWave: the loop goes on after the shutdown. *)
AfterAnyWave(shutting_down) == "flush"

(* process_tag returns to the loop, or to shutdown. *)
AfterWave(shutting_down) == IF shutting_down THEN "notify" ELSE "flush"

(* process_tag up to the first batch.  A plan without reactions returns early:
   nothing is pushed and nothing is cleaned up. *)
ProcessTag(shutting_down, tag, plan) ==
  /\ latest' = tag
  /\ is_shutdown' = shutting_down
  /\ executed' = executed \cup ({tag} \X plan)
  /\ IF plan \cap Reacting = {}
       THEN pc' = AfterWave(shutting_down) /\ reactions' = {} /\ synthetic' = {}
       ELSE /\ pc' = "react"
            /\ reactions' = plan
            /\ synthetic' = {<<"bootstrap", t>> : t \in Timers \cap {x \in Timers : STARTUP \in plan}}
                            \cup {<<"reschedule", t>> : t \in plan \cap Timers}

(* startup *)
Startup ==
  /\ pc = "startup"
  /\ ProcessTag(FALSE, ORIGIN, {STARTUP})
  /\ UNCHANGED <<now, event_queue, cur, shutdown_time, future_events, calls, values,
                 channel, threadVars, accepted, stops>>

(* Faulty variants of Shutdown: only one of the two plans is processed. *)
ShutdownAlone(tag, plan) ==
  /\ shutdown_time' = tag
  /\ ProcessTag(TRUE, tag, {SHUTDOWN})
ShutdownOmitted(tag, plan) ==
  /\ shutdown_time' = tag
  /\ ProcessTag(TRUE, tag, plan)

(* shutdown, up to its process_tag *)
Shutdown(tag, plan) ==
  /\ shutdown_time' = tag
  /\ ProcessTag(TRUE, tag, plan \cup {SHUTDOWN})

(* enqueue_later *)
EnqueueLater(tag, trigger) ==
  /\ future_events' = Append(future_events, Execute(tag, trigger))
  /\ accepted' = accepted \cup {<<tag, trigger>>}

(* bootstrap_timer: a timer without offset triggers at the startup tag *)
BootstrapTimer(t) ==
  /\ pc = "react" /\ <<"bootstrap", t>> \in synthetic
  /\ IF TimerOffset[t] = 0
       THEN /\ executed' = executed \cup {<<latest, t>>}
            /\ reactions' = reactions \cup {t}
            /\ synthetic' = (synthetic \ {<<"bootstrap", t>>}) \cup {<<"reschedule", t>>}
            /\ UNCHANGED <<future_events, accepted>>
       ELSE /\ EnqueueLater(Successor(latest, TimerOffset[t]), t)
            /\ synthetic' = synthetic \ {<<"bootstrap", t>>}
            /\ UNCHANGED <<executed, reactions>>
  /\ UNCHANGED <<now, pc, loopVars, is_shutdown, calls, values, channel, threadVars, stops>>

(* reschedule_timer: a period of zero means the timer fires once *)
RescheduleTimer(t) ==
  /\ pc = "react" /\ <<"reschedule", t>> \in synthetic
  /\ synthetic' = synthetic \ {<<"reschedule", t>>}
  /\ IF TimerPeriod[t] = 0
       THEN UNCHANGED <<future_events, accepted>>
       ELSE EnqueueLater(Successor(latest, TimerPeriod[t]), t)
  /\ UNCHANGED <<now, pc, loopVars, is_shutdown, calls, values, channel, threadVars,
                 stops, executed, reactions>>

(* An API call of a reaction in the wave.  The bound on microsteps keeps the
   runs away from the wrap of u32. *)
Call == pc = "react" /\ calls < MaxCalls /\ latest.micro < MicroMax /\ calls' = calls + 1

(* A physical action is locked while a thread stamps and sends an event. *)
Locked(a) == \E th \in Threads : outbox[th] # None /\ a \in outbox[th].reactions

(* LogicalAction::schedule_with_v *)
ScheduleLogical(a, d) ==
  /\ Call
  /\ LET eta == Successor(latest, MinDelay[a] + d) IN
       /\ eta.offset <= Horizon
       /\ values' = values \cup {<<a, eta>>}
       /\ EnqueueLater(eta, a)
  /\ UNCHANGED <<now, pc, loopVars, is_shutdown, reactions, synthetic, channel, threadVars,
                 stops, executed>>

(* PhysicalActionRef::schedule_with_v, called by a reaction: min_delay is not
   used, and the tag is not compared with the current one. *)
SchedulePhysical(a, d) ==
  /\ Call /\ ~Locked(a) /\ now + d <= Horizon
  /\ values' = values \cup {<<a, Absolute(now + d)>>}
  /\ EnqueueLater(Absolute(now + d), a)
  /\ UNCHANGED <<now, pc, loopVars, is_shutdown, reactions, synthetic, channel, threadVars,
                 stops, executed>>

(* ReactionCtx::request_stop *)
RequestStop(d) ==
  /\ Call /\ latest.offset + d <= Horizon
  /\ future_events' = Append(future_events, TerminateAt(Successor(latest, d)))
  /\ stops' = stops \cup {Successor(latest, d)}
  /\ UNCHANGED <<now, pc, loopVars, is_shutdown, reactions, synthetic, values, channel, threadVars,
                 accepted, executed>>

(* spawn_physical_thread: the sender exists before the thread starts *)
SpawnThread(th) ==
  /\ Call /\ thread[th] = "unborn"
  /\ thread' = [thread EXCEPT ![th] = "running"]
  /\ UNCHANGED <<now, pc, loopVars, is_shutdown, reactions, synthetic, future_events, values, channel,
                 outbox, sends, history>>

(* Faulty variant of TimerIsPresent: a timer without period stays present. *)
TimerIsPresentOnwards(t, tag) ==
  /\ tag.offset >= TimerOffset[t]
  /\ TimerPeriod[t] = 0 \/ (tag.offset - TimerOffset[t]) % TimerPeriod[t] = 0

(* Timer::is_present recomputes from the elapsed time whether the timer triggers. *)
TimerIsPresent(t, tag) ==
  \/ tag.offset = TimerOffset[t]
  \/ /\ tag.offset > TimerOffset[t] /\ TimerPeriod[t] # 0
     /\ (tag.offset - TimerOffset[t]) % TimerPeriod[t] = 0

(* Action::is_present: whether the map has a key for the tag *)
ActionIsPresent(a, tag) == <<a, tag>> \in values

(* What ReactionCtx::is_present tells a reaction of the current tag. *)
IsPresent(t) == IF t \in Timers THEN TimerIsPresent(t, latest) ELSE ActionIsPresent(t, latest)

(* All batches of the wave have run. *)
FinishReactions ==
  /\ pc = "react" /\ synthetic = {}
  /\ pc' = "drain"
  /\ UNCHANGED <<now, loopVars, waveVars, values, channel, threadVars, history>>

(* future_events.drain: push the events of the wave one by one *)
DrainEvent ==
  /\ pc = "drain" /\ future_events # <<>>
  /\ event_queue' = Push(event_queue, Head(future_events))
  /\ future_events' = Tail(future_events)
  /\ UNCHANGED <<now, pc, latest, cur, shutdown_time, is_shutdown, reactions, synthetic, calls,
                 values, channel, threadVars, history>>

DrainEnd ==
  /\ pc = "drain" /\ future_events = <<>>
  /\ pc' = "cleanup"
  /\ UNCHANGED <<now, loopVars, waveVars, values, channel, threadVars, history>>

(* Faulty variants of Forget: nothing is removed; the map is cleared. *)
ForgetNothing(tag) == values
ForgetAll(tag) == {}

(* cleanup_tag: forget_value of the tag, in every action *)
Forget(tag) == {v \in values : v[2] # tag}

(* The cleanup of every reactor, which takes the lock of each physical action. *)
CleanupTag ==
  /\ pc = "cleanup"
  /\ \A a \in PhysicalActions : ~Locked(a)
  /\ values' = Forget(latest)
  /\ reactions' = {}
  /\ pc' = AfterWave(is_shutdown)
  /\ UNCHANGED <<now, loopVars, is_shutdown, synthetic, future_events, calls, channel,
                 threadVars, history>>

-----------------------------------------------------------------------------
(* The event loop. *)

(* rx.try_iter *)
FlushEvent ==
  /\ pc = "flush" /\ rx # <<>>
  /\ event_queue' = Push(event_queue, Head(rx))
  /\ rx' = Tail(rx)
  /\ UNCHANGED <<now, pc, latest, cur, shutdown_time, waveVars, values, rx_open,
                 was_terminated, threadVars, history>>

FlushEnd ==
  /\ pc = "flush" /\ rx = <<>>
  /\ pc' = "take"
  /\ UNCHANGED <<now, loopVars, waveVars, values, channel, threadVars, history>>

(* Faulty variants of IsAfterShutdown: the shutdown tag itself is too late;
   there is no check. *)
IsAtShutdown(tag) == shutdown_time # None /\ AtOrBefore(shutdown_time, tag)
IsNeverLate(tag) == FALSE

(* is_after_shutdown *)
IsAfterShutdown(tag) == shutdown_time # None /\ Before(shutdown_time, tag)

(* Faulty variant of Ahead: one time unit short. *)
AheadByMore(tag) == now + 1 < tag.offset

(* catch_up_physical_time: the instant of the tag is in the future *)
Ahead(tag) == now < tag.offset

(* take_earliest, and the clock read of catch_up_physical_time *)
TakeEvent ==
  /\ pc = "take" /\ event_queue # <<>> /\ ~IsAfterShutdown(Head(event_queue).tag)
  /\ cur' = Head(event_queue)
  /\ event_queue' = Tail(event_queue)
  /\ pc' = IF Ahead(Head(event_queue).tag) THEN "sleep" ELSE "execute"
  /\ UNCHANGED <<now, latest, shutdown_time, waveVars, values, channel, threadVars, history>>

(* take_earliest returns an event later than the shutdown: break *)
DiscardLateEvent ==
  /\ pc = "take" /\ event_queue # <<>> /\ IsAfterShutdown(Head(event_queue).tag)
  /\ event_queue' = Tail(event_queue)
  /\ pc' = "exit"
  /\ UNCHANGED <<now, latest, cur, shutdown_time, waveVars, values, channel, threadVars,
                 history>>

(* take_earliest returns None: receive_event computes how long it may wait *)
TakeNothing ==
  /\ pc = "take" /\ event_queue = <<>>
  /\ pc' = IF shutdown_time # None /\ shutdown_time.offset < now THEN "exit" ELSE "wait"
  /\ UNCHANGED <<now, loopVars, waveVars, values, channel, threadVars, history>>

(* catch_up_physical_time: the timeout of recv_timeout, or, without senders,
   the end of thread::sleep.  A message may be there and not be seen. *)
SleepEnd ==
  /\ pc = "sleep" /\ ~Ahead(cur.tag)
  /\ pc' = "execute"
  /\ UNCHANGED <<now, loopVars, waveVars, values, channel, threadVars, history>>

(* catch_up_physical_time returns Err(async_event) *)
SleepInterrupted ==
  /\ pc = "sleep" /\ rx # <<>>
  /\ rx' = Tail(rx)
  /\ IF Before(Head(rx).tag, cur.tag)
       THEN /\ event_queue' = Push(Push(event_queue, cur), Head(rx))
            /\ cur' = None
            /\ pc' = "flush"
       ELSE /\ event_queue' = Push(event_queue, Head(rx))
            /\ pc' = "execute"
            /\ UNCHANGED cur
  /\ UNCHANGED <<now, latest, shutdown_time, waveVars, values, rx_open, was_terminated,
                 threadVars, history>>

StopsNow == cur.terminate \/ shutdown_time = cur.tag

ExecuteEvent ==
  /\ pc = "execute" /\ ~StopsNow
  /\ ProcessTag(FALSE, cur.tag, cur.reactions)
  /\ cur' = None
  /\ UNCHANGED <<now, event_queue, shutdown_time, future_events, calls, values, channel,
                 threadVars, accepted, stops>>

ExecuteStop ==
  /\ pc = "execute" /\ StopsNow
  /\ Shutdown(cur.tag, cur.reactions)
  /\ cur' = None
  /\ UNCHANGED <<now, event_queue, future_events, calls, values, channel, threadVars,
                 accepted, stops>>

(* Faulty variant of ReceiveEvent: the message only wakes the loop up. *)
ReceiveWakeup ==
  /\ pc = "wait" /\ rx # <<>>
  /\ rx' = Tail(rx)
  /\ pc' = "flush"
  /\ UNCHANGED <<now, loopVars, waveVars, values, rx_open, was_terminated, threadVars, history>>

(* receive_event: recv or recv_timeout returns a message *)
ReceiveEvent ==
  /\ pc = "wait" /\ rx # <<>>
  /\ event_queue' = Push(event_queue, Head(rx))
  /\ rx' = Tail(rx)
  /\ pc' = "flush"
  /\ UNCHANGED <<now, latest, cur, shutdown_time, waveVars, values, rx_open,
                 was_terminated, threadVars, history>>

(* receive_event: the shutdown time is reached *)
ReceiveTimeout ==
  /\ pc = "wait" /\ shutdown_time # None /\ now >= shutdown_time.offset
  /\ pc' = "exit"
  /\ UNCHANGED <<now, loopVars, waveVars, values, channel, threadVars, history>>

(* Faulty variant of Senders: the thread owns a sender from its first call. *)
SendersInUse == {th \in Threads : thread[th] = "running" /\ sends[th] > 0}

(* The AsyncCtx of a thread owns a sender until the thread ends. *)
Senders == {th \in Threads : thread[th] = "running"}

(* receive_event: all senders have hung up *)
ReceiveDisconnected ==
  /\ pc = "wait" /\ rx = <<>> /\ Senders = {}
  /\ pc' = "exit"
  /\ UNCHANGED <<now, loopVars, waveVars, values, channel, threadVars, history>>

(* Faulty variant of ShutdownTag: there is always a shutdown time. *)
ShutdownTime == shutdown_time

(* after the loop *)
ShutdownTag == IF shutdown_time # None THEN shutdown_time ELSE Absolute(now)

ExitLoop ==
  /\ pc = "exit"
  /\ Shutdown(ShutdownTag, {})
  /\ UNCHANGED <<now, event_queue, cur, future_events, calls, values, channel, threadVars,
                 accepted, stops>>

(* the end of shutdown *)
Notify ==
  /\ pc = "notify"
  /\ was_terminated' = TRUE
  /\ pc' = "drop"
  /\ UNCHANGED <<now, loopVars, waveVars, values, rx, rx_open, threadVars, history>>

(* launch_event_loop returns and drops the scheduler, with its receiver *)
Drop ==
  /\ pc = "drop"
  /\ rx_open' = FALSE /\ rx' = <<>>
  /\ pc' = "done"
  /\ UNCHANGED <<now, loopVars, waveVars, values, was_terminated, threadVars, history>>

-----------------------------------------------------------------------------
(* Threads and the clock. *)

Stamp(th, evt) ==
  /\ evt.tag.offset <= Horizon
  /\ thread[th] = "running" /\ outbox[th] = None /\ sends[th] < MaxSends
  /\ outbox' = [outbox EXCEPT ![th] = evt]
  /\ sends' = [sends EXCEPT ![th] = @ + 1]
  /\ UNCHANGED <<now, pc, loopVars, waveVars, channel, thread, history>>

(* AsyncCtx::schedule_physical_with_v, before the send: the action is locked,
   the clock read, the value stored. *)
StampAction(th, a, d) ==
  /\ ~Locked(a)
  /\ Stamp(th, Execute(Absolute(now + d), a))
  /\ values' = values \cup {<<a, Absolute(now + d)>>}

(* AsyncCtx::request_stop, before the send *)
StampStop(th, d) ==
  /\ Stamp(th, TerminateAt(Absolute(now + d)))
  /\ UNCHANGED values

(* tx.send: an error once the receiver is dropped, and then the value that was
   stored is forgotten *)
Send(th) ==
  /\ outbox[th] # None
  /\ outbox' = [outbox EXCEPT ![th] = None]
  /\ IF rx_open
       THEN /\ rx' = Append(rx, outbox[th])
            /\ accepted' = accepted \cup Work(outbox[th])
            /\ stops' = IF outbox[th].terminate THEN stops \cup {outbox[th].tag} ELSE stops
            /\ UNCHANGED values
       ELSE /\ values' = values \ (outbox[th].reactions \X {outbox[th].tag})
            /\ UNCHANGED <<rx, accepted, stops>>
  /\ UNCHANGED <<now, pc, loopVars, waveVars, rx_open, was_terminated, thread, sends, executed>>

(* The closure of the thread returns; its AsyncCtx is dropped. *)
ThreadEnd(th) ==
  /\ thread[th] = "running" /\ outbox[th] = None
  /\ thread' = [thread EXCEPT ![th] = "dead"]
  /\ UNCHANGED <<now, pc, loopVars, waveVars, values, channel, outbox, sends, history>>

(* Instant::now is monotonic; two reads may return the same instant. *)
Tick ==
  /\ now < Horizon
  /\ now' = now + 1
  /\ UNCHANGED <<pc, loopVars, waveVars, values, channel, threadVars, history>>

(* The program has ended. *)
Ended ==
  /\ pc = "done" /\ \A th \in Threads : thread[th] # "running"
  /\ UNCHANGED vars

-----------------------------------------------------------------------------
ReactionCall ==
  \/ \E a \in LogicalActions, d \in Delays : ScheduleLogical(a, d)
  \/ \E a \in PhysicalActions, d \in Delays : SchedulePhysical(a, d)
  \/ \E d \in Delays : RequestStop(d)
  \/ \E th \in Threads : SpawnThread(th)

Wave ==
  \/ \E t \in Timers : BootstrapTimer(t) \/ RescheduleTimer(t)
  \/ ReactionCall
  \/ FinishReactions \/ DrainEvent \/ DrainEnd \/ CleanupTag

Loop ==
  \/ Startup
  \/ FlushEvent \/ FlushEnd
  \/ TakeEvent \/ DiscardLateEvent \/ TakeNothing
  \/ SleepEnd \/ SleepInterrupted
  \/ ExecuteEvent \/ ExecuteStop
  \/ ReceiveEvent \/ ReceiveTimeout \/ ReceiveDisconnected
  \/ ExitLoop \/ Notify \/ Drop

ThreadStep(th) ==
  \/ \E a \in PhysicalActions, d \in Delays : StampAction(th, a, d)
  \/ \E d \in Delays : StampStop(th, d)
  \/ Send(th)
  \/ ThreadEnd(th)

Next == Wave \/ Loop \/ Tick \/ Ended \/ \E th \in Threads : ThreadStep(th)

Spec == Init /\ [][Next]_vars

(* Time passes, the scheduler's thread runs, and a thread that is inside an
   API call finishes it.  Nothing makes a thread call the API or end. *)
FairSpec == Spec /\ WF_vars(Wave \/ Loop) /\ WF_vars(Tick) /\ \A th \in Threads : WF_vars(Send(th))

-----------------------------------------------------------------------------
(* Properties.  Those marked (logical) hold of programs without threads and
   physical actions, whose events are all tagged by the scheduler itself. *)

Pending == WorkOf(event_queue) \cup WorkOf(future_events)
           \cup (IF cur = None THEN {} ELSE Work(cur))
InWave == pc \in {"react", "drain", "cleanup"}
Beyond(tag) == shutdown_time # None /\ Before(shutdown_time, tag)
ProcessesTag == pc \in {"startup", "execute", "exit"} /\ pc' # pc

(* The queue stays strictly ascending by tag, so that binary search is right
   and no tag has two events (EventQueue::value_list). *)
QueueSorted == Sorted(event_queue)

(* (logical) An event is for a tag after the latest processed one, "by
   construction of the reactor application" (Event::tag). *)
EventsAhead ==
  latest # None =>
    /\ \A tag \in TagsOf(event_queue) \cup TagsOf(future_events) : Before(latest, tag)
    /\ cur # None => Before(latest, cur.tag)

(* An event is never for a tag before the latest processed one: the part of
   EventsAhead that does not depend on the resolution of the clock. *)
EventsNotBehind ==
  latest # None => \A tag \in TagsOf(event_queue) : ~Before(tag, latest)

(* (logical) Each processed tag is after the one before: the assertion "Tag
   ordering mismatch" of process_tag. *)
TagsAscend == [][ProcessesTag /\ latest # None => Before(latest, latest')]_vars

(* No tag is processed twice in a row: the events of a tag are merged before it is processed. *)
TagsNotRepeated == [][ProcessesTag => latest' # latest]_vars

(* Work that was agreed to is pending or has been run, until the scheduler is
   gone, unless it is for a tag after the shutdown: no event is dropped by the
   channel, by the queue, or when a sleep is interrupted. *)
NothingLost ==
  pc # "done" => \A w \in accepted \ (executed \cup Pending \cup WorkOf(rx)) : Beyond(w[1])

(* (logical) When the last tag has been processed, all the work for it and
   for the tags before it has been run. *)
DueWorkDone ==
  pc \in {"notify", "drop", "done"} =>
    \A w \in accepted \ executed : Beyond(w[1])

(* (logical) If several stops are requested, or a timeout and a stop, "that
   one will be honored instead" which is the earliest (request_stop). *)
EarliestStopWins ==
  is_shutdown => \A s \in stops : AtOrBefore(shutdown_time, s)

(* Whatever threads send and reactions schedule, no tag after the timeout is
   processed, be it by an ordinary wave or by the shutdown: the program does not
   run past its timeout. *)
TimeoutBound ==
  latest # None /\ Timeout # None => AtOrBefore(latest, Successor(ORIGIN, Timeout))

(* A logical action has a value for a tag as long as an event of that action is
   pending for the tag or being processed: no value leaks, none goes missing,
   until the scheduler decides to shut down. *)
ValuesMatchEvents ==
  ~is_shutdown /\ pc # "exit" => \A a \in LogicalActions :
    {v[2] : v \in {x \in values : x[1] = a}} =
      {w[1] : w \in {x \in Pending \cup ({latest} \X reactions) : x[2] = a}}

(* (logical) A trigger is present when it "was triggered at the current logical
   time" (is_present).  An action is present at the tag of its event only; a
   timer, which forgets its events, at every microstep of an instant at which
   it was triggered. *)
PresenceAgrees ==
  pc = "drain" =>
    /\ \A a \in LogicalActions : IsPresent(a) <=> a \in reactions
    /\ \A t \in Timers : IsPresent(t) <=> <<Absolute(latest.offset), t>> \in executed

(* A value that was stored for a tag is gone once the tag has been processed
   (Action::map: "will be cleaned up after that tag"). *)
ValuesReclaimed ==
  pc \in {"flush", "take", "sleep", "wait"} => \A v \in values : Before(latest, v[2])

(* (logical) Reactions run when physical time has reached their tag ("at this
   point we're at the correct time"), the shutdown excepted. *)
NotEarly == InWave /\ ~is_shutdown => latest.offset <= now

(* A thread that reads was_terminated knows that the shutdown reactions have
   run, at the last tag, and that no reaction will run again. *)
TerminatedAfterShutdown ==
  was_terminated => ~InWave /\ latest = shutdown_time /\ <<latest, SHUTDOWN>> \in executed

(* Without a timeout, the scheduler leaves its loop only when no event is left
   and no thread can send one. *)
KeepsAlive ==
  pc = "exit" /\ shutdown_time = None => Senders = {} /\ rx = <<>> /\ Pending = {}

(* A stop that was agreed to, or a timeout, ends the program. *)
StopsEventually == (stops # {}) ~> (pc = "done")

(* A program with finitely many events ends by itself once no thread is left
   that can send one. *)
EndsAlone == <>[](Senders = {}) => <>(pc = "done")

(* An event sent by a thread is processed, or the program ends. *)
SentIsProcessed ==
  \A a \in PhysicalActions, i \in 0..Horizon :
    (<<Absolute(i), a>> \in accepted) ~> (<<Absolute(i), a>> \in executed \/ pc = "done")

(* (logical) The scheduler implements the discrete event simulation. *)
Simulation == INSTANCE DiscreteEvents WITH at <- latest, agenda <- Pending, over <- is_shutdown,
                                           done <- executed
ImplementsDiscreteEvents == Simulation!FairSpec
=============================================================================
