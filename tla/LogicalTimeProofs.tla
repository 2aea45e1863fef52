------------------------- MODULE LogicalTimeProofs -------------------------
(***************************************************************************)
(* Proofs about Scheduler for the programs that only use logical time: no  *)
(* threads and no physical actions.  All their events are tagged by the    *)
(* scheduler itself, so tags advance.                                      *)
(***************************************************************************)
EXTENDS SchedulerProofs

LogicalOnly == Threads = {} /\ PhysicalActions = {}

(* EventsAhead is not inductive: at each point of the loop, the invariant says
   what the queue can hold there, relative to the tag that is processed next. *)
LogicalInv ==
  /\ rx = <<>>
  /\ EventsAhead
  /\ pc = "startup" => /\ latest = None /\ event_queue = <<>>
                       /\ shutdown_time # None => Before(ORIGIN, shutdown_time)
  /\ pc \notin {"react", "drain"} => future_events = <<>>
  /\ pc \in {"sleep", "execute"} => \A tag \in TagsOf(event_queue) : Before(cur.tag, tag)
  /\ pc = "wait" => event_queue = <<>>
  /\ pc = "exit" => \A tag \in TagsOf(event_queue) : Beyond(tag)
  /\ ~is_shutdown /\ shutdown_time # None /\ latest # None => Before(latest, shutdown_time)

LEMMA LogicalInvInit == Init => LogicalInv
<1> SUFFICES ASSUME Init PROVE LogicalInv
  OBVIOUS
<1>1. shutdown_time # None => Before(ORIGIN, shutdown_time)
  <2>1. ORIGIN \in Tags /\ ORIGIN.micro < MicroMax
    BY OriginType, MicroMaxAssumption DEF ORIGIN
  <2>2. Timeout # None => Before(ORIGIN, Successor(ORIGIN, Timeout))
    BY <2>1, SuccessorIsAfter, ConfigurationAssumption
  <2> QED BY <2>2 DEF Init
<1> QED BY <1>1 DEF Init, LogicalInv, EventsAhead

(* process_tag, given a tag that is before every event of the queue. *)
LEMMA LogicalProcessTag ==
  ASSUME SInv, LogicalInv, NEW sd \in BOOLEAN, NEW tag \in Tags, NEW plan,
         ProcessTag(sd, tag, plan), future_events = <<>>, cur' = None,
         UNCHANGED <<event_queue, future_events, rx>>,
         \A x \in TagsOf(event_queue) : Before(tag, x),
         ~sd => UNCHANGED shutdown_time /\ (shutdown_time # None => Before(tag, shutdown_time))
  PROVE  LogicalInv'
<1>1. latest' = tag /\ is_shutdown' = sd /\ pc' \in {"react", "notify", "flush"}
  BY DEF ProcessTag, AfterWave
<1>2. EventsAhead'
  BY <1>1, EmptyWork DEF EventsAhead
<1> QED BY <1>1, <1>2 DEF LogicalInv

LEMMA LogicalInvLoop == LogicalOnly /\ SInv /\ ShutInv /\ LogicalInv /\ Loop => LogicalInv'
<1> SUFFICES ASSUME SInv, ShutInv, LogicalInv, Loop PROVE LogicalInv'
  OBVIOUS
<1>0. rx = <<>>
  BY DEF LogicalInv
<1>1. CASE Startup
  <2>1. /\ latest' = ORIGIN /\ is_shutdown' = FALSE /\ pc' \in {"react", "flush"} /\ ORIGIN \in Tags
        /\ UNCHANGED <<event_queue, future_events, rx, shutdown_time, cur>>
    BY <1>1, OriginType DEF Startup, ProcessTag, AfterWave, channel
  <2>2. event_queue = <<>> /\ future_events = <<>> /\ cur = None
    BY <1>1 DEF Startup, LogicalInv, SInv, PcInv
  <2>3. shutdown_time # None => Before(ORIGIN, shutdown_time)
    BY <1>1 DEF Startup, LogicalInv
  <2>4. EventsAhead'
    BY <2>1, <2>2, EmptyWork DEF EventsAhead
  <2> QED BY <2>1, <2>2, <2>3, <2>4, <1>0 DEF LogicalInv
<1>2. CASE FlushEvent \/ SleepInterrupted \/ ReceiveEvent
  BY <1>0, <1>2 DEF FlushEvent, SleepInterrupted, ReceiveEvent
<1>3. CASE FlushEnd \/ SleepEnd \/ Notify \/ Drop
  BY <1>3 DEF FlushEnd, SleepEnd, Notify, Drop, LogicalInv, EventsAhead,
              loopVars, waveVars, channel, history
<1>4. CASE TakeEvent
  <2>1. event_queue \in Seq(Events) /\ Sorted(event_queue) /\ event_queue # <<>>
    BY <1>4 DEF TakeEvent, SInv, TypeOK, QueueSorted
  <2>2. /\ cur' = Head(event_queue) /\ event_queue' = Tail(event_queue)
        /\ pc' \in {"sleep", "execute"}
        /\ UNCHANGED <<latest, future_events, shutdown_time, is_shutdown, rx>>
    BY <1>4 DEF TakeEvent, waveVars, channel
  <2>3. /\ TagsOf(event_queue') \subseteq TagsOf(event_queue) /\ cur'.tag \in TagsOf(event_queue)
        /\ \A tag \in TagsOf(event_queue') : Before(cur'.tag, tag)
    BY <2>1, <2>2, TailProperties
  <2>4. EventsAhead'
    BY <2>2, <2>3 DEF LogicalInv, EventsAhead
  <2>5. future_events = <<>>
    BY <1>4 DEF TakeEvent, LogicalInv
  <2> QED BY <2>2, <2>3, <2>4, <2>5 DEF LogicalInv
<1>5. CASE DiscardLateEvent
  <2>1. event_queue \in Seq(Events) /\ Sorted(event_queue) /\ event_queue # <<>>
    BY <1>5 DEF DiscardLateEvent, SInv, TypeOK, QueueSorted
  <2>2. /\ event_queue' = Tail(event_queue) /\ pc' = "exit" /\ IsAfterShutdown(Head(event_queue).tag)
        /\ UNCHANGED <<latest, cur, future_events, shutdown_time, is_shutdown, rx>>
    BY <1>5 DEF DiscardLateEvent, waveVars, channel
  <2>3. /\ TagsOf(event_queue') \subseteq TagsOf(event_queue)
        /\ Head(event_queue).tag \in Tags
        /\ \A tag \in TagsOf(event_queue') : tag \in Tags /\ Before(Head(event_queue).tag, tag)
    <3>1. Head(event_queue) \in Events /\ TagsOf(event_queue) \subseteq Tags
      BY <2>1, TailProperties, QueueElements DEF TagsOf
    <3> QED BY <2>1, <2>2, <3>1, TailProperties DEF Events
  <2>4. \A tag \in TagsOf(event_queue') : Beyond(tag)'
    <3> TAKE tag \in TagsOf(event_queue')
    <3>1. shutdown_time \in Tags /\ shutdown_time # None /\ Before(shutdown_time, Head(event_queue).tag)
      BY <2>2 DEF IsAfterShutdown, SInv, TypeOK
    <3> QED BY <2>2, <2>3, <3>1, BeforeTransitive DEF Beyond
  <2>5. EventsAhead'
    BY <2>2, <2>3 DEF LogicalInv, EventsAhead
  <2>6. future_events = <<>>
    BY <1>5 DEF DiscardLateEvent, LogicalInv
  <2> QED BY <2>2, <2>4, <2>5, <2>6 DEF LogicalInv
<1>6. CASE TakeNothing \/ ReceiveTimeout \/ ReceiveDisconnected
  <2>1. /\ event_queue = <<>> /\ pc \in {"take", "wait"} /\ pc' \in {"exit", "wait"}
        /\ UNCHANGED <<latest, cur, event_queue, future_events, shutdown_time, is_shutdown, rx>>
    BY <1>6 DEF TakeNothing, ReceiveTimeout, ReceiveDisconnected, LogicalInv, loopVars, waveVars, channel
  <2>2. EventsAhead'
    BY <2>1 DEF LogicalInv, EventsAhead
  <2> QED BY <2>1, <2>2, EmptyWork DEF LogicalInv
<1>7. CASE ExecuteEvent
  <2>1. cur.tag \in Tags /\ future_events = <<>>
    BY <1>7 DEF ExecuteEvent, SInv, PcInv, LogicalInv, Events
  <2>2. shutdown_time # None => Before(cur.tag, shutdown_time)
    <3>1. ~IsAfterShutdown(cur.tag) /\ shutdown_time # cur.tag
      BY <1>7 DEF ExecuteEvent, StopsNow, ShutInv
    <3> QED BY <2>1, <3>1, BeforeTotal DEF IsAfterShutdown, SInv, TypeOK
  <2>3. \A tag \in TagsOf(event_queue) : Before(cur.tag, tag)
    BY <1>7 DEF ExecuteEvent, LogicalInv
  <2>4. /\ ProcessTag(FALSE, cur.tag, cur.reactions) /\ cur' = None
        /\ UNCHANGED <<event_queue, future_events, rx, shutdown_time>>
    BY <1>7 DEF ExecuteEvent, channel
  <2> QED BY <2>1, <2>2, <2>3, <2>4, LogicalProcessTag
<1>8. CASE ExecuteStop
  <2>1. cur.tag \in Tags /\ future_events = <<>>
    BY <1>8 DEF ExecuteStop, SInv, PcInv, LogicalInv, Events
  <2>2. \A tag \in TagsOf(event_queue) : Before(cur.tag, tag)
    BY <1>8 DEF ExecuteStop, LogicalInv
  <2>3. /\ ProcessTag(TRUE, cur.tag, cur.reactions \cup {SHUTDOWN}) /\ cur' = None
        /\ UNCHANGED <<event_queue, future_events, rx>>
    BY <1>8 DEF ExecuteStop, Shutdown, channel
  <2> QED BY <2>1, <2>2, <2>3, LogicalProcessTag
<1>9. CASE ExitLoop
  <2>1. ShutdownTag \in Tags /\ future_events = <<>> /\ cur = None
    <3>1. now \in Nat /\ shutdown_time \in Tags \cup {None}
      BY DEF SInv, TypeOK
    <3> QED BY <1>9, <3>1, AbsoluteType DEF ExitLoop, ShutdownTag, LogicalInv, SInv, PcInv
  <2>2. \A tag \in TagsOf(event_queue) : Before(ShutdownTag, tag)
    BY <1>9 DEF ExitLoop, LogicalInv, Beyond, ShutdownTag
  <2>3. /\ ProcessTag(TRUE, ShutdownTag, {} \cup {SHUTDOWN}) /\ cur' = None
        /\ UNCHANGED <<event_queue, future_events, rx>>
    BY <1>9, <2>1 DEF ExitLoop, Shutdown, channel
  <2> HIDE DEF ShutdownTag
  <2> QED BY <2>1, <2>2, <2>3, LogicalProcessTag
<1> QED BY <1>1, <1>2, <1>3, <1>4, <1>5, <1>6, <1>7, <1>8, <1>9 DEF Loop

(* An event for a later tag joins the events of the wave. *)
LEMMA LogicalAppend ==
  ASSUME SInv, LogicalInv, pc = "react", NEW evt \in Events, Before(latest, evt.tag),
         future_events' = Append(future_events, evt),
         UNCHANGED <<pc, latest, event_queue, cur, shutdown_time, is_shutdown, rx>>
  PROVE  LogicalInv'
<1>1. future_events \in Seq(Events)
  BY DEF SInv, TypeOK
<1>2. TagsOf(future_events') = TagsOf(future_events) \cup {evt.tag}
  BY <1>1, AppendTags
<1>3. EventsAhead'
  BY <1>2 DEF LogicalInv, EventsAhead
<1> QED BY <1>3 DEF LogicalInv

LEMMA LogicalInvWave == LogicalOnly /\ SInv /\ LogicalInv /\ Wave => LogicalInv'
<1> SUFFICES ASSUME LogicalOnly, SInv, LogicalInv, Wave PROVE LogicalInv'
  OBVIOUS
<1>0. pc = "react" => latest \in Tags
  BY DEF SInv, PcInv
<1>1. ASSUME UNCHANGED <<pc, loopVars, future_events, is_shutdown, rx>> PROVE LogicalInv'
  BY <1>1 DEF LogicalInv, EventsAhead, Beyond, loopVars
<1>2. ASSUME NEW t \in Timers, NEW d \in Nat, d # 0, pc = "react",
             EnqueueLater(Successor(latest, d), t), UNCHANGED <<pc, loopVars, is_shutdown, rx>>
      PROVE  LogicalInv'
  <2>1. Successor(latest, d) \in Tags /\ Before(latest, Successor(latest, d)) /\ t \in Triggers
    BY <1>0, <1>2, SuccessorIsAfter, ActionTypes
  <2> QED BY <1>2, <2>1, ExecuteType, LogicalAppend DEF EnqueueLater, loopVars
<1>3. ASSUME NEW t \in Timers, BootstrapTimer(t) PROVE LogicalInv'
  BY <1>1, <1>2, <1>3, ConfigurationAssumption DEF BootstrapTimer, channel
<1>4. ASSUME NEW t \in Timers, RescheduleTimer(t) PROVE LogicalInv'
  BY <1>1, <1>2, <1>4, ConfigurationAssumption DEF RescheduleTimer, channel
<1>5. ASSUME NEW a \in LogicalActions, NEW d \in Delays, ScheduleLogical(a, d) PROVE LogicalInv'
  <2> DEFINE eta == Successor(latest, MinDelay[a] + d)
  <2>1. MinDelay[a] + d \in Nat
    BY ConfigurationAssumption, ActionTypes
  <2>2. pc = "react" /\ latest.micro < MicroMax
    BY <1>5 DEF ScheduleLogical, Call
  <2>3. eta \in Tags /\ Before(latest, eta) /\ a \in Triggers
    BY <1>0, <2>1, <2>2, SuccessorIsAfter, ActionTypes
  <2>4. EnqueueLater(eta, a) /\ UNCHANGED <<pc, loopVars, is_shutdown, rx>>
    BY <1>5 DEF ScheduleLogical, Call, channel
  <2> HIDE DEF eta
  <2> QED BY <2>2, <2>3, <2>4, ExecuteType, LogicalAppend DEF EnqueueLater, loopVars
<1>6. ASSUME NEW d \in Delays, RequestStop(d) PROVE LogicalInv'
  <2>1. pc = "react" /\ latest.micro < MicroMax /\ d \in Nat
    BY <1>6, ConfigurationAssumption DEF RequestStop, Call
  <2>2. Successor(latest, d) \in Tags /\ Before(latest, Successor(latest, d))
    BY <1>0, <2>1, SuccessorIsAfter
  <2> QED BY <1>6, <2>1, <2>2, TerminateAtType, LogicalAppend DEF RequestStop, Call, loopVars, channel
<1>7. CASE FinishReactions
  BY <1>7 DEF FinishReactions, LogicalInv, EventsAhead, loopVars, waveVars, channel
<1>8. CASE DrainEvent
  <2>1. /\ future_events \in Seq(Events) /\ event_queue \in Seq(Events) /\ Sorted(event_queue)
        /\ Head(future_events) \in Events
    BY <1>8, HeadTailProperties DEF DrainEvent, SInv, TypeOK, QueueSorted
  <2>2. /\ TagsOf(event_queue') = TagsOf(event_queue) \cup {Head(future_events).tag}
        /\ TagsOf(future_events) = TagsOf(future_events') \cup {Head(future_events).tag}
    BY <1>8, <2>1, PushElements, HeadTailTags DEF DrainEvent
  <2>3. EventsAhead'
    BY <1>8, <2>2 DEF DrainEvent, LogicalInv, EventsAhead
  <2> QED BY <1>8, <2>3 DEF DrainEvent, LogicalInv, channel
<1>9. CASE DrainEnd
  BY <1>9 DEF DrainEnd, LogicalInv, EventsAhead, loopVars, waveVars, channel
<1>10. CASE CleanupTag
  BY <1>10 DEF CleanupTag, AfterWave, LogicalInv, EventsAhead, loopVars, channel
<1> QED BY <1>3, <1>4, <1>5, <1>6, <1>7, <1>8, <1>9, <1>10 DEF Wave, ReactionCall, LogicalOnly

LEMMA LogicalInvStep == LogicalOnly /\ SInv /\ ShutInv /\ LogicalInv /\ [Next]_vars => LogicalInv'
<1> SUFFICES ASSUME LogicalOnly, SInv, ShutInv, LogicalInv, [Next]_vars PROVE LogicalInv'
  OBVIOUS
<1>1. CASE UNCHANGED vars \/ Ended \/ Tick
  BY <1>1 DEF LogicalInv, EventsAhead, Beyond, Ended, Tick, vars, loopVars, waveVars, channel
<1> QED BY <1>1, LogicalInvLoop, LogicalInvWave DEF Next, LogicalOnly

LEMMA LogicalInvHolds == ASSUME LogicalOnly PROVE Spec => []LogicalInv
<1>1. SInv /\ ShutInv /\ LogicalInv /\ [Next]_vars => LogicalInv'
  BY LogicalInvStep
<1> QED BY SInvHolds, ShutInvHolds, LogicalInvInit, <1>1, PTL DEF Spec

(* Without threads and physical actions, every event is for a tag after the
   latest processed one, "by construction of the reactor application". *)
THEOREM EventsAheadHolds == ASSUME LogicalOnly PROVE Spec => []EventsAhead
<1>1. LogicalInv => EventsAhead
  BY DEF LogicalInv
<1> QED BY LogicalInvHolds, <1>1, PTL

(* ... and, if the program has a timeout, tags are processed in strictly
   ascending order, which process_tag asserts in debug builds. *)
THEOREM TagsAscendHolds == ASSUME LogicalOnly, Timeout # None PROVE Spec => TagsAscend
<1>1. SInv /\ ShutInv /\ LogicalInv /\ [Next]_vars => [ProcessesTag /\ latest # None => Before(latest, latest')]_vars
  <2> SUFFICES ASSUME SInv, ShutInv, LogicalInv, Next, ProcessesTag, latest # None
               PROVE  Before(latest, latest')
    BY DEF vars
  <2>1. CASE Startup
    BY <2>1 DEF Startup, LogicalInv
  <2>2. CASE ExecuteEvent \/ ExecuteStop
    <3>1. latest' = cur.tag /\ cur \in Events
      BY <2>2 DEF ExecuteEvent, ExecuteStop, Shutdown, ProcessTag, SInv, PcInv
    <3> QED BY <3>1, NoneIsNoTag DEF LogicalInv, EventsAhead
  <2>3. CASE ExitLoop
    <3>1. latest' = shutdown_time /\ shutdown_time # None
      BY <2>3 DEF ExitLoop, Shutdown, ProcessTag, ShutdownTag, ShutInv
    <3>2. ~is_shutdown
      BY <2>3 DEF ExitLoop, ShutInv
    <3> QED BY <3>1, <3>2 DEF LogicalInv
  <2>4. ~Wave
    BY DEF Wave, ReactionCall, BootstrapTimer, RescheduleTimer, ScheduleLogical, SchedulePhysical,
           RequestStop, SpawnThread, Call, FinishReactions, DrainEvent, DrainEnd, CleanupTag,
           ProcessesTag
  <2>5. ~(FlushEvent \/ FlushEnd \/ TakeEvent \/ DiscardLateEvent \/ TakeNothing \/ SleepEnd
          \/ SleepInterrupted \/ ReceiveEvent \/ ReceiveTimeout \/ ReceiveDisconnected
          \/ Notify \/ Drop)
    BY DEF FlushEvent, FlushEnd, TakeEvent, DiscardLateEvent, TakeNothing, SleepEnd,
           SleepInterrupted, ReceiveEvent, ReceiveTimeout, ReceiveDisconnected, Notify, Drop,
           ProcessesTag
  <2>6. ~(Tick \/ Ended)
    BY DEF Tick, Ended, vars, loopVars, ProcessesTag
  <2> QED BY <2>1, <2>2, <2>3, <2>4, <2>5, <2>6 DEF Next, Loop, LogicalOnly
<1> QED BY SInvHolds, ShutInvHolds, LogicalInvHolds, <1>1, PTL DEF Spec, TagsAscend

-----------------------------------------------------------------------------
(* The tags that are processed have been reached by physical time: nothing can
   end a sleep early. *)
OnTimeInv ==
  /\ pc = "execute" => cur.tag.offset <= now
  /\ InWave /\ ~is_shutdown => latest.offset <= now

LEMMA OnTimeStep == SInv /\ ShutInv /\ LogicalInv /\ LogicalOnly /\ OnTimeInv /\ [Next]_vars => OnTimeInv'
<1> SUFFICES ASSUME SInv, ShutInv, LogicalInv, LogicalOnly, OnTimeInv, [Next]_vars PROVE OnTimeInv'
  OBVIOUS
<1>0. now \in Nat
  BY DEF SInv, TypeOK
<1>1. CASE UNCHANGED vars \/ Ended \/ Tick
  <2>1. now' = now \/ now' = now + 1
    BY <1>1 DEF Ended, Tick, vars
  <2>2. UNCHANGED <<pc, cur, latest, is_shutdown>>
    BY <1>1 DEF Ended, Tick, vars, loopVars, waveVars
  <2>3. cur \in Events => cur.tag.offset \in Nat
    BY DEF Events, Tags
  <2>4. latest \in Tags => latest.offset \in Nat
    BY DEF Tags
  <2> QED BY <1>0, <2>1, <2>2, <2>3, <2>4 DEF OnTimeInv, InWave, SInv, PcInv
<1>2. CASE Wave
  <2>1. UNCHANGED <<now, latest, is_shutdown, cur>> /\ InWave /\ pc' # "execute"
    BY <1>2 DEF Wave, ReactionCall, BootstrapTimer, RescheduleTimer, ScheduleLogical, SchedulePhysical,
                RequestStop, SpawnThread, Call, FinishReactions, DrainEvent, DrainEnd, CleanupTag,
                AfterWave, InWave, loopVars, waveVars
  <2> QED BY <2>1 DEF OnTimeInv, InWave
<1>3. CASE Startup
  <2>1. latest' = ORIGIN /\ pc' \in {"react", "flush"} /\ now' = now
    BY <1>3 DEF Startup, ProcessTag, AfterWave
  <2> QED BY <1>0, <2>1 DEF OnTimeInv, ORIGIN
<1>4. CASE TakeEvent
  <2>1. cur' = Head(event_queue) /\ (pc' = "execute" => ~Ahead(cur'.tag)) /\ now' = now
        /\ pc' \in {"sleep", "execute"}
    BY <1>4 DEF TakeEvent
  <2>2. cur'.tag.offset \in Nat
    <3>1. Head(event_queue) \in Events
      BY <1>4, HeadTailProperties DEF TakeEvent, SInv, TypeOK
    <3> QED BY <2>1, <3>1 DEF Events, Tags
  <2> QED BY <1>0, <2>1, <2>2 DEF OnTimeInv, Ahead, InWave
<1>5. CASE SleepEnd
  <2>1. pc' = "execute" /\ ~Ahead(cur.tag) /\ UNCHANGED <<now, cur>> /\ cur.tag.offset \in Nat
    BY <1>5 DEF SleepEnd, loopVars, SInv, PcInv, Events, Tags
  <2> QED BY <1>0, <2>1 DEF OnTimeInv, Ahead, InWave
<1>6. CASE ExecuteEvent
  BY <1>6 DEF ExecuteEvent, ProcessTag, AfterWave, OnTimeInv
<1>7. CASE ExecuteStop \/ ExitLoop
  BY <1>7 DEF ExecuteStop, ExitLoop, Shutdown, ProcessTag, AfterWave, OnTimeInv
<1>8. CASE FlushEvent \/ FlushEnd \/ DiscardLateEvent \/ TakeNothing \/ ReceiveEvent
           \/ ReceiveTimeout \/ ReceiveDisconnected \/ Notify \/ Drop
  BY <1>8 DEF FlushEvent, FlushEnd, DiscardLateEvent, TakeNothing, ReceiveEvent, ReceiveTimeout,
              ReceiveDisconnected, Notify, Drop, OnTimeInv, InWave
<1>9. ~SleepInterrupted
  BY DEF SleepInterrupted, LogicalInv
<1> QED BY <1>1, <1>2, <1>3, <1>4, <1>5, <1>6, <1>7, <1>8, <1>9 DEF Next, Loop, LogicalOnly

(* No reaction runs before physical time has reached its tag, the shutdown
   excepted: a scheduler that no message can wake sleeps to the end. *)
THEOREM NotEarlyHolds == ASSUME LogicalOnly PROVE Spec => []NotEarly
<1>1. Init => OnTimeInv
  BY DEF Init, OnTimeInv, InWave
<1>2. SInv /\ ShutInv /\ LogicalInv /\ OnTimeInv /\ [Next]_vars => OnTimeInv'
  BY OnTimeStep
<1>3. OnTimeInv => NotEarly
  BY DEF OnTimeInv, NotEarly
<1> QED BY SInvHolds, ShutInvHolds, LogicalInvHolds, <1>1, <1>2, <1>3, PTL DEF Spec

-----------------------------------------------------------------------------
(* Once the last tag has been processed, what is left in the queue is for tags
   after it. *)
LEMMA LeftIsBeyond ==
  ASSUME SInv, ShutInv, LogicalInv, NothingLost, pc \in {"notify", "drop"}
  PROVE  DueWorkDone
<1>1. /\ rx = <<>> /\ future_events = <<>> /\ cur = None
      /\ latest = shutdown_time /\ latest \in Tags /\ latest # None
  BY NoneIsNoTag DEF LogicalInv, SInv, PcInv, ShutInv
<1>2. \A tag \in TagsOf(event_queue) : Beyond(tag)
  BY <1>1 DEF LogicalInv, EventsAhead, Beyond
<1>3. \A w \in WorkOf(event_queue) : w[1] \in TagsOf(event_queue)
  BY DEF WorkOf, Work, TagsOf
<1>4. Pending = WorkOf(event_queue) /\ WorkOf(rx) = {}
  BY <1>1, EmptyWork DEF Pending
<1>5. \A w \in accepted \ executed : Beyond(w[1])
  BY <1>2, <1>3, <1>4 DEF NothingLost
<1> QED BY <1>5 DEF DueWorkDone

Gone == pc = "done"

LEMMA DueWorkStep ==
  LogicalOnly /\ SInv /\ ShutInv /\ LogicalInv /\ NothingLost /\ DueWorkDone /\ [Next]_vars
    => (Gone' => DueWorkDone')
<1> SUFFICES ASSUME LogicalOnly, SInv, ShutInv, LogicalInv, NothingLost, DueWorkDone, [Next]_vars,
                    pc' = "done"
             PROVE  DueWorkDone'
  BY DEF Gone
<1>1. pc \in {"drop", "done"} /\ UNCHANGED <<accepted, executed, shutdown_time>>
  <2>1. CASE UNCHANGED vars \/ Ended \/ Tick
    BY <2>1 DEF Ended, Tick, vars, loopVars, history
  <2>2. CASE Drop
    BY <2>2 DEF Drop, loopVars, history
  <2>3. ~Wave
    BY DEF Wave, ReactionCall, BootstrapTimer, RescheduleTimer, ScheduleLogical, SchedulePhysical,
           RequestStop, SpawnThread, Call, FinishReactions, DrainEvent, DrainEnd, CleanupTag, AfterWave
  <2>4. ~(Startup \/ FlushEvent \/ FlushEnd \/ TakeEvent \/ DiscardLateEvent \/ TakeNothing \/ SleepEnd
          \/ SleepInterrupted \/ ExecuteEvent \/ ExecuteStop \/ ReceiveEvent \/ ReceiveTimeout
          \/ ReceiveDisconnected \/ ExitLoop \/ Notify)
    BY DEF Startup, FlushEvent, FlushEnd, TakeEvent, DiscardLateEvent, TakeNothing, SleepEnd,
           SleepInterrupted, ExecuteEvent, ExecuteStop, ReceiveEvent, ReceiveTimeout,
           ReceiveDisconnected, ExitLoop, Notify, Shutdown, ProcessTag, AfterWave
  <2> QED BY <2>1, <2>2, <2>3, <2>4 DEF Next, Loop, LogicalOnly
<1> QED BY <1>1 DEF DueWorkDone, Beyond

(* When the last tag has been processed, all the work that was agreed to for it
   or for a tag before it has been run, in any program of logical time. *)
THEOREM DueWorkDoneHolds == ASSUME LogicalOnly PROVE Spec => []DueWorkDone
<1>1. Init => DueWorkDone
  BY DEF Init, DueWorkDone
<1>2. SInv /\ ShutInv /\ LogicalInv /\ NothingLost /\ DueWorkDone /\ [Next]_vars
        => (Gone' => DueWorkDone')
  BY DueWorkStep
<1>3. SInv /\ ShutInv /\ LogicalInv /\ NothingLost => (~Gone => DueWorkDone)
  BY LeftIsBeyond DEF DueWorkDone, Gone
<1> QED BY SInvHolds, ShutInvHolds, LogicalInvHolds, NothingLostHolds, <1>1, <1>2, <1>3, PTL DEF Spec

-----------------------------------------------------------------------------
(* The tags of the stop requests among some events. *)
StopOf(evt) == IF evt.terminate THEN {evt.tag} ELSE {}
StopsOf(evts) == UNION {StopOf(evts[i]) : i \in DOMAIN evts}

LEMMA StopsAreTags == ASSUME NEW queue \in Seq(Events) PROVE StopsOf(queue) \subseteq TagsOf(queue)
BY DEF StopsOf, StopOf, TagsOf

LEMMA EmptyStops == StopsOf(<<>>) = {}
BY EmptySeq, QueueElements DEF StopsOf

(* An event keeps its stop request when it joins a queue, whether or not the
   queue has an event for its tag. *)
LEMMA PushStops ==
  ASSUME NEW queue \in Seq(Events), Sorted(queue), NEW evt \in Events
  PROVE  StopsOf(queue) \cup StopOf(evt) \subseteq StopsOf(Push(queue, evt))
<1>1. CASE \E i \in DOMAIN queue : queue[i].tag = evt.tag
  <2>1. PICK i \in DOMAIN queue : queue[i].tag = evt.tag
    BY <1>1
  <2> DEFINE q == [queue EXCEPT ![i] = Absorb(queue[i], evt)]
  <2>2. Push(queue, evt) = q
    BY <2>1, PushOnHit
  <2>3. DOMAIN q = DOMAIN queue /\ q[i] = Absorb(queue[i], evt)
        /\ \A j \in DOMAIN queue : j # i => q[j] = queue[j]
    BY <2>1
  <2>4. StopOf(queue[i]) \subseteq StopOf(Absorb(queue[i], evt)) /\ StopOf(evt) \subseteq StopOf(Absorb(queue[i], evt))
    BY <2>1 DEF StopOf, Absorb
  <2> HIDE DEF q
  <2>5. \A j \in DOMAIN queue : StopOf(queue[j]) \subseteq StopsOf(q)
    <3> TAKE j \in DOMAIN queue
    <3>1. StopOf(queue[j]) \subseteq StopOf(q[j])
      BY <2>3, <2>4
    <3> QED BY <2>3, <3>1 DEF StopsOf
  <2>6. StopOf(evt) \subseteq StopsOf(q)
    BY <2>1, <2>3, <2>4 DEF StopsOf
  <2>7. StopsOf(queue) \subseteq StopsOf(q)
    BY <2>5 DEF StopsOf
  <2> QED BY <2>2, <2>6, <2>7
<1>2. CASE \A i \in DOMAIN queue : queue[i].tag # evt.tag
  <2>1. PICK i \in 1..(Len(queue) + 1) : Push(queue, evt) = InsertAt(queue, i, evt)
    BY <1>2, PushOnMiss
  <2>2. \A x : (x = evt \/ \E j \in DOMAIN queue : queue[j] = x)
               => \E j \in DOMAIN Push(queue, evt) : Push(queue, evt)[j] = x
    BY <2>1, InsertAtElements
  <2>3. StopOf(evt) \subseteq StopsOf(Push(queue, evt))
    <3>1. PICK k \in DOMAIN Push(queue, evt) : Push(queue, evt)[k] = evt
      BY <2>2
    <3> QED BY <3>1 DEF StopsOf
  <2>4. \A j \in DOMAIN queue : StopOf(queue[j]) \subseteq StopsOf(Push(queue, evt))
    <3> TAKE j \in DOMAIN queue
    <3>1. PICK k \in DOMAIN Push(queue, evt) : Push(queue, evt)[k] = queue[j]
      BY <2>2
    <3> QED BY <3>1 DEF StopsOf
  <2>5. StopsOf(queue) \subseteq StopsOf(Push(queue, evt))
    BY <2>4 DEF StopsOf
  <2> QED BY <2>3, <2>5
<1> QED BY <1>1, <1>2

LEMMA AppendStops ==
  ASSUME NEW queue \in Seq(Events), NEW evt \in Events
  PROVE  StopsOf(queue) \cup StopOf(evt) \subseteq StopsOf(Append(queue, evt))
<1> DEFINE q == Append(queue, evt)
<1>1. /\ Len(queue) \in Nat /\ DOMAIN queue = 1..Len(queue)
      /\ DOMAIN q = 1..(Len(queue) + 1)
      /\ q[Len(queue) + 1] = evt /\ \A j \in DOMAIN queue : q[j] = queue[j]
  BY QueueElements, AppendProperties
<1> HIDE DEF q
<1>2. DOMAIN queue \subseteq DOMAIN q /\ Len(queue) + 1 \in DOMAIN q
  BY <1>1
<1>3. StopOf(evt) \subseteq StopsOf(q)
  BY <1>1, <1>2 DEF StopsOf
<1>4. StopsOf(queue) \subseteq StopsOf(q)
  BY <1>1, <1>2 DEF StopsOf
<1> QED BY <1>3, <1>4 DEF q

LEMMA HeadTailStops ==
  ASSUME NEW queue \in Seq(Events), queue # <<>>
  PROVE  StopsOf(queue) \subseteq StopOf(Head(queue)) \cup StopsOf(Tail(queue))
<1>1. /\ Len(queue) \in Nat \ {0} /\ DOMAIN queue = 1..Len(queue) /\ Head(queue) = queue[1]
  BY QueueElements, EmptySeq, HeadTailProperties
<1>2. /\ Tail(queue) \in Seq(Events) /\ Len(Tail(queue)) = Len(queue) - 1
      /\ \A i \in 1..Len(Tail(queue)) : Tail(queue)[i] = queue[i + 1]
  BY HeadTailProperties
<1>3. DOMAIN Tail(queue) = 1..(Len(queue) - 1)
  BY <1>2, QueueElements
<1>4. \A i \in DOMAIN queue : i = 1 \/ (i - 1 \in DOMAIN Tail(queue) /\ queue[i] = Tail(queue)[i - 1])
  BY <1>1, <1>2, <1>3
<1>5. \A i \in DOMAIN queue : StopOf(queue[i]) \subseteq StopOf(Head(queue)) \cup StopsOf(Tail(queue))
  BY <1>1, <1>4 DEF StopsOf
<1> QED BY <1>5 DEF StopsOf

(* Where a stop request is that was agreed to: with an event, or it has had its
   effect, since the shutdown time is not after it. *)
PendingStops == StopsOf(event_queue) \cup StopsOf(future_events) \cup (IF cur = None THEN {} ELSE StopOf(cur))
Honored(s) == shutdown_time # None /\ AtOrBefore(shutdown_time, s)
StopInv == \A s \in stops : Honored(s) \/ s \in PendingStops

LEMMA StopInvInit == Init => StopInv
BY TimeoutTag, NoneIsNoTag DEF Init, StopInv, Honored, AtOrBefore

(* A step that takes no stop away and does not change the shutdown time. *)
LEMMA StopsStay ==
  ASSUME StopInv, UNCHANGED <<shutdown_time, stops>>, \A s \in PendingStops : s \in PendingStops' \/ Honored(s)
  PROVE  StopInv'
BY DEF StopInv, Honored

LEMMA StopsUnchanged ==
  ASSUME StopInv, UNCHANGED <<shutdown_time, stops, event_queue, future_events, cur>>
  PROVE  StopInv'
BY DEF StopInv, Honored, PendingStops

LEMMA StopInvLoop == SInv /\ ShutInv /\ LogicalInv /\ StopInv /\ Loop => StopInv'
<1> SUFFICES ASSUME SInv, ShutInv, LogicalInv, StopInv, Loop PROVE StopInv'
  OBVIOUS
<1>1. CASE Startup
  BY <1>1, StopsUnchanged DEF Startup
<1>2. CASE FlushEnd \/ SleepEnd \/ TakeNothing \/ ReceiveTimeout \/ ReceiveDisconnected \/ Notify \/ Drop
  BY <1>2, StopsUnchanged DEF FlushEnd, SleepEnd, TakeNothing, ReceiveTimeout, ReceiveDisconnected,
                              Notify, Drop, loopVars, waveVars, history
<1>3. ~(FlushEvent \/ SleepInterrupted \/ ReceiveEvent)
  BY DEF FlushEvent, SleepInterrupted, ReceiveEvent, LogicalInv
<1>4. CASE TakeEvent
  <2>1. event_queue \in Seq(Events) /\ Head(event_queue) \in Events
    BY <1>4, HeadTailProperties DEF TakeEvent, SInv, TypeOK
  <2>2. /\ cur = None /\ cur' = Head(event_queue) /\ cur' # None /\ event_queue' = Tail(event_queue)
        /\ UNCHANGED <<future_events, shutdown_time, stops>>
    BY <1>4, <2>1, NoneIsNoTag DEF TakeEvent, SInv, PcInv, waveVars, history
  <2>3. StopsOf(event_queue) \subseteq StopOf(cur') \cup StopsOf(event_queue')
    BY <1>4, <2>1, <2>2, HeadTailStops DEF TakeEvent
  <2>4. PendingStops \subseteq PendingStops'
    BY <2>2, <2>3 DEF PendingStops
  <2> QED BY <2>2, <2>4, StopsStay
<1>5. CASE DiscardLateEvent
  <2>1. event_queue \in Seq(Events) /\ event_queue # <<>> /\ event_queue' = Tail(event_queue)
        /\ UNCHANGED <<cur, future_events, shutdown_time, stops>>
    BY <1>5 DEF DiscardLateEvent, SInv, TypeOK, waveVars, history
  <2>2. StopsOf(event_queue) \subseteq StopOf(Head(event_queue)) \cup StopsOf(event_queue')
    BY <2>1, HeadTailStops
  <2>3. \A s \in StopOf(Head(event_queue)) : Honored(s)
    BY <1>5 DEF DiscardLateEvent, IsAfterShutdown, StopOf, Honored, AtOrBefore
  <2>4. \A s \in PendingStops : s \in PendingStops' \/ Honored(s)
    BY <2>1, <2>2, <2>3 DEF PendingStops
  <2> QED BY <2>1, <2>4, StopsStay
<1>6. CASE ExecuteEvent
  <2>1. /\ StopOf(cur) = {} /\ cur' = None
        /\ UNCHANGED <<event_queue, future_events, shutdown_time, stops>>
    BY <1>6 DEF ExecuteEvent, StopsNow, StopOf
  <2>2. PendingStops \subseteq PendingStops'
    BY <2>1 DEF PendingStops
  <2> QED BY <2>1, <2>2, StopsStay
<1>7. CASE ExecuteStop
  <2>1. /\ cur \in Events /\ cur.tag \in Tags /\ cur.tag # None /\ ~IsAfterShutdown(cur.tag)
        /\ shutdown_time' = cur.tag /\ cur' = None
        /\ UNCHANGED <<event_queue, future_events, stops>>
    BY <1>7, NoneIsNoTag DEF ExecuteStop, Shutdown, SInv, PcInv, ShutInv, Events
  <2>2. \A s \in StopOf(cur) : AtOrBefore(cur.tag, s)
    BY DEF StopOf, AtOrBefore
  <2>3. \A s \in stops : Honored(s) => AtOrBefore(cur.tag, s)
    <3> SUFFICES ASSUME NEW s \in stops, Honored(s) PROVE AtOrBefore(cur.tag, s)
      OBVIOUS
    <3>1. s \in Tags /\ shutdown_time \in Tags /\ shutdown_time # None /\ AtOrBefore(shutdown_time, s)
      BY DEF Honored, SInv, TypeOK
    <3>2. AtOrBefore(cur.tag, shutdown_time)
      BY <2>1, <3>1, BeforeTotal DEF IsAfterShutdown, AtOrBefore
    <3> QED BY <2>1, <3>1, <3>2, BeforeTransitive DEF AtOrBefore
  <2>4. \A s \in PendingStops : s \in PendingStops' \/ s \in StopOf(cur)
    BY <2>1 DEF PendingStops
  <2>5. \A s \in stops : AtOrBefore(cur.tag, s) => Honored(s)'
    BY <2>1 DEF Honored
  <2>6. \A s \in stops' : Honored(s)' \/ s \in PendingStops'
    BY <2>1, <2>2, <2>3, <2>4, <2>5 DEF StopInv
  <2> QED BY <2>6 DEF StopInv
<1>8. CASE ExitLoop
  <2>1. shutdown_time # None => shutdown_time' = shutdown_time
    BY <1>8 DEF ExitLoop, Shutdown, ShutdownTag
  <2>2. \A s \in stops : Honored(s) => Honored(s)'
    BY <2>1 DEF Honored
  <2>3. PendingStops' = PendingStops /\ stops' = stops
    BY <1>8 DEF ExitLoop, PendingStops
  <2>4. \A s \in stops' : Honored(s)' \/ s \in PendingStops'
    BY <2>2, <2>3 DEF StopInv
  <2> QED BY <2>4 DEF StopInv
<1> QED BY <1>1, <1>2, <1>3, <1>4, <1>5, <1>6, <1>7, <1>8 DEF Loop

(* An event for a later tag joins the events of the wave. *)
LEMMA StopAppend ==
  ASSUME SInv, StopInv, NEW evt \in Events, future_events' = Append(future_events, evt),
         UNCHANGED <<event_queue, cur, shutdown_time>>, stops' \subseteq stops \cup StopOf(evt)
  PROVE  StopInv'
<1>1. StopsOf(future_events) \cup StopOf(evt) \subseteq StopsOf(future_events')
  BY AppendStops DEF SInv, TypeOK
<1>2. PendingStops \cup StopOf(evt) \subseteq PendingStops'
  BY <1>1 DEF PendingStops
<1>3. \A s \in stops' : Honored(s)' \/ s \in PendingStops'
  BY <1>2 DEF StopInv, Honored
<1> QED BY <1>3 DEF StopInv

LEMMA StopInvWave == LogicalOnly /\ SInv /\ StopInv /\ Wave => StopInv'
<1> SUFFICES ASSUME LogicalOnly, SInv, StopInv, Wave PROVE StopInv'
  OBVIOUS
<1>0. pc = "react" => latest \in Tags
  BY DEF SInv, PcInv
<1>1. ASSUME NEW tag \in Tags, NEW t \in Triggers, EnqueueLater(tag, t),
             UNCHANGED <<event_queue, cur, shutdown_time, stops>>
      PROVE  StopInv'
  BY <1>1, ExecuteType, StopAppend DEF EnqueueLater
<1>2. ASSUME NEW t \in Timers, BootstrapTimer(t) PROVE StopInv'
  <2>1. CASE TimerOffset[t] = 0
    BY <1>2, <2>1, StopsUnchanged DEF BootstrapTimer, loopVars
  <2>2. CASE TimerOffset[t] # 0
    <3>1. Successor(latest, TimerOffset[t]) \in Tags /\ t \in Triggers
      BY <1>0, <1>2, SuccessorType, ConfigurationAssumption, ActionTypes DEF BootstrapTimer
    <3> QED BY <1>1, <1>2, <2>2, <3>1 DEF BootstrapTimer, loopVars
  <2> QED BY <2>1, <2>2
<1>3. ASSUME NEW t \in Timers, RescheduleTimer(t) PROVE StopInv'
  <2>1. CASE TimerPeriod[t] = 0
    BY <1>3, <2>1, StopsUnchanged DEF RescheduleTimer, loopVars
  <2>2. CASE TimerPeriod[t] # 0
    <3>1. Successor(latest, TimerPeriod[t]) \in Tags /\ t \in Triggers
      BY <1>0, <1>3, SuccessorType, ConfigurationAssumption, ActionTypes DEF RescheduleTimer
    <3> QED BY <1>1, <1>3, <2>2, <3>1 DEF RescheduleTimer, loopVars
  <2> QED BY <2>1, <2>2
<1>4. ASSUME NEW a \in LogicalActions, NEW d \in Delays, ScheduleLogical(a, d) PROVE StopInv'
  <2> DEFINE eta == Successor(latest, MinDelay[a] + d)
  <2>1. MinDelay[a] + d \in Nat
    BY ConfigurationAssumption, ActionTypes
  <2>2. eta \in Tags /\ a \in Triggers
    BY <1>0, <1>4, <2>1, SuccessorType, ActionTypes DEF ScheduleLogical, Call
  <2>3. EnqueueLater(eta, a) /\ UNCHANGED <<event_queue, cur, shutdown_time, stops>>
    BY <1>4 DEF ScheduleLogical, loopVars
  <2> HIDE DEF eta
  <2> QED BY <1>1, <2>2, <2>3
<1>5. ASSUME NEW d \in Delays, RequestStop(d) PROVE StopInv'
  <2>1. pc = "react" /\ d \in Nat
    BY <1>5, ConfigurationAssumption DEF RequestStop, Call
  <2>2. Successor(latest, d) \in Tags
    BY <1>0, <2>1, SuccessorType
  <2>3. stops' = stops \cup StopOf(TerminateAt(Successor(latest, d)))
    BY <1>5 DEF RequestStop, StopOf, TerminateAt
  <2> QED BY <1>5, <2>2, <2>3, TerminateAtType, StopAppend DEF RequestStop, loopVars
<1>6. CASE FinishReactions \/ DrainEnd \/ CleanupTag
  BY <1>6, StopsUnchanged DEF FinishReactions, DrainEnd, CleanupTag, loopVars, waveVars, history
<1>7. CASE DrainEvent
  <2>1. /\ future_events \in Seq(Events) /\ event_queue \in Seq(Events) /\ Sorted(event_queue)
        /\ Head(future_events) \in Events
    BY <1>7, HeadTailProperties DEF DrainEvent, SInv, TypeOK, QueueSorted
  <2>2. /\ StopsOf(event_queue) \cup StopOf(Head(future_events)) \subseteq StopsOf(event_queue')
        /\ StopsOf(future_events) \subseteq StopOf(Head(future_events)) \cup StopsOf(future_events')
    BY <1>7, <2>1, PushStops, HeadTailStops DEF DrainEvent
  <2>3. PendingStops \subseteq PendingStops'
    BY <1>7, <2>2 DEF DrainEvent, PendingStops
  <2> QED BY <1>7, <2>3, StopsStay DEF DrainEvent, history
<1> QED BY <1>2, <1>3, <1>4, <1>5, <1>6, <1>7 DEF Wave, ReactionCall, LogicalOnly

LEMMA StopInvStep ==
  LogicalOnly /\ SInv /\ ShutInv /\ LogicalInv /\ StopInv /\ [Next]_vars => StopInv'
<1> SUFFICES ASSUME LogicalOnly, SInv, ShutInv, LogicalInv, StopInv, [Next]_vars PROVE StopInv'
  OBVIOUS
<1>1. CASE UNCHANGED vars \/ Ended \/ Tick
  BY <1>1, StopsUnchanged DEF Ended, Tick, vars, loopVars, waveVars, history
<1> QED BY <1>1, StopInvLoop, StopInvWave DEF Next, LogicalOnly

LEMMA StopInvHolds == ASSUME LogicalOnly PROVE Spec => []StopInv
<1>1. SInv /\ ShutInv /\ LogicalInv /\ StopInv /\ [Next]_vars => StopInv'
  BY StopInvStep
<1> QED BY SInvHolds, ShutInvHolds, LogicalInvHolds, StopInvInit, <1>1, PTL DEF Spec


(* The program ends at the earliest of the stops that were agreed to, its
   timeout among them. *)
THEOREM EarliestStopWinsHolds == ASSUME LogicalOnly PROVE Spec => []EarliestStopWins
<1>1. SInv /\ ShutInv /\ LogicalInv /\ StopInv => EarliestStopWins
  <2> SUFFICES ASSUME SInv, ShutInv, LogicalInv, StopInv, is_shutdown, NEW s \in stops
               PROVE  AtOrBefore(shutdown_time, s)
    BY DEF EarliestStopWins
  <2>1. /\ latest = shutdown_time /\ latest \in Tags /\ latest # None /\ cur = None
        /\ event_queue \in Seq(Events) /\ future_events \in Seq(Events)
    BY NoneIsNoTag DEF SInv, TypeOK, PcInv, ShutInv
  <2>2. \A x \in PendingStops : Before(latest, x)
    BY <2>1, StopsAreTags DEF PendingStops, LogicalInv, EventsAhead
  <2> QED BY <2>1, <2>2 DEF StopInv, Honored, AtOrBefore
<1> QED BY SInvHolds, ShutInvHolds, LogicalInvHolds, StopInvHolds, <1>1, PTL

-----------------------------------------------------------------------------
(* The values of logical actions, for programs in which each logical action
   triggers a reaction. *)
Live == Pending \cup ({latest} \X reactions)
MatchInv ==
  /\ ~InWave => reactions = {}
  /\ ~is_shutdown /\ pc # "exit" =>
       \A a \in LogicalActions, tag \in Tags : <<a, tag>> \in values <=> <<tag, a>> \in Live

LEMMA MatchInvInit == Init => MatchInv
<1> SUFFICES ASSUME Init PROVE MatchInv
  OBVIOUS
<1>1. Live = {} /\ values = {} /\ reactions = {}
  BY EmptyWork DEF Init, Live, Pending
<1> QED BY <1>1 DEF MatchInv

(* A step that does not touch the values, nor the work for logical actions. *)
LEMMA ValuesStay ==
  ASSUME MatchInv, ~InWave' => reactions' = {}, values' = values,
         is_shutdown => is_shutdown', pc = "exit" => pc' = "exit" \/ is_shutdown',
         \A a \in LogicalActions, tag \in Tags : <<tag, a>> \in Live' <=> <<tag, a>> \in Live
  PROVE  MatchInv'
BY DEF MatchInv

LEMMA NotLogical == \A x \in Timers \cup {STARTUP, SHUTDOWN} : x \notin LogicalActions
BY TriggersAssumption DEF Actions

LEMMA MatchInvLoop ==
  ASSUME LogicalActions \subseteq Reacting
  PROVE  SInv /\ ShutInv /\ LogicalInv /\ MatchInv /\ Loop => MatchInv'
<1> SUFFICES ASSUME SInv, ShutInv, LogicalInv, MatchInv, Loop PROVE MatchInv'
  OBVIOUS
<1>1. CASE Startup
  <2>1. /\ reactions = {} /\ reactions' \subseteq {STARTUP} /\ pc' \in {"react", "flush"}
        /\ pc' = "flush" => reactions' = {}
        /\ ~is_shutdown' /\ ~is_shutdown /\ values' = values /\ Pending' = Pending
    BY <1>1 DEF Startup, ProcessTag, AfterWave, MatchInv, InWave, Pending, ShutInv
  <2>2. \A a \in LogicalActions, tag \in Tags : <<tag, a>> \in Live' <=> <<tag, a>> \in Live
    BY <2>1, NotLogical DEF Live
  <2> QED BY <1>1, <2>1, <2>2, ValuesStay DEF Startup, InWave
<1>2. ~(FlushEvent \/ SleepInterrupted \/ ReceiveEvent)
  BY DEF FlushEvent, SleepInterrupted, ReceiveEvent, LogicalInv
<1>3. CASE FlushEnd \/ SleepEnd
  BY <1>3 DEF FlushEnd, SleepEnd, loopVars, waveVars, MatchInv, InWave, Live, Pending
<1>4. CASE TakeEvent
  <2>1. event_queue \in Seq(Events) /\ Head(event_queue) \in Events
    BY <1>4, HeadTailProperties DEF TakeEvent, SInv, TypeOK
  <2>2. WorkOf(event_queue) = Work(cur') \cup WorkOf(event_queue') /\ cur' # None /\ cur = None
    BY <1>4, <2>1, HeadTailWork, NoneIsNoTag DEF TakeEvent, SInv, PcInv
  <2>3. Live' = Live
    BY <1>4, <2>2 DEF TakeEvent, waveVars, Live, Pending
  <2> QED BY <1>4, <2>3 DEF TakeEvent, waveVars, MatchInv, InWave
<1>5. CASE DiscardLateEvent \/ ReceiveTimeout \/ ReceiveDisconnected
  BY <1>5 DEF DiscardLateEvent, ReceiveTimeout, ReceiveDisconnected, waveVars, MatchInv, InWave
<1>6. CASE TakeNothing
  BY <1>6 DEF TakeNothing, loopVars, waveVars, MatchInv, InWave, Live, Pending
<1>7. CASE ExecuteEvent
  <2>1. /\ reactions = {} /\ cur # None /\ cur' = None /\ latest' = cur.tag
        /\ ~is_shutdown' /\ values' = values /\ pc' \in {"react", "flush"}
        /\ UNCHANGED <<event_queue, future_events>>
    BY <1>7, NoneIsNoTag DEF ExecuteEvent, ProcessTag, AfterWave, MatchInv, InWave, SInv, PcInv
  <2>2. ~is_shutdown
    BY <1>7 DEF ExecuteEvent, ShutInv
  <2>3. CASE cur.reactions \cap Reacting = {}
    <3>1. reactions' = {} /\ pc' = "flush"
      BY <1>7, <2>3 DEF ExecuteEvent, ProcessTag, AfterWave
    <3>2. \A a \in LogicalActions : a \notin cur.reactions
      BY <2>3
    <3>3. \A a \in LogicalActions, tag \in Tags : <<tag, a>> \in Live' <=> <<tag, a>> \in Live
      BY <2>1, <3>1, <3>2 DEF Live, Pending, Work
    <3> QED BY <1>7, <2>1, <2>2, <3>1, <3>3, ValuesStay DEF ExecuteEvent
  <2>4. CASE cur.reactions \cap Reacting # {}
    <3>1. reactions' = cur.reactions /\ pc' = "react"
      BY <1>7, <2>4 DEF ExecuteEvent, ProcessTag
    <3>2. Live' = Live
      BY <2>1, <3>1 DEF Live, Pending, Work
    <3> QED BY <1>7, <2>1, <2>2, <3>1, <3>2, ValuesStay DEF ExecuteEvent, InWave
  <2> QED BY <2>3, <2>4
<1>8. CASE ExecuteStop \/ ExitLoop
  <2>1. is_shutdown' /\ (pc' = "react" \/ reactions' = {})
    BY <1>8 DEF ExecuteStop, ExitLoop, Shutdown, ProcessTag
  <2> QED BY <2>1 DEF MatchInv, InWave
<1>9. CASE Notify \/ Drop
  BY <1>9 DEF Notify, Drop, waveVars, MatchInv, InWave, ShutInv
<1> QED BY <1>1, <1>2, <1>3, <1>4, <1>5, <1>6, <1>7, <1>8, <1>9 DEF Loop

LEMMA EnqueueLive ==
  ASSUME SInv, NEW tag \in Tags, NEW t \in Triggers, EnqueueLater(tag, t),
         UNCHANGED <<event_queue, cur, latest>>
  PROVE  Pending' = Pending \cup {<<tag, t>>}
<1>1. future_events \in Seq(Events) /\ Execute(tag, t) \in Events
  BY ExecuteType DEF SInv, TypeOK
<1>2. WorkOf(future_events') = WorkOf(future_events) \cup Work(Execute(tag, t))
  BY <1>1, AppendWork DEF EnqueueLater
<1>3. Work(Execute(tag, t)) = {<<tag, t>>}
  BY DEF Work, Execute
<1> QED BY <1>2, <1>3 DEF Pending

LEMMA MatchInvWave == LogicalOnly /\ SInv /\ LogicalInv /\ MatchInv /\ Wave => MatchInv'
<1> SUFFICES ASSUME LogicalOnly, SInv, LogicalInv, MatchInv, Wave PROVE MatchInv'
  OBVIOUS
<1>0. pc = "react" => latest \in Tags
  BY DEF SInv, PcInv
<1>1. ASSUME NEW tag \in Tags, NEW t \in Timers, EnqueueLater(tag, t), pc = "react",
             UNCHANGED <<pc, loopVars, is_shutdown, reactions, values>>
      PROVE  MatchInv'
  <2>1. Pending' = Pending \cup {<<tag, t>>}
    BY <1>1, ActionTypes, EnqueueLive DEF loopVars
  <2>2. \A a \in LogicalActions, x \in Tags : <<x, a>> \in Live' <=> <<x, a>> \in Live
    BY <1>1, <2>1, NotLogical DEF Live, loopVars
  <2> QED BY <1>1, <2>2, ValuesStay DEF InWave
<1>2. ASSUME NEW t \in Timers, BootstrapTimer(t) PROVE MatchInv'
  <2>1. CASE TimerOffset[t] = 0
    <3>1. /\ pc' = "react" /\ pc = "react" /\ reactions' = reactions \cup {t}
          /\ UNCHANGED <<loopVars, future_events, is_shutdown, values>>
      BY <1>2, <2>1 DEF BootstrapTimer
    <3>2. \A a \in LogicalActions, x \in Tags : <<x, a>> \in Live' <=> <<x, a>> \in Live
      BY <3>1, NotLogical DEF Live, Pending, loopVars
    <3> QED BY <3>1, <3>2, ValuesStay DEF InWave
  <2>2. CASE TimerOffset[t] # 0
    <3>1. Successor(latest, TimerOffset[t]) \in Tags
      BY <1>0, <1>2, SuccessorType, ConfigurationAssumption DEF BootstrapTimer
    <3> QED BY <1>1, <1>2, <2>2, <3>1 DEF BootstrapTimer
  <2> QED BY <2>1, <2>2
<1>3. ASSUME NEW t \in Timers, RescheduleTimer(t) PROVE MatchInv'
  <2>1. CASE TimerPeriod[t] = 0
    BY <1>3, <2>1 DEF RescheduleTimer, loopVars, MatchInv, InWave, Live, Pending
  <2>2. CASE TimerPeriod[t] # 0
    <3>1. Successor(latest, TimerPeriod[t]) \in Tags
      BY <1>0, <1>3, SuccessorType, ConfigurationAssumption DEF RescheduleTimer
    <3> QED BY <1>1, <1>3, <2>2, <3>1 DEF RescheduleTimer
  <2> QED BY <2>1, <2>2
<1>4. ASSUME NEW a \in LogicalActions, NEW d \in Delays, ScheduleLogical(a, d) PROVE MatchInv'
  <2> DEFINE eta == Successor(latest, MinDelay[a] + d)
  <2>1. MinDelay[a] + d \in Nat
    BY ConfigurationAssumption, ActionTypes
  <2>2. eta \in Tags /\ a \in Triggers
    BY <1>0, <1>4, <2>1, SuccessorType, ActionTypes DEF ScheduleLogical, Call
  <2>3. /\ EnqueueLater(eta, a) /\ values' = values \cup {<<a, eta>>}
        /\ pc' = pc /\ pc = "react"
        /\ UNCHANGED <<event_queue, cur, latest, is_shutdown, reactions>>
    BY <1>4 DEF ScheduleLogical, Call, loopVars
  <2> HIDE DEF eta
  <2>4. Pending' = Pending \cup {<<eta, a>>}
    BY <2>2, <2>3, EnqueueLive
  <2>5. Live' = Live \cup {<<eta, a>>}
    BY <2>3, <2>4 DEF Live
  <2> QED BY <2>3, <2>5 DEF MatchInv, InWave
<1>5. ASSUME NEW d \in Delays, RequestStop(d) PROVE MatchInv'
  <2>1. pc = "react" /\ d \in Nat
    BY <1>5, ConfigurationAssumption DEF RequestStop, Call
  <2>2. future_events \in Seq(Events) /\ TerminateAt(Successor(latest, d)) \in Events
    BY <1>0, <2>1, SuccessorType, TerminateAtType DEF SInv, TypeOK
  <2>3. Work(TerminateAt(Successor(latest, d))) = {}
    BY DEF Work, TerminateAt
  <2>4. WorkOf(future_events') = WorkOf(future_events)
    BY <1>5, <2>2, <2>3, AppendWork DEF RequestStop
  <2>5. Live' = Live
    BY <1>5, <2>4 DEF RequestStop, loopVars, Live, Pending
  <2> QED BY <1>5, <2>5 DEF RequestStop, MatchInv, InWave
<1>6. CASE FinishReactions \/ DrainEnd
  BY <1>6 DEF FinishReactions, DrainEnd, loopVars, waveVars, MatchInv, InWave, Live, Pending
<1>7. CASE DrainEvent
  <2>1. /\ future_events \in Seq(Events) /\ event_queue \in Seq(Events) /\ Sorted(event_queue)
        /\ Head(future_events) \in Events
    BY <1>7, HeadTailProperties DEF DrainEvent, SInv, TypeOK, QueueSorted
  <2>2. WorkOf(event_queue') = WorkOf(event_queue) \cup Work(Head(future_events))
    BY <1>7, <2>1, PushWork DEF DrainEvent
  <2>3. WorkOf(future_events) = Work(Head(future_events)) \cup WorkOf(future_events')
    BY <1>7, <2>1, HeadTailWork DEF DrainEvent
  <2>4. Live' = Live
    BY <1>7, <2>2, <2>3 DEF DrainEvent, Live, Pending
  <2> QED BY <1>7, <2>4 DEF DrainEvent, MatchInv, InWave
<1>8. CASE CleanupTag
  <2>1. /\ reactions' = {} /\ values' = Forget(latest) /\ Pending' = Pending
        /\ cur = None /\ latest \in Tags /\ latest # None
        /\ UNCHANGED <<is_shutdown, latest>> /\ pc = "cleanup"
    BY <1>8, NoneIsNoTag DEF CleanupTag, loopVars, Pending, SInv, PcInv
  <2>2. \A w \in Pending : w[1] # latest
    <3>1. \A w \in WorkOf(event_queue) : w[1] \in TagsOf(event_queue)
      BY DEF WorkOf, Work, TagsOf
    <3>2. \A w \in WorkOf(future_events) : w[1] \in TagsOf(future_events)
      BY DEF WorkOf, Work, TagsOf
    <3>3. \A w \in Pending : Before(latest, w[1])
      BY <2>1, <3>1, <3>2 DEF Pending, LogicalInv, EventsAhead
    <3> QED BY <2>1, <3>3, BeforeIrreflexive
  <2>3. Live' = Pending
    BY <2>1 DEF Live
  <2>4. \A a \in LogicalActions, tag \in Tags :
           <<a, tag>> \in values' <=> <<a, tag>> \in values /\ tag # latest
    BY <2>1 DEF Forget
  <2>5. \A a \in LogicalActions, tag \in Tags :
           <<tag, a>> \in Pending <=> <<tag, a>> \in Live /\ tag # latest
    BY <2>2 DEF Live
  <2> QED BY <2>1, <2>3, <2>4, <2>5 DEF MatchInv
<1> QED BY <1>2, <1>3, <1>4, <1>5, <1>6, <1>7, <1>8 DEF Wave, ReactionCall, LogicalOnly

LEMMA MatchInvHolds ==
  ASSUME LogicalOnly, LogicalActions \subseteq Reacting PROVE Spec => []MatchInv
<1>1. SInv /\ ShutInv /\ LogicalInv /\ MatchInv /\ [Next]_vars => MatchInv'
  <2>1. SInv /\ ShutInv /\ LogicalInv /\ MatchInv /\ (UNCHANGED vars \/ Ended \/ Tick) => MatchInv'
    BY DEF Ended, Tick, vars, loopVars, waveVars, MatchInv, InWave, Live, Pending
  <2> QED BY <2>1, MatchInvLoop, MatchInvWave DEF Next, LogicalOnly
<1> QED BY SInvHolds, ShutInvHolds, LogicalInvHolds, MatchInvInit, <1>1, PTL DEF Spec

(* The value map of a logical action has a value for a tag exactly while an
   event of the action is pending for it or being processed. *)
THEOREM ValuesMatchEventsHolds ==
  ASSUME LogicalOnly, LogicalActions \subseteq Reacting PROVE Spec => []ValuesMatchEvents
<1>1. SInv /\ MatchInv => ValuesMatchEvents
  <2> SUFFICES ASSUME SInv, MatchInv, ~is_shutdown, pc # "exit", NEW a \in LogicalActions
               PROVE  {v[2] : v \in {x \in values : x[1] = a}} =
                        {w[1] : w \in {x \in Pending \cup ({latest} \X reactions) : x[2] = a}}
    BY DEF ValuesMatchEvents
  <2>1. values \subseteq Actions \X Tags
    BY DEF SInv, TypeOK
  <2>2. Live \subseteq Tags \X Triggers
    <3>1. WorkOf(event_queue) \subseteq Tags \X Triggers /\ WorkOf(future_events) \subseteq Tags \X Triggers
      <4>1. \A e \in Events : Work(e) \subseteq Tags \X Triggers
        BY DEF Events, Work
      <4>2. event_queue \in Seq(Events) /\ future_events \in Seq(Events)
        BY DEF SInv, TypeOK
      <4> QED BY <4>1, <4>2, QueueElements DEF WorkOf
    <3>2. cur # None => Work(cur) \subseteq Tags \X Triggers
      BY DEF SInv, TypeOK, Events, Work
    <3>3. {latest} \X reactions \subseteq Tags \X Triggers
      <4>1. reactions \subseteq Triggers /\ (reactions # {} => latest \in Tags)
        BY DEF SInv, TypeOK, PcInv, MatchInv, InWave
      <4> QED BY <4>1
    <3> QED BY <3>1, <3>2, <3>3 DEF Live, Pending
  <2>3. \A tag \in Tags : <<a, tag>> \in values <=> <<tag, a>> \in Live
    BY DEF MatchInv
  <2>4. \A v \in values : v[1] = a => v[2] \in Tags /\ v = <<a, v[2]>>
    BY <2>1
  <2>5. \A w \in Live : w[2] = a => w[1] \in Tags /\ w = <<w[1], a>>
    BY <2>2
  <2>6. \A v \in values : v[1] = a => \E w \in Live : w[2] = a /\ w[1] = v[2]
    BY <2>3, <2>4
  <2>7. \A w \in Live : w[2] = a => \E v \in values : v[1] = a /\ v[2] = w[1]
    BY <2>3, <2>5
  <2> QED BY <2>6, <2>7 DEF Live
<1> QED BY SInvHolds, MatchInvHolds, <1>1, PTL

(* Between two tags, all values are for tags that are still to come: what was
   stored for a processed tag is gone. *)
THEOREM ValuesReclaimedHolds ==
  ASSUME LogicalOnly, LogicalActions \subseteq Reacting PROVE Spec => []ValuesReclaimed
<1>1. SInv /\ ShutInv /\ LogicalInv /\ MatchInv => ValuesReclaimed
  <2> SUFFICES ASSUME SInv, ShutInv, LogicalInv, MatchInv, pc \in {"flush", "take", "sleep", "wait"},
                      NEW v \in values
               PROVE  Before(latest, v[2])
    BY DEF ValuesReclaimed
  <2>1. v[1] \in LogicalActions /\ v[2] \in Tags /\ v = <<v[1], v[2]>>
    BY DEF SInv, TypeOK, Actions, LogicalOnly
  <2>2. ~is_shutdown /\ reactions = {} /\ latest # None
    BY NoneIsNoTag DEF ShutInv, MatchInv, InWave, SInv, PcInv
  <2>3. <<v[2], v[1]>> \in Pending
    BY <2>1, <2>2 DEF MatchInv, Live
  <2>4. \A w \in Pending : Before(latest, w[1])
    <3>1. \A w \in WorkOf(event_queue) : w[1] \in TagsOf(event_queue)
      BY DEF WorkOf, Work, TagsOf
    <3>2. \A w \in WorkOf(future_events) : w[1] \in TagsOf(future_events)
      BY DEF WorkOf, Work, TagsOf
    <3>3. cur # None => \A w \in Work(cur) : w[1] = cur.tag
      BY DEF Work
    <3> QED BY <2>2, <3>1, <3>2, <3>3 DEF Pending, LogicalInv, EventsAhead
  <2>5. Before(latest, <<v[2], v[1]>>[1])
    BY <2>3, <2>4
  <2> QED BY <2>5
<1> QED BY SInvHolds, ShutInvHolds, LogicalInvHolds, MatchInvHolds, <1>1, PTL

-----------------------------------------------------------------------------
(* The events the scheduler makes: none for the startup reactions, none that
   says nothing, and no stop that was not requested. *)
Proper == {e \in Events : /\ STARTUP \notin e.reactions
                          /\ e.terminate \/ e.reactions # {}
                          /\ e.terminate => e.tag \in stops}

SimInv ==
  /\ Among(event_queue, Proper) /\ Among(future_events, Proper)
  /\ cur # None => cur \in Proper
  /\ shutdown_time # None /\ ~is_shutdown => shutdown_time \in stops
  /\ pc = "startup" => executed = {}
  /\ \A t \in Timers : <<"bootstrap", t>> \in synthetic => latest = ORIGIN

LEMMA ProperAbsorbs == \A e, f \in Proper : e.tag = f.tag => Absorb(e, f) \in Proper
BY DEF Proper, Absorb, Events

LEMMA ProperGrows ==
  ASSUME stops \subseteq stops', NEW queue, Among(queue, Proper)
  PROVE  Among(queue, Proper') /\ Proper \subseteq Proper'
BY DEF Among, Proper

LEMMA ProperExecute ==
  ASSUME NEW tag \in Tags, NEW t \in Triggers, t # STARTUP
  PROVE  Execute(tag, t) \in Proper
BY ExecuteType DEF Proper, Execute

LEMMA SimInvInit == Init => SimInv
BY AmongEmpty DEF Init, SimInv

(* Processing a tag, from an event or at the end of the loop. *)
LEMMA SimProcessTag ==
  ASSUME SimInv, NEW sd \in BOOLEAN, NEW tag, NEW plan, ProcessTag(sd, tag, plan), STARTUP \notin plan,
         cur' = None, UNCHANGED <<event_queue, future_events, stops>>,
         ~sd => UNCHANGED <<shutdown_time, is_shutdown>>
  PROVE  SimInv'
<1>1. Proper' = Proper
  BY DEF Proper
<1>2. is_shutdown' = sd /\ pc' # "startup" /\ \A t \in Timers : <<"bootstrap", t>> \notin synthetic'
  BY DEF ProcessTag, AfterWave
<1> QED BY <1>1, <1>2 DEF SimInv

LEMMA SimInvLoop == SInv /\ ShutInv /\ LogicalInv /\ SimInv /\ Loop => SimInv'
<1> SUFFICES ASSUME SInv, ShutInv, LogicalInv, SimInv, Loop PROVE SimInv'
  OBVIOUS
<1>0. stops' = stops /\ Proper' = Proper
  <2>1. stops' = stops
    BY DEF Loop, Startup, FlushEvent, FlushEnd, TakeEvent, DiscardLateEvent, TakeNothing, SleepEnd,
           SleepInterrupted, ExecuteEvent, ExecuteStop, ReceiveEvent, ReceiveTimeout,
           ReceiveDisconnected, ExitLoop, Notify, Drop, history
  <2> QED BY <2>1 DEF Proper
<1>1. CASE Startup
  <2>1. /\ latest' = ORIGIN /\ is_shutdown' = FALSE /\ is_shutdown = FALSE /\ pc' # "startup"
        /\ UNCHANGED <<event_queue, future_events, cur, shutdown_time>>
    BY <1>1 DEF Startup, ProcessTag, AfterWave, ShutInv
  <2> QED BY <1>0, <2>1 DEF SimInv
<1>2. CASE FlushEnd \/ SleepEnd \/ TakeNothing \/ ReceiveTimeout \/ ReceiveDisconnected \/ Notify \/ Drop
  <2>1. UNCHANGED <<event_queue, future_events, cur, shutdown_time, is_shutdown, synthetic, latest>>
        /\ pc' # "startup"
    BY <1>2 DEF FlushEnd, SleepEnd, TakeNothing, ReceiveTimeout, ReceiveDisconnected,
                Notify, Drop, loopVars, waveVars
  <2> QED BY <1>0, <2>1 DEF SimInv
<1>3. ~(FlushEvent \/ SleepInterrupted \/ ReceiveEvent)
  BY DEF FlushEvent, SleepInterrupted, ReceiveEvent, LogicalInv
<1>4. CASE TakeEvent \/ DiscardLateEvent
  <2>1. event_queue \in Seq(Events) /\ event_queue # <<>>
    BY <1>4 DEF TakeEvent, DiscardLateEvent, SInv, TypeOK
  <2>2. Head(event_queue) \in Proper /\ Among(Tail(event_queue), Proper)
    BY <2>1, HeadTailAmong DEF SimInv
  <2>3. /\ event_queue' = Tail(event_queue) /\ cur' \in {cur, Head(event_queue)} /\ pc' # "startup"
        /\ UNCHANGED <<future_events, shutdown_time, is_shutdown, synthetic, latest>>
    BY <1>4 DEF TakeEvent, DiscardLateEvent, waveVars
  <2> QED BY <1>0, <2>2, <2>3 DEF SimInv
<1>5. CASE ExecuteEvent
  <2>1. /\ ProcessTag(FALSE, cur.tag, cur.reactions) /\ cur' = None
        /\ UNCHANGED <<event_queue, future_events, shutdown_time, stops>>
    BY <1>5 DEF ExecuteEvent
  <2>2. is_shutdown = FALSE /\ is_shutdown' = FALSE /\ STARTUP \notin cur.reactions
    BY <1>5, <2>1, NoneIsNoTag DEF ExecuteEvent, ShutInv, SInv, PcInv, SimInv, Proper, ProcessTag, TypeOK
  <2> QED BY <2>1, <2>2, SimProcessTag
<1>6. CASE ExecuteStop
  <2>1. /\ ProcessTag(TRUE, cur.tag, cur.reactions \cup {SHUTDOWN}) /\ cur' = None
        /\ UNCHANGED <<event_queue, future_events, stops>>
    BY <1>6 DEF ExecuteStop, Shutdown
  <2>2. STARTUP \notin cur.reactions \cup {SHUTDOWN}
    BY <1>6, NoneIsNoTag, TriggersAssumption DEF ExecuteStop, SInv, PcInv, SimInv, Proper
  <2> QED BY <2>1, <2>2, SimProcessTag
<1>7. CASE ExitLoop
  <2>1. /\ ProcessTag(TRUE, ShutdownTag, {} \cup {SHUTDOWN}) /\ cur' = None
        /\ UNCHANGED <<event_queue, future_events, stops>>
    BY <1>7 DEF ExitLoop, Shutdown, SInv, PcInv
  <2>2. STARTUP \notin {} \cup {SHUTDOWN}
    BY TriggersAssumption
  <2> QED BY <2>1, <2>2, SimProcessTag
<1> QED BY <1>1, <1>2, <1>3, <1>4, <1>5, <1>6, <1>7 DEF Loop

(* A call adds an event to those of the wave. *)
LEMMA SimAppend ==
  ASSUME SInv, SimInv, stops \subseteq stops', NEW evt \in Events, evt \in Proper',
         future_events' = Append(future_events, evt), synthetic' \subseteq synthetic,
         UNCHANGED <<pc, event_queue, cur, shutdown_time, is_shutdown, latest>>, pc = "react"
  PROVE  SimInv'
<1>1. Among(event_queue, Proper') /\ Among(future_events, Proper') /\ Proper \subseteq Proper'
  BY ProperGrows DEF SimInv
<1> DEFINE S == Proper'
<1>2. Among(Append(future_events, evt), S)
  <2>1. future_events \in Seq(Events) /\ Among(future_events, S) /\ evt \in S
    BY <1>1 DEF SInv, TypeOK
  <2> HIDE DEF S
  <2> QED BY <2>1, AppendAmong
<1> QED BY <1>1, <1>2 DEF SimInv, Among

LEMMA SimInvWave == LogicalOnly /\ SInv /\ SimInv /\ Wave => SimInv'
<1> SUFFICES ASSUME LogicalOnly, SInv, SimInv, Wave PROVE SimInv'
  OBVIOUS
<1>0. pc = "react" => latest \in Tags
  BY DEF SInv, PcInv
<1>1. ASSUME NEW tag \in Tags, NEW t \in Triggers, t # STARTUP, EnqueueLater(tag, t), pc = "react",
             synthetic' \subseteq synthetic, UNCHANGED <<pc, loopVars, is_shutdown, stops>>
      PROVE  SimInv'
  <2>1. Execute(tag, t) \in Events /\ Execute(tag, t) \in Proper
    BY <1>1, ExecuteType, ProperExecute
  <2>2. Proper' = Proper
    BY <1>1 DEF Proper
  <2> QED BY <1>1, <2>1, <2>2, SimAppend DEF EnqueueLater, loopVars
<1>2. ASSUME NEW t \in Timers, BootstrapTimer(t) PROVE SimInv'
  <2>0. t \in Triggers /\ t # STARTUP /\ latest \in Tags /\ TimerOffset[t] \in Nat
    BY <1>0, <1>2, ActionTypes, TriggersAssumption, ConfigurationAssumption DEF BootstrapTimer
  <2>1. CASE TimerOffset[t] = 0
    <3>1. /\ UNCHANGED <<pc, event_queue, future_events, cur, shutdown_time, is_shutdown, latest, stops>>
          /\ pc = "react" /\ \A x \in Timers : <<"bootstrap", x>> \in synthetic' => <<"bootstrap", x>> \in synthetic
      BY <1>2, <2>1 DEF BootstrapTimer, loopVars
    <3>2. Proper' = Proper
      BY <3>1 DEF Proper
    <3> QED BY <3>1, <3>2 DEF SimInv
  <2>2. CASE TimerOffset[t] # 0
    <3>1. Successor(latest, TimerOffset[t]) \in Tags
      BY <2>0, SuccessorType
    <3> QED BY <1>1, <1>2, <2>0, <2>2, <3>1 DEF BootstrapTimer
  <2> QED BY <2>1, <2>2
<1>3. ASSUME NEW t \in Timers, RescheduleTimer(t) PROVE SimInv'
  <2>0. t \in Triggers /\ t # STARTUP /\ latest \in Tags /\ TimerPeriod[t] \in Nat
    BY <1>0, <1>3, ActionTypes, TriggersAssumption, ConfigurationAssumption DEF RescheduleTimer
  <2>1. CASE TimerPeriod[t] = 0
    <3>1. /\ UNCHANGED <<pc, event_queue, future_events, cur, shutdown_time, is_shutdown, latest, stops>>
          /\ pc = "react" /\ synthetic' \subseteq synthetic
      BY <1>3, <2>1 DEF RescheduleTimer, loopVars
    <3>2. Proper' = Proper
      BY <3>1 DEF Proper
    <3> QED BY <3>1, <3>2 DEF SimInv
  <2>2. CASE TimerPeriod[t] # 0
    <3>1. Successor(latest, TimerPeriod[t]) \in Tags
      BY <2>0, SuccessorType
    <3>2. synthetic' \subseteq synthetic
      BY <1>3 DEF RescheduleTimer
    <3> QED BY <1>1, <1>3, <2>0, <2>2, <3>1, <3>2 DEF RescheduleTimer
  <2> QED BY <2>1, <2>2
<1>4. ASSUME NEW a \in LogicalActions, NEW d \in Delays, ScheduleLogical(a, d) PROVE SimInv'
  <2> DEFINE eta == Successor(latest, MinDelay[a] + d)
  <2>1. MinDelay[a] + d \in Nat
    BY ConfigurationAssumption, ActionTypes
  <2>2. eta \in Tags /\ a \in Triggers /\ a # STARTUP
    BY <1>0, <1>4, <2>1, SuccessorType, ActionTypes, NotLogical DEF ScheduleLogical, Call
  <2>3. EnqueueLater(eta, a) /\ pc = "react" /\ UNCHANGED <<pc, loopVars, is_shutdown, synthetic, stops>>
    BY <1>4 DEF ScheduleLogical, Call
  <2> HIDE DEF eta
  <2> QED BY <1>1, <2>2, <2>3
<1>5. ASSUME NEW d \in Delays, RequestStop(d) PROVE SimInv'
  <2> DEFINE evt == TerminateAt(Successor(latest, d))
  <2>1. pc = "react" /\ d \in Nat
    BY <1>5, ConfigurationAssumption DEF RequestStop, Call
  <2>2. Successor(latest, d) \in Tags /\ evt \in Events /\ evt.tag = Successor(latest, d)
    BY <1>0, <2>1, SuccessorType, TerminateAtType
  <2>3. stops' = stops \cup {Successor(latest, d)}
    BY <1>5 DEF RequestStop
  <2>4. evt \in Proper'
    BY <2>2, <2>3 DEF Proper, TerminateAt
  <2>5. /\ future_events' = Append(future_events, evt)
        /\ UNCHANGED <<pc, event_queue, cur, shutdown_time, is_shutdown, latest, synthetic>>
    BY <1>5 DEF RequestStop, Call, loopVars
  <2> HIDE DEF evt
  <2> QED BY <2>1, <2>2, <2>3, <2>4, <2>5, SimAppend
<1>6. CASE FinishReactions \/ DrainEnd \/ CleanupTag
  <2>1. UNCHANGED <<event_queue, future_events, cur, shutdown_time, is_shutdown, synthetic, latest, stops>>
        /\ pc' # "startup"
    BY <1>6 DEF FinishReactions, DrainEnd, CleanupTag, AfterWave, loopVars, waveVars, history
  <2>2. Proper' = Proper
    BY <2>1 DEF Proper
  <2> QED BY <2>1, <2>2 DEF SimInv
<1>7. CASE DrainEvent
  <2>1. /\ future_events \in Seq(Events) /\ event_queue \in Seq(Events) /\ Sorted(event_queue)
        /\ future_events # <<>>
    BY <1>7 DEF DrainEvent, SInv, TypeOK, QueueSorted
  <2>2. Head(future_events) \in Proper /\ Among(Tail(future_events), Proper)
    BY <2>1, HeadTailAmong DEF SimInv
  <2>3. Proper \in SUBSET Events
    BY DEF Proper
  <2>4. Among(Push(event_queue, Head(future_events)), Proper)
    BY <2>1, <2>2, <2>3, ProperAbsorbs, PushAmong DEF SimInv
  <2>5. /\ event_queue' = Push(event_queue, Head(future_events)) /\ future_events' = Tail(future_events)
        /\ UNCHANGED <<cur, shutdown_time, is_shutdown, synthetic, latest, stops>> /\ pc' # "startup"
    BY <1>7 DEF DrainEvent, history
  <2>6. Proper' = Proper
    BY <2>5 DEF Proper
  <2> QED BY <2>2, <2>4, <2>5, <2>6 DEF SimInv
<1> QED BY <1>2, <1>3, <1>4, <1>5, <1>6, <1>7 DEF Wave, ReactionCall, LogicalOnly

LEMMA SimInvHolds == ASSUME LogicalOnly PROVE Spec => []SimInv
<1>1. SInv /\ ShutInv /\ LogicalInv /\ SimInv /\ [Next]_vars => SimInv'
  <2>1. SimInv /\ (UNCHANGED vars \/ Ended \/ Tick) => SimInv'
    BY DEF Ended, Tick, vars, loopVars, waveVars, history, SimInv, Among, Proper
  <2> QED BY <2>1, SimInvLoop, SimInvWave DEF Next, LogicalOnly
<1> QED BY SInvHolds, ShutInvHolds, LogicalInvHolds, SimInvInit, <1>1, PTL DEF Spec

(* The tag of the event that is about to be executed is the next tag of the
   simulation, and a stop was requested for it exactly if the scheduler shuts
   down. *)
LEMMA NextTag ==
  ASSUME SInv, ShutInv, LogicalInv, StopInv, SimInv, pc = "execute"
  PROVE  /\ latest \in Tags /\ ~is_shutdown /\ cur \in Events /\ cur # None /\ future_events = <<>>
         /\ Before(latest, cur.tag)
         /\ cur.tag \in Simulation!Due
         /\ \A other \in Simulation!Due : AtOrBefore(cur.tag, other)
         /\ cur.tag \in stops <=> StopsNow
         /\ Pending = WorkOf(event_queue) \cup Work(cur)
         /\ \A w \in WorkOf(event_queue) : w[1] # cur.tag
<1>1. /\ latest \in Tags /\ ~is_shutdown /\ cur \in Events /\ cur # None /\ future_events = <<>>
      /\ ~IsAfterShutdown(cur.tag) /\ cur \in Proper /\ cur.tag \in Tags /\ cur.tag # None
      /\ event_queue \in Seq(Events) /\ stops \subseteq Tags /\ shutdown_time \in Tags \cup {None}
  BY NoneIsNoTag DEF SInv, TypeOK, PcInv, ShutInv, LogicalInv, SimInv, Events
<1>2. Before(latest, cur.tag) /\ \A tag \in TagsOf(event_queue) : Before(cur.tag, tag)
  BY <1>1, NoneIsNoTag DEF LogicalInv, EventsAhead
<1>3. Pending = WorkOf(event_queue) \cup Work(cur)
  BY <1>1, EmptyWork DEF Pending
<1>4. \A w \in WorkOf(event_queue) : Before(cur.tag, w[1])
  BY <1>2, WorkTags
<1>5. \A s \in stops : AtOrBefore(cur.tag, s) /\ (s = cur.tag => StopsNow)
  <2> SUFFICES ASSUME NEW s \in stops PROVE AtOrBefore(cur.tag, s) /\ (s = cur.tag => StopsNow)
    OBVIOUS
  <2>1. CASE Honored(s)
    <3>1. shutdown_time \in Tags /\ s \in Tags /\ AtOrBefore(shutdown_time, s) /\ ~Before(shutdown_time, cur.tag)
      BY <1>1, <2>1 DEF Honored, IsAfterShutdown
    <3>2. AtOrBefore(cur.tag, shutdown_time)
      BY <1>1, <3>1, BeforeTotal DEF AtOrBefore
    <3>3. AtOrBefore(cur.tag, s)
      BY <1>1, <3>1, <3>2, BeforeTransitive DEF AtOrBefore
    <3>4. s = cur.tag => shutdown_time = cur.tag
      BY <1>1, <3>1 DEF AtOrBefore
    <3> QED BY <3>3, <3>4 DEF StopsNow
  <2>2. CASE s \in StopsOf(event_queue)
    <3>1. Before(cur.tag, s)
      BY <1>1, <1>2, <2>2, StopsAreTags
    <3> QED BY <1>1, <3>1, BeforeIrreflexive DEF AtOrBefore
  <2>3. CASE s \in StopOf(cur)
    BY <2>3 DEF StopOf, StopsNow, AtOrBefore
  <2> QED BY <1>1, <2>1, <2>2, <2>3, EmptyStops DEF StopInv, PendingStops
<1>6. StopsNow => cur.tag \in stops
  BY <1>1 DEF StopsNow, Proper, SimInv
<1>7. cur.tag \in Simulation!Due
  <2>1. CASE cur.terminate
    BY <1>1, <2>1 DEF Proper, Simulation!Due
  <2>2. CASE cur.reactions # {}
    <3>1. PICK t \in cur.reactions : TRUE
      BY <2>2
    <3>2. <<cur.tag, t>> \in Pending
      BY <1>3, <3>1 DEF Work
    <3> QED BY <3>2 DEF Simulation!Due
  <2> QED BY <1>1, <2>1, <2>2 DEF Proper
<1>8. \A other \in Simulation!Due : AtOrBefore(cur.tag, other)
  <2>1. \A w \in Pending : AtOrBefore(cur.tag, w[1])
    BY <1>3, <1>4, WorkTags DEF AtOrBefore
  <2>2. \A other \in Simulation!Due : AtOrBefore(cur.tag, other)
    BY <1>5, <2>1 DEF Simulation!Due
  <2> QED BY <2>2
<1>9. \A w \in WorkOf(event_queue) : w[1] # cur.tag
  BY <1>1, <1>4, BeforeIrreflexive
<1> QED BY <1>1, <1>2, <1>3, <1>5, <1>6, <1>7, <1>8, <1>9

(* The simulation has the tags of the scheduler. *)
LEMMA SameTags ==
  /\ Simulation!Tags = Tags /\ Simulation!ORIGIN = ORIGIN
  /\ \A s, t : /\ Simulation!Before(s, t) <=> Before(s, t)
               /\ Simulation!AtOrBefore(s, t) <=> AtOrBefore(s, t)
BY DEF Simulation!Tags, Tags, Simulation!ORIGIN, ORIGIN, Simulation!Before, Before,
       Simulation!AtOrBefore, AtOrBefore

LEMMA StepExecuteEvent ==
  ASSUME SInv, ShutInv, LogicalInv, StopInv, SimInv, ExecuteEvent
  PROVE  Simulation!Advance
<1> DEFINE tag == cur.tag
<1>1. pc = "execute" /\ ~StopsNow
  BY DEF ExecuteEvent
<1>2. /\ latest' = tag /\ is_shutdown' = FALSE /\ stops' = stops
      /\ executed' = executed \cup Work(cur)
      /\ cur' = None /\ UNCHANGED <<event_queue, future_events>>
  BY DEF ExecuteEvent, ProcessTag, Work
<1>3. Pending' = WorkOf(event_queue)
  BY <1>1, <1>2, NextTag, EmptyWork DEF Pending
<1>4. Pending' = {w \in Pending : w[1] # tag} /\ Pending \ Pending' = Work(cur)
  BY <1>1, <1>3, NextTag, WorkTags
<1>5. tag \notin stops /\ latest # None
  BY <1>1, NextTag, NoneIsNoTag
<1>6. \E x \in Simulation!Due :
        /\ Before(latest, x)
        /\ \A other \in Simulation!Due : AtOrBefore(x, other)
        /\ latest' = x
        /\ Pending' = {w \in Pending : w[1] # x}
        /\ is_shutdown' = (x \in stops)
        /\ executed' = executed \cup (Pending \ Pending')
                                \cup {w \in {<<x, SHUTDOWN>>} : x \in stops}
  <2>1. executed' = executed \cup (Pending \ Pending') \cup {w \in {<<tag, SHUTDOWN>>} : tag \in stops}
    BY <1>2, <1>4, <1>5
  <2>2. tag \in Simulation!Due /\ Before(latest, tag) /\ \A other \in Simulation!Due : AtOrBefore(tag, other)
    BY <1>1, NextTag
  <2>3. is_shutdown' = (tag \in stops)
    <3>1. (tag \in stops) = FALSE
      BY <1>5
    <3> QED BY <1>2, <3>1
  <2> HIDE DEF tag
  <2> QED BY <1>2, <1>4, <2>1, <2>2, <2>3
<1> QED BY <1>1, <1>2, <1>5, <1>6, NextTag, SameTags DEF Simulation!Advance

LEMMA StepExecuteStop ==
  ASSUME SInv, ShutInv, LogicalInv, StopInv, SimInv, ExecuteStop
  PROVE  Simulation!Advance
<1> DEFINE tag == cur.tag
<1>1. pc = "execute" /\ StopsNow
  BY DEF ExecuteStop
<1>2. /\ latest' = tag /\ is_shutdown' = TRUE /\ stops' = stops
      /\ executed' = executed \cup Work(cur) \cup {<<tag, SHUTDOWN>>}
      /\ cur' = None /\ UNCHANGED <<event_queue, future_events>>
  BY DEF ExecuteStop, Shutdown, ProcessTag, Work
<1>3. Pending' = WorkOf(event_queue)
  BY <1>1, <1>2, NextTag, EmptyWork DEF Pending
<1>4. Pending' = {w \in Pending : w[1] # tag} /\ Pending \ Pending' = Work(cur)
  BY <1>1, <1>3, NextTag, WorkTags
<1>5. tag \in stops /\ latest # None
  BY <1>1, NextTag, NoneIsNoTag
<1>6. \E x \in Simulation!Due :
        /\ Before(latest, x)
        /\ \A other \in Simulation!Due : AtOrBefore(x, other)
        /\ latest' = x
        /\ Pending' = {w \in Pending : w[1] # x}
        /\ is_shutdown' = (x \in stops)
        /\ executed' = executed \cup (Pending \ Pending')
                                \cup {w \in {<<x, SHUTDOWN>>} : x \in stops}
  <2>1. executed' = executed \cup (Pending \ Pending') \cup {w \in {<<tag, SHUTDOWN>>} : tag \in stops}
    BY <1>2, <1>4, <1>5
  <2>2. tag \in Simulation!Due /\ Before(latest, tag) /\ \A other \in Simulation!Due : AtOrBefore(tag, other)
    BY <1>1, NextTag
  <2>3. is_shutdown' = (tag \in stops) /\ latest' = tag /\ Pending' = {w \in Pending : w[1] # tag}
    BY <1>2, <1>4, <1>5
  <2> HIDE DEF tag
  <2> QED BY <2>1, <2>2, <2>3
<1> QED BY <1>1, <1>2, <1>5, <1>6, NextTag, SameTags DEF Simulation!Advance

(* At the end of the loop, the next tag is the shutdown time if there is one;
   otherwise nothing is left to do. *)
LEMMA StepExitLoop ==
  ASSUME SInv, ShutInv, LogicalInv, StopInv, SimInv, ExitLoop
  PROVE  Simulation!Advance \/ Simulation!Finish
<1> DEFINE tag == ShutdownTag
<1>1. /\ pc = "exit" /\ cur = None /\ future_events = <<>> /\ ~is_shutdown
      /\ latest \in Tags /\ latest # None /\ event_queue \in Seq(Events) /\ stops \subseteq Tags
      /\ shutdown_time \in Tags \cup {None} /\ now \in Nat
      /\ \A x \in TagsOf(event_queue) : Beyond(x)
  BY NoneIsNoTag DEF ExitLoop, SInv, TypeOK, PcInv, ShutInv, LogicalInv
<1>2. /\ latest' = tag /\ is_shutdown' = TRUE /\ stops' = stops
      /\ executed' = executed \cup {<<tag, SHUTDOWN>>}
      /\ UNCHANGED <<event_queue, future_events, cur>>
  BY DEF ExitLoop, Shutdown, ProcessTag
<1>3. Pending = WorkOf(event_queue) /\ Pending' = Pending
  BY <1>1, <1>2, EmptyWork DEF Pending
<1>4. \A w \in Pending : Beyond(w[1])
  BY <1>1, <1>3, WorkTags
<1>5. \A s \in stops : Honored(s)
  BY <1>1, EmptyStops, StopsAreTags DEF StopInv, PendingStops, Honored, Beyond, AtOrBefore
<1>6. CASE shutdown_time # None
  <2>1. tag = shutdown_time /\ tag \in Tags /\ tag \in stops /\ Before(latest, tag)
    BY <1>1, <1>6 DEF ShutdownTag, LogicalInv, SimInv
  <2>2. tag \in Simulation!Due
    BY <2>1 DEF Simulation!Due
  <2>3. \A other \in Simulation!Due : AtOrBefore(tag, other)
    <3>1. \A w \in Pending : AtOrBefore(tag, w[1])
      BY <1>4, <2>1 DEF Beyond, AtOrBefore
    <3>2. \A s \in stops : AtOrBefore(tag, s)
      BY <1>5, <2>1 DEF Honored
    <3> QED BY <3>1, <3>2 DEF Simulation!Due
  <2>4. Pending' = {w \in Pending : w[1] # tag}
    <3>1. \A w \in Pending : w[1] # tag
      BY <1>4, <2>1, BeforeIrreflexive DEF Beyond
    <3> QED BY <1>3, <3>1
  <2>5. executed' = executed \cup (Pending \ Pending') \cup {w \in {<<tag, SHUTDOWN>>} : tag \in stops}
    BY <1>2, <1>3, <2>1
  <2>6. \E x \in Simulation!Due :
          /\ Before(latest, x)
          /\ \A other \in Simulation!Due : AtOrBefore(x, other)
          /\ latest' = x
          /\ Pending' = {w \in Pending : w[1] # x}
          /\ is_shutdown' = (x \in stops)
          /\ executed' = executed \cup (Pending \ Pending')
                                  \cup {w \in {<<x, SHUTDOWN>>} : x \in stops}
    <3> HIDE DEF tag
    <3> WITNESS tag \in Simulation!Due
    <3> QED BY <1>2, <2>1, <2>3, <2>4, <2>5
  <2> QED BY <1>1, <1>2, <2>6, SameTags DEF Simulation!Advance
<1>7. CASE shutdown_time = None
  <2>1. Pending = {} /\ stops = {}
    BY <1>4, <1>5, <1>7 DEF Beyond, Honored
  <2>2. Simulation!Due = {}
    BY <2>1 DEF Simulation!Due
  <2>3. tag \in Tags
    BY <1>1, <1>7, AbsoluteType DEF ShutdownTag
  <2> QED BY <1>1, <1>2, <1>3, <2>2, <2>3, SameTags DEF Simulation!Finish
<1> QED BY <1>6, <1>7

SimVars == <<latest, Pending, stops, is_shutdown, executed>>

LEMMA StepLoop ==
  SInv /\ ShutInv /\ LogicalInv /\ StopInv /\ SimInv /\ Loop => [Simulation!Next]_SimVars
<1> SUFFICES ASSUME SInv, ShutInv, LogicalInv, StopInv, SimInv, Loop PROVE [Simulation!Next]_SimVars
  OBVIOUS
<1>1. CASE Startup
  <2>1. /\ pc = "startup" /\ latest = None /\ executed = {}
        /\ latest' = ORIGIN /\ executed' = executed \cup ({ORIGIN} \X {STARTUP})
        /\ is_shutdown' = is_shutdown
        /\ UNCHANGED <<event_queue, future_events, cur, stops>>
    BY <1>1 DEF Startup, ProcessTag, ShutInv, LogicalInv, SimInv, SInv, TypeOK
  <2>2. Pending' = Pending /\ executed' = {<<ORIGIN, STARTUP>>}
    BY <2>1 DEF Pending
  <2>3. Simulation!Start
    BY <2>1, <2>2, SameTags DEF Simulation!Start
  <2> QED BY <2>3 DEF Simulation!Next
<1>2. CASE FlushEnd \/ SleepEnd \/ TakeNothing \/ ReceiveTimeout \/ ReceiveDisconnected \/ Notify \/ Drop
  BY <1>2 DEF FlushEnd, SleepEnd, TakeNothing, ReceiveTimeout, ReceiveDisconnected,
              Notify, Drop, loopVars, waveVars, history, SimVars, Pending
<1>3. ~(FlushEvent \/ SleepInterrupted \/ ReceiveEvent)
  BY DEF FlushEvent, SleepInterrupted, ReceiveEvent, LogicalInv
<1>4. CASE TakeEvent
  <2>1. event_queue \in Seq(Events) /\ Head(event_queue) \in Events
    BY <1>4, HeadTailProperties DEF TakeEvent, SInv, TypeOK
  <2>2. WorkOf(event_queue) = Work(cur') \cup WorkOf(event_queue') /\ cur' # None /\ cur = None
    BY <1>4, <2>1, HeadTailWork, NoneIsNoTag DEF TakeEvent, SInv, PcInv
  <2> QED BY <1>4, <2>2 DEF TakeEvent, waveVars, history, SimVars, Pending
<1>5. CASE DiscardLateEvent
  <2>1. /\ event_queue \in Seq(Events) /\ event_queue # <<>> /\ event_queue' = Tail(event_queue)
        /\ shutdown_time # None /\ Before(shutdown_time, Head(event_queue).tag) /\ ~is_shutdown
        /\ UNCHANGED <<latest, cur, future_events, stops, is_shutdown, executed>>
    BY <1>5 DEF DiscardLateEvent, IsAfterShutdown, SInv, TypeOK, ShutInv, waveVars, history
  <2>2. WorkOf(event_queue) = Work(Head(event_queue)) \cup WorkOf(event_queue')
    BY <2>1, HeadTailWork
  <2>3. Pending' \subseteq Pending /\ Pending \ Pending' \subseteq Work(Head(event_queue))
    BY <2>1, <2>2 DEF Pending
  <2>4. shutdown_time \in stops
    BY <2>1 DEF SimInv
  <2>5. Simulation!Abandon
    BY <2>1, <2>3, <2>4, WorkTags, SameTags DEF Simulation!Abandon
  <2> QED BY <2>5 DEF Simulation!Next
<1>6. CASE ExecuteEvent
  BY <1>6, StepExecuteEvent DEF Simulation!Next
<1>7. CASE ExecuteStop
  BY <1>7, StepExecuteStop DEF Simulation!Next
<1>8. CASE ExitLoop
  BY <1>8, StepExitLoop DEF Simulation!Next
<1> QED BY <1>1, <1>2, <1>3, <1>4, <1>5, <1>6, <1>7, <1>8 DEF Loop

LEMMA StepPost ==
  ASSUME SInv, NEW tag \in Tags, NEW t \in Triggers, EnqueueLater(tag, t),
         pc = "react", Before(latest, tag),
         UNCHANGED <<event_queue, cur, latest, stops, is_shutdown, executed>>
  PROVE  Simulation!Next
<1>1. Pending' = Pending \cup {<<tag, t>>}
  BY EnqueueLive
<1>2. latest # None
  BY NoneIsNoTag DEF SInv, PcInv
<1>3. Simulation!Post(tag)
  BY <1>1, <1>2, SameTags DEF Simulation!Post
<1>4. tag \in {w[1] : w \in Pending'}
  <2>1. <<tag, t>> \in Pending' /\ <<tag, t>>[1] = tag
    BY <1>1
  <2> QED BY <2>1
<1> QED BY <1>3, <1>4 DEF Simulation!Next

LEMMA StepWave ==
  LogicalOnly /\ SInv /\ SimInv /\ Wave => [Simulation!Next]_SimVars
<1> SUFFICES ASSUME LogicalOnly, SInv, SimInv, Wave PROVE [Simulation!Next]_SimVars
  OBVIOUS
<1>0. pc = "react" => latest \in Tags /\ latest # None
  BY NoneIsNoTag DEF SInv, PcInv
<1>1. ASSUME NEW t \in Timers, BootstrapTimer(t) PROVE [Simulation!Next]_SimVars
  <2>0. t \in Triggers /\ latest \in Tags /\ TimerOffset[t] \in Nat /\ pc = "react"
    BY <1>0, <1>1, ActionTypes, ConfigurationAssumption DEF BootstrapTimer
  <2>1. CASE TimerOffset[t] = 0
    <3>1. /\ executed' = executed \cup {<<latest, t>>} /\ <<"bootstrap", t>> \in synthetic
          /\ UNCHANGED <<latest, event_queue, future_events, cur, stops, is_shutdown>>
      BY <1>1, <2>1 DEF BootstrapTimer, loopVars
    <3>2. latest = ORIGIN /\ Pending' = Pending
      BY <3>1 DEF SimInv, Pending
    <3>3. Simulation!Join
      BY <3>1, <3>2, SameTags DEF Simulation!Join
    <3> QED BY <3>3 DEF Simulation!Next
  <2>2. CASE TimerOffset[t] # 0
    <3>1. /\ Successor(latest, TimerOffset[t]) \in Tags
          /\ Before(latest, Successor(latest, TimerOffset[t]))
      BY <2>0, <2>2, SuccessorIsAfter
    <3> QED BY <1>1, <2>0, <2>2, <3>1, StepPost DEF BootstrapTimer, loopVars
  <2> QED BY <2>1, <2>2
<1>2. ASSUME NEW t \in Timers, RescheduleTimer(t) PROVE [Simulation!Next]_SimVars
  <2>0. t \in Triggers /\ latest \in Tags /\ TimerPeriod[t] \in Nat /\ pc = "react"
    BY <1>0, <1>2, ActionTypes, ConfigurationAssumption DEF RescheduleTimer
  <2>1. CASE TimerPeriod[t] = 0
    BY <1>2, <2>1 DEF RescheduleTimer, loopVars, SimVars, Pending
  <2>2. CASE TimerPeriod[t] # 0
    <3>1. /\ Successor(latest, TimerPeriod[t]) \in Tags
          /\ Before(latest, Successor(latest, TimerPeriod[t]))
      BY <2>0, <2>2, SuccessorIsAfter
    <3> QED BY <1>2, <2>0, <2>2, <3>1, StepPost DEF RescheduleTimer, loopVars
  <2> QED BY <2>1, <2>2
<1>3. ASSUME NEW a \in LogicalActions, NEW d \in Delays, ScheduleLogical(a, d) PROVE [Simulation!Next]_SimVars
  <2> DEFINE eta == Successor(latest, MinDelay[a] + d)
  <2>1. MinDelay[a] + d \in Nat
    BY ConfigurationAssumption, ActionTypes
  <2>2. pc = "react" /\ latest.micro < MicroMax
    BY <1>3 DEF ScheduleLogical, Call
  <2>3. eta \in Tags /\ a \in Triggers /\ Before(latest, eta)
    BY <1>0, <2>1, <2>2, SuccessorIsAfter, ActionTypes
  <2>4. EnqueueLater(eta, a) /\ UNCHANGED <<event_queue, cur, latest, stops, is_shutdown, executed>>
    BY <1>3 DEF ScheduleLogical, loopVars
  <2> HIDE DEF eta
  <2> QED BY <2>2, <2>3, <2>4, StepPost
<1>4. ASSUME NEW d \in Delays, RequestStop(d) PROVE [Simulation!Next]_SimVars
  <2> DEFINE tag == Successor(latest, d)
  <2>1. pc = "react" /\ d \in Nat /\ latest.micro < MicroMax
    BY <1>4, ConfigurationAssumption DEF RequestStop, Call
  <2>2. tag \in Tags /\ Before(latest, tag)
    BY <1>0, <2>1, SuccessorIsAfter
  <2>3. /\ future_events' = Append(future_events, TerminateAt(tag)) /\ stops' = stops \cup {tag}
        /\ UNCHANGED <<event_queue, cur, latest, is_shutdown, executed>>
    BY <1>4 DEF RequestStop, loopVars
  <2> HIDE DEF tag
  <2>4. WorkOf(future_events') = WorkOf(future_events)
    <3>1. future_events \in Seq(Events) /\ TerminateAt(tag) \in Events
      BY <2>2, TerminateAtType DEF SInv, TypeOK
    <3>2. Work(TerminateAt(tag)) = {}
      BY DEF Work, TerminateAt
    <3> QED BY <2>3, <3>1, <3>2, AppendWork
  <2>5. Pending' = Pending
    BY <2>3, <2>4 DEF Pending
  <2>6. Simulation!PostStop(tag)
    BY <1>0, <2>1, <2>2, <2>3, <2>5, SameTags DEF Simulation!PostStop
  <2>7. tag \in stops'
    BY <2>3
  <2> QED BY <2>6, <2>7 DEF Simulation!Next
<1>5. CASE FinishReactions \/ DrainEnd \/ CleanupTag
  BY <1>5 DEF FinishReactions, DrainEnd, CleanupTag, loopVars, waveVars, history, SimVars, Pending
<1>6. CASE DrainEvent
  <2>1. /\ future_events \in Seq(Events) /\ event_queue \in Seq(Events) /\ Sorted(event_queue)
        /\ future_events # <<>> /\ Head(future_events) \in Events
    BY <1>6, HeadTailProperties DEF DrainEvent, SInv, TypeOK, QueueSorted
  <2>2. /\ WorkOf(event_queue') = WorkOf(event_queue) \cup Work(Head(future_events))
        /\ WorkOf(future_events) = Work(Head(future_events)) \cup WorkOf(future_events')
    BY <1>6, <2>1, PushWork, HeadTailWork DEF DrainEvent
  <2> QED BY <1>6, <2>2 DEF DrainEvent, history, SimVars, Pending
<1> QED BY <1>1, <1>2, <1>3, <1>4, <1>5, <1>6 DEF Wave, ReactionCall, LogicalOnly

(* Without threads and physical actions, the scheduler is a discrete event
   simulation: each step of it is a step of the simulation or changes nothing
   that the simulation shows.  Tags are processed in ascending order, each with
   all the work agreed for it, up to the first stop; only work after a stop is
   abandoned. *)
THEOREM SimulationHolds == ASSUME LogicalOnly PROVE Spec => Simulation!Spec
<1>1. Init => Simulation!Init
  <2> SUFFICES ASSUME Init PROVE Simulation!Init
    OBVIOUS
  <2>1. Pending = {}
    BY EmptyWork DEF Init, Pending
  <2>2. stops \subseteq Tags
    BY TimeoutTag DEF Init
  <2> QED BY <2>1, <2>2, SameTags DEF Init, Simulation!Init
<1>2. SInv /\ ShutInv /\ LogicalInv /\ StopInv /\ SimInv /\ [Next]_vars
        => [Simulation!Next]_<<latest, Pending, stops, is_shutdown, executed>>
  <2>1. UNCHANGED vars \/ Ended \/ Tick => UNCHANGED SimVars
    BY DEF Ended, Tick, vars, loopVars, waveVars, history, SimVars, Pending
  <2> QED BY <2>1, StepLoop, StepWave DEF Next, LogicalOnly, SimVars
<1> QED BY SInvHolds, ShutInvHolds, LogicalInvHolds, StopInvHolds, SimInvHolds, <1>1, <1>2, PTL
        DEF Spec, Simulation!Spec, Simulation!vars

-----------------------------------------------------------------------------
(* Multiples of a period. *)
LEMMA Multiple == ASSUME NEW m \in Nat, NEW p \in Nat \ {0}, m % p = 0 PROVE \E q \in Int : m = p * q
OBVIOUS
LEMMA IsMultiple == ASSUME NEW p \in Nat \ {0}, NEW q \in Int, p * q >= 0 PROVE (p * q) % p = 0
OBVIOUS
LEMMA NextMultiple ==
  ASSUME NEW m \in Nat, NEW p \in Nat \ {0}, m % p = 0
  PROVE  /\ (m + p) % p = 0
         /\ \A n \in Nat : n % p = 0 /\ m < n => m + p <= n
<1>1. PICK q \in Int : m = p * q
  BY Multiple
<1>2. (m + p) % p = 0
  <2>1. p * (q + 1) = m + p
    BY <1>1
  <2>2. q + 1 \in Int /\ p * (q + 1) >= 0
    BY <2>1
  <2>3. (p * (q + 1)) % p = 0
    BY <2>2, IsMultiple
  <2> QED BY <2>1, <2>3
<1>3. ASSUME NEW n \in Nat, n % p = 0, m < n PROVE m + p <= n
  <2>1. PICK r \in Int : n = p * r
    BY <1>3, Multiple
  <2>2. p * q < p * r
    BY <1>1, <1>3, <2>1
  <2>3. q + 1 <= r
    BY <2>2
  <2>4. p * q + p <= p * r
    BY <2>3
  <2> QED BY <1>1, <2>1, <2>4
<1> QED BY <1>2, <1>3

(* Whether a timer is due at an instant; where its next instant is. *)
DueAt(t, i) == TimerIsPresent(t, Absolute(i))

LEMMA FirstDue ==
  ASSUME NEW t \in Timers
  PROVE  /\ TimerOffset[t] \in Nat /\ DueAt(t, TimerOffset[t])
         /\ \A i \in Nat : DueAt(t, i) => TimerOffset[t] <= i
BY ConfigurationAssumption DEF DueAt, TimerIsPresent, Absolute

LEMMA NextDue ==
  ASSUME NEW t \in Timers, NEW i \in Nat, DueAt(t, i)
  PROVE  /\ TimerPeriod[t] \in Nat
         /\ TimerPeriod[t] # 0 => DueAt(t, i + TimerPeriod[t])
         /\ \A j \in Nat : i < j /\ DueAt(t, j) => TimerPeriod[t] # 0 /\ i + TimerPeriod[t] <= j
<1> DEFINE O == TimerOffset[t]
           P == TimerPeriod[t]
<1>1. O \in Nat /\ P \in Nat
  BY ConfigurationAssumption
<1>2. \A j \in Nat : DueAt(t, j) <=> j = O \/ (j > O /\ P # 0 /\ (j - O) % P = 0)
  BY DEF DueAt, TimerIsPresent, Absolute
<1> HIDE DEF O, P
<1>3. i - O \in Nat
  BY <1>1, <1>2
<1>4. P # 0 => (i - O) % P = 0
  <2>1. P # 0 => 0 % P = 0
    BY <1>1
  <2> QED BY <1>1, <1>2, <2>1
<1>5. P # 0 => DueAt(t, i + P)
  <2> SUFFICES ASSUME P # 0 PROVE DueAt(t, i + P)
    OBVIOUS
  <2>1. ((i - O) + P) % P = 0
    BY <1>1, <1>3, <1>4, NextMultiple
  <2>2. (i - O) + P = (i + P) - O /\ i + P > O /\ i + P \in Nat
    BY <1>1, <1>3
  <2> QED BY <1>2, <2>1, <2>2
<1>6. ASSUME NEW j \in Nat, i < j, DueAt(t, j) PROVE P # 0 /\ i + P <= j
  <2>1. j > O /\ P # 0 /\ (j - O) % P = 0
    BY <1>1, <1>2, <1>3, <1>6
  <2>2. j - O \in Nat /\ i - O < j - O
    BY <1>1, <1>3, <1>6, <2>1
  <2>3. (i - O) + P <= j - O
    BY <1>1, <1>3, <1>4, <2>1, <2>2, NextMultiple
  <2> QED BY <1>1, <1>3, <2>1, <2>3
<1> QED BY <1>1, <1>5, <1>6 DEF P

-----------------------------------------------------------------------------
(* What is known of the instants of a timer: it is only put on the agenda for
   instants at which it is due, and each of these has been run, or will be. *)
OnTime(t) ==
  \A tag \in Tags : <<tag, t>> \in Pending \cup executed => tag = Absolute(tag.offset) /\ DueAt(t, tag.offset)
Covered(t, i) ==
  \/ <<Absolute(i), t>> \in executed
  \/ \E j \in Nat : j <= i /\ <<Absolute(j), t>> \in Pending
  \/ pc = "startup" \/ <<"bootstrap", t>> \in synthetic
  \/ <<"reschedule", t>> \in synthetic /\ latest.offset < i
  \/ Beyond(Absolute(i))
TimerInv ==
  /\ pc # "react" => synthetic = {}
  /\ \A t \in Timers :
       /\ OnTime(t)
       /\ <<"reschedule", t>> \in synthetic => <<latest, t>> \in executed
       /\ \A i \in Nat : DueAt(t, i) => Covered(t, i)

LEMMA TimerInvInit == Init => TimerInv
<1> SUFFICES ASSUME Init PROVE TimerInv
  OBVIOUS
<1>1. Pending = {} /\ executed = {} /\ synthetic = {} /\ pc = "startup"
  BY EmptyWork DEF Init, Pending
<1> QED BY <1>1 DEF TimerInv, OnTime, Covered

LEMMA PendingType == SInv => Pending \subseteq Tags \X Triggers
<1> SUFFICES ASSUME SInv PROVE Pending \subseteq Tags \X Triggers
  OBVIOUS
<1>1. \A e \in Events : Work(e) \subseteq Tags \X Triggers
  BY DEF Events, Work
<1>2. event_queue \in Seq(Events) /\ future_events \in Seq(Events) /\ cur \in Events \cup {None}
  BY DEF SInv, TypeOK
<1> QED BY <1>1, <1>2, QueueElements DEF WorkOf, Pending

(* A step that does not concern the timers. *)
LEMMA TimersStay ==
  ASSUME TimerInv, pc = "startup" => pc' = "startup", pc' # "react" => synthetic' = {},
         UNCHANGED <<latest, synthetic, executed, shutdown_time>>,
         \A t \in Timers, tag \in Tags : <<tag, t>> \in Pending' <=> <<tag, t>> \in Pending
  PROVE  TimerInv'
<1>1. \A i \in Nat : Absolute(i) \in Tags
  BY AbsoluteType
<1> SUFFICES ASSUME NEW t \in Timers
             PROVE  /\ OnTime(t)'
                    /\ <<"reschedule", t>> \in synthetic' => <<latest', t>> \in executed'
                    /\ \A i \in Nat : DueAt(t, i) => Covered(t, i)'
  BY DEF TimerInv, DueAt, TimerIsPresent
<1>2. OnTime(t)' 
  BY DEF TimerInv, OnTime, DueAt, TimerIsPresent
<1>3. \A i \in Nat : Covered(t, i) => Covered(t, i)'
  BY <1>1 DEF Covered, Beyond
<1> QED BY <1>2, <1>3 DEF TimerInv

(* A timer joins the agenda, for the first or for the next instant at which it
   is due *)
LEMMA TimerPosted ==
  ASSUME SInv, TimerInv, NEW t \in Timers, NEW i \in Nat, DueAt(t, i), EnqueueLater(Absolute(i), t),
         pc = "react", UNCHANGED <<pc, event_queue, cur, latest, executed, shutdown_time>>,
         synthetic' \subseteq synthetic, \A x \in synthetic : x \in synthetic' \/ x[2] = t,
         \A j \in Nat : DueAt(t, j) =>
           \/ i <= j
           \/ /\ <<"bootstrap", t>> \in synthetic => <<"bootstrap", t>> \in synthetic'
              /\ <<"reschedule", t>> \in synthetic /\ latest.offset < j => <<"reschedule", t>> \in synthetic'
  PROVE  TimerInv'
<1>0. Absolute(i) \in Tags /\ t \in Triggers /\ \A j \in Nat : Absolute(j) \in Tags
  BY AbsoluteType, ActionTypes
<1>1. Pending' = Pending \cup {<<Absolute(i), t>>}
  BY <1>0, EnqueueLive
<1> SUFFICES ASSUME NEW s \in Timers
             PROVE  /\ OnTime(s)'
                    /\ <<"reschedule", s>> \in synthetic' => <<latest', s>> \in executed'
                    /\ \A j \in Nat : DueAt(s, j) => Covered(s, j)'
  BY DEF TimerInv, DueAt, TimerIsPresent
<1>2. OnTime(s)'
  <2> SUFFICES ASSUME NEW tag \in Tags, <<tag, s>> \in Pending' \cup executed'
               PROVE  tag = Absolute(tag.offset) /\ DueAt(s, tag.offset)
    BY DEF OnTime, DueAt, TimerIsPresent
  <2>1. CASE <<tag, s>> \in Pending \cup executed
    BY <2>1 DEF TimerInv, OnTime
  <2>2. CASE <<tag, s>> = <<Absolute(i), t>>
    BY <2>2 DEF Absolute
  <2> QED BY <1>1, <2>1, <2>2
<1>3. \A j \in Nat : DueAt(s, j) => Covered(s, j)'
  <2> SUFFICES ASSUME NEW j \in Nat, DueAt(s, j) PROVE Covered(s, j)'
    OBVIOUS
  <2>1. Covered(s, j)
    BY DEF TimerInv
  <2>2. CASE s = t /\ i <= j
    BY <1>1, <2>2 DEF Covered
  <2>3. CASE s = t /\ ~(i <= j)
    BY <1>1, <2>1, <2>3 DEF Covered, Beyond
  <2>4. CASE s # t
    <3>1. \A k \in {"bootstrap", "reschedule"} : <<k, s>> \in synthetic => <<k, s>> \in synthetic'
      BY <2>4
    <3> QED BY <1>1, <2>1, <3>1 DEF Covered, Beyond
  <2> QED BY <2>2, <2>3, <2>4
<1>4. <<"reschedule", s>> \in synthetic' => <<latest', s>> \in executed'
  BY DEF TimerInv
<1> QED BY <1>2, <1>3, <1>4

LEMMA TimerInvWave == LogicalOnly /\ SInv /\ SimInv /\ TimerInv /\ Wave => TimerInv'
<1> SUFFICES ASSUME LogicalOnly, SInv, SimInv, TimerInv, Wave PROVE TimerInv'
  OBVIOUS
<1>0. pc = "react" => latest \in Tags /\ latest.offset \in Nat
  BY DEF SInv, PcInv, Tags
<1>1. ASSUME NEW t \in Timers, BootstrapTimer(t) PROVE TimerInv'
  <2>0. /\ pc = "react" /\ latest = ORIGIN /\ latest = Absolute(0) /\ TimerOffset[t] \in Nat
        /\ <<"bootstrap", t>> \in synthetic
    BY <1>1, FirstDue DEF BootstrapTimer, SimInv, ORIGIN, Absolute
  <2>1. CASE TimerOffset[t] = 0
    <3>1. /\ executed' = executed \cup {<<Absolute(0), t>>}
          /\ synthetic' = (synthetic \ {<<"bootstrap", t>>}) \cup {<<"reschedule", t>>}
          /\ UNCHANGED <<pc, latest, event_queue, future_events, cur, shutdown_time>>
      BY <1>1, <2>0, <2>1 DEF BootstrapTimer, loopVars
    <3>2. Pending' = Pending
      BY <3>1 DEF Pending
    <3>3. DueAt(t, 0) /\ Absolute(0).offset = 0
      BY <2>1, FirstDue DEF Absolute
    <3> SUFFICES ASSUME NEW s \in Timers
                 PROVE  /\ OnTime(s)'
                        /\ <<"reschedule", s>> \in synthetic' => <<latest', s>> \in executed'
                        /\ \A i \in Nat : DueAt(s, i) => Covered(s, i)'
      BY <2>0, <3>1 DEF TimerInv
    <3>4. OnTime(s)'
      BY <3>1, <3>2, <3>3 DEF TimerInv, OnTime
    <3>5. <<"reschedule", s>> \in synthetic' => <<latest', s>> \in executed'
      BY <2>0, <3>1 DEF TimerInv
    <3>6. \A i \in Nat : DueAt(s, i) => Covered(s, i)'
      <4> SUFFICES ASSUME NEW i \in Nat, DueAt(s, i) PROVE Covered(s, i)'
        OBVIOUS
      <4>1. CASE s = t
        <5>1. i = 0 \/ 0 < i
          OBVIOUS
        <5> QED BY <2>0, <3>1, <3>3, <4>1, <5>1 DEF Covered
      <4>2. CASE s # t
        <5>1. Covered(s, i)
          BY DEF TimerInv
        <5>2. \A k \in {"bootstrap", "reschedule"} : <<k, s>> \in synthetic => <<k, s>> \in synthetic'
          BY <3>1, <4>2
        <5> QED BY <3>1, <3>2, <5>1, <5>2 DEF Covered, Beyond
      <4> QED BY <4>1, <4>2
    <3> QED BY <3>4, <3>5, <3>6
  <2>2. CASE TimerOffset[t] # 0
    <3> DEFINE i == TimerOffset[t]
    <3>1. Successor(latest, i) = Absolute(i)
      BY <2>0, <2>2 DEF Successor, Absolute
    <3>2. /\ EnqueueLater(Absolute(i), t) /\ synthetic' = synthetic \ {<<"bootstrap", t>>}
          /\ UNCHANGED <<pc, latest, event_queue, cur, executed, shutdown_time>>
      BY <1>1, <2>2, <3>1 DEF BootstrapTimer, loopVars
    <3>3. DueAt(t, i) /\ i \in Nat /\ \A j \in Nat : DueAt(t, j) => i <= j
      BY FirstDue
    <3>4. synthetic' \subseteq synthetic /\ \A x \in synthetic : x \in synthetic' \/ x[2] = t
      BY <3>2
    <3> HIDE DEF i
    <3> QED BY <2>0, <3>2, <3>3, <3>4, TimerPosted
  <2> QED BY <2>1, <2>2
<1>2. ASSUME NEW t \in Timers, RescheduleTimer(t) PROVE TimerInv'
  <2> DEFINE o == latest.offset
  <2>0. /\ pc = "react" /\ o \in Nat /\ <<"reschedule", t>> \in synthetic
        /\ latest = Absolute(o) /\ DueAt(t, o) /\ TimerPeriod[t] \in Nat
    <3>1. pc = "react" /\ latest \in Tags /\ o \in Nat /\ <<latest, t>> \in executed /\ <<"reschedule", t>> \in synthetic
      BY <1>0, <1>2 DEF RescheduleTimer, TimerInv
    <3>2. latest = Absolute(o) /\ DueAt(t, o)
      BY <3>1 DEF TimerInv, OnTime
    <3> QED BY <3>1, <3>2, ConfigurationAssumption
  <2>1. /\ synthetic' = synthetic \ {<<"reschedule", t>>}
        /\ UNCHANGED <<pc, latest, event_queue, cur, executed, shutdown_time>>
    BY <1>2 DEF RescheduleTimer, loopVars
  <2>2. synthetic' \subseteq synthetic /\ \A x \in synthetic : x \in synthetic' \/ x[2] = t
    BY <2>1
  <2>3. <<"bootstrap", t>> \in synthetic => <<"bootstrap", t>> \in synthetic'
    BY <2>1
  <2>4. CASE TimerPeriod[t] = 0
    <3>1. Pending' = Pending
      BY <1>2, <2>4 DEF RescheduleTimer, loopVars, Pending
    <3>2. \A i \in Nat : DueAt(t, i) => ~(o < i)
      BY <2>0, <2>4, NextDue
    <3> SUFFICES ASSUME NEW s \in Timers
                 PROVE  /\ OnTime(s)'
                        /\ <<"reschedule", s>> \in synthetic' => <<latest', s>> \in executed'
                        /\ \A i \in Nat : DueAt(s, i) => Covered(s, i)'
      BY <2>0, <2>1 DEF TimerInv
    <3>3. OnTime(s)' /\ (<<"reschedule", s>> \in synthetic' => <<latest', s>> \in executed')
      BY <2>1, <3>1 DEF TimerInv, OnTime
    <3>4. ASSUME NEW i \in Nat, DueAt(s, i) PROVE Covered(s, i)'
      <4>1. Covered(s, i)
        BY <3>4 DEF TimerInv
      <4>2. <<"reschedule", s>> \in synthetic /\ latest.offset < i => <<"reschedule", s>> \in synthetic'
        BY <2>1, <3>2, <3>4
      <4>3. <<"bootstrap", s>> \in synthetic => <<"bootstrap", s>> \in synthetic'
        BY <2>1
      <4> QED BY <2>1, <3>1, <4>1, <4>2, <4>3 DEF Covered, Beyond
    <3> QED BY <3>3, <3>4
  <2>5. CASE TimerPeriod[t] # 0
    <3> DEFINE i == o + TimerPeriod[t]
    <3>1. Successor(latest, TimerPeriod[t]) = Absolute(i)
      BY <2>5 DEF Successor
    <3>2. EnqueueLater(Absolute(i), t)
      BY <1>2, <2>5, <3>1 DEF RescheduleTimer
    <3>3. i \in Nat /\ DueAt(t, i)
      BY <2>0, <2>5, NextDue
    <3>4. \A j \in Nat : DueAt(t, j) => i <= j \/ ~(o < j)
      BY <2>0, NextDue
    <3> HIDE DEF i
    <3> QED BY <2>0, <2>1, <2>2, <2>3, <3>2, <3>3, <3>4, TimerPosted
  <2> QED BY <2>4, <2>5
<1>3. ASSUME NEW a \in LogicalActions, NEW d \in Delays, ScheduleLogical(a, d) PROVE TimerInv'
  <2> DEFINE eta == Successor(latest, MinDelay[a] + d)
  <2>1. MinDelay[a] + d \in Nat /\ pc = "react"
    BY <1>3, ConfigurationAssumption, ActionTypes DEF ScheduleLogical, Call
  <2>2. eta \in Tags /\ a \in Triggers
    BY <1>0, <2>1, SuccessorType, ActionTypes
  <2>3. /\ EnqueueLater(eta, a)
        /\ UNCHANGED <<pc, event_queue, cur, latest, synthetic, executed, shutdown_time>>
    BY <1>3 DEF ScheduleLogical, Call, loopVars
  <2> HIDE DEF eta
  <2>4. Pending' = Pending \cup {<<eta, a>>}
    BY <2>2, <2>3, EnqueueLive
  <2>5. \A t \in Timers, tag \in Tags : <<tag, t>> \in Pending' <=> <<tag, t>> \in Pending
    BY <2>4, NotLogical
  <2> QED BY <2>1, <2>3, <2>5, TimersStay
<1>4. ASSUME NEW d \in Delays, RequestStop(d) PROVE TimerInv'
  <2>1. pc = "react" /\ d \in Nat /\ latest.micro < MicroMax
    BY <1>4, ConfigurationAssumption DEF RequestStop, Call
  <2>2. /\ future_events \in Seq(Events) /\ TerminateAt(Successor(latest, d)) \in Events
        /\ Work(TerminateAt(Successor(latest, d))) = {}
    BY <1>0, <2>1, SuccessorType, TerminateAtType DEF SInv, TypeOK, Work, TerminateAt
  <2>3. /\ WorkOf(future_events') = WorkOf(future_events)
        /\ UNCHANGED <<pc, event_queue, cur, latest, synthetic, executed, shutdown_time>>
    BY <1>4, <2>2, AppendWork DEF RequestStop, Call, loopVars
  <2>4. Pending' = Pending
    BY <2>3 DEF Pending
  <2> QED BY <2>1, <2>3, <2>4, TimersStay
<1>5. CASE FinishReactions \/ DrainEnd \/ CleanupTag
  <2>1. /\ pc # "startup" /\ synthetic' = {} /\ Pending' = Pending
        /\ UNCHANGED <<latest, synthetic, executed, shutdown_time>>
    BY <1>5 DEF FinishReactions, DrainEnd, CleanupTag, TimerInv, loopVars, waveVars, history, Pending
  <2> QED BY <2>1, TimersStay
<1>6. CASE DrainEvent
  <2>1. /\ future_events \in Seq(Events) /\ event_queue \in Seq(Events) /\ Sorted(event_queue)
        /\ future_events # <<>> /\ Head(future_events) \in Events
    BY <1>6, HeadTailProperties DEF DrainEvent, SInv, TypeOK, QueueSorted
  <2>2. /\ WorkOf(event_queue') = WorkOf(event_queue) \cup Work(Head(future_events))
        /\ WorkOf(future_events) = Work(Head(future_events)) \cup WorkOf(future_events')
    BY <1>6, <2>1, PushWork, HeadTailWork DEF DrainEvent
  <2>3. /\ pc = "drain" /\ pc' = pc /\ synthetic' = {} /\ Pending' = Pending
        /\ UNCHANGED <<latest, synthetic, executed, shutdown_time>>
    BY <1>6, <2>2 DEF DrainEvent, TimerInv, history, Pending
  <2> QED BY <2>3, TimersStay
<1> QED BY <1>1, <1>2, <1>3, <1>4, <1>5, <1>6 DEF Wave, ReactionCall, LogicalOnly

(* Processing a tag moves the work for the tag from what is pending to what has
   been run *)
LEMMA TimersProcessed ==
  ASSUME SInv, TimerInv, pc \in {"execute", "exit"}, NEW sd \in BOOLEAN, NEW tag \in Tags,
         NEW work \in SUBSET Triggers, NEW plan \in SUBSET Triggers, ProcessTag(sd, tag, plan),
         Timers \cap plan = Timers \cap work, STARTUP \notin plan,
         Pending \subseteq Pending' \cup ({tag} \X work), Pending' \subseteq Pending,
         {tag} \X work \subseteq Pending,
         \A x \in Tags : Beyond(x) => Beyond(x)'
  PROVE  TimerInv'
<1>1. /\ synthetic = {} /\ executed' = executed \cup ({tag} \X plan) /\ latest' = tag
      /\ pc' # "startup" /\ (pc' # "react" => synthetic' = {})
      /\ \A t \in Timers : <<"reschedule", t>> \in synthetic' <=> t \in plan
  <2>1. synthetic = {} /\ pc' # "startup" /\ (pc' # "react" => synthetic' = {})
    BY DEF TimerInv, ProcessTag, AfterWave
  <2>2. \A t \in Timers : <<"reschedule", t>> \in synthetic' <=> t \in plan
    <3>1. CASE plan \cap Reacting = {}
      <4>1. \A t \in Timers : t \notin plan
        BY <3>1, ReactingAssumption
      <4> QED BY <3>1, <4>1 DEF ProcessTag
    <3>2. CASE plan \cap Reacting # {}
      BY <3>2 DEF ProcessTag
    <3> QED BY <3>1, <3>2
  <2> QED BY <2>1, <2>2 DEF ProcessTag
<1> SUFFICES ASSUME NEW t \in Timers
             PROVE  /\ OnTime(t)'
                    /\ <<"reschedule", t>> \in synthetic' => <<latest', t>> \in executed'
                    /\ \A i \in Nat : DueAt(t, i) => Covered(t, i)'
  BY <1>1 DEF TimerInv
<1>2. OnTime(t)'
  <2>1. \A x \in Tags : <<x, t>> \in Pending' \cup executed' => <<x, t>> \in Pending \cup executed
    BY <1>1
  <2> QED BY <2>1 DEF TimerInv, OnTime
<1>3. <<"reschedule", t>> \in synthetic' => <<latest', t>> \in executed'
  BY <1>1
<1>4. ASSUME NEW i \in Nat, DueAt(t, i) PROVE Covered(t, i)'
  <2>1. Covered(t, i)
    BY <1>4 DEF TimerInv
  <2>2. CASE <<Absolute(i), t>> \in executed \/ Beyond(Absolute(i))
    BY <1>1, <2>2, AbsoluteType DEF Covered
  <2>3. ASSUME NEW j \in Nat, j <= i, <<Absolute(j), t>> \in Pending PROVE Covered(t, i)'
    <3>1. CASE <<Absolute(j), t>> \in Pending'
      BY <2>3, <3>1 DEF Covered
    <3>2. CASE tag = Absolute(j) /\ t \in plan
      <4>1. CASE j = i
        BY <1>1, <3>2, <4>1 DEF Covered
      <4>2. CASE j < i
        BY <1>1, <3>2, <4>2 DEF Covered, Absolute
      <4> QED BY <2>3, <4>1, <4>2
    <3> QED BY <2>3, <3>1, <3>2
  <2> QED BY <1>1, <2>1, <2>2, <2>3 DEF Covered
<1> QED BY <1>2, <1>3, <1>4

LEMMA TimerInvLoop ==
  SInv /\ ShutInv /\ LogicalInv /\ SimInv /\ TimerInv /\ Loop => TimerInv'
<1> SUFFICES ASSUME SInv, ShutInv, LogicalInv, SimInv, TimerInv, Loop PROVE TimerInv'
  OBVIOUS
<1>1. CASE Startup
  <2>1. /\ synthetic = {} /\ executed' = {<<ORIGIN, STARTUP>>} /\ executed = {} /\ Pending = {} /\ Pending' = {}
    <3>1. event_queue = <<>> /\ future_events = <<>> /\ cur = None /\ executed = {} /\ synthetic = {}
      BY <1>1 DEF Startup, LogicalInv, SInv, PcInv, SimInv, TimerInv
    <3> QED BY <1>1, <3>1, EmptyWork DEF Startup, ProcessTag, Pending
  <2>2. pc' # "react" => synthetic' = {}
    BY <1>1 DEF Startup, ProcessTag, AfterWave
  <2> SUFFICES ASSUME NEW t \in Timers
               PROVE  /\ OnTime(t)'
                      /\ <<"reschedule", t>> \in synthetic' => <<latest', t>> \in executed'
                      /\ \A i \in Nat : DueAt(t, i) => Covered(t, i)'
    BY <2>2 DEF TimerInv
  <2>3. t # STARTUP /\ STARTUP \in Reacting
    BY TriggersAssumption, ReactingAssumption
  <2>4. <<"bootstrap", t>> \in synthetic' /\ <<"reschedule", t>> \notin synthetic'
    <3>1. {STARTUP} \cap Reacting # {} /\ t \notin {STARTUP}
      BY <2>3
    <3>2. synthetic' = {<<"bootstrap", x>> : x \in Timers \cap {y \in Timers : STARTUP \in {STARTUP}}}
                       \cup {<<"reschedule", x>> : x \in {STARTUP} \cap Timers}
      BY <1>1, <3>1 DEF Startup, ProcessTag
    <3> QED BY <3>1, <3>2
  <2>5. OnTime(t)'
    BY <2>1, <2>3 DEF OnTime
  <2> QED BY <2>4, <2>5 DEF Covered
<1>2. CASE FlushEnd \/ SleepEnd \/ TakeNothing \/ ReceiveTimeout \/ ReceiveDisconnected \/ Notify \/ Drop
  <2>1. /\ pc # "startup" /\ synthetic' = {} /\ Pending' = Pending
        /\ UNCHANGED <<latest, synthetic, executed, shutdown_time>>
    BY <1>2 DEF FlushEnd, SleepEnd, TakeNothing, ReceiveTimeout, ReceiveDisconnected, Notify, Drop,
                TimerInv, loopVars, waveVars, history, Pending
  <2> QED BY <2>1, TimersStay
<1>3. ~(FlushEvent \/ SleepInterrupted \/ ReceiveEvent)
  BY DEF FlushEvent, SleepInterrupted, ReceiveEvent, LogicalInv
<1>4. CASE TakeEvent
  <2>1. event_queue \in Seq(Events) /\ Head(event_queue) \in Events
    BY <1>4, HeadTailProperties DEF TakeEvent, SInv, TypeOK
  <2>2. WorkOf(event_queue) = Work(cur') \cup WorkOf(event_queue') /\ cur' # None /\ cur = None
    BY <1>4, <2>1, HeadTailWork, NoneIsNoTag DEF TakeEvent, SInv, PcInv
  <2>3. /\ pc # "startup" /\ synthetic' = {} /\ Pending' = Pending
        /\ UNCHANGED <<latest, synthetic, executed, shutdown_time>>
    BY <1>4, <2>2 DEF TakeEvent, TimerInv, waveVars, history, Pending
  <2> QED BY <2>3, TimersStay
<1>5. CASE DiscardLateEvent
  <2>1. /\ event_queue \in Seq(Events) /\ event_queue # <<>> /\ event_queue' = Tail(event_queue)
        /\ shutdown_time # None /\ Before(shutdown_time, Head(event_queue).tag) /\ shutdown_time \in Tags
        /\ pc = "take" /\ pc' = "exit" /\ synthetic = {}
        /\ UNCHANGED <<latest, cur, future_events, shutdown_time, synthetic, executed>>
    BY <1>5 DEF DiscardLateEvent, IsAfterShutdown, SInv, TypeOK, TimerInv, waveVars, history
  <2>2. WorkOf(event_queue) = Work(Head(event_queue)) \cup WorkOf(event_queue')
    BY <2>1, HeadTailWork
  <2>3. Pending' \subseteq Pending /\ \A w \in Pending \ Pending' : w[1] = Head(event_queue).tag
    BY <2>1, <2>2, WorkTags DEF Pending
  <2> SUFFICES ASSUME NEW t \in Timers
               PROVE  /\ OnTime(t)'
                      /\ <<"reschedule", t>> \in synthetic' => <<latest', t>> \in executed'
                      /\ \A i \in Nat : DueAt(t, i) => Covered(t, i)'
    BY <2>1 DEF TimerInv
  <2>4. OnTime(t)'
    BY <2>1, <2>3 DEF TimerInv, OnTime
  <2>5. ASSUME NEW i \in Nat, DueAt(t, i) PROVE Covered(t, i)'
    <3>1. Covered(t, i)
      BY <2>5 DEF TimerInv
    <3>2. ASSUME NEW j \in Nat, j <= i, <<Absolute(j), t>> \in Pending PROVE Covered(t, i)'
      <4>1. CASE <<Absolute(j), t>> \in Pending'
        BY <3>2, <4>1 DEF Covered
      <4>2. CASE <<Absolute(j), t>> \notin Pending'
        <5>1. <<Absolute(j), t>>[1] = Head(event_queue).tag
          BY <2>3, <3>2, <4>2
        <5>2. Before(shutdown_time, Absolute(j))
          BY <2>1, <5>1
        <5>3. Before(shutdown_time, Absolute(i))
          BY <2>1, <3>2, <5>2 DEF Before, Absolute, Tags
        <5> QED BY <2>1, <5>3 DEF Covered, Beyond
      <4> QED BY <4>1, <4>2
    <3> QED BY <2>1, <3>1, <3>2 DEF Covered, Beyond
  <2> QED BY <2>1, <2>4, <2>5
<1>6. CASE ExecuteEvent \/ ExecuteStop
  <2> DEFINE plan == IF ExecuteStop THEN cur.reactions \cup {SHUTDOWN} ELSE cur.reactions
             sd == IF ExecuteStop THEN TRUE ELSE FALSE
  <2>1. /\ pc = "execute" /\ cur \in Events /\ cur # None /\ cur.tag \in Tags /\ cur.tag # None
        /\ cur.reactions \in SUBSET Triggers /\ STARTUP \notin cur.reactions /\ ~IsAfterShutdown(cur.tag)
        /\ shutdown_time \in Tags \cup {None} /\ future_events = <<>>
    BY <1>6, NoneIsNoTag DEF ExecuteEvent, ExecuteStop, SInv, TypeOK, PcInv, Events, SimInv, Proper,
                             ShutInv, LogicalInv
  <2>2. /\ ProcessTag(sd, cur.tag, plan) /\ cur' = None
        /\ UNCHANGED <<event_queue, future_events>>
        /\ shutdown_time' \in {shutdown_time, cur.tag}
    BY <1>6 DEF ExecuteEvent, ExecuteStop, Shutdown
  <2>3. plan \in SUBSET Triggers /\ Timers \cap plan = Timers \cap cur.reactions /\ STARTUP \notin plan
    BY <2>1, ActionTypes, TriggersAssumption
  <2>4. Pending = Pending' \cup ({cur.tag} \X cur.reactions)
    BY <2>1, <2>2, EmptyWork DEF Pending, Work
  <2>5. \A x \in Tags : Beyond(x) => Beyond(x)'
    <3> SUFFICES ASSUME NEW x \in Tags, Beyond(x) PROVE Beyond(x)'
      OBVIOUS
    <3>1. shutdown_time \in Tags /\ Before(shutdown_time, x) /\ shutdown_time # None
      BY <2>1 DEF Beyond
    <3>2. AtOrBefore(cur.tag, shutdown_time)
      BY <2>1, <3>1, BeforeTotal DEF IsAfterShutdown, AtOrBefore
    <3>3. Before(cur.tag, x)
      BY <2>1, <3>1, <3>2, BeforeTransitive DEF AtOrBefore
    <3> QED BY <2>1, <2>2, <3>1, <3>3 DEF Beyond
  <2>6. sd \in BOOLEAN
    OBVIOUS
  <2> HIDE DEF plan, sd
  <2> QED BY <2>1, <2>2, <2>3, <2>4, <2>5, <2>6, TimersProcessed
<1>7. CASE ExitLoop
  <2>1. /\ pc = "exit" /\ ProcessTag(TRUE, ShutdownTag, {SHUTDOWN}) /\ ShutdownTag \in Tags
        /\ shutdown_time # None => UNCHANGED shutdown_time
        /\ UNCHANGED <<event_queue, future_events, cur>>
    <3>1. now \in Nat /\ shutdown_time \in Tags \cup {None}
      BY DEF SInv, TypeOK
    <3> QED BY <1>7, <3>1, AbsoluteType DEF ExitLoop, Shutdown, ShutdownTag
  <2>2. /\ {SHUTDOWN} \in SUBSET Triggers /\ Timers \cap {SHUTDOWN} = Timers \cap {} /\ STARTUP \notin {SHUTDOWN}
    BY ActionTypes, TriggersAssumption
  <2>3. Pending' = Pending
    BY <2>1 DEF Pending
  <2>4. \A x \in Tags : Beyond(x) => Beyond(x)'
    BY <2>1 DEF Beyond
  <2> HIDE DEF ShutdownTag
  <2>5. {} \in SUBSET Triggers /\ {ShutdownTag} \X {} = {}
    OBVIOUS
  <2> QED BY <2>1, <2>2, <2>3, <2>4, <2>5, TimersProcessed
<1> QED BY <1>1, <1>2, <1>3, <1>4, <1>5, <1>6, <1>7 DEF Loop

LEMMA TimerInvHolds == ASSUME LogicalOnly PROVE Spec => []TimerInv
<1>1. SInv /\ ShutInv /\ LogicalInv /\ SimInv /\ TimerInv /\ [Next]_vars => TimerInv'
  <2>1. TimerInv /\ (UNCHANGED vars \/ Ended \/ Tick) => TimerInv'
    BY DEF Ended, Tick, vars, loopVars, waveVars, history, TimerInv, OnTime, Covered, DueAt, Beyond, Pending,
           TimerIsPresent
  <2> QED BY <2>1, TimerInvLoop, TimerInvWave DEF Next, LogicalOnly
<1> QED BY SInvHolds, ShutInvHolds, LogicalInvHolds, SimInvHolds, TimerInvInit, <1>1, PTL DEF Spec

-----------------------------------------------------------------------------
(* The values of logical actions for the tags to come, and for the tag that is
   processed *)
FreshInv ==
  /\ ~is_shutdown /\ pc # "exit" =>
       \A a \in LogicalActions, tag \in Tags :
         latest = None \/ Before(latest, tag) => (<<a, tag>> \in values <=> <<tag, a>> \in Pending)
  /\ pc = "exit" =>
       \A a \in LogicalActions, tag \in Tags :
         <<a, tag>> \in values /\ (Before(latest, tag) \/ LogicalActions \subseteq Reacting) => Beyond(tag)
  /\ InWave => \A a \in LogicalActions : <<a, latest>> \in values <=> a \in reactions

LEMMA PendingAhead ==
  ASSUME LogicalInv, latest # None
  PROVE  \A w \in Pending : Before(latest, w[1])
<1>1. \A w \in Pending : w[1] \in TagsOf(event_queue) \cup TagsOf(future_events) \/ (cur # None /\ w[1] = cur.tag)
  BY WorkTags DEF Pending
<1> QED BY <1>1 DEF LogicalInv, EventsAhead

(* A step that does not concern the logical actions. *)
LEMMA FreshStays ==
  ASSUME FreshInv, pc' # "exit" \/ pc = "exit", InWave' => InWave, pc = "exit" => pc' = "exit",
         UNCHANGED <<latest, shutdown_time, is_shutdown>>,
         \A a \in LogicalActions, tag \in Tags \cup {latest} :
           /\ <<a, tag>> \in values' <=> <<a, tag>> \in values
           /\ <<tag, a>> \in Pending' <=> <<tag, a>> \in Pending,
         \A a \in LogicalActions : a \in reactions' <=> a \in reactions
  PROVE  FreshInv'
BY DEF FreshInv, Beyond

LEMMA FreshWave == LogicalOnly /\ SInv /\ LogicalInv /\ FreshInv /\ Wave => FreshInv'
<1> SUFFICES ASSUME LogicalOnly, SInv, LogicalInv, FreshInv, Wave PROVE FreshInv'
  OBVIOUS
<1>0. pc = "react" => latest \in Tags /\ latest # None
  BY NoneIsNoTag DEF SInv, PcInv
<1>1. ASSUME NEW tag \in Tags, NEW t \in Timers, EnqueueLater(tag, t), pc = "react",
             UNCHANGED <<pc, loopVars, is_shutdown, reactions, values>>
      PROVE  FreshInv'
  <2>1. Pending' = Pending \cup {<<tag, t>>}
    BY <1>1, ActionTypes, EnqueueLive DEF loopVars
  <2>2. \A a \in LogicalActions, x \in Tags \cup {latest} : <<x, a>> \in Pending' <=> <<x, a>> \in Pending
    BY <2>1, NotLogical
  <2> QED BY <1>1, <2>2, FreshStays DEF InWave, loopVars
<1>2. ASSUME NEW t \in Timers, BootstrapTimer(t) PROVE FreshInv'
  <2>1. CASE TimerOffset[t] = 0
    <3>1. /\ pc' = "react" /\ pc = "react" /\ reactions' = reactions \cup {t}
          /\ UNCHANGED <<latest, shutdown_time, event_queue, cur, future_events, is_shutdown, values>>
      BY <1>2, <2>1 DEF BootstrapTimer, loopVars
    <3>2. Pending' = Pending /\ \A a \in LogicalActions : a \in reactions' <=> a \in reactions
      BY <3>1, NotLogical DEF Pending
    <3> QED BY <3>1, <3>2, FreshStays DEF InWave
  <2>2. CASE TimerOffset[t] # 0
    <3>1. Successor(latest, TimerOffset[t]) \in Tags
      BY <1>0, <1>2, SuccessorType, ConfigurationAssumption DEF BootstrapTimer
    <3> QED BY <1>1, <1>2, <2>2, <3>1 DEF BootstrapTimer
  <2> QED BY <2>1, <2>2
<1>3. ASSUME NEW t \in Timers, RescheduleTimer(t) PROVE FreshInv'
  <2>1. CASE TimerPeriod[t] = 0
    <3>1. /\ pc' = pc /\ Pending' = Pending
          /\ UNCHANGED <<latest, shutdown_time, is_shutdown, values, reactions>>
      BY <1>3, <2>1 DEF RescheduleTimer, loopVars, Pending
    <3> QED BY <3>1, FreshStays DEF InWave
  <2>2. CASE TimerPeriod[t] # 0
    <3>1. Successor(latest, TimerPeriod[t]) \in Tags
      BY <1>0, <1>3, SuccessorType, ConfigurationAssumption DEF RescheduleTimer
    <3> QED BY <1>1, <1>3, <2>2, <3>1 DEF RescheduleTimer
  <2> QED BY <2>1, <2>2
<1>4. ASSUME NEW a \in LogicalActions, NEW d \in Delays, ScheduleLogical(a, d) PROVE FreshInv'
  <2> DEFINE eta == Successor(latest, MinDelay[a] + d)
  <2>1. MinDelay[a] + d \in Nat /\ pc = "react" /\ latest.micro < MicroMax
    BY <1>4, ConfigurationAssumption, ActionTypes DEF ScheduleLogical, Call
  <2>2. eta \in Tags /\ a \in Triggers /\ Before(latest, eta)
    BY <1>0, <2>1, SuccessorIsAfter, ActionTypes
  <2>3. /\ EnqueueLater(eta, a) /\ values' = values \cup {<<a, eta>>} /\ pc' = pc
        /\ UNCHANGED <<event_queue, cur, latest, is_shutdown, reactions>>
    BY <1>4 DEF ScheduleLogical, Call, loopVars
  <2> HIDE DEF eta
  <2>4. Pending' = Pending \cup {<<eta, a>>} /\ eta # latest
    BY <1>0, <2>1, <2>2, <2>3, EnqueueLive, BeforeIrreflexive
  <2> QED BY <2>1, <2>3, <2>4 DEF FreshInv, InWave
<1>5. ASSUME NEW d \in Delays, RequestStop(d) PROVE FreshInv'
  <2>1. pc = "react" /\ d \in Nat
    BY <1>5, ConfigurationAssumption DEF RequestStop, Call
  <2>2. /\ future_events \in Seq(Events) /\ TerminateAt(Successor(latest, d)) \in Events
        /\ Work(TerminateAt(Successor(latest, d))) = {}
    BY <1>0, <2>1, SuccessorType, TerminateAtType DEF SInv, TypeOK, Work, TerminateAt
  <2>3. /\ WorkOf(future_events') = WorkOf(future_events) /\ pc' = pc
        /\ UNCHANGED <<event_queue, cur, latest, is_shutdown, reactions, values, shutdown_time>>
    BY <1>5, <2>2, AppendWork DEF RequestStop, Call, loopVars
  <2>4. Pending' = Pending
    BY <2>3 DEF Pending
  <2> QED BY <2>3, <2>4, FreshStays DEF InWave
<1>6. CASE FinishReactions \/ DrainEnd
  BY <1>6, FreshStays DEF FinishReactions, DrainEnd, loopVars, waveVars, InWave, Pending
<1>7. CASE DrainEvent
  <2>1. /\ future_events \in Seq(Events) /\ event_queue \in Seq(Events) /\ Sorted(event_queue)
        /\ future_events # <<>> /\ Head(future_events) \in Events
    BY <1>7, HeadTailProperties DEF DrainEvent, SInv, TypeOK, QueueSorted
  <2>2. /\ WorkOf(event_queue') = WorkOf(event_queue) \cup Work(Head(future_events))
        /\ WorkOf(future_events) = Work(Head(future_events)) \cup WorkOf(future_events')
    BY <1>7, <2>1, PushWork, HeadTailWork DEF DrainEvent
  <2>3. /\ pc' = pc /\ Pending' = Pending /\ pc = "drain"
        /\ UNCHANGED <<latest, is_shutdown, reactions, values, shutdown_time>>
    BY <1>7, <2>2 DEF DrainEvent, history, Pending
  <2> QED BY <2>3, FreshStays DEF InWave
<1>8. CASE CleanupTag
  <2>1. /\ ~InWave' /\ pc' # "exit" /\ values' = Forget(latest) /\ Pending' = Pending
        /\ UNCHANGED <<is_shutdown, latest>> /\ latest \in Tags /\ latest # None /\ pc = "cleanup"
    BY <1>8, NoneIsNoTag DEF CleanupTag, AfterWave, InWave, loopVars, Pending, SInv, PcInv
  <2>2. \A a \in LogicalActions, tag \in Tags :
          Before(latest, tag) => (<<a, tag>> \in values' <=> <<a, tag>> \in values)
    BY <2>1, BeforeIrreflexive DEF Forget
  <2> QED BY <2>1, <2>2 DEF FreshInv
<1> QED BY <1>2, <1>3, <1>4, <1>5, <1>6, <1>7, <1>8 DEF Wave, ReactionCall, LogicalOnly

MatchIfReacting == LogicalActions \subseteq Reacting => MatchInv

LEMMA MatchIfReactingHolds == ASSUME LogicalOnly PROVE Spec => []MatchIfReacting
<1>1. CASE LogicalActions \subseteq Reacting
  <2>1. MatchInv => MatchIfReacting
    BY DEF MatchIfReacting
  <2> QED BY <1>1, <2>1, MatchInvHolds, PTL
<1>2. CASE ~(LogicalActions \subseteq Reacting)
  <2>1. MatchIfReacting
    BY <1>2 DEF MatchIfReacting
  <2> QED BY <2>1, PTL
<1> QED BY <1>1, <1>2

LEMMA FreshLoop ==
  ASSUME Timeout # None \/ LogicalActions \subseteq Reacting
  PROVE  SInv /\ ShutInv /\ LogicalInv /\ MatchIfReacting /\ FreshInv /\ Loop => FreshInv'
<1> SUFFICES ASSUME SInv, ShutInv, LogicalInv, MatchIfReacting, FreshInv, Loop PROVE FreshInv'
  OBVIOUS
<1>1. CASE Startup
  <2>1. /\ event_queue = <<>> /\ future_events = <<>> /\ cur = None /\ latest = None
        /\ ~is_shutdown /\ pc = "startup"
    BY <1>1 DEF Startup, LogicalInv, SInv, PcInv, ShutInv
  <2>2. /\ Pending = {} /\ Pending' = {} /\ values' = values /\ latest' = ORIGIN /\ pc' # "exit"
        /\ ~is_shutdown' /\ (InWave' => reactions' = {STARTUP})
    BY <1>1, <2>1, EmptyWork DEF Startup, ProcessTag, AfterWave, Pending, InWave
  <2>3. \A a \in LogicalActions, tag \in Tags : <<a, tag>> \notin values
    BY <2>1, <2>2 DEF FreshInv
  <2>4. \A a \in LogicalActions : a # STARTUP
    BY NotLogical
  <2> QED BY <2>2, <2>3, <2>4, OriginType DEF FreshInv
<1>2. ~(FlushEvent \/ SleepInterrupted \/ ReceiveEvent)
  BY DEF FlushEvent, SleepInterrupted, ReceiveEvent, LogicalInv
<1>3. CASE FlushEnd \/ SleepEnd
  BY <1>3, FreshStays DEF FlushEnd, SleepEnd, loopVars, waveVars, InWave, Pending
<1>4. CASE TakeEvent
  <2>1. event_queue \in Seq(Events) /\ Head(event_queue) \in Events
    BY <1>4, HeadTailProperties DEF TakeEvent, SInv, TypeOK
  <2>2. WorkOf(event_queue) = Work(cur') \cup WorkOf(event_queue') /\ cur' # None /\ cur = None
    BY <1>4, <2>1, HeadTailWork, NoneIsNoTag DEF TakeEvent, SInv, PcInv
  <2>3. /\ pc' # "exit" /\ pc = "take" /\ ~InWave' /\ Pending' = Pending
        /\ UNCHANGED <<latest, shutdown_time, is_shutdown, values, reactions>>
    BY <1>4, <2>2 DEF TakeEvent, InWave, waveVars, Pending
  <2> QED BY <2>3, FreshStays
<1>5. CASE DiscardLateEvent
  <2>1. /\ event_queue \in Seq(Events) /\ event_queue # <<>> /\ event_queue' = Tail(event_queue)
        /\ shutdown_time # None /\ Before(shutdown_time, Head(event_queue).tag) /\ shutdown_time \in Tags
        /\ pc = "take" /\ pc' = "exit" /\ ~is_shutdown /\ cur = None /\ future_events = <<>>
        /\ UNCHANGED <<latest, shutdown_time, is_shutdown, values>>
        /\ QueueSorted
    BY <1>5 DEF DiscardLateEvent, IsAfterShutdown, SInv, TypeOK, PcInv, ShutInv, LogicalInv, waveVars
  <2>2. \A w \in Pending : w[1] \in TagsOf(event_queue)
    BY <2>1, EmptyWork, WorkTags DEF Pending
  <2>3. TagsOf(event_queue) \subseteq Tags
    BY <2>1, QueueElements DEF TagsOf
  <2>4. \A tag \in TagsOf(event_queue) : Before(shutdown_time, tag)
    <3>1. /\ TagsOf(event_queue) = TagsOf(Tail(event_queue)) \cup {Head(event_queue).tag}
          /\ \A tag \in TagsOf(Tail(event_queue)) : Before(Head(event_queue).tag, tag)
      BY <2>1, HeadTailTags, TailProperties DEF QueueSorted
    <3> QED BY <2>1, <2>3, <3>1, BeforeTransitive
  <2>5. ASSUME NEW a \in LogicalActions, NEW tag \in Tags, <<a, tag>> \in values,
               Before(latest, tag) \/ LogicalActions \subseteq Reacting
        PROVE  Beyond(tag)
    <3>1. <<tag, a>> \in Pending
      BY <2>1, <2>5 DEF FreshInv, MatchIfReacting, MatchInv, Live, InWave
    <3>2. <<tag, a>>[1] \in TagsOf(event_queue)
      BY <2>2, <3>1
    <3> QED BY <2>1, <2>4, <3>2 DEF Beyond
  <2> QED BY <2>1, <2>5 DEF FreshInv, InWave, Beyond
<1>6. CASE TakeNothing \/ ReceiveTimeout \/ ReceiveDisconnected
  <2>1. /\ event_queue = <<>> /\ pc \in {"take", "wait"} /\ pc' \in {"exit", "wait"} /\ cur = None
        /\ future_events = <<>> /\ ~is_shutdown
        /\ UNCHANGED <<latest, cur, event_queue, future_events, shutdown_time, is_shutdown, values, reactions>>
    BY <1>6 DEF TakeNothing, ReceiveTimeout, ReceiveDisconnected, LogicalInv, ShutInv, SInv, PcInv,
                loopVars, waveVars
  <2>2. Pending = {} /\ Pending' = {}
    BY <2>1, EmptyWork DEF Pending
  <2>3. ASSUME NEW a \in LogicalActions, NEW tag \in Tags, <<a, tag>> \in values,
               Before(latest, tag) \/ LogicalActions \subseteq Reacting
        PROVE  FALSE
    BY <2>1, <2>2, <2>3 DEF FreshInv, MatchIfReacting, MatchInv, Live, InWave
  <2> QED BY <2>1, <2>2, <2>3 DEF FreshInv, InWave
<1>7. CASE ExecuteEvent \/ ExecuteStop
  <2>1. /\ pc = "execute" /\ cur \in Events /\ cur # None /\ cur.tag \in Tags /\ latest \in Tags
        /\ Before(latest, cur.tag) /\ future_events = <<>> /\ ~is_shutdown
        /\ \A tag \in TagsOf(event_queue) : Before(cur.tag, tag)
    BY <1>7, NoneIsNoTag DEF ExecuteEvent, ExecuteStop, SInv, PcInv, Events, ShutInv, LogicalInv, EventsAhead
  <2>2. /\ latest' = cur.tag /\ cur' = None /\ pc' # "exit" /\ values' = values
        /\ UNCHANGED <<event_queue, future_events>>
        /\ InWave' => reactions' \in {cur.reactions, cur.reactions \cup {SHUTDOWN}}
    BY <1>7 DEF ExecuteEvent, ExecuteStop, Shutdown, ProcessTag, AfterWave, InWave
  <2>3. Pending = WorkOf(event_queue) \cup Work(cur) /\ Pending' = WorkOf(event_queue)
    BY <2>1, <2>2, EmptyWork DEF Pending
  <2>4. \A w \in WorkOf(event_queue) : Before(cur.tag, w[1])
    BY <2>1, WorkTags
  <2>5. \A a \in LogicalActions, tag \in Tags :
          Before(latest, tag) => (<<a, tag>> \in values <=> <<tag, a>> \in Pending)
    BY <2>1 DEF FreshInv
  <2>6. ASSUME NEW a \in LogicalActions, NEW tag \in Tags, Before(cur.tag, tag)
        PROVE  <<a, tag>> \in values <=> <<tag, a>> \in Pending'
    <3>1. Before(latest, tag) /\ tag # cur.tag
      BY <2>1, <2>6, BeforeTransitive, BeforeIrreflexive
    <3> QED BY <2>3, <2>5, <3>1 DEF Work
  <2>7. ASSUME NEW a \in LogicalActions
        PROVE  <<a, cur.tag>> \in values <=> a \in cur.reactions
    <3>1. <<cur.tag, a>> \notin WorkOf(event_queue)
      <4>1. <<cur.tag, a>>[1] = cur.tag /\ ~Before(cur.tag, cur.tag)
        BY <2>1, BeforeIrreflexive
      <4> QED BY <2>4, <4>1
    <3>2. <<a, cur.tag>> \in values <=> <<cur.tag, a>> \in Pending
      BY <2>1, <2>5
    <3> QED BY <2>3, <3>1, <3>2 DEF Work
  <2>8. \A a \in LogicalActions : a # SHUTDOWN
    BY NotLogical
  <2>9. latest' # None
    BY <2>1, <2>2, NoneIsNoTag
  <2> QED BY <2>2, <2>6, <2>7, <2>8, <2>9 DEF FreshInv
<1>8. CASE ExitLoop
  <2>1. /\ pc = "exit" /\ pc' # "exit" /\ is_shutdown' /\ latest' = ShutdownTag /\ values' = values
        /\ (InWave' => reactions' = {SHUTDOWN}) /\ latest \in Tags /\ latest # None /\ ~is_shutdown
        /\ shutdown_time \in Tags \cup {None} /\ now \in Nat
    BY <1>8, NoneIsNoTag DEF ExitLoop, Shutdown, ProcessTag, AfterWave, InWave, SInv, TypeOK, PcInv, ShutInv
  <2>2. ASSUME NEW a \in LogicalActions PROVE <<a, latest'>> \notin values
    <3>1. CASE shutdown_time # None
      <4>1. latest' = shutdown_time /\ shutdown_time \in Tags /\ Before(latest, shutdown_time)
        BY <2>1, <3>1 DEF ShutdownTag, LogicalInv
      <4> QED BY <2>1, <4>1, BeforeIrreflexive DEF FreshInv, Beyond
    <3>2. CASE shutdown_time = None
      <4>1. latest' \in Tags /\ LogicalActions \subseteq Reacting
        BY <2>1, <3>2, AbsoluteType DEF ShutdownTag, ShutInv
      <4> QED BY <2>1, <3>2, <4>1 DEF FreshInv, Beyond
    <3> QED BY <3>1, <3>2
  <2>3. \A a \in LogicalActions : a # SHUTDOWN
    BY NotLogical
  <2> QED BY <2>1, <2>2, <2>3 DEF FreshInv
<1>9. CASE Notify \/ Drop
  BY <1>9 DEF Notify, Drop, loopVars, waveVars, FreshInv, InWave, ShutInv
<1> QED BY <1>1, <1>2, <1>3, <1>4, <1>5, <1>6, <1>7, <1>8, <1>9 DEF Loop

LEMMA FreshInvHolds ==
  ASSUME LogicalOnly, Timeout # None \/ LogicalActions \subseteq Reacting PROVE Spec => []FreshInv
<1>1. Init => FreshInv
  <2> SUFFICES ASSUME Init PROVE FreshInv
    OBVIOUS
  <2>1. Pending = {} /\ values = {} /\ pc = "startup"
    BY EmptyWork DEF Init, Pending
  <2> QED BY <2>1 DEF FreshInv, InWave
<1>2. SInv /\ ShutInv /\ LogicalInv /\ MatchIfReacting /\ FreshInv /\ [Next]_vars => FreshInv'
  <2>1. FreshInv /\ (UNCHANGED vars \/ Ended \/ Tick) => FreshInv'
    BY DEF Ended, Tick, vars, loopVars, waveVars, FreshInv, InWave, Beyond, Pending
  <2> QED BY <2>1, FreshLoop, FreshWave DEF Next, LogicalOnly
<1> QED BY SInvHolds, ShutInvHolds, LogicalInvHolds, MatchIfReactingHolds, <1>1, <1>2, PTL DEF Spec

(* When the reactions of a tag have run, is_present has told them which triggers
   the tag was for: a logical action is present if it is processed at the tag,
   and a timer if it was triggered at the instant of the tag.  For the actions,
   either the program has a timeout or each of them triggers a reaction: a value
   that no reaction sees is not cleaned up, and shows again when a program
   without a timeout ends at a tag of its past. *)
THEOREM PresenceAgreesHolds ==
  ASSUME LogicalOnly, Timeout # None \/ LogicalActions \subseteq Reacting
  PROVE  Spec => []PresenceAgrees
<1>1. SInv /\ ShutInv /\ LogicalInv /\ TimerInv /\ FreshInv => PresenceAgrees
  <2> SUFFICES ASSUME SInv, ShutInv, LogicalInv, TimerInv, FreshInv, pc = "drain"
               PROVE  /\ \A a \in LogicalActions : IsPresent(a) <=> a \in reactions
                      /\ \A t \in Timers : IsPresent(t) <=> <<Absolute(latest.offset), t>> \in executed
    BY DEF PresenceAgrees
  <2>1. latest \in Tags /\ latest # None /\ shutdown_time \in Tags \cup {None}
        /\ synthetic = {} /\ latest.offset \in Nat
    BY NoneIsNoTag DEF SInv, TypeOK, PcInv, TimerInv, Tags
  <2>2. ASSUME NEW a \in LogicalActions PROVE IsPresent(a) <=> a \in reactions
    <3>1. a \notin Timers
      BY NotLogical
    <3> QED BY <3>1 DEF IsPresent, ActionIsPresent, FreshInv, InWave
  <2>3. ASSUME NEW t \in Timers PROVE IsPresent(t) <=> <<Absolute(latest.offset), t>> \in executed
    <3> DEFINE i == latest.offset
    <3>1. IsPresent(t) <=> DueAt(t, i)
      BY DEF IsPresent, DueAt, TimerIsPresent, Absolute
    <3>2. <<Absolute(i), t>> \in executed => DueAt(t, i)
      <4>1. Absolute(i) \in Tags /\ Absolute(i).offset = i
        BY <2>1, AbsoluteType DEF Absolute
      <4> HIDE DEF i
      <4> QED BY <4>1 DEF TimerInv, OnTime
    <3>3. ASSUME DueAt(t, i) PROVE <<Absolute(i), t>> \in executed
      <4>1. Covered(t, i)
        BY <2>1, <3>3 DEF TimerInv
      <4>2. ~Beyond(Absolute(i))
        <5>1. shutdown_time # None => shutdown_time = latest \/ Before(latest, shutdown_time)
          BY <2>1 DEF LogicalInv, ShutInv
        <5> QED BY <2>1, <5>1 DEF Beyond, Before, Absolute, Tags
      <4>3. ASSUME NEW j \in Nat, j <= i, <<Absolute(j), t>> \in Pending PROVE FALSE
        <5>1. Before(latest, <<Absolute(j), t>>[1])
          BY <2>1, <4>3, PendingAhead
        <5>2. Before(latest, Absolute(j))
          BY <5>1
        <5> QED BY <2>1, <4>3, <5>2 DEF Before, Absolute, Tags
      <4> QED BY <2>1, <4>1, <4>2, <4>3 DEF Covered
    <3> QED BY <3>1, <3>2, <3>3
  <2> QED BY <2>2, <2>3
<1> QED BY SInvHolds, ShutInvHolds, LogicalInvHolds, TimerInvHolds, FreshInvHolds, <1>1, PTL
=============================================================================
