-------------------------- MODULE SchedulerProofs --------------------------
(***************************************************************************)
(* Proofs about Scheduler, for every program: types, the order of the      *)
(* queue, how the run ends, and that no event is lost.                     *)
(***************************************************************************)
EXTENDS Scheduler, EventsProofs

LEMMA SuccessorType ==
  ASSUME NEW t \in Tags, NEW offset \in Nat
  PROVE  Successor(t, offset) \in Tags
<1>1. CASE t.micro < MicroMax
  BY <1>1, SuccessorIsAfter
<1>2. CASE t.micro = MicroMax /\ offset = 0
  <2>1. (MicroMax + 1) % (MicroMax + 1) = 0
    BY MicroMaxAssumption
  <2> QED BY <1>2, <2>1, MicroMaxAssumption DEF Successor, NextMicrostep, Tags
<1>3. CASE offset # 0
  BY <1>3, SuccessorIsAfter
<1> QED BY <1>1, <1>2, <1>3, MicroMaxAssumption DEF Tags

LEMMA ExecuteType ==
  ASSUME NEW tag \in Tags, NEW t \in Triggers
  PROVE  Execute(tag, t) \in Events /\ Execute(tag, t).tag = tag
BY DEF Execute, Events

LEMMA TerminateAtType ==
  ASSUME NEW tag \in Tags
  PROVE  TerminateAt(tag) \in Events /\ TerminateAt(tag).tag = tag
BY DEF TerminateAt, Events

LEMMA ActionTypes ==
  /\ Actions \subseteq Triggers /\ Timers \subseteq Triggers
  /\ LogicalActions \subseteq Actions /\ PhysicalActions \subseteq Actions
  /\ STARTUP \in Triggers /\ SHUTDOWN \in Triggers
BY TriggersAssumption DEF Actions

(* What holds at each point of the scheduler's thread. *)
PcInv ==
  /\ pc # "startup" => latest \in Tags
  /\ pc \in {"sleep", "execute"} => cur \in Events
  /\ pc \notin {"sleep", "execute"} => cur = None

SInv == TypeOK /\ QueueSorted /\ PcInv

LEMMA SInvInit == Init => SInv
<1> SUFFICES ASSUME Init PROVE SInv
  OBVIOUS
<1>1. <<>> \in Seq(Events) /\ DOMAIN <<>> = {}
  BY EmptySeq, QueueElements
<1>2. shutdown_time \in Tags \cup {None} /\ stops \subseteq Tags
  BY OriginType, SuccessorType, ConfigurationAssumption DEF Init
<1>3. QueueSorted /\ PcInv
  BY <1>1 DEF Init, QueueSorted, Sorted, PcInv
<1>4. TypeOK
  BY <1>1, <1>2 DEF Init, TypeOK
<1> QED BY <1>3, <1>4 DEF SInv

(* The effect of process_tag on the types, when it is given a tag and a plan. *)
LEMMA ProcessTagType ==
  ASSUME TypeOK, NEW sd \in BOOLEAN, NEW tag \in Tags, NEW plan \in SUBSET Triggers,
         ProcessTag(sd, tag, plan)
  PROVE  /\ latest' = tag /\ is_shutdown' = sd
         /\ pc' \in {"react", "notify", "flush"}
         /\ reactions' \subseteq Triggers
         /\ synthetic' \subseteq {"bootstrap", "reschedule"} \X Timers
         /\ executed' \subseteq Tags \X Triggers
BY DEF ProcessTag, TypeOK, AfterWave

LEMMA EnqueueLaterType ==
  ASSUME TypeOK, NEW tag \in Tags, NEW t \in Triggers, EnqueueLater(tag, t)
  PROVE  future_events' \in Seq(Events) /\ accepted' \subseteq Tags \X Triggers
BY ExecuteType DEF EnqueueLater, TypeOK

(* A step of the scheduler's thread that makes an API call. *)
LEMMA SInvCall == SInv /\ ReactionCall => SInv'
<1> SUFFICES ASSUME SInv, ReactionCall PROVE SInv'
  OBVIOUS
<1> USE DEF SInv, PcInv, QueueSorted
<1>0. ASSUME Call PROVE latest \in Tags /\ calls' \in Nat
  BY <1>0 DEF Call, TypeOK
<1>1. ASSUME NEW a \in LogicalActions, NEW d \in Delays, ScheduleLogical(a, d) PROVE SInv'
  <2> DEFINE eta == Successor(latest, MinDelay[a] + d)
  <2>1. MinDelay[a] + d \in Nat
    BY ConfigurationAssumption, ActionTypes
  <2>2. eta \in Tags
    BY <1>0, <1>1, <2>1, SuccessorType DEF ScheduleLogical
  <2>3. values' \subseteq Actions \X Tags
    BY <1>1, <2>2, ActionTypes DEF ScheduleLogical, TypeOK
  <2>4. future_events' \in Seq(Events) /\ accepted' \subseteq Tags \X Triggers
    BY <1>1, <2>2, ActionTypes, EnqueueLaterType DEF ScheduleLogical
  <2> HIDE DEF eta
  <2> QED BY <1>0, <1>1, <2>3, <2>4
          DEF ScheduleLogical, TypeOK, loopVars, channel, threadVars
<1>2. ASSUME NEW a \in PhysicalActions, NEW d \in Delays, SchedulePhysical(a, d) PROVE SInv'
  <2>1. now + d \in Nat
    BY ConfigurationAssumption DEF TypeOK
  <2>2. Absolute(now + d) \in Tags
    BY <2>1, AbsoluteType
  <2>3. values' \subseteq Actions \X Tags
    BY <1>2, <2>2, ActionTypes DEF SchedulePhysical, TypeOK
  <2>4. future_events' \in Seq(Events) /\ accepted' \subseteq Tags \X Triggers
    BY <1>2, <2>2, ActionTypes, EnqueueLaterType DEF SchedulePhysical
  <2> QED BY <1>0, <1>2, <2>3, <2>4
          DEF SchedulePhysical, TypeOK, loopVars, channel, threadVars
<1>3. ASSUME NEW d \in Delays, RequestStop(d) PROVE SInv'
  <2>1. Successor(latest, d) \in Tags
    BY <1>0, <1>3, ConfigurationAssumption, SuccessorType DEF RequestStop
  <2>2. future_events' \in Seq(Events) /\ stops' \subseteq Tags
    BY <1>3, <2>1, TerminateAtType DEF RequestStop, TypeOK
  <2> QED BY <1>0, <1>3, <2>2 DEF RequestStop, TypeOK, loopVars, channel, threadVars
<1>4. ASSUME NEW th \in Threads, SpawnThread(th) PROVE SInv'
  BY <1>0, <1>4 DEF SpawnThread, TypeOK, loopVars, channel, threadVars, history
<1> QED BY <1>1, <1>2, <1>3, <1>4 DEF ReactionCall

(* The other steps inside process_tag. *)
LEMMA SInvWave == SInv /\ Wave => SInv'
<1> SUFFICES ASSUME SInv, Wave PROVE SInv'
  OBVIOUS
<1> USE DEF SInv, PcInv, QueueSorted
<1>1. ASSUME NEW t \in Timers, BootstrapTimer(t) PROVE SInv'
  <2>1. latest \in Tags /\ t \in Triggers /\ TimerOffset[t] \in Nat
    BY <1>1, ActionTypes, ConfigurationAssumption DEF BootstrapTimer
  <2>2. CASE TimerOffset[t] = 0
    BY <1>1, <2>1, <2>2 DEF BootstrapTimer, TypeOK, loopVars, channel, threadVars
  <2>3. CASE TimerOffset[t] # 0
    <3>1. future_events' \in Seq(Events) /\ accepted' \subseteq Tags \X Triggers
      BY <1>1, <2>1, <2>3, SuccessorType, EnqueueLaterType DEF BootstrapTimer
    <3> QED BY <1>1, <2>1, <2>3, <3>1 DEF BootstrapTimer, TypeOK, loopVars, channel, threadVars
  <2> QED BY <2>2, <2>3
<1>2. ASSUME NEW t \in Timers, RescheduleTimer(t) PROVE SInv'
  <2>1. latest \in Tags /\ t \in Triggers /\ TimerPeriod[t] \in Nat
    BY <1>2, ActionTypes, ConfigurationAssumption DEF RescheduleTimer
  <2>2. future_events' \in Seq(Events) /\ accepted' \subseteq Tags \X Triggers
    BY <1>2, <2>1, SuccessorType, EnqueueLaterType DEF RescheduleTimer, TypeOK
  <2> QED BY <1>2, <2>2 DEF RescheduleTimer, TypeOK, loopVars, channel, threadVars
<1>3. CASE FinishReactions
  BY <1>3 DEF FinishReactions, TypeOK, loopVars, waveVars, channel, threadVars, history
<1>4. CASE DrainEvent
  <2>1. Head(future_events) \in Events /\ Tail(future_events) \in Seq(Events)
    BY <1>4, HeadTailProperties DEF DrainEvent, TypeOK
  <2>2. event_queue' \in Seq(Events) /\ Sorted(event_queue')
    BY <1>4, <2>1, PushElements DEF DrainEvent, TypeOK
  <2> QED BY <1>4, <2>1, <2>2 DEF DrainEvent, TypeOK, channel, threadVars, history
<1>5. CASE DrainEnd
  BY <1>5 DEF DrainEnd, TypeOK, loopVars, waveVars, channel, threadVars, history
<1>6. CASE CleanupTag
  BY <1>6 DEF CleanupTag, Forget, AfterWave, TypeOK, loopVars, channel, threadVars, history
<1> QED BY <1>1, <1>2, <1>3, <1>4, <1>5, <1>6, SInvCall DEF Wave

(* The steps of the event loop. *)
LEMMA SInvLoop == SInv /\ Loop => SInv'
<1> SUFFICES ASSUME SInv, Loop PROVE SInv'
  OBVIOUS
<1> USE DEF SInv, PcInv, QueueSorted
<1>1. CASE Startup
  <2>1. {STARTUP} \in SUBSET Triggers
    BY ActionTypes
  <2> QED BY <1>1, <2>1, OriginType, ProcessTagType DEF Startup, TypeOK, channel, threadVars
<1>2. CASE FlushEvent
  <2>1. Head(rx) \in Events /\ Tail(rx) \in Seq(Events)
    BY <1>2, HeadTailProperties DEF FlushEvent, TypeOK
  <2>2. event_queue' \in Seq(Events) /\ Sorted(event_queue')
    BY <1>2, <2>1, PushElements DEF FlushEvent, TypeOK
  <2> QED BY <1>2, <2>1, <2>2 DEF FlushEvent, TypeOK, waveVars, threadVars, history
<1>3. CASE FlushEnd
  BY <1>3 DEF FlushEnd, TypeOK, loopVars, waveVars, channel, threadVars, history
<1>4. CASE TakeEvent
  <2>1. /\ Head(event_queue) \in Events
        /\ Tail(event_queue) \in Seq(Events) /\ Sorted(Tail(event_queue))
    BY <1>4, TailProperties DEF TakeEvent, TypeOK
  <2> QED BY <1>4, <2>1 DEF TakeEvent, TypeOK, waveVars, channel, threadVars, history
<1>5. CASE DiscardLateEvent
  <2>1. Tail(event_queue) \in Seq(Events) /\ Sorted(Tail(event_queue))
    BY <1>5, TailProperties DEF DiscardLateEvent, TypeOK
  <2> QED BY <1>5, <2>1 DEF DiscardLateEvent, TypeOK, waveVars, channel, threadVars, history
<1>6. CASE TakeNothing
  BY <1>6 DEF TakeNothing, TypeOK, loopVars, waveVars, channel, threadVars, history
<1>7. CASE SleepEnd
  BY <1>7 DEF SleepEnd, TypeOK, loopVars, waveVars, channel, threadVars, history
<1>8. CASE SleepInterrupted
  <2>1. cur \in Events /\ Head(rx) \in Events /\ Tail(rx) \in Seq(Events)
    BY <1>8, HeadTailProperties DEF SleepInterrupted, TypeOK
  <2>2. Push(event_queue, cur) \in Seq(Events) /\ Sorted(Push(event_queue, cur))
    BY <2>1, PushElements DEF TypeOK
  <2>3. event_queue' \in Seq(Events) /\ Sorted(event_queue')
    <3>1. CASE Before(Head(rx).tag, cur.tag)
      BY <1>8, <2>1, <2>2, <3>1, PushElements DEF SleepInterrupted
    <3>2. CASE ~Before(Head(rx).tag, cur.tag)
      BY <1>8, <2>1, <3>2, PushElements DEF SleepInterrupted, TypeOK
    <3> QED BY <3>1, <3>2
  <2> QED BY <1>8, <2>1, <2>3 DEF SleepInterrupted, TypeOK, waveVars, threadVars, history
<1>9. CASE ExecuteEvent
  <2>1. cur.tag \in Tags /\ cur.reactions \in SUBSET Triggers
    BY <1>9 DEF ExecuteEvent, Events
  <2> QED BY <1>9, <2>1, ProcessTagType DEF ExecuteEvent, TypeOK, channel, threadVars
<1>10. CASE ExecuteStop
  <2>1. cur.tag \in Tags /\ cur.reactions \cup {SHUTDOWN} \in SUBSET Triggers
    BY <1>10, ActionTypes DEF ExecuteStop, Events
  <2> QED BY <1>10, <2>1, ProcessTagType DEF ExecuteStop, Shutdown, TypeOK, channel, threadVars
<1>11. CASE ReceiveEvent
  <2>1. Head(rx) \in Events /\ Tail(rx) \in Seq(Events)
    BY <1>11, HeadTailProperties DEF ReceiveEvent, TypeOK
  <2>2. event_queue' \in Seq(Events) /\ Sorted(event_queue')
    BY <1>11, <2>1, PushElements DEF ReceiveEvent, TypeOK
  <2> QED BY <1>11, <2>1, <2>2 DEF ReceiveEvent, TypeOK, waveVars, threadVars, history
<1>12. CASE ReceiveTimeout
  BY <1>12 DEF ReceiveTimeout, TypeOK, loopVars, waveVars, channel, threadVars, history
<1>13. CASE ReceiveDisconnected
  BY <1>13 DEF ReceiveDisconnected, TypeOK, loopVars, waveVars, channel, threadVars, history
<1>14. CASE ExitLoop
  <2>1. ShutdownTag \in Tags
    BY AbsoluteType DEF ShutdownTag, TypeOK
  <2>2. {} \cup {SHUTDOWN} \in SUBSET Triggers
    BY ActionTypes
  <2> QED BY <1>14, <2>1, <2>2, ProcessTagType DEF ExitLoop, Shutdown, TypeOK, channel, threadVars
<1>15. CASE Notify
  BY <1>15 DEF Notify, TypeOK, loopVars, waveVars, threadVars, history
<1>16. CASE Drop
  <2>1. <<>> \in Seq(Events)
    BY EmptySeq
  <2> QED BY <1>16, <2>1 DEF Drop, TypeOK, loopVars, waveVars, threadVars, history
<1> QED BY <1>1, <1>2, <1>3, <1>4, <1>5, <1>6, <1>7, <1>8, <1>9, <1>10, <1>11, <1>12, <1>13,
           <1>14, <1>15, <1>16 DEF Loop

(* The steps of the threads. *)
LEMMA StampType ==
  ASSUME SInv, NEW th \in Threads, NEW evt \in Events, Stamp(th, evt), values' \subseteq Actions \X Tags
  PROVE  SInv'
BY DEF SInv, PcInv, QueueSorted, Stamp, TypeOK, loopVars, waveVars, channel, history

LEMMA SInvThread == ASSUME NEW th \in Threads PROVE SInv /\ ThreadStep(th) => SInv'
<1> SUFFICES ASSUME SInv, ThreadStep(th) PROVE SInv'
  OBVIOUS
<1>1. ASSUME NEW a \in PhysicalActions, NEW d \in Delays, StampAction(th, a, d) PROVE SInv'
  <2>1. now + d \in Nat
    BY ConfigurationAssumption DEF SInv, TypeOK
  <2>2. Absolute(now + d) \in Tags /\ Execute(Absolute(now + d), a) \in Events
    BY <2>1, AbsoluteType, ExecuteType, ActionTypes
  <2>3. values' \subseteq Actions \X Tags
    BY <1>1, <2>2, ActionTypes DEF StampAction, SInv, TypeOK
  <2> QED BY <1>1, <2>2, <2>3, StampType DEF StampAction
<1>2. ASSUME NEW d \in Delays, StampStop(th, d) PROVE SInv'
  <2>1. now + d \in Nat
    BY ConfigurationAssumption DEF SInv, TypeOK
  <2>2. TerminateAt(Absolute(now + d)) \in Events
    BY <2>1, AbsoluteType, TerminateAtType
  <2>3. values' \subseteq Actions \X Tags
    BY <1>2 DEF StampStop, SInv, TypeOK
  <2> QED BY <1>2, <2>2, <2>3, StampType DEF StampStop
<1>3. CASE Send(th)
  <2> USE DEF SInv, PcInv, QueueSorted
  <2>1. outbox[th] \in Events
    BY <1>3 DEF Send, TypeOK
  <2>2. outbox[th].tag \in Tags /\ outbox[th].reactions \subseteq Triggers
    BY <2>1 DEF Events
  <2>3. Append(rx, outbox[th]) \in Seq(Events)
    BY <2>1 DEF TypeOK
  <2>4. /\ rx' \in Seq(Events) /\ stops' \subseteq Tags
        /\ accepted' \subseteq Tags \X Triggers /\ values' \subseteq Actions \X Tags
    <3>1. Work(outbox[th]) \subseteq Tags \X Triggers
      BY <2>2 DEF Work
    <3>2. CASE rx_open
      <4>1. rx' \in Seq(Events) /\ values' \subseteq Actions \X Tags
        BY <1>3, <2>3, <3>2 DEF Send, TypeOK
      <4>2. stops' \subseteq Tags
        BY <1>3, <2>2, <3>2 DEF Send, TypeOK
      <4>3. accepted' = accepted \cup Work(outbox[th])
        BY <1>3, <3>2 DEF Send
      <4>4. accepted \subseteq Tags \X Triggers
        BY DEF TypeOK
      <4> QED BY <3>1, <4>1, <4>2, <4>3, <4>4
    <3>3. CASE ~rx_open
      BY <1>3, <3>3 DEF Send, TypeOK
    <3> QED BY <3>2, <3>3
  <2>5. outbox' \in [Threads -> Events \cup {None}]
    BY <1>3 DEF Send, TypeOK
  <2> QED BY <1>3, <2>4, <2>5 DEF Send, TypeOK, loopVars, waveVars
<1>4. CASE ThreadEnd(th)
  BY <1>4 DEF SInv, PcInv, QueueSorted, ThreadEnd, TypeOK, loopVars, waveVars, channel, history
<1> QED BY <1>1, <1>2, <1>3, <1>4 DEF ThreadStep

LEMMA SInvStep == SInv /\ [Next]_vars => SInv'
<1> SUFFICES ASSUME SInv, [Next]_vars PROVE SInv'
  OBVIOUS
<1>1. CASE Tick
  BY <1>1 DEF SInv, PcInv, QueueSorted, Tick, TypeOK, loopVars, waveVars, channel, threadVars, history
<1>2. CASE UNCHANGED vars
  BY <1>2 DEF vars, SInv, PcInv, QueueSorted, TypeOK, loopVars, waveVars, channel, threadVars, history
<1>3. CASE Ended
  BY <1>2, <1>3 DEF Ended
<1> QED BY <1>1, <1>2, <1>3, SInvWave, SInvLoop, SInvThread DEF Next

LEMMA SInvHolds == Spec => []SInv
BY SInvInit, SInvStep, PTL DEF Spec

(* Every variable of the scheduler keeps its type, with any number of threads
   and any program. *)
THEOREM TypesHold == Spec => []TypeOK
<1>1. SInv => TypeOK
  BY DEF SInv
<1> QED BY SInvHolds, <1>1, PTL

(* The event queue is strictly ascending by tag, whatever reactions schedule
   and threads send, and when. *)
THEOREM SchedulerQueueSorted == Spec => []QueueSorted
<1>1. SInv => QueueSorted
  BY DEF SInv
<1> QED BY SInvHolds, <1>1, PTL

-----------------------------------------------------------------------------
(* How the run ends: the shutdown time only ever moves to an earlier tag, no event
   after it is taken, and the last wave is the one of the shutdown time. *)
ShutInv ==
  /\ is_shutdown => /\ pc \in {"react", "drain", "cleanup", "notify", "drop", "done"}
                    /\ latest = shutdown_time
                    /\ <<latest, SHUTDOWN>> \in executed
  /\ pc \in {"notify", "drop", "done"} => is_shutdown
  /\ was_terminated => pc \in {"drop", "done"}
  /\ pc \in {"sleep", "execute"} => ~IsAfterShutdown(cur.tag)
  /\ Timeout # None =>
       shutdown_time # None /\ AtOrBefore(shutdown_time, Successor(ORIGIN, Timeout))
  /\ TimeoutBound

LEMMA NoneIsNoTag == None \notin Tags /\ None \notin Events
BY NoneAssumption

LEMMA TimeoutTag == Timeout # None => Successor(ORIGIN, Timeout) \in Tags
BY OriginType, SuccessorType, ConfigurationAssumption

LEMMA ShutInvInit == Init => ShutInv
<1> SUFFICES ASSUME Init PROVE ShutInv
  OBVIOUS
<1>1. Timeout # None => shutdown_time = Successor(ORIGIN, Timeout) /\ shutdown_time # None
  BY TimeoutTag, NoneIsNoTag DEF Init
<1> QED BY <1>1 DEF Init, ShutInv, AtOrBefore, TimeoutBound

(* A tag that is not after the shutdown time is not after the timeout. *)
LEMMA WithinTimeout ==
  ASSUME SInv, ShutInv, NEW tag \in Tags, ~IsAfterShutdown(tag), Timeout # None
  PROVE  AtOrBefore(tag, Successor(ORIGIN, Timeout))
<1>1. shutdown_time \in Tags /\ shutdown_time # None
  BY DEF SInv, TypeOK, ShutInv
<1>2. AtOrBefore(tag, shutdown_time)
  BY <1>1, BeforeTotal DEF IsAfterShutdown, AtOrBefore
<1>3. AtOrBefore(shutdown_time, Successor(ORIGIN, Timeout))
  BY DEF ShutInv
<1>4. Successor(ORIGIN, Timeout) \in Tags
  BY TimeoutTag
<1> QED BY <1>1, <1>2, <1>3, <1>4, BeforeTransitive DEF AtOrBefore

(* shutdown is called with a tag that is not after the shutdown time. *)
LEMMA ShutInvShutdown ==
  ASSUME SInv, ShutInv, NEW tag \in Tags, NEW plan, ~IsAfterShutdown(tag),
         Shutdown(tag, plan), UNCHANGED was_terminated, ~was_terminated
  PROVE  ShutInv'
<1> USE DEF ShutInv, Shutdown, ProcessTag, AfterWave
<1>1. shutdown_time' = tag /\ tag # None /\ is_shutdown' /\ latest' = tag
  BY NoneIsNoTag
<1>2. <<tag, SHUTDOWN>> \in executed'
  OBVIOUS
<1>3. pc' \in {"react", "notify"}
  OBVIOUS
<1>4. Timeout # None => AtOrBefore(tag, Successor(ORIGIN, Timeout))
  BY WithinTimeout
<1> QED BY <1>1, <1>2, <1>3, <1>4 DEF TimeoutBound

LEMMA ShutInvLoop == SInv /\ ShutInv /\ Loop => ShutInv'
<1> SUFFICES ASSUME SInv, ShutInv, Loop PROVE ShutInv'
  OBVIOUS
<1>1. CASE Startup
  <2>1. Timeout # None => AtOrBefore(ORIGIN, Successor(ORIGIN, Timeout))
    <3>1. Timeout # None => Timeout \in Nat /\ ORIGIN.micro < MicroMax
      BY ConfigurationAssumption, MicroMaxAssumption DEF ORIGIN
    <3> QED BY <3>1, OriginType, SuccessorIsAfter DEF AtOrBefore
  <2> QED BY <1>1, <2>1 DEF Startup, ProcessTag, AfterWave, ShutInv, TimeoutBound, channel
<1>2. CASE FlushEvent \/ FlushEnd
  BY <1>2 DEF FlushEvent, FlushEnd, ShutInv, TimeoutBound, loopVars, waveVars, channel, history
<1>3. CASE TakeEvent
  BY <1>3 DEF TakeEvent, ShutInv, TimeoutBound, IsAfterShutdown, waveVars, channel, history
<1>4. CASE DiscardLateEvent \/ TakeNothing
  BY <1>4 DEF DiscardLateEvent, TakeNothing, ShutInv, TimeoutBound, loopVars, waveVars, channel, history
<1>5. CASE SleepEnd
  BY <1>5 DEF SleepEnd, ShutInv, TimeoutBound, IsAfterShutdown, loopVars, waveVars, channel, history
<1>6. CASE SleepInterrupted
  <2>1. CASE Before(Head(rx).tag, cur.tag)
    BY <1>6, <2>1 DEF SleepInterrupted, ShutInv, TimeoutBound, waveVars, history
  <2>2. CASE ~Before(Head(rx).tag, cur.tag)
    BY <1>6, <2>2 DEF SleepInterrupted, ShutInv, TimeoutBound, IsAfterShutdown, waveVars, history
  <2> QED BY <2>1, <2>2
<1>7. CASE ExecuteEvent
  <2>1. cur.tag \in Tags /\ ~IsAfterShutdown(cur.tag)
    BY <1>7 DEF ExecuteEvent, SInv, PcInv, ShutInv, Events
  <2>2. Timeout # None => AtOrBefore(cur.tag, Successor(ORIGIN, Timeout))
    BY <2>1, WithinTimeout
  <2>3. latest' = cur.tag /\ UNCHANGED <<shutdown_time, was_terminated>> /\ ~is_shutdown'
        /\ pc' \in {"react", "flush"}
    BY <1>7 DEF ExecuteEvent, ProcessTag, AfterWave, channel
  <2>4. ~was_terminated
    BY <1>7 DEF ExecuteEvent, ShutInv
  <2> QED BY <2>2, <2>3, <2>4 DEF ShutInv, TimeoutBound
<1>8. CASE ExecuteStop
  <2>1. cur.tag \in Tags /\ ~IsAfterShutdown(cur.tag) /\ ~was_terminated
    BY <1>8 DEF ExecuteStop, SInv, PcInv, ShutInv, Events
  <2> QED BY <1>8, <2>1, ShutInvShutdown DEF ExecuteStop, channel
<1>9. CASE ReceiveEvent \/ ReceiveTimeout \/ ReceiveDisconnected
  BY <1>9 DEF ReceiveEvent, ReceiveTimeout, ReceiveDisconnected, ShutInv, TimeoutBound,
              loopVars, waveVars, channel, history
<1>10. CASE ExitLoop
  <2>1. now \in Nat /\ shutdown_time \in Tags \cup {None}
    BY DEF SInv, TypeOK
  <2>2. ShutdownTag \in Tags
    BY <2>1, AbsoluteType DEF ShutdownTag
  <2>3. ~IsAfterShutdown(ShutdownTag)
    BY <2>1, BeforeIrreflexive DEF IsAfterShutdown, ShutdownTag
  <2>4. ~was_terminated
    BY <1>10 DEF ExitLoop, ShutInv
  <2> HIDE DEF ShutdownTag
  <2> QED BY <1>10, <2>2, <2>3, <2>4, ShutInvShutdown DEF ExitLoop, channel
<1>11. CASE Notify \/ Drop
  BY <1>11 DEF Notify, Drop, ShutInv, TimeoutBound, loopVars, waveVars, history
<1> QED BY <1>1, <1>2, <1>3, <1>4, <1>5, <1>6, <1>7, <1>8, <1>9, <1>10, <1>11 DEF Loop

LEMMA ShutInvWave == ShutInv /\ Wave => ShutInv'
<1> SUFFICES ASSUME ShutInv, Wave PROVE ShutInv'
  OBVIOUS
<1> USE DEF ShutInv, TimeoutBound, loopVars, waveVars, channel, history
<1>1. ASSUME NEW t \in Timers, BootstrapTimer(t) \/ RescheduleTimer(t) PROVE ShutInv'
  BY <1>1 DEF BootstrapTimer, RescheduleTimer, EnqueueLater
<1>2. CASE ReactionCall
  BY <1>2 DEF ReactionCall, Call, ScheduleLogical, SchedulePhysical, RequestStop, SpawnThread,
              EnqueueLater
<1>3. CASE FinishReactions \/ DrainEvent \/ DrainEnd
  BY <1>3 DEF FinishReactions, DrainEvent, DrainEnd
<1>4. CASE CleanupTag
  BY <1>4 DEF CleanupTag, AfterWave
<1> QED BY <1>1, <1>2, <1>3, <1>4 DEF Wave

LEMMA ShutInvStep == SInv /\ ShutInv /\ [Next]_vars => ShutInv'
<1> SUFFICES ASSUME SInv, ShutInv, [Next]_vars PROVE ShutInv'
  OBVIOUS
<1>1. CASE UNCHANGED vars \/ Ended \/ Tick
  BY <1>1 DEF ShutInv, TimeoutBound, IsAfterShutdown, Ended, Tick, vars, loopVars, waveVars, channel, history
<1>2. ASSUME NEW th \in Threads, ThreadStep(th) PROVE ShutInv'
  <2>1. UNCHANGED <<pc, loopVars, is_shutdown, was_terminated, executed>>
    BY <1>2 DEF ThreadStep, StampAction, StampStop, Stamp, Send, ThreadEnd, waveVars, channel, history
  <2> QED BY <2>1 DEF ShutInv, TimeoutBound, IsAfterShutdown, loopVars
<1> QED BY <1>1, <1>2, ShutInvLoop, ShutInvWave DEF Next

LEMMA ShutInvHolds == Spec => []ShutInv
BY SInvHolds, ShutInvInit, ShutInvStep, PTL DEF Spec

(* No tag after the timeout is processed, whatever stops and events reactions and
   threads ask for, by no wave and not by the shutdown. *)
THEOREM TimeoutBoundHolds == Spec => []TimeoutBound
<1>1. ShutInv => TimeoutBound
  BY DEF ShutInv
<1> QED BY ShutInvHolds, <1>1, PTL

(* was_terminated is only set when the reactions to the shutdown have run, at
   the last tag, and no reaction runs afterwards. *)
THEOREM TerminatedAfterShutdownHolds == Spec => []TerminatedAfterShutdown
<1>1. ShutInv => TerminatedAfterShutdown
  BY DEF ShutInv, TerminatedAfterShutdown, InWave
<1> QED BY ShutInvHolds, <1>1, PTL

-----------------------------------------------------------------------------
(* Where the work is that was agreed to. *)
Kept == executed \cup Pending \cup WorkOf(rx)

(* A step that drops no work but what is beyond the shutdown. *)
LEMMA LossMonotone ==
  ASSUME SInv, NothingLost, pc # "done",
         \A tag \in Tags : Beyond(tag) => Beyond(tag)',
         accepted' \subseteq accepted \cup Kept',
         \A w \in Kept : w \in Kept' \/ Beyond(w[1])'
  PROVE  NothingLost'
<1> SUFFICES ASSUME NEW w \in accepted', w \notin Kept' PROVE Beyond(w[1])'
  BY DEF NothingLost, Kept
<1>1. w \in accepted
  OBVIOUS
<1>2. w[1] \in Tags
  BY <1>1 DEF SInv, TypeOK
<1>3. CASE w \in Kept
  BY <1>3
<1>4. CASE w \notin Kept
  <2>1. Beyond(w[1])
    BY <1>1, <1>4 DEF NothingLost, Kept
  <2> QED BY <1>2, <2>1
<1> QED BY <1>3, <1>4

(* A step that leaves the shutdown time alone and keeps all the work. *)
LEMMA LossUnchanged ==
  ASSUME SInv, NothingLost, pc # "done", UNCHANGED <<shutdown_time, accepted>>, Kept \subseteq Kept'
  PROVE  NothingLost'
BY LossMonotone DEF Beyond

(* Moving an event of the channel into the queue. *)
LEMMA LossReceive ==
  ASSUME SInv, NothingLost, pc # "done", rx # <<>>,
         event_queue' = Push(event_queue, Head(rx)), rx' = Tail(rx),
         UNCHANGED <<shutdown_time, accepted, executed, future_events, cur>>
  PROVE  NothingLost'
<1>1. /\ Head(rx) \in Events /\ rx \in Seq(Events) /\ event_queue \in Seq(Events)
      /\ Sorted(event_queue)
  BY HeadTailProperties DEF SInv, TypeOK, QueueSorted
<1>2. WorkOf(event_queue') = WorkOf(event_queue) \cup Work(Head(rx))
  BY <1>1, PushWork
<1>3. WorkOf(rx) = Work(Head(rx)) \cup WorkOf(rx')
  BY <1>1, HeadTailWork
<1>4. Kept \subseteq Kept'
  BY <1>2, <1>3 DEF Kept, Pending
<1> QED BY <1>4, LossUnchanged

(* The wave of the event that the loop took. *)
LEMMA LossExecute ==
  ASSUME SInv, NothingLost, pc = "execute", NEW plan, cur.reactions \subseteq plan,
         executed' = executed \cup ({cur.tag} \X plan), cur' = None,
         UNCHANGED <<accepted, event_queue, future_events, rx>>,
         \A tag \in Tags : Beyond(tag) => Beyond(tag)'
  PROVE  NothingLost'
<1>1. Work(cur) \subseteq executed'
  BY DEF Work
<1>2. Kept \subseteq Kept'
  BY <1>1 DEF Kept, Pending
<1> QED BY <1>2, LossMonotone

LEMMA LossLoop == SInv /\ ShutInv /\ NothingLost /\ Loop => NothingLost'
<1> SUFFICES ASSUME SInv, ShutInv, NothingLost, Loop PROVE NothingLost'
  OBVIOUS
<1>1. CASE Startup
  <2>1. Kept \subseteq Kept'
    BY <1>1 DEF Startup, ProcessTag, Kept, Pending, channel
  <2> QED BY <1>1, <2>1, LossUnchanged DEF Startup
<1>2. CASE FlushEvent
  BY <1>2, LossReceive DEF FlushEvent, waveVars, history
<1>3. CASE FlushEnd \/ TakeNothing \/ SleepEnd \/ ReceiveTimeout \/ ReceiveDisconnected \/ Notify
  <2>1. Kept \subseteq Kept'
    BY <1>3 DEF FlushEnd, TakeNothing, SleepEnd, ReceiveTimeout, ReceiveDisconnected, Notify,
                Kept, Pending, loopVars, waveVars, channel, history
  <2>2. pc # "done" /\ UNCHANGED <<shutdown_time, accepted>>
    BY <1>3 DEF FlushEnd, TakeNothing, SleepEnd, ReceiveTimeout, ReceiveDisconnected, Notify,
                loopVars, history
  <2> QED BY <2>1, <2>2, LossUnchanged
<1>4. CASE TakeEvent
  <2>1. event_queue \in Seq(Events) /\ Head(event_queue) \in Events
    BY <1>4, HeadTailProperties DEF TakeEvent, SInv, TypeOK
  <2>2. WorkOf(event_queue) = Work(cur') \cup WorkOf(event_queue') /\ cur' # None
    BY <1>4, <2>1, HeadTailWork, NoneIsNoTag DEF TakeEvent
  <2>3. cur = None
    BY <1>4 DEF TakeEvent, SInv, PcInv
  <2>4. Kept \subseteq Kept'
    BY <1>4, <2>2, <2>3 DEF TakeEvent, Kept, Pending, waveVars, channel, history
  <2> QED BY <1>4, <2>4, LossUnchanged DEF TakeEvent, history
<1>5. CASE DiscardLateEvent
  <2>1. event_queue \in Seq(Events)
    BY DEF SInv, TypeOK
  <2>2. WorkOf(event_queue) = Work(Head(event_queue)) \cup WorkOf(event_queue')
    BY <1>5, <2>1, HeadTailWork DEF DiscardLateEvent
  <2>3. UNCHANGED <<shutdown_time, accepted, executed, future_events, cur, rx>>
    BY <1>5 DEF DiscardLateEvent, waveVars, channel, history
  <2>4. \A w \in Work(Head(event_queue)) : Beyond(w[1])'
    BY <1>5, <2>3 DEF DiscardLateEvent, IsAfterShutdown, Beyond, Work
  <2>5. \A w \in Kept : w \in Kept' \/ w \in Work(Head(event_queue))
    BY <2>2, <2>3 DEF Kept, Pending
  <2>6. \A w \in Kept : w \in Kept' \/ Beyond(w[1])'
    BY <2>4, <2>5
  <2>7. pc # "done" /\ accepted' \subseteq accepted \cup Kept'
        /\ \A tag \in Tags : Beyond(tag) => Beyond(tag)'
    BY <1>5, <2>3 DEF DiscardLateEvent, Beyond
  <2> QED BY <2>6, <2>7, LossMonotone
<1>6. CASE SleepInterrupted
  <2>1. CASE Before(Head(rx).tag, cur.tag)
    <3>1. /\ cur \in Events /\ cur # None /\ Head(rx) \in Events /\ rx \in Seq(Events)
          /\ event_queue \in Seq(Events) /\ Sorted(event_queue)
      BY <1>6, HeadTailProperties, NoneIsNoTag DEF SleepInterrupted, SInv, TypeOK, PcInv, QueueSorted
    <3> DEFINE q == Push(event_queue, cur)
    <3>2. q \in Seq(Events) /\ Sorted(q) /\ WorkOf(q) = WorkOf(event_queue) \cup Work(cur)
      BY <3>1, PushElements, PushWork
    <3> HIDE DEF q
    <3>3. WorkOf(Push(q, Head(rx))) = WorkOf(q) \cup Work(Head(rx))
      BY <3>1, <3>2, PushWork
    <3>4. event_queue' = Push(q, Head(rx)) /\ rx' = Tail(rx) /\ rx # <<>> /\ cur' = None
      BY <1>6, <2>1 DEF SleepInterrupted, q
    <3>5. WorkOf(rx) = Work(Head(rx)) \cup WorkOf(rx')
      BY <3>1, <3>4, HeadTailWork
    <3>6. pc # "done" /\ UNCHANGED <<shutdown_time, accepted, executed, future_events>>
      BY <1>6 DEF SleepInterrupted, waveVars, history
    <3>7. Kept \subseteq Kept'
      BY <3>1, <3>2, <3>3, <3>4, <3>5, <3>6 DEF Kept, Pending
    <3> QED BY <3>6, <3>7, LossUnchanged
  <2>2. CASE ~Before(Head(rx).tag, cur.tag)
    BY <1>6, <2>2, LossReceive DEF SleepInterrupted, waveVars, history
  <2> QED BY <2>1, <2>2
<1>7. CASE ExecuteEvent
  BY <1>7, LossExecute DEF ExecuteEvent, ProcessTag, Beyond, channel
<1>8. CASE ExecuteStop
  <2>1. \A tag \in Tags : Beyond(tag) => Beyond(tag)'
    <3> SUFFICES ASSUME NEW tag \in Tags, Beyond(tag) PROVE Beyond(tag)'
      OBVIOUS
    <3>1. shutdown_time \in Tags /\ shutdown_time # None /\ Before(shutdown_time, tag)
      BY DEF Beyond, SInv, TypeOK
    <3>2. cur.tag \in Tags /\ cur.tag # None /\ ~Before(shutdown_time, cur.tag)
      BY <1>8, <3>1, NoneIsNoTag DEF ExecuteStop, SInv, PcInv, ShutInv, IsAfterShutdown, Events
    <3>3. Before(cur.tag, tag)
      BY <3>1, <3>2, BeforeTotal, BeforeTransitive
    <3>4. shutdown_time' = cur.tag
      BY <1>8 DEF ExecuteStop, Shutdown
    <3> QED BY <3>2, <3>3, <3>4 DEF Beyond
  <2>2. executed' = executed \cup ({cur.tag} \X (cur.reactions \cup {SHUTDOWN}))
    BY <1>8 DEF ExecuteStop, Shutdown, ProcessTag
  <2>3. cur.reactions \subseteq cur.reactions \cup {SHUTDOWN}
    OBVIOUS
  <2>4. pc = "execute" /\ cur' = None /\ UNCHANGED <<accepted, event_queue, future_events, rx>>
    BY <1>8 DEF ExecuteStop, channel
  <2> QED BY <2>1, <2>2, <2>3, <2>4, LossExecute
<1>9. CASE ReceiveEvent
  BY <1>9, LossReceive DEF ReceiveEvent, waveVars, history
<1>10. CASE ExitLoop
  <2>1. \A tag \in Tags : Beyond(tag) => Beyond(tag)'
    BY <1>10 DEF ExitLoop, Shutdown, ShutdownTag, Beyond
  <2>2. Kept \subseteq Kept' /\ pc # "done" /\ UNCHANGED accepted
    BY <1>10 DEF ExitLoop, Shutdown, ProcessTag, Kept, Pending, channel
  <2> QED BY <2>1, <2>2, LossMonotone
<1>11. CASE Drop
  BY <1>11 DEF Drop, NothingLost
<1> QED BY <1>1, <1>2, <1>3, <1>4, <1>5, <1>6, <1>7, <1>8, <1>9, <1>10, <1>11 DEF Loop

(* A reaction or a timer asks for a trigger at a later tag. *)
LEMMA LossEnqueue ==
  ASSUME SInv, NothingLost, pc # "done", NEW tag \in Tags, NEW t \in Triggers, EnqueueLater(tag, t),
         UNCHANGED <<shutdown_time, executed, event_queue, cur, rx>>
  PROVE  NothingLost'
<1>1. future_events \in Seq(Events) /\ Execute(tag, t) \in Events
  BY ExecuteType DEF SInv, TypeOK
<1>2. WorkOf(future_events') = WorkOf(future_events) \cup Work(Execute(tag, t))
  BY <1>1, AppendWork DEF EnqueueLater
<1>3. <<tag, t>> \in Work(Execute(tag, t))
  BY DEF Work, Execute
<1>4. Kept \subseteq Kept' /\ accepted' \subseteq accepted \cup Kept'
  BY <1>2, <1>3 DEF Kept, Pending, EnqueueLater
<1>5. \A x \in Tags : Beyond(x) => Beyond(x)'
  BY DEF Beyond
<1> QED BY <1>4, <1>5, LossMonotone

LEMMA LossWave == SInv /\ NothingLost /\ Wave => NothingLost'
<1> SUFFICES ASSUME SInv, NothingLost, Wave PROVE NothingLost'
  OBVIOUS
<1>0. pc = "react" => latest \in Tags
  BY DEF SInv, PcInv
<1>1. ASSUME NEW t \in Timers, BootstrapTimer(t) PROVE NothingLost'
  <2>1. CASE TimerOffset[t] = 0
    <3>1. Kept \subseteq Kept'
      BY <1>1, <2>1 DEF BootstrapTimer, Kept, Pending, loopVars, channel
    <3> QED BY <1>1, <2>1, <3>1, LossUnchanged DEF BootstrapTimer, loopVars
  <2>2. CASE TimerOffset[t] # 0
    <3>1. Successor(latest, TimerOffset[t]) \in Tags /\ t \in Triggers
      BY <1>0, <1>1, SuccessorType, ConfigurationAssumption, ActionTypes DEF BootstrapTimer
    <3> QED BY <1>1, <2>2, <3>1, LossEnqueue DEF BootstrapTimer, loopVars, channel
  <2> QED BY <2>1, <2>2
<1>2. ASSUME NEW t \in Timers, RescheduleTimer(t) PROVE NothingLost'
  <2>1. CASE TimerPeriod[t] = 0
    <3>1. Kept \subseteq Kept'
      BY <1>2, <2>1 DEF RescheduleTimer, Kept, Pending, loopVars, channel
    <3> QED BY <1>2, <2>1, <3>1, LossUnchanged DEF RescheduleTimer, loopVars
  <2>2. CASE TimerPeriod[t] # 0
    <3>1. Successor(latest, TimerPeriod[t]) \in Tags /\ t \in Triggers
      BY <1>0, <1>2, SuccessorType, ConfigurationAssumption, ActionTypes DEF RescheduleTimer
    <3> QED BY <1>2, <2>2, <3>1, LossEnqueue DEF RescheduleTimer, loopVars, channel
  <2> QED BY <2>1, <2>2
<1>3. ASSUME NEW a \in LogicalActions, NEW d \in Delays, ScheduleLogical(a, d) PROVE NothingLost'
  <2> DEFINE eta == Successor(latest, MinDelay[a] + d)
  <2>1. eta \in Tags /\ a \in Triggers
    <3>1. MinDelay[a] + d \in Nat
      BY ConfigurationAssumption, ActionTypes
    <3> QED BY <1>0, <1>3, <3>1, SuccessorType, ActionTypes DEF ScheduleLogical, Call
  <2> QED BY <1>3, <2>1, LossEnqueue DEF ScheduleLogical, Call, loopVars, channel
<1>4. ASSUME NEW a \in PhysicalActions, NEW d \in Delays, SchedulePhysical(a, d) PROVE NothingLost'
  <2>1. Absolute(now + d) \in Tags /\ a \in Triggers
    <3>1. now + d \in Nat
      BY ConfigurationAssumption DEF SInv, TypeOK
    <3> QED BY <3>1, AbsoluteType, ActionTypes
  <2> QED BY <1>4, <2>1, LossEnqueue DEF SchedulePhysical, Call, loopVars, channel
<1>5. ASSUME NEW d \in Delays, RequestStop(d) PROVE NothingLost'
  <2>1. future_events \in Seq(Events) /\ TerminateAt(Successor(latest, d)) \in Events
    BY <1>0, <1>5, ConfigurationAssumption, SuccessorType, TerminateAtType
       DEF RequestStop, Call, SInv, TypeOK
  <2>2. WorkOf(future_events) \subseteq WorkOf(future_events')
    BY <1>5, <2>1, AppendWork DEF RequestStop
  <2>3. Kept \subseteq Kept'
    BY <1>5, <2>2 DEF RequestStop, Kept, Pending, loopVars, channel
  <2> QED BY <1>5, <2>3, LossUnchanged DEF RequestStop, Call, loopVars
<1>6. CASE (\E th \in Threads : SpawnThread(th)) \/ FinishReactions \/ DrainEnd \/ CleanupTag
  <2>1. pc # "done" /\ UNCHANGED <<shutdown_time, accepted, executed, event_queue, future_events, cur, rx>>
    BY <1>6 DEF SpawnThread, Call, FinishReactions, DrainEnd, CleanupTag, loopVars, waveVars,
                channel, history
  <2>2. Kept = Kept'
    BY <2>1 DEF Kept, Pending
  <2> QED BY <2>1, <2>2, LossUnchanged
<1>7. CASE DrainEvent
  <2>1. /\ future_events \in Seq(Events) /\ event_queue \in Seq(Events) /\ Sorted(event_queue)
        /\ Head(future_events) \in Events
    BY <1>7, HeadTailProperties DEF DrainEvent, SInv, TypeOK, QueueSorted
  <2>2. WorkOf(event_queue') = WorkOf(event_queue) \cup Work(Head(future_events))
    BY <1>7, <2>1, PushWork DEF DrainEvent
  <2>3. WorkOf(future_events) = Work(Head(future_events)) \cup WorkOf(future_events')
    BY <1>7, <2>1, HeadTailWork DEF DrainEvent
  <2>4. Kept \subseteq Kept'
    BY <1>7, <2>2, <2>3 DEF DrainEvent, Kept, Pending, channel, history
  <2> QED BY <1>7, <2>4, LossUnchanged DEF DrainEvent, history
<1> QED BY <1>1, <1>2, <1>3, <1>4, <1>5, <1>6, <1>7 DEF Wave, ReactionCall

LEMMA LossThread == ASSUME NEW th \in Threads PROVE SInv /\ NothingLost /\ ThreadStep(th) => NothingLost'
<1> SUFFICES ASSUME SInv, NothingLost, ThreadStep(th) PROVE NothingLost'
  OBVIOUS
<1>1. CASE Send(th) /\ rx_open
  <2>1. rx \in Seq(Events) /\ outbox[th] \in Events
    BY <1>1 DEF Send, SInv, TypeOK
  <2>2. WorkOf(rx') = WorkOf(rx) \cup Work(outbox[th])
    BY <1>1, <2>1, AppendWork DEF Send
  <2>3. UNCHANGED <<pc, shutdown_time, executed, event_queue, future_events, cur>>
    BY <1>1 DEF Send, loopVars, waveVars
  <2>4. accepted' = accepted \cup Work(outbox[th])
    BY <1>1 DEF Send
  <2>5. Kept \subseteq Kept' /\ accepted' \subseteq accepted \cup Kept'
    BY <2>2, <2>3, <2>4 DEF Kept, Pending
  <2>6. CASE pc = "done"
    BY <2>3, <2>6 DEF NothingLost
  <2>7. CASE pc # "done"
    BY <2>3, <2>5, <2>7, LossMonotone DEF Beyond
  <2> QED BY <2>6, <2>7
<1>2. CASE ~(Send(th) /\ rx_open)
  <2>1. UNCHANGED <<pc, shutdown_time, executed, event_queue, future_events, cur, rx, accepted>>
    BY <1>2 DEF ThreadStep, StampAction, StampStop, Stamp, Send, ThreadEnd,
                loopVars, waveVars, channel, history
  <2> QED BY <2>1 DEF NothingLost, Pending, Beyond
<1> QED BY <1>1, <1>2

LEMMA LossStep == SInv /\ ShutInv /\ NothingLost /\ [Next]_vars => NothingLost'
<1> SUFFICES ASSUME SInv, ShutInv, NothingLost, [Next]_vars PROVE NothingLost'
  OBVIOUS
<1>1. CASE UNCHANGED vars \/ Ended \/ Tick
  BY <1>1 DEF NothingLost, Pending, Beyond, Ended, Tick, vars, loopVars, waveVars, channel, history
<1> QED BY <1>1, LossLoop, LossWave, LossThread DEF Next

(* No event is lost between the call that schedules it and its reactions,
   whatever the order in which threads send and the scheduler sleeps, wakes and
   reorders its queue, except for a tag beyond the shutdown. *)
THEOREM NothingLostHolds == Spec => []NothingLost
<1>1. Init => NothingLost
  BY DEF Init, NothingLost
<1> QED BY SInvHolds, ShutInvHolds, LossStep, <1>1, PTL DEF Spec

-----------------------------------------------------------------------------
(* What is left when the scheduler waits, and when it leaves its loop without a
   shutdown time: nothing, and nobody who could send anything. *)
AliveInv ==
  /\ pc \notin {"react", "drain"} => future_events = <<>>
  /\ pc = "wait" => event_queue = <<>>
  /\ \A th \in Threads : outbox[th] # None => thread[th] = "running"
  /\ pc = "exit" /\ shutdown_time = None => Senders = {} /\ rx = <<>> /\ event_queue = <<>>

LEMMA AliveInvInit == Init => AliveInv
BY DEF Init, AliveInv

LEMMA AliveInvLoop == SInv /\ ShutInv /\ AliveInv /\ Loop => AliveInv'
<1> SUFFICES ASSUME SInv, ShutInv, AliveInv, Loop PROVE AliveInv'
  OBVIOUS
<1> USE DEF AliveInv, threadVars
<1>1. CASE Startup \/ ExecuteEvent \/ ExecuteStop \/ ExitLoop
  BY <1>1 DEF Startup, ExecuteEvent, ExecuteStop, ExitLoop, Shutdown, ProcessTag, AfterWave
<1>2. CASE FlushEvent \/ FlushEnd \/ TakeEvent \/ SleepEnd \/ ReceiveEvent \/ Notify \/ Drop
  BY <1>2 DEF FlushEvent, FlushEnd, TakeEvent, SleepEnd, ReceiveEvent, Notify, Drop, waveVars
<1>3. CASE SleepInterrupted
  BY <1>3 DEF SleepInterrupted, waveVars
<1>4. CASE DiscardLateEvent \/ TakeNothing \/ ReceiveTimeout
  BY <1>4 DEF DiscardLateEvent, TakeNothing, ReceiveTimeout, IsAfterShutdown, loopVars, waveVars
<1>5. CASE ReceiveDisconnected
  BY <1>5 DEF ReceiveDisconnected, Senders, loopVars, waveVars, channel
<1> QED BY <1>1, <1>2, <1>3, <1>4, <1>5 DEF Loop

LEMMA AliveInvWave == SInv /\ AliveInv /\ Wave => AliveInv'
<1> SUFFICES ASSUME SInv, AliveInv, Wave PROVE AliveInv'
  OBVIOUS
<1> USE DEF AliveInv, threadVars, loopVars
<1>1. ASSUME NEW t \in Timers, BootstrapTimer(t) \/ RescheduleTimer(t) PROVE AliveInv'
  BY <1>1 DEF BootstrapTimer, RescheduleTimer
<1>2. CASE ReactionCall
  <2>1. pc = "react" /\ pc' = "react" /\ UNCHANGED outbox
    BY <1>2 DEF ReactionCall, Call, ScheduleLogical, SchedulePhysical, RequestStop, SpawnThread
  <2>2. \A th \in Threads : thread[th] = "running" => thread'[th] = "running"
    <3>1. thread \in [Threads -> {"unborn", "running", "dead"}]
      BY DEF SInv, TypeOK
    <3> QED BY <1>2, <3>1 DEF ReactionCall, ScheduleLogical, SchedulePhysical, RequestStop, SpawnThread
  <2> QED BY <2>1, <2>2
<1>3. CASE FinishReactions \/ DrainEvent \/ DrainEnd
  BY <1>3 DEF FinishReactions, DrainEvent, DrainEnd, waveVars
<1>4. CASE CleanupTag
  BY <1>4 DEF CleanupTag, AfterWave
<1> QED BY <1>1, <1>2, <1>3, <1>4 DEF Wave

LEMMA AliveInvThread ==
  ASSUME NEW th \in Threads PROVE SInv /\ AliveInv /\ ThreadStep(th) => AliveInv'
<1> SUFFICES ASSUME SInv, AliveInv, ThreadStep(th) PROVE AliveInv'
  OBVIOUS
<1>1. /\ thread \in [Threads -> {"unborn", "running", "dead"}]
      /\ outbox \in [Threads -> Events \cup {None}]
  BY DEF SInv, TypeOK
<1>2. thread[th] = "running" /\ UNCHANGED <<pc, loopVars, future_events>>
  BY DEF ThreadStep, StampAction, StampStop, Stamp, Send, ThreadEnd, AliveInv, waveVars
<1>3. ~(pc = "exit" /\ shutdown_time = None)
  BY <1>2 DEF AliveInv, Senders
<1>4. \A x \in Threads : outbox'[x] # None => thread'[x] = "running"
  BY <1>1, <1>2 DEF ThreadStep, StampAction, StampStop, Stamp, Send, ThreadEnd, AliveInv
<1> QED BY <1>2, <1>3, <1>4 DEF AliveInv, loopVars

LEMMA AliveInvStep == SInv /\ ShutInv /\ AliveInv /\ [Next]_vars => AliveInv'
<1> SUFFICES ASSUME SInv, ShutInv, AliveInv, [Next]_vars PROVE AliveInv'
  OBVIOUS
<1>1. CASE UNCHANGED vars \/ Ended \/ Tick
  BY <1>1 DEF AliveInv, Senders, Ended, Tick, vars, loopVars, waveVars, channel, threadVars
<1> QED BY <1>1, AliveInvLoop, AliveInvWave, AliveInvThread DEF Next

LEMMA AliveInvHolds == Spec => []AliveInv
BY SInvHolds, ShutInvHolds, AliveInvInit, AliveInvStep, PTL DEF Spec

(* Without a timeout, the scheduler leaves its loop only when no event is left
   anywhere and no thread is left that could send one, however threads are
   spawned, send and end. *)
THEOREM KeepsAliveHolds == Spec => []KeepsAlive
<1>1. SInv /\ AliveInv => KeepsAlive
  BY EmptyWork DEF SInv, PcInv, AliveInv, KeepsAlive, Pending
<1> QED BY SInvHolds, AliveInvHolds, <1>1, PTL
=============================================================================
