--------------------------- MODULE DiscreteEvents ---------------------------
(***************************************************************************)
(* What the runtime promises a program that only uses logical time: a      *)
(* discrete event simulation.  The work on the agenda is processed tag by  *)
(* tag, in strictly ascending order, all the work of a tag at once; work   *)
(* is only posted for later tags; the first tag at which a stop was        *)
(* requested is the last one, and only work beyond a stop is abandoned.    *)
(* Startup work comes first, with timers of its own; shutdown work is done *)
(* at the last tag and only there.                                         *)
(***************************************************************************)
EXTENDS EventTags

CONSTANTS Triggers, Timers, STARTUP, SHUTDOWN, None

VARIABLES
  at,       \* the tag being processed, None before the startup
  agenda,   \* <<tag, trigger>>: work to process
  stops,    \* tags at which a stop was requested
  over,     \* at is the last tag
  done      \* <<tag, trigger>>: work that was processed

vars == <<at, agenda, stops, over, done>>

Init ==
  /\ at = None /\ agenda = {} /\ over = FALSE /\ done = {}
  /\ stops \subseteq Tags

Start ==
  /\ at = None /\ at' = ORIGIN
  /\ done' = {<<ORIGIN, STARTUP>>}
  /\ UNCHANGED <<agenda, stops, over>>

(* A timer without offset joins the startup tag. *)
Join ==
  /\ at = ORIGIN
  /\ \E t \in Timers : done' = done \cup {<<at, t>>}
  /\ UNCHANGED <<at, agenda, stops, over>>

Post(tag) ==
  /\ at # None /\ Before(at, tag)
  /\ \E t \in Triggers : agenda' = agenda \cup {<<tag, t>>}
  /\ UNCHANGED <<at, stops, over, done>>

PostStop(tag) ==
  /\ at # None /\ Before(at, tag)
  /\ stops' = stops \cup {tag}
  /\ UNCHANGED <<at, agenda, over, done>>

(* The next tag of the simulation. *)
Due == {w[1] : w \in agenda} \cup stops
Advance ==
  /\ at # None /\ ~over
  /\ \E tag \in Due :
       /\ Before(at, tag)
       /\ \A other \in Due : AtOrBefore(tag, other)
       /\ at' = tag
       /\ agenda' = {w \in agenda : w[1] # tag}
       /\ over' = (tag \in stops)
       /\ done' = done \cup (agenda \ agenda')
                       \cup {w \in {<<tag, SHUTDOWN>>} : tag \in stops}
  /\ UNCHANGED stops

Abandon ==
  /\ agenda' \subseteq agenda
  /\ \A w \in agenda \ agenda' : \E s \in stops : Before(s, w[1])
  /\ UNCHANGED <<at, stops, over, done>>

(* Nothing is left to do: the simulation ends at a tag of its choice. *)
Finish ==
  /\ at # None /\ ~over /\ Due = {}
  /\ over' = TRUE /\ at' \in Tags /\ done' = done \cup {<<at', SHUTDOWN>>}
  /\ UNCHANGED <<agenda, stops>>

Next ==
  \/ Start \/ Join \/ Advance \/ Abandon \/ Finish
  \/ \E tag \in {w[1] : w \in agenda'} : Post(tag)
  \/ \E tag \in stops' : PostStop(tag)

Spec == Init /\ [][Next]_vars

(* Due work is never put off for ever. *)
FairSpec == Spec /\ WF_vars(Advance)
=============================================================================
