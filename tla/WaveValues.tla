----------------------------- MODULE WaveValues -----------------------------
(***************************************************************************)
(* The reactions of a tag with the values of its ports: what ReactionCtx   *)
(* sets and reads (get, get_ref, use_ref, set in scheduler/context.rs)     *)
(* while a wave runs on several workers, in the cells of ports.rs.  The    *)
(* cells are those of a program whose bindings have been made, so that     *)
(* each bound port refers to the cell of the free port upstream of it.     *)
(*                                                                         *)
(* Cells are shared between workers without a lock: UnsafeCell is sound,   *)
(* and a tag has one outcome, because nobody sets a port that somebody     *)
(* else reads at the same time or has already read.                        *)
(*                                                                         *)
(* The value of a port is the reaction that set it last.                   *)
(***************************************************************************)
EXTENDS ReactionWave

CONSTANT Absent

ASSUME AbsentAssumption == Absent \notin Reactions

VARIABLES
  cell,          \* upstream_binding: the cell that each port refers to
  value,         \* PortCell::value of each cell
  seen           \* history: what each reaction could read when it began

valueVars == <<cell, value, seen>>

(* Ports whose bind_status is Bound *)
Bound == {e[2] : e \in program.bindings}

(* The cell of a free port is its own, the cell of a bound port that of the
   free port above it. *)
CellOf(p) ==
  LET upstream == {q \in Ports \ Bound : p \in Carriers(q)} IN
    IF p \notin Bound \/ upstream = {} THEN p ELSE CHOOSE q \in upstream : TRUE

(* The operations that are used here do not look at the downstreams. *)
Cells == INSTANCE Ports WITH Values <- Reactions, bound <- Bound,
                             downstreams <- [c \in Ports |-> {p \in Ports \ {c} : cell[p] = c}]

(* The ports that a reaction may read, as triggers or as uses *)
Inputs(r) == {p \in Ports : <<p, r>> \in PerChannel(program.triggers \cup program.uses)}

(* get, get_ref, use_ref, is_present of all of them *)
Reads(r) == [p \in Inputs(r) |-> Cells!Read(p)]

ValuesInit ==
  /\ Init
  /\ cell = [p \in Ports |-> CellOf(p)]
  /\ value = [p \in Ports |-> Absent]
  /\ seen = [r \in {} |-> [p \in {} |-> Absent]]

(* A reaction begins; from now on it may read its inputs at any time. *)
BeginReading(w, r) ==
  /\ Begin(w, r)
  /\ seen' = [q \in begun \cup {r} |-> IF q = r THEN Reads(r) ELSE seen[q]]
  /\ UNCHANGED <<cell, value>>

(* ReactionCtx::set of a port that is not bound, set_impl included *)
SetPort(w, p) ==
  /\ Set(w, p)
  /\ Cells!SetImpl(p, running[w])
  /\ UNCHANGED seen

StartTimer(w, t) == Set(w, t) /\ UNCHANGED valueVars

ValuesStep ==
  \/ \E triggers \in SUBSET Others \ {{}} : StartWave(triggers) /\ UNCHANGED valueVars
  \/ \E w \in Workers, r \in Reactions : BeginReading(w, r)
  \/ \E w \in Workers : End(w) /\ UNCHANGED valueVars
  \/ NextBatch /\ UNCHANGED valueVars

ValuesNext ==
  \/ Assemble /\ UNCHANGED <<waveVars, valueVars>>
  \/ ValuesStep
  \/ \E w \in Workers, p \in Ports : SetPort(w, p)
  \/ \E w \in Workers, t \in Others : StartTimer(w, t)
  \/ Rest /\ UNCHANGED valueVars

ValuesSpec == ValuesInit /\ [][ValuesNext]_<<vars, valueVars>>

(* As in FairSpec: reactions return, and nothing makes them set a port. *)
FairValuesSpec ==
  /\ ValuesSpec
  /\ WF_<<vars, valueVars>>(ValuesStep)
  /\ WF_<<vars, valueVars>>(Assemble /\ UNCHANGED <<waveVars, valueVars>>)

-----------------------------------------------------------------------------
(* What a reaction could read at its beginning is what it can read at its end
   and what is there when the tag is over: a port has its final value before
   anyone reads it, also through bindings and whatever the workers do at the
   same time.  "That reaction, if any, must be executed BEFORE any reaction
   that reads the port" (Port). *)
ReadsFinal == \A r \in begun : seen[r] = Reads(r)
=============================================================================
