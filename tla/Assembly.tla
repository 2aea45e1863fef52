------------------------------ MODULE Assembly ------------------------------
(***************************************************************************)
(* The assembly of the tree of reactors (scheduler/assembly_impl.rs): each *)
(* reactor assembles its children, gets its id, creates its components,    *)
(* which get consecutive ids, with the channels of a multiport one by one, *)
(* and binds ports, its own and those of its children.  The registry that  *)
(* finds the reactor of a component again (scheduler/debug.rs) is filled   *)
(* on the way.  When the main reactor is assembled, reactions set ports    *)
(* and the ports are cleared after each tag.                               *)
(***************************************************************************)
EXTENDS Ports, Naturals, Sequences, FiniteSets

CONSTANTS
  Reactors, Main,
  Components,      \* ports, channels, multiports, actions and timers
  Programs,
  ReactorIds,      \* how many ids of reactors there are: 2^16 in the code
  FirstRegular,    \* TriggerId::FIRST_REGULAR: 2 in the code
  TriggerLimit,    \* the greatest TriggerIdImpl
  Unset

(* The kinds of ports (PortKind); actions and timers have none. *)
PortKinds == {"Input", "Output", "ChildInputReference", "ChildOutputReference"}

(* What a reactor creates; only a multiport has channels. *)
Declarations ==
  [id : Components, kind : PortKinds \cup {"none"}, multiport : BOOLEAN, channels : Seq(Ports)]

(* A program says for each reactor which children it has, which components it
   creates and which rows of ports it binds, all in the order of its
   declarations. *)
ProgramTypes ==
  [children   : [Reactors -> Seq(Reactors)],
   components : [Reactors -> Seq(Declarations)],
   bindings   : [Reactors -> Seq([up : Seq(Ports), down : Seq(Ports), repeat : BOOLEAN])]]

ASSUME ProgramsAssumption ==
  /\ Main \in Reactors /\ Ports \subseteq Components /\ Unset \notin Reactors \cup Nat
  /\ ReactorIds \in Nat \ {0}
  /\ FirstRegular \in Nat /\ TriggerLimit \in Nat /\ FirstRegular <= TriggerLimit
  /\ Programs \subseteq ProgramTypes

(* Each reactor has at most one parent, and the main reactor none. *)
ASSUME TreeAssumption ==
  /\ IsFiniteSet(Reactors)
  /\ \A p \in Programs : \A q, r \in Reactors :
       \A i \in DOMAIN p.children[q], j \in DOMAIN p.children[r] :
         /\ p.children[q][i] # Main
         /\ p.children[q][i] = p.children[r][j] => q = r /\ i = j

(* A component together with its channels *)
Names(c) == {c.id} \cup {c.channels[j] : j \in DOMAIN c.channels}

(* Each component is created once. *)
ASSUME ComponentsAssumption ==
  \A p \in Programs : \A q, r \in Reactors :
    \A i \in DOMAIN p.components[q], j \in DOMAIN p.components[r] :
      LET c == p.components[q][i] IN
        /\ Names(c) \cap Names(p.components[r][j]) # {} => q = r /\ i = j
        /\ ~c.multiport => c.channels = <<>>
        /\ \A k, l \in DOMAIN c.channels : c.channels[k] # c.id /\ (c.channels[k] = c.channels[l] => k = l)

VARIABLES
  program,
  phase,            \* assemble, refused or run
  stack,            \* the reactors being assembled: AssemblyCtx
  reactor_id,       \* next id of a reactor
  cur_trigger,      \* next id of a component
  id_of,            \* id of each reactor
  trigger_id,       \* id of each component
  multiport_ranges, \* ids that are expected for the channels of a multiport
  reactor_bound,    \* the last trigger id (exclusive) of each reactor, by id
  reactor_container, \* the id of the parent of each reactor, by id
  reactors,         \* the registered reactors, by id
  wired,            \* edges between ports in the dependency graph
  source,           \* history: the free port that feeds each port
  moves,            \* history: how often the source of a bound port has changed
  written           \* history: what free ports have been set to at this tag

idVars == <<reactor_id, cur_trigger, id_of, trigger_id, multiport_ranges, reactor_bound,
            reactor_container>>
bindVars == <<wired, source, moves>>
vars == <<program, phase, stack, idVars, reactors, bindVars, written, portVars>>

Frame(r) == [reactor |-> r, stage |-> "children", n |-> 0, k |-> 0]

Init ==
  /\ program \in Programs /\ phase = "assemble"
  /\ stack = <<Frame(Main)>>
  /\ reactor_id = 0 /\ cur_trigger = FirstRegular
  /\ id_of = [r \in Reactors |-> Unset]
  /\ trigger_id = [c \in Components |-> Unset]
  /\ multiport_ranges = [c \in Components |-> {}]
  /\ reactor_bound = <<>> /\ reactor_container = [i \in {} |-> Unset]
  /\ reactors = [i \in {} |-> Unset]
  /\ wired = {} /\ source = [p \in Ports |-> p] /\ moves = [p \in Ports |-> 0]
  /\ written = [p \in Ports |-> Absent]
  /\ PortsInit

-----------------------------------------------------------------------------
Top == stack[Len(stack)]
Children == program.children[Top.reactor]
Declared == program.components[Top.reactor]
Bindings == program.bindings[Top.reactor]

(* The reactor on top goes on in a stage, or to the next channel or pair. *)
Goes(stage, n) ==
  stack' = [stack EXCEPT ![Len(stack)].stage = stage, ![Len(stack)].n = n, ![Len(stack)].k = 0]
GoesFurther == stack' = [stack EXCEPT ![Len(stack)].k = @ + 1]

At(stage) == phase = "assemble" /\ Top.stage = stage

(* An error is passed up, and assemble_tree panics. *)
Refuse ==
  /\ phase' = "refused"
  /\ UNCHANGED <<program, stack, idVars, reactors, bindVars, written, portVars>>

(* with_child, with_child_bank: assemble_sub for the next child *)
AssembleSub ==
  /\ At("children") /\ Top.n < Len(Children)
  /\ stack' = Append(stack, Frame(Children[Top.n + 1]))
  /\ UNCHANGED <<program, phase, idVars, reactors, bindVars, written, portVars>>

(* ReactorId::get_and_incr: wraps in a release build *)
Incremented(id) == (id + 1) % ReactorIds

(* record_reactor_container, for each child *)
WithContainer(children, parent) ==
  [i \in DOMAIN reactor_container \cup children |-> IF i \in children THEN parent ELSE reactor_container[i]]

(* assemble_self: the id is given when all children have theirs *)
AssembleSelf ==
  /\ At("children") /\ Top.n = Len(Children)
  /\ id_of' = [id_of EXCEPT ![Top.reactor] = reactor_id]
  /\ reactor_id' = Incremented(reactor_id)
  /\ reactor_container' = WithContainer({id_of[Children[j]] : j \in 1..Len(Children)}, reactor_id)
  /\ Goes("create", 0)
  /\ UNCHANGED <<program, phase, cur_trigger, trigger_id, multiport_ranges, reactor_bound,
                 reactors, bindVars, written, portVars>>

(* Faulty variant of Exhausted: off by one. *)
ExhaustedLate == cur_trigger > TriggerLimit

(* TriggerId::get_and_incr fails if the id after the new one does not exist. *)
Exhausted == cur_trigger + 1 > TriggerLimit

(* Faulty variant of ReservationFails: the id after the last channel, which is
   given out with it, is forgotten. *)
ReservationFailsLate(id, len) == id + len > TriggerLimit

(* TriggerId::iter_next_range fails: the len ids after id and the next one do
   not all exist. *)
ReservationFails(id, len) == id + 1 + len > TriggerLimit

(* TriggerId::next_range: the len ids after id *)
NextRange(id, len) == (id + 1)..(id + len)

(* The component that is being created, and its id or that of a channel *)
New == Declared[Top.n + 1]
NameAt(c, k) == IF k = 0 THEN c.id ELSE c.channels[k]

(* next_comp_id, after which the next channel or the next component follows *)
NextCompId ==
  /\ trigger_id' = [trigger_id EXCEPT ![NameAt(New, Top.k)] = cur_trigger]
  /\ cur_trigger' = cur_trigger + 1
  /\ IF Top.k < Len(New.channels) THEN GoesFurther ELSE Goes("create", Top.n + 1)
  /\ UNCHANGED <<program, phase, reactor_id, id_of, reactor_bound, reactor_container, reactors,
                 bindVars, written, portVars>>

(* record_port_bank fails for a multiport: "empty port bank", or the ids of its
   channels cannot be reserved. *)
BankFails == New.multiport /\ (New.channels = <<>> \/ ReservationFails(cur_trigger, Len(New.channels)))

(* new_port, new_logical_action, ...; for a multiport, new_multiport up to the
   reservation of ids for its channels *)
NewComponent ==
  /\ At("create") /\ Top.n < Len(Declared) /\ Top.k = 0
  /\ IF Exhausted \/ BankFails THEN Refuse ELSE
       /\ multiport_ranges' =
            IF New.multiport
              THEN [multiport_ranges EXCEPT ![New.id] = NextRange(cur_trigger, Len(New.channels))]
              ELSE multiport_ranges
       /\ NextCompId

(* new_port_bank_component, for the next channel of a multiport: "Overflow while
   allocating ID" *)
NewChannel ==
  /\ At("create") /\ Top.k > 0
  /\ IF Exhausted THEN Refuse ELSE NextCompId /\ UNCHANGED multiport_ranges

(* set_id_range *)
SetIdRange ==
  /\ At("create") /\ Top.n = Len(Declared)
  /\ reactor_bound' = Append(reactor_bound, cur_trigger)
  /\ Goes("declare", 0)
  /\ UNCHANGED <<program, phase, reactor_id, cur_trigger, id_of, trigger_id, multiport_ranges,
                 reactor_container, reactors, bindVars, written, portVars>>

(* The pairs of ports that bind_ports_zip binds, or bind_ports_iterated, which
   starts over with the upstream ports.  A pair of its own is a row of one. *)
Pairs(b) ==
  [i \in 1..(IF b.repeat \/ Len(b.down) < Len(b.up) THEN Len(b.down) ELSE Len(b.up)) |->
     <<b.up[IF b.repeat THEN ((i - 1) % Len(b.up)) + 1 ELSE i], b.down[i]>>]

(* "Empty upstream!" *)
Malformed(b) == b.repeat /\ b.up = <<>>

(* bind_ports *)
BindPorts(up, down) ==
  IF IsBound(down) \/ FindsCycle(up, down) THEN Refuse ELSE
    /\ ForwardTo(up, down)
    /\ wired' = wired \cup {<<up, down>>}
    /\ source' = [p \in Ports |-> IF source[p] = down THEN source[up] ELSE source[p]]
    /\ moves' = [p \in Ports |-> IF source[p] = down /\ p # down THEN moves[p] + 1 ELSE moves[p]]
    /\ GoesFurther
    /\ UNCHANGED <<program, phase, idVars, reactors, written>>

(* The next pair of ports of a row, or the end of the row *)
BindRow ==
  /\ At("declare") /\ Top.n < Len(Bindings)
  /\ LET row == Bindings[Top.n + 1] IN
       IF Malformed(row) THEN Refuse
       ELSE IF Top.k < Len(Pairs(row)) THEN BindPorts(Pairs(row)[Top.k + 1][1], Pairs(row)[Top.k + 1][2])
       ELSE /\ Goes("declare", Top.n + 1)
            /\ UNCHANGED <<program, phase, idVars, reactors, bindVars, written, portVars>>

(* Faulty variant of Registered: later children do not get a place. *)
RegisteredFirst(S) ==
  [i \in DOMAIN reactors \cup UNION {0..id_of[r] : r \in S} |->
     IF \E r \in S : id_of[r] = i /\ \A q \in S : id_of[q] >= i THEN CHOOSE r \in S : id_of[r] = i
     ELSE IF i \in DOMAIN reactors THEN reactors[i] ELSE Unset]

(* register_reactor, for each reactor of a set *)
Registered(S) ==
  [i \in DOMAIN reactors \cup UNION {0..id_of[r] : r \in S} |->
     IF \E r \in S : id_of[r] = i THEN CHOOSE r \in S : id_of[r] = i
     ELSE IF i \in DOMAIN reactors THEN reactors[i] ELSE Unset]

(* The contract of toposort, for the ports *)
Acyclic(edges) ==
  \A S \in SUBSET Ports \ {{}} : \E p \in S : \A q \in S : <<q, p>> \notin edges

(* The end of assemble_self and of the with_child around it, which register
   the children; for the main reactor, the end of assemble_tree and the check
   of the graph. *)
Finish ==
  /\ At("declare") /\ Top.n = Len(Bindings)
  /\ LET children == {Children[k] : k \in 1..Len(Children)} IN
       IF Len(stack) > 1
         THEN /\ reactors' = Registered(children)
              /\ stack' = [SubSeq(stack, 1, Len(stack) - 1) EXCEPT ![Len(stack) - 1].n = @ + 1]
              /\ UNCHANGED phase
         ELSE /\ reactors' = Registered(children \cup {Main})
              /\ stack' = <<>>
              /\ phase' = IF Acyclic(wired) THEN "run" ELSE "refused"
  /\ UNCHANGED <<program, idVars, bindVars, written, portVars>>

-----------------------------------------------------------------------------
(* A reaction sets a port that is not bound. *)
Set(p, v) ==
  /\ phase = "run"
  /\ SetImpl(p, v)
  /\ written' = [written EXCEPT ![p] = v]
  /\ UNCHANGED <<program, phase, stack, idVars, reactors, bindVars>>

(* cleanup_tag of all reactors *)
CleanupTag ==
  /\ phase = "run"
  /\ value' = Cleared
  /\ written' = [p \in Ports |-> Absent]
  /\ UNCHANGED <<program, phase, stack, idVars, reactors, bindVars, cell, downstreams, bound>>

Refused == phase = "refused" /\ UNCHANGED vars

Next ==
  \/ AssembleSub \/ AssembleSelf \/ NewComponent \/ NewChannel \/ SetIdRange \/ BindRow \/ Finish
  \/ \E p \in Ports, v \in Values : Set(p, v)
  \/ CleanupTag
  \/ Refused

Spec == Init /\ [][Next]_vars

-----------------------------------------------------------------------------
(* Properties. *)

TypeOK ==
  /\ PortsTypeOK
  /\ program \in ProgramTypes
  /\ phase \in {"assemble", "refused", "run"}
  /\ \A k \in DOMAIN stack : /\ stack[k].reactor \in Reactors
                             /\ stack[k].stage \in {"children", "create", "declare"}
                             /\ stack[k].n \in Nat /\ stack[k].k \in Nat
  /\ reactor_id \in Nat
  /\ cur_trigger \in FirstRegular..TriggerLimit
  /\ id_of \in [Reactors -> Nat \cup {Unset}]
  /\ trigger_id \in [Components -> Nat \cup {Unset}]
  /\ multiport_ranges \in [Components -> SUBSET Nat]
  /\ reactor_bound \in Seq(Nat)
  /\ \A i \in DOMAIN reactor_container : reactor_container[i] \in Nat
  /\ \A i \in DOMAIN reactors : i \in Nat /\ reactors[i] \in Reactors \cup {Unset}
  /\ wired \subseteq Ports \X Ports
  /\ source \in [Ports -> Ports] /\ moves \in [Ports -> Nat]
  /\ written \in [Ports -> Values \cup {Absent}]

(* A port carries the value of the free port upstream of it at the same tag:
   "the upstream port forwards all values to the output port (logically
   instantaneously)". *)
ForwardsValues == phase = "run" => \A p \in Ports : Read(p) = written[source[p]]

(* The same as long as no port has changed its source twice after it was
   bound, in whatever order the tree of reactors declares its bindings. *)
ForwardsUnlessMovedTwice ==
  phase = "run" /\ (\A p \in Ports : moves[p] <= 1) =>
    \A p \in Ports : Read(p) = written[source[p]]

(* However ports are bound, none carries a value of a port that does not feed
   it, or of an earlier tag. *)
NoForeignValue ==
  phase = "run" => \A p \in Ports : Read(p) \in {Absent, written[source[p]]}

(* The main reactor and what is below it: the reactors that are assembled
   unless an error comes first *)
Tree ==
  {r \in Reactors : \A S \in SUBSET Reactors :
     Main \in S /\ (\A q \in S : \A j \in DOMAIN program.children[q] : program.children[q][j] \in S)
       => r \in S}

(* All bindings of a program, by place, and all ids that it needs *)
Places ==
  UNION {UNION {{<<r, n, k>> : k \in DOMAIN Pairs(program.bindings[r][n])}
                 : n \in DOMAIN program.bindings[r]} : r \in Tree}
PairAt(x) == Pairs(program.bindings[x[1]][x[2]])[x[3]]
BoundTwice == \E x, y \in Places : x # y /\ PairAt(x)[2] = PairAt(y)[2]
UsedIds ==
  UNION {{<<c, j>> : j \in 0..Len(c.channels)} :
           c \in UNION {{program.components[r][k] : k \in DOMAIN program.components[r]} : r \in Tree}}

EmptyMultiport ==
  \E r \in Tree : \E k \in DOMAIN program.components[r] :
    program.components[r][k].multiport /\ program.components[r][k].channels = <<>>

(* As far as its components and bindings are concerned, a program runs if and
   only if each port has at most one upstream port, no binding is cyclic, no row
   of ports is repeated that is empty, no multiport is empty, and the ids
   suffice: "a port may have only one upstream binding", "Empty upstream!",
   "empty port bank".  The ids of reactors must suffice. *)
RefusedForCause ==
  LET wrong == \/ \E r \in Tree : \E n \in DOMAIN program.bindings[r] : Malformed(program.bindings[r][n])
               \/ BoundTwice
               \/ ~Acyclic({PairAt(x) : x \in Places})
               \/ EmptyMultiport
               \/ FirstRegular + Cardinality(UsedIds) > TriggerLimit
  IN /\ phase = "refused" /\ Cardinality(Tree) <= ReactorIds => wrong
     /\ phase = "run" => ~wrong

Assembled == {r \in Reactors : id_of[r] # Unset}

(* A multiport that has reserved ids for its channels is created to the end: it
   is never in the middle of them that the ids run out.  And when all is
   assembled the reserved ids, which dependencies on the multiport are declared
   with, are those of its channels and of nothing else. *)
ReservationKept ==
  /\ phase = "refused" /\ stack # <<>> /\ Top.stage = "create" => Top.k = 0
  /\ phase = "run" => \A r \in Assembled : \A n \in DOMAIN program.components[r] :
       LET c == program.components[r][n] IN
         c.multiport =>
           /\ multiport_ranges[c.id] = {trigger_id[c.channels[j]] : j \in DOMAIN c.channels}
           /\ \A d \in Components : trigger_id[d] \in multiport_ranges[c.id] =>
                                      \E j \in DOMAIN c.channels : d = c.channels[j]

(* Faulty variant of Found: an upper bound is taken for the last id. *)
FoundBefore(id) == {Cardinality({i \in DOMAIN reactor_bound : reactor_bound[i] < id})}

(* raw_id_of_trigger: the ids of the reactors that may be found for a trigger.
   binary_search returns any position of an equal element. *)
Found(id) ==
  LET hits == {i \in DOMAIN reactor_bound : reactor_bound[i] = id} IN
    IF hits # {} THEN hits
    ELSE {Cardinality({i \in DOMAIN reactor_bound : reactor_bound[i] < id})}

(* get_container *)
Container(id) == IF id \in DOMAIN reactor_container THEN reactor_container[id] ELSE Unset

(* check_set_port_is_legal, when the registry gives reactor id for a port of a
   kind: whether a reaction of reactor r may set it.  References to ports of
   children are not checked ("todo"). *)
MaySet(r, kind, id) ==
  CASE kind = "Input" -> Container(id) = id_of[r]
    [] kind = "Output" -> id = id_of[r]
    [] OTHER -> TRUE

(* Of the ports of kind Output a debug build lets the reactions of a reactor set
   just its own, and of those of kind Input just those of its children ("Input
   port can only be set by reactions of its grandparent", "... of its parent"),
   however ids were given out, unless the registry takes the port for one of a
   reactor that has no components.  Nothing is claimed of references to ports of
   children, which are not checked.  The ids of reactors must suffice. *)
SetsAreChecked ==
  phase = "run" /\ Cardinality(Assembled) <= ReactorIds =>
    \A q, r \in Assembled : \A n \in DOMAIN program.components[q] :
      LET c == program.components[q][n]
          child == q \in {program.children[r][j] : j \in DOMAIN program.children[r]}
      IN c.kind \in {"Input", "Output"} =>
           \A p \in Ports \cap Names(c) : \A id \in Found(trigger_id[p]) :
             \/ MaySet(r, c.kind, id) <=> IF c.kind = "Input" THEN child ELSE r = q
             \/ program.components[reactors[id]] = <<>>

(* Every reactor that was assembled is registered in the place of its id, and no
   place is empty ("Uninitialized reactor!"), up to the last id there is. *)
ReactorsInPlace ==
  phase = "run" /\ Cardinality(Assembled) <= ReactorIds =>
    /\ DOMAIN reactors = {id_of[r] : r \in Assembled}
    /\ \A r \in Assembled : reactors[id_of[r]] = r
=============================================================================
