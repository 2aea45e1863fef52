--------------------------- MODULE AssemblyProofs ---------------------------
(* Theorems about every program: its types, which values can be read at ports
   in whatever order the tree of reactors binds them, which reactors have ids,
   that the registry is right, that the ids reserved for a multiport are those of
   its channels, which declarations a program is refused for, and that the reactor
   that is found for a trigger is the one that owns it. *)
EXTENDS Assembly, FiniteSetTheorems, TLAPS

Frames == [reactor : Reactors, stage : {"children", "create", "declare"}, n : Nat, k : Nat]

(* The reactors that are being assembled *)
StackInv ==
  /\ program \in Programs
  /\ stack \in Seq(Frames)
  /\ phase = "assemble" => stack # <<>>

WiringTypes ==
  /\ PortsTypeOK
  /\ wired \subseteq Ports \X Ports
  /\ source \in [Ports -> Ports] /\ moves \in [Ports -> Nat]

(* A port is fed by itself or by a free port, and there is a bound port above
   it that is fed by the same one. *)
SourceInv ==
  /\ \A p \in Ports \ bound : source[p] = p
  /\ \A p \in bound : source[p] \notin bound
  /\ \A p \in bound : \E q \in Ports : <<q, p>> \in wired /\ source[q] = source[p]

(* The cells of free ports: each is that of its own port, lists only ports
   that it feeds, and is referred to only by those. *)
CellInv ==
  /\ \A p \in Ports \ bound : cell[p] = p
  /\ \A p \in Ports : cell[p] \notin bound => cell[p] = source[p]
  /\ \A c \in Ports : downstreams[c] \subseteq bound
  /\ \A c \in Ports \ bound : \A q \in downstreams[c] : source[q] = c

MovedOnce == \A p \in Ports : moves[p] <= 1

(* As long as no port has moved twice, each refers to the cell of its source,
   and is listed there if it has not moved at all. *)
FollowInv ==
  MovedOnce =>
    /\ \A p \in Ports : cell[p] = source[p]
    /\ \A p \in bound : moves[p] = 0 => p \in downstreams[source[p]]

NothingSet == \A p \in Ports : value[p] = Absent /\ written[p] = Absent

(* Values are in the cells of free ports. *)
ValueInv ==
  /\ \A p \in Ports \ bound : value[p] = written[p]
  /\ \A p \in bound : value[p] = Absent

(* A cycle through ports that have moved is not noticed when it is closed.
   The wiring shows it, and such a program does not run. *)
PortInv ==
  /\ phase = "run" => Acyclic(wired)
  /\ phase # "run" => NothingSet
  /\ written \in [Ports -> Values \cup {Absent}]
  /\ Acyclic(wired) => SourceInv /\ CellInv /\ FollowInv /\ ValueInv

AssemblyInv == StackInv /\ WiringTypes /\ PortInv

-----------------------------------------------------------------------------
(* The initial state satisfies the invariant. *)
LEMMA InitInv == Init => AssemblyInv
<1> SUFFICES ASSUME Init PROVE AssemblyInv
  OBVIOUS
<1> USE DEF Init, PortsInit
<1>1. Frame(Main) \in Frames
  BY ProgramsAssumption DEF Frame, Frames
<1>2. StackInv
  BY <1>1 DEF StackInv
<1>3. WiringTypes
  BY DEF WiringTypes, PortsTypeOK
<1>4. SourceInv /\ CellInv
  BY DEF SourceInv, CellInv
<1>5. FollowInv
  BY DEF FollowInv
<1>6. NothingSet /\ ValueInv
  BY DEF NothingSet, ValueInv
<1> QED
  BY <1>2, <1>3, <1>4, <1>5, <1>6 DEF AssemblyInv, PortInv

(* The top of the stack is a frame, also after it has gone on. *)
LEMMA TopIsFrame ==
  ASSUME StackInv, phase = "assemble"
  PROVE  Len(stack) \in 1..Len(stack) /\ Len(stack) \in Nat /\ Top \in Frames
BY DEF StackInv, Top

LEMMA NextChild ==
  ASSUME NEW f \in Frames
  PROVE  [f EXCEPT !.n = f.n + 1] \in Frames /\ [f EXCEPT !.k = f.k + 1] \in Frames
BY DEF Frames

LEMMA GoesKeepsFrames ==
  ASSUME StackInv, phase = "assemble", NEW s \in {"children", "create", "declare"}, NEW k \in Nat,
         Goes(s, k)
  PROVE  stack' \in Seq(Frames) /\ stack' # <<>>
<1>1. Top \in Frames /\ Len(stack) \in 1..Len(stack)
  BY TopIsFrame
<1> DEFINE new == [Top EXCEPT !.stage = s, !.n = k, !.k = 0]
<1>2. new \in Frames
  BY <1>1 DEF Frames
<1>3. stack' = [stack EXCEPT ![Len(stack)] = new]
  BY <1>1 DEF Goes, Top, StackInv
<1> QED
  BY <1>1, <1>2, <1>3 DEF StackInv

LEMMA GoesFurtherKeepsFrames ==
  ASSUME StackInv, phase = "assemble", GoesFurther
  PROVE  stack' \in Seq(Frames) /\ stack' # <<>>
<1>1. Top \in Frames /\ Len(stack) \in 1..Len(stack)
  BY TopIsFrame
<1> DEFINE new == [Top EXCEPT !.k = Top.k + 1]
<1>2. new \in Frames
  BY <1>1, NextChild
<1>3. stack' = [stack EXCEPT ![Len(stack)] = new]
  BY <1>1 DEF GoesFurther, Top
<1> QED
  BY <1>1, <1>2, <1>3 DEF StackInv

(* The assembly keeps a stack of frames. *)
LEMMA StackInvKept ==
  ASSUME StackInv, [Next]_vars
  PROVE  StackInv'
<1> USE DEF StackInv
<1>1. CASE AssembleSub
  <2>1. Top \in Frames /\ phase = "assemble"
    BY <1>1, TopIsFrame DEF AssembleSub, At
  <2>2. Children \in Seq(Reactors)
    BY <2>1, ProgramsAssumption DEF Children, Frames, ProgramTypes
  <2>3. Children[Top.n + 1] \in Reactors
    BY <1>1, <2>1, <2>2 DEF AssembleSub, Frames
  <2>4. Frame(Children[Top.n + 1]) \in Frames
    BY <2>3 DEF Frame, Frames
  <2> QED
    BY <1>1, <2>4 DEF AssembleSub
<1>2. CASE AssembleSelf
  BY <1>2, GoesKeepsFrames DEF AssembleSelf, At
<1>3. CASE NewComponent \/ NewChannel
  <2>1. Top \in Frames /\ phase = "assemble"
    BY <1>3, TopIsFrame DEF NewComponent, NewChannel, At
  <2>2. CASE Refuse
    BY <2>2 DEF Refuse
  <2>3. CASE NextCompId
    BY <2>1, <2>3, GoesKeepsFrames, GoesFurtherKeepsFrames DEF NextCompId, Frames
  <2> QED
    BY <1>3, <2>2, <2>3 DEF NewComponent, NewChannel
<1>4. CASE SetIdRange
  BY <1>4, GoesKeepsFrames DEF SetIdRange, At
<1>5. CASE BindRow
  <2>1. Top \in Frames /\ phase = "assemble" /\ Len(stack) \in 1..Len(stack)
    BY <1>5, TopIsFrame DEF BindRow, At
  <2>2. CASE Refuse
    BY <2>2 DEF Refuse
  <2>3. CASE Goes("declare", Top.n + 1) /\ UNCHANGED <<program, phase>>
    BY <2>1, <2>3, GoesKeepsFrames DEF Frames
  <2>4. CASE GoesFurther /\ UNCHANGED <<program, phase>>
    BY <2>1, <2>4, GoesFurtherKeepsFrames
  <2> QED
    BY <1>5, <2>2, <2>3, <2>4 DEF BindRow, BindPorts
<1>6. CASE Finish
  <2>1. phase = "assemble" /\ Len(stack) \in Nat \ {0}
    BY <1>6, TopIsFrame DEF Finish, At
  <2>2. CASE Len(stack) > 1
    <3> DEFINE rest == SubSeq(stack, 1, Len(stack) - 1)
               last == Len(stack) - 1
    <3>1. rest \in Seq(Frames) /\ Len(rest) = last /\ last \in 1..last
      BY <2>1, <2>2
    <3>2. rest[last] \in Frames
      BY <3>1
    <3> DEFINE new == [rest[last] EXCEPT !.n = rest[last].n + 1]
    <3>3. new \in Frames
      BY <3>2, NextChild
    <3>4. stack' = [rest EXCEPT ![last] = new]
      BY <1>6, <2>2, <3>1 DEF Finish
    <3>5. stack' \in Seq(Frames) /\ Len(stack') = last
      BY <3>1, <3>3, <3>4
    <3> QED
      BY <1>6, <2>2, <3>1, <3>5 DEF Finish
  <2>3. CASE ~(Len(stack) > 1)
    BY <1>6, <2>3 DEF Finish
  <2> QED
    BY <2>2, <2>3
<1>7. CASE \E p \in Ports, v \in Values : Set(p, v)
  BY <1>7 DEF Set
<1>8. CASE CleanupTag
  BY <1>8 DEF CleanupTag
<1>9. CASE UNCHANGED vars
  BY <1>9 DEF vars
<1> QED
  BY <1>1, <1>2, <1>3, <1>4, <1>5, <1>6, <1>7, <1>8, <1>9 DEF Next, Refused

-----------------------------------------------------------------------------
(* What a binding of two ports that is not refused does *)
Binds(up, down) ==
  /\ ~IsBound(down) /\ ~FindsCycle(up, down)
  /\ ForwardTo(up, down)
  /\ wired' = wired \cup {<<up, down>>}
  /\ source' = [p \in Ports |-> IF source[p] = down THEN source[up] ELSE source[p]]
  /\ moves' = [p \in Ports |-> IF source[p] = down /\ p # down THEN moves[p] + 1 ELSE moves[p]]
  /\ UNCHANGED <<phase, written>>

LEMMA PairsAreOfPorts ==
  ASSUME NEW b \in [up : Seq(Ports), down : Seq(Ports), repeat : BOOLEAN], ~Malformed(b),
         NEW i \in DOMAIN Pairs(b)
  PROVE  Pairs(b)[i] \in Ports \X Ports
<1>1. b.up \in Seq(Ports) /\ b.down \in Seq(Ports) /\ Len(b.up) \in Nat /\ Len(b.down) \in Nat
  OBVIOUS
<1>2. i \in 1..Len(b.down) /\ (~b.repeat => i \in 1..Len(b.up))
  BY <1>1 DEF Pairs
<1>3. b.repeat => Len(b.up) > 0
  BY <1>1 DEF Malformed
<1>4. \A x, n \in Nat : n > 0 => (x % n) + 1 \in 1..n
  OBVIOUS
<1>5. b.repeat => ((i - 1) % Len(b.up)) + 1 \in 1..Len(b.up)
  BY <1>1, <1>2, <1>3, <1>4
<1>6. b.down[i] \in Ports /\ b.up[IF b.repeat THEN ((i - 1) % Len(b.up)) + 1 ELSE i] \in Ports
  BY <1>1, <1>2, <1>5
<1> QED
  BY <1>6 DEF Pairs

LEMMA BelowLast ==
  ASSUME NEW n \in Nat, NEW k \in 1..n, k # n
  PROVE  k \in 1..(n - 1) /\ k + 1 \in 1..n
OBVIOUS

LEMMA LastIsNotBelow ==
  ASSUME NEW n \in Nat
  PROVE  \A k \in 1..(n - 1) : k \in 1..n /\ k # n /\ k + 1 \in 1..n
OBVIOUS

LEMMA ElementOf ==
  ASSUME NEW S, NEW s \in Seq(S), NEW i \in 1..Len(s)
  PROVE  s[i] \in S
OBVIOUS

LEMMA BindRowBinds ==
  ASSUME StackInv, BindRow
  PROVE  \/ \E up, down \in Ports : Binds(up, down)
         \/ Refuse
         \/ UNCHANGED <<phase, bindVars, written, portVars>>
<1>1. Top \in Frames /\ phase = "assemble"
  BY TopIsFrame DEF BindRow, At
<1>2. Bindings \in Seq([up : Seq(Ports), down : Seq(Ports), repeat : BOOLEAN])
  BY <1>1, ProgramsAssumption DEF Bindings, Frames, StackInv, ProgramTypes
<1> DEFINE row == Bindings[Top.n + 1]
<1>3. row \in [up : Seq(Ports), down : Seq(Ports), repeat : BOOLEAN]
  <2>1. Top.n < Len(Bindings) /\ Top.n \in Nat
    BY <1>1 DEF BindRow, Frames
  <2>2. Top.n + 1 \in 1..Len(Bindings)
    BY <1>2, <2>1
  <2> QED
    BY <1>2, <2>2, ElementOf
<1>4. CASE Malformed(row)
  BY <1>4 DEF BindRow
<1>5. CASE ~Malformed(row) /\ Top.k < Len(Pairs(row))
  <2> DEFINE u == Pairs(row)[Top.k + 1][1]
             d == Pairs(row)[Top.k + 1][2]
  <2>1. Top.k + 1 \in DOMAIN Pairs(row)
    BY <1>1, <1>3, <1>5 DEF Frames, Pairs
  <2>2. u \in Ports /\ d \in Ports
    BY <1>3, <1>5, <2>1, PairsAreOfPorts
  <2>3. BindPorts(u, d)
    BY <1>5 DEF BindRow
  <2>4. Binds(u, d) \/ Refuse
    BY <2>3 DEF BindPorts, Binds
  <2> QED
    BY <2>2, <2>4
<1>6. CASE ~Malformed(row) /\ ~(Top.k < Len(Pairs(row)))
  BY <1>6 DEF BindRow
<1> QED
  BY <1>4, <1>5, <1>6

(* Edges are only added, so a cycle stays. *)
LEMMA AcyclicBefore ==
  ASSUME NEW old, NEW new, old \subseteq new, Acyclic(new)
  PROVE  Acyclic(old)
BY DEF Acyclic

(* A binding that closes a cycle is seen in the wiring: every port that is fed
   by down has another one above it. *)
LEMMA ClosedCycle ==
  ASSUME WiringTypes, SourceInv, NEW up \in Ports, NEW down \in Ports, down \notin bound,
         source[up] = down
  PROVE  ~Acyclic(wired \cup {<<up, down>>})
<1> DEFINE S == {p \in Ports : source[p] = down}
<1>1. up \in S
  OBVIOUS
<1>2. S \in SUBSET Ports /\ S # {}
  BY <1>1
<1>3. ASSUME NEW p \in S
      PROVE  \E q \in S : <<q, p>> \in wired \cup {<<up, down>>}
  <2>1. CASE p = down
    BY <1>1, <2>1
  <2>2. CASE p # down
    <3>1. p \in bound
      BY <2>2 DEF SourceInv
    <3>2. PICK q \in Ports : <<q, p>> \in wired /\ source[q] = source[p]
      BY <3>1 DEF SourceInv
    <3> QED
      BY <3>2
  <2> QED
    BY <2>1, <2>2
<1> QED
  <2> HIDE DEF S
  <2> QED
    BY <1>2, <1>3 DEF Acyclic

LEMMA BindsTypes ==
  ASSUME WiringTypes, NEW up \in Ports, NEW down \in Ports, Binds(up, down)
  PROVE  WiringTypes'
<1> USE DEF WiringTypes, PortsTypeOK, Binds, ForwardTo
<1>1. downstreams' \in [Ports -> SUBSET Ports]
  BY DEF Listed
<1>2. cell' \in [Ports -> Ports]
  BY DEF Redirected
<1>3. source' \in [Ports -> Ports] /\ wired' \subseteq Ports \X Ports
  <2>1. \A p \in Ports : source[p] \in Ports
    OBVIOUS
  <2> QED
    BY <2>1
<1>4. moves' \in [Ports -> Nat]
  <2>1. \A p \in Ports : moves[p] \in Nat /\ moves[p] + 1 \in Nat
    OBVIOUS
  <2> QED
    BY <2>1
<1> QED
  BY <1>1, <1>2, <1>3, <1>4

(* A binding keeps the invariant of the ports. *)
LEMMA BindsKeeps ==
  ASSUME WiringTypes, SourceInv, CellInv, FollowInv, NEW up \in Ports, NEW down \in Ports,
         Binds(up, down), source[up] # down
  PROVE  SourceInv' /\ CellInv' /\ FollowInv'
<1>1. down \notin bound /\ bound' = bound \cup {down}
  BY DEF Binds, IsBound, ForwardTo
<1>2. cell[down] = down /\ source[down] = down
  BY <1>1 DEF SourceInv, CellInv
<1>3. source[up] \notin bound' /\ source[up] \in Ports
  BY <1>1 DEF SourceInv, WiringTypes
<1>4. \A p \in Ports : source'[p] = IF source[p] = down THEN source[up] ELSE source[p]
  BY DEF Binds
<1>5. cell[up] # down
  BY <1>1 DEF CellInv
<1>6. \A c \in Ports : downstreams'[c] = IF c = cell[up] THEN downstreams[c] \cup {down} ELSE downstreams[c]
  BY DEF Binds, ForwardTo, Listed, WiringTypes, PortsTypeOK
<1>7. \A q \in downstreams[down] : source[q] = down /\ q \in bound
  BY <1>1 DEF CellInv
<1>8. \A p \in Ports : cell'[p] = IF p = down \/ p \in downstreams[down] THEN cell[up] ELSE cell[p]
  BY <1>2, <1>5 DEF Binds, ForwardTo, Redirected, Listed, WiringTypes, PortsTypeOK
<1>9. SourceInv'
  <2>1. \A p \in Ports \ bound' : source'[p] = p
    BY <1>1, <1>4 DEF SourceInv
  <2>2. \A p \in bound' : source'[p] \notin bound'
    BY <1>1, <1>2, <1>3, <1>4 DEF SourceInv, WiringTypes, PortsTypeOK
  <2>3. ASSUME NEW p \in bound'
        PROVE  \E q \in Ports : <<q, p>> \in wired' /\ source'[q] = source'[p]
    <3>1. CASE p = down
      BY <3>1, <1>2, <1>4 DEF Binds
    <3>2. CASE p \in bound
      <4>1. PICK q \in Ports : <<q, p>> \in wired /\ source[q] = source[p]
        BY <3>2 DEF SourceInv
      <4>2. p \in Ports /\ source'[q] = source'[p]
        BY <3>2, <4>1, <1>4 DEF WiringTypes, PortsTypeOK
      <4> QED
        BY <4>1, <4>2 DEF Binds
    <3> QED
      BY <3>1, <3>2, <1>1
  <2> QED
    BY <2>1, <2>2, <2>3 DEF SourceInv
<1>10. CellInv'
  <2>1. \A p \in Ports \ bound' : cell'[p] = p
    BY <1>1, <1>7, <1>8 DEF CellInv
  <2>2. ASSUME NEW p \in Ports, cell'[p] \notin bound'
        PROVE  cell'[p] = source'[p]
    <3>1. CASE p = down \/ p \in downstreams[down]
      BY <2>2, <3>1, <1>1, <1>2, <1>4, <1>7, <1>8 DEF CellInv
    <3>2. CASE ~(p = down \/ p \in downstreams[down])
      BY <2>2, <3>2, <1>1, <1>4, <1>8 DEF CellInv
    <3> QED
      BY <3>1, <3>2
  <2>3. \A c \in Ports : downstreams'[c] \subseteq bound'
    BY <1>1, <1>6 DEF CellInv
  <2>4. ASSUME NEW c \in Ports \ bound', NEW q \in downstreams'[c]
        PROVE  source'[q] = c
    <3>1. c # down /\ c \notin bound
      BY <1>1
    <3>2. CASE q \in downstreams[c]
      BY <3>1, <3>2, <1>4 DEF CellInv, WiringTypes, PortsTypeOK
    <3>3. CASE q = down /\ c = cell[up]
      BY <3>1, <3>3, <1>2, <1>4 DEF CellInv
    <3> QED
      BY <3>2, <3>3, <1>6
  <2> QED
    BY <2>1, <2>2, <2>3, <2>4 DEF CellInv
<1>11. FollowInv'
  <2> SUFFICES ASSUME MovedOnce'
               PROVE  /\ \A p \in Ports : cell'[p] = source'[p]
                      /\ \A p \in bound' : moves'[p] = 0 => p \in downstreams'[source'[p]]
    BY DEF FollowInv
  <2>1. \A p \in Ports : /\ moves[p] \in Nat
                          /\ moves'[p] = IF source[p] = down /\ p # down THEN moves[p] + 1 ELSE moves[p]
    BY DEF Binds, WiringTypes
  <2>2. MovedOnce
    BY <2>1 DEF MovedOnce
  <2>3. \A p \in Ports : cell[p] = source[p]
    BY <2>2 DEF FollowInv
  <2>4. \A p \in bound : moves[p] = 0 => p \in downstreams[source[p]]
    BY <2>2 DEF FollowInv
  <2>5. ASSUME NEW p \in Ports
        PROVE  cell'[p] = source'[p]
    <3>1. CASE p = down
      BY <3>1, <2>3, <1>2, <1>4, <1>8
    <3>2. CASE p # down /\ source[p] = down
      <4>1. p \in bound
        BY <3>2 DEF SourceInv
      <4>2. moves[p] = 0
        BY <3>2, <2>1 DEF MovedOnce
      <4>3. p \in downstreams[down]
        BY <3>2, <4>1, <4>2, <2>4
      <4> QED
        BY <3>2, <4>3, <2>3, <1>4, <1>8
    <3>3. CASE source[p] # down
      BY <3>3, <2>3, <1>2, <1>4, <1>7, <1>8
    <3> QED
      BY <3>1, <3>2, <3>3
  <2>6. ASSUME NEW p \in bound', moves'[p] = 0
        PROVE  p \in downstreams'[source'[p]]
    <3>1. p \in Ports /\ source[p] \in Ports
      BY <1>1 DEF WiringTypes, PortsTypeOK
    <3>2. CASE p = down
      BY <3>2, <2>3, <1>2, <1>3, <1>4, <1>6
    <3>3. CASE p # down
      <4>1. source[p] # down /\ moves[p] = 0 /\ p \in bound
        BY <3>1, <3>3, <2>1, <2>6, <1>1
      <4>2. p \in downstreams[source[p]]
        BY <4>1, <2>4
      <4> QED
        BY <3>1, <4>1, <4>2, <1>4, <1>6
    <3> QED
      BY <3>2, <3>3
  <2> QED
    BY <2>5, <2>6
<1> QED
  BY <1>9, <1>10, <1>11

(* The whole invariant after a binding *)
LEMMA BindsPortInv ==
  ASSUME WiringTypes, PortInv, phase = "assemble", NEW up \in Ports, NEW down \in Ports,
         Binds(up, down)
  PROVE  WiringTypes' /\ PortInv'
<1>1. WiringTypes'
  BY BindsTypes
<1>2. phase' = phase /\ written' = written /\ value' = value
  BY DEF Binds, ForwardTo
<1>3. NothingSet /\ NothingSet'
  BY <1>2 DEF PortInv, NothingSet
<1>4. ASSUME Acyclic(wired')
      PROVE  SourceInv' /\ CellInv' /\ FollowInv' /\ ValueInv'
  <2>1. wired' = wired \cup {<<up, down>>}
    BY DEF Binds
  <2>2. Acyclic(wired)
    BY <1>4, <2>1, AcyclicBefore
  <2>3. SourceInv /\ CellInv /\ FollowInv
    BY <2>2 DEF PortInv
  <2>4. source[up] # down
    BY <1>4, <2>1, <2>3, ClosedCycle DEF Binds, IsBound
  <2>5. SourceInv' /\ CellInv' /\ FollowInv'
    BY <2>3, <2>4, BindsKeeps
  <2>6. ValueInv'
    BY <1>1, <1>3 DEF ValueInv, NothingSet, WiringTypes, PortsTypeOK
  <2> QED
    BY <2>5, <2>6
<1> QED
  BY <1>1, <1>2, <1>3, <1>4 DEF PortInv

-----------------------------------------------------------------------------
(* Steps that bind nothing keep the invariant of the wiring. *)
LEMMA SameWiring ==
  ASSUME WiringTypes, UNCHANGED <<cell, downstreams, bound, wired, source, moves>>
  PROVE  /\ Acyclic(wired') = Acyclic(wired)
         /\ SourceInv' = SourceInv /\ CellInv' = CellInv /\ FollowInv' = FollowInv
BY DEF SourceInv, CellInv, FollowInv, MovedOnce

(* Steps of the assembly other than bindings *)
LEMMA AssemblyKeeps ==
  ASSUME WiringTypes, PortInv, UNCHANGED <<bindVars, written, portVars>>,
         phase = "run" <=> phase' = "run"
  PROVE  WiringTypes' /\ PortInv'
BY SameWiring DEF bindVars, portVars, WiringTypes, PortsTypeOK, PortInv, NothingSet, ValueInv

LEMMA FinishKeeps ==
  ASSUME WiringTypes, PortInv, Finish
  PROVE  WiringTypes' /\ PortInv'
<1>1. phase = "assemble" /\ UNCHANGED <<bindVars, written, portVars>>
  BY DEF Finish, At
<1>2. WiringTypes'
  BY <1>1 DEF bindVars, portVars, WiringTypes, PortsTypeOK
<1>3. phase' = "run" => Acyclic(wired)
  BY <1>1 DEF Finish
<1>4. NothingSet
  BY <1>1 DEF PortInv
<1>5. ValueInv
  BY <1>4 DEF NothingSet, ValueInv, WiringTypes, PortsTypeOK
<1>6. NothingSet' /\ ValueInv'
  BY <1>1, <1>4, <1>5 DEF NothingSet, ValueInv, bindVars, portVars
<1> QED
  BY <1>1, <1>2, <1>3, <1>6, SameWiring DEF PortInv, bindVars, portVars

(* Setting a port *)
LEMMA SetKeeps ==
  ASSUME WiringTypes, PortInv, NEW p \in Ports, NEW v \in Values, Set(p, v)
  PROVE  WiringTypes' /\ PortInv'
<1>1. /\ phase = "run" /\ phase' = "run" /\ p \notin bound
      /\ UNCHANGED <<cell, downstreams, bound, wired, source, moves>>
  BY DEF Set, SetImpl, bindVars
<1>2. Acyclic(wired) /\ SourceInv /\ CellInv /\ FollowInv /\ ValueInv
  BY <1>1 DEF PortInv
<1>3. cell[p] = p
  BY <1>1, <1>2 DEF CellInv
<1>4. value' = [value EXCEPT ![p] = v] /\ written' = [written EXCEPT ![p] = v]
  BY <1>3 DEF Set, SetImpl
<1>5. WiringTypes' /\ written' \in [Ports -> Values \cup {Absent}]
  BY <1>1, <1>4 DEF WiringTypes, PortsTypeOK, PortInv
<1>6. ValueInv'
  BY <1>1, <1>2, <1>4 DEF ValueInv, WiringTypes, PortsTypeOK, PortInv
<1> QED
  BY <1>1, <1>2, <1>5, <1>6, SameWiring DEF PortInv

(* The end of a tag *)
LEMMA CleanupKeeps ==
  ASSUME WiringTypes, PortInv, CleanupTag
  PROVE  WiringTypes' /\ PortInv'
<1>1. /\ phase = "run" /\ phase' = "run"
      /\ UNCHANGED <<cell, downstreams, bound, wired, source, moves>>
  BY DEF CleanupTag, bindVars
<1>2. Acyclic(wired) /\ SourceInv /\ CellInv /\ FollowInv /\ ValueInv
  BY <1>1 DEF PortInv
<1>3. value' = Cleared /\ written' = [q \in Ports |-> Absent]
  BY DEF CleanupTag
<1>4. WiringTypes' /\ written' \in [Ports -> Values \cup {Absent}]
  BY <1>1, <1>3 DEF WiringTypes, PortsTypeOK, Cleared
<1>5. ValueInv'
  BY <1>1, <1>2, <1>3 DEF ValueInv, CellInv, WiringTypes, PortsTypeOK, Cleared
<1> QED
  BY <1>1, <1>2, <1>4, <1>5, SameWiring DEF PortInv

(* Every step keeps the invariant. *)
LEMMA StepInv == AssemblyInv /\ [Next]_vars => AssemblyInv'
<1> SUFFICES ASSUME AssemblyInv, [Next]_vars PROVE AssemblyInv'
  OBVIOUS
<1>1. StackInv /\ WiringTypes /\ PortInv
  BY DEF AssemblyInv
<1>2. StackInv'
  BY <1>1, StackInvKept
<1>3. WiringTypes' /\ PortInv'
  <2>1. CASE Refuse /\ phase # "run"
    BY <1>1, <2>1, AssemblyKeeps DEF Refuse
  <2>2. CASE AssembleSub \/ AssembleSelf \/ SetIdRange
    BY <1>1, <2>2, AssemblyKeeps DEF AssembleSub, AssembleSelf, SetIdRange
  <2>3. CASE NewComponent \/ NewChannel
    <3>1. phase = "assemble" /\ (Refuse \/ UNCHANGED <<phase, bindVars, written, portVars>>)
      BY <2>3 DEF NewComponent, NewChannel, NextCompId, At
    <3> QED
      BY <1>1, <2>1, <3>1, AssemblyKeeps
  <2>4. CASE BindRow
    <3>1. phase = "assemble"
      BY <2>4 DEF BindRow, At
    <3>2. \/ \E up, down \in Ports : Binds(up, down)
          \/ Refuse
          \/ UNCHANGED <<phase, bindVars, written, portVars>>
      BY <1>1, <2>4, BindRowBinds
    <3> QED
      BY <1>1, <2>1, <3>1, <3>2, BindsPortInv, AssemblyKeeps
  <2>5. CASE Finish
    BY <1>1, <2>5, FinishKeeps
  <2>6. CASE \E p \in Ports, v \in Values : Set(p, v)
    BY <1>1, <2>6, SetKeeps
  <2>7. CASE CleanupTag
    BY <1>1, <2>7, CleanupKeeps
  <2>8. CASE UNCHANGED vars
    BY <1>1, <2>8, AssemblyKeeps DEF vars
  <2> QED
    BY <2>2, <2>3, <2>4, <2>5, <2>6, <2>7, <2>8 DEF Next, Refused
<1> QED
  BY <1>2, <1>3 DEF AssemblyInv

(* The invariant holds in every reachable state. *)
THEOREM AssemblyInvHolds == Spec => []AssemblyInv
BY InitInv, StepInv, PTL DEF Spec

-----------------------------------------------------------------------------
(* In every program, a bound port carries the value of the free port that feeds it
   at the same tag, as long as no port has changed its source twice, in
   whatever order the reactors declare the bindings. *)
THEOREM ForwardsUnlessMovedTwiceHolds == Spec => []ForwardsUnlessMovedTwice
<1>1. AssemblyInv => ForwardsUnlessMovedTwice
  <2> SUFFICES ASSUME AssemblyInv, phase = "run", MovedOnce, NEW p \in Ports
               PROVE  Read(p) = written[source[p]]
    BY DEF ForwardsUnlessMovedTwice, MovedOnce
  <2>1. WiringTypes /\ SourceInv /\ FollowInv /\ ValueInv
    BY DEF AssemblyInv, PortInv
  <2>2. cell[p] = source[p]
    BY <2>1 DEF FollowInv
  <2>3. source[p] \in Ports \ bound
    BY <2>1 DEF SourceInv, WiringTypes
  <2> QED
    BY <2>1, <2>2, <2>3 DEF ValueInv, Read
<1> QED
  BY <1>1, AssemblyInvHolds, PTL

(* In every program, and however often ports have changed their source, none
   carries a value that another port was set to, or one of an earlier tag: where
   forwarding fails, the value is absent. *)
THEOREM NoForeignValueHolds == Spec => []NoForeignValue
<1>1. AssemblyInv => NoForeignValue
  <2> SUFFICES ASSUME AssemblyInv, phase = "run", NEW p \in Ports
               PROVE  Read(p) \in {Absent, written[source[p]]}
    BY DEF NoForeignValue
  <2>1. WiringTypes /\ SourceInv /\ CellInv /\ ValueInv
    BY DEF AssemblyInv, PortInv
  <2>2. CASE cell[p] \in bound
    BY <2>1, <2>2 DEF ValueInv, Read
  <2>3. CASE cell[p] \notin bound
    <3>1. cell[p] = source[p] /\ cell[p] \in Ports
      BY <2>1, <2>3 DEF CellInv, WiringTypes, PortsTypeOK
    <3> QED
      BY <2>1, <2>3, <3>1 DEF ValueInv, Read
  <2> QED
    BY <2>2, <2>3
<1> QED
  BY <1>1, AssemblyInvHolds, PTL

-----------------------------------------------------------------------------
(* The order of the assembly: which reactors have got their ids.
   The stack is a path in the tree. *)
PathRoot == stack[1].reactor = Main
PathStep(k) ==
  /\ stack[k].stage = "children" /\ stack[k].n + 1 \in DOMAIN program.children[stack[k].reactor]
  /\ stack[k + 1].reactor = program.children[stack[k].reactor][stack[k].n + 1]
PathDown == \A k \in 1..(Len(stack) - 1) : PathStep(k)
PathOnce == \A k, l \in DOMAIN stack : stack[k].reactor = stack[l].reactor => k = l

PathInv == PathRoot /\ PathDown /\ PathOnce

(* A reactor on the stack has an id once its children are assembled; these
   have theirs, and no reactor has one whose parent has none and is not there. *)
GivenOnStack == \A k \in DOMAIN stack : id_of[stack[k].reactor] # Unset <=> stack[k].stage # "children"

GivenBelow ==
  \A k \in DOMAIN stack : \A j \in DOMAIN program.children[stack[k].reactor] :
    stack[k].stage # "children" \/ j <= stack[k].n => id_of[program.children[stack[k].reactor][j]] # Unset

Reached(q, j) ==
  \E k \in DOMAIN stack : /\ stack[k].reactor = q
                          /\ j <= stack[k].n \/ (k < Len(stack) /\ j = stack[k].n + 1)

GivenOnly ==
  \A q \in Reactors : \A j \in DOMAIN program.children[q] :
    id_of[program.children[q][j]] # Unset => id_of[q] # Unset \/ Reached(q, j)

GivenInv == GivenOnStack /\ GivenBelow /\ GivenOnly

(* In the middle of a multiport there is a component that is being created. *)
MiddleInv == Top.stage = "create" /\ Top.k > 0 => Top.n < Len(Declared) /\ Top.k <= Len(New.channels)

OrderInv ==
  /\ StackInv
  /\ id_of \in [Reactors -> Nat \cup {Unset}] /\ reactor_id \in Nat
  /\ phase = "assemble" => PathInv /\ GivenInv /\ MiddleInv

LEMMA KidsInTree ==
  ASSUME program \in Programs, NEW q \in Reactors
  PROVE  /\ program.children[q] \in Seq(Reactors)
         /\ \A i \in DOMAIN program.children[q] :
              /\ program.children[q][i] \in Reactors /\ program.children[q][i] # Main
              /\ \A r \in Reactors : \A j \in DOMAIN program.children[r] : program.children[q][i] = program.children[r][j] => q = r /\ i = j
<1>1. program.children[q] \in Seq(Reactors)
  BY ProgramsAssumption DEF ProgramTypes
<1>2. \A i \in DOMAIN program.children[q] : program.children[q][i] \in Reactors
  BY <1>1
<1> QED
  BY <1>1, <1>2, TreeAssumption

LEMMA FrameTypes ==
  ASSUME StackInv, NEW k \in DOMAIN stack
  PROVE  /\ DOMAIN stack = 1..Len(stack) /\ Len(stack) \in Nat
         /\ stack[k].reactor \in Reactors /\ stack[k].n \in Nat
<1>1. stack[k] \in Frames
  BY DEF StackInv
<1> QED
  BY <1>1 DEF StackInv, Frames

(* What the steps do to the stack *)
LEMMA PushShape ==
  ASSUME StackInv, NEW f \in Frames, stack' = Append(stack, f)
  PROVE  /\ Len(stack') = Len(stack) + 1 /\ stack'[Len(stack) + 1] = f
         /\ \A k \in 1..Len(stack) : stack'[k] = stack[k]
BY DEF StackInv

LEMMA GoesShape ==
  ASSUME StackInv, phase = "assemble", NEW s, NEW k, Goes(s, k)
  PROVE  /\ Len(stack') = Len(stack) /\ DOMAIN stack' = DOMAIN stack
         /\ \A i \in DOMAIN stack : stack'[i].reactor = stack[i].reactor
         /\ \A i \in DOMAIN stack : i # Len(stack) => stack'[i] = stack[i]
         /\ stack'[Len(stack)].stage = s /\ stack'[Len(stack)].n = k
<1>1. Len(stack) \in 1..Len(stack) /\ Top \in Frames
  BY TopIsFrame
<1> DEFINE new == [Top EXCEPT !.stage = s, !.n = k, !.k = 0]
<1>2. new.reactor = Top.reactor /\ new.stage = s /\ new.n = k
  BY <1>1 DEF Frames
<1>3. stack' = [stack EXCEPT ![Len(stack)] = new]
  BY <1>1 DEF Goes, Top, StackInv
<1> HIDE DEF new
<1>4. stack' \in Seq({new} \cup Frames) /\ Len(stack') = Len(stack)
  BY <1>1, <1>3 DEF StackInv
<1> QED
  BY <1>1, <1>2, <1>3, <1>4 DEF StackInv, Top

LEMMA CountShape ==
  ASSUME StackInv, phase = "assemble", GoesFurther
  PROVE  /\ Len(stack') = Len(stack) /\ DOMAIN stack' = DOMAIN stack
         /\ \A i \in DOMAIN stack : /\ stack'[i].reactor = stack[i].reactor
                                    /\ stack'[i].stage = stack[i].stage /\ stack'[i].n = stack[i].n
<1>1. Len(stack) \in 1..Len(stack) /\ Top \in Frames
  BY TopIsFrame
<1> DEFINE new == [Top EXCEPT !.k = Top.k + 1]
<1>2. new.reactor = Top.reactor /\ new.stage = Top.stage /\ new.n = Top.n /\ new \in Frames
  BY <1>1, NextChild DEF Frames
<1>3. stack' = [stack EXCEPT ![Len(stack)] = new]
  BY <1>1 DEF GoesFurther, Top
<1> HIDE DEF new
<1> QED
  BY <1>1, <1>2, <1>3 DEF StackInv, Top

LEMMA PopShape ==
  ASSUME StackInv, Len(stack) > 1,
         stack' = [SubSeq(stack, 1, Len(stack) - 1) EXCEPT ![Len(stack) - 1].n = @ + 1]
  PROVE  /\ Len(stack') = Len(stack) - 1 /\ DOMAIN stack' = 1..(Len(stack) - 1)
         /\ \A i \in DOMAIN stack' : stack'[i].reactor = stack[i].reactor /\ stack'[i].stage = stack[i].stage
         /\ \A i \in DOMAIN stack' : i # Len(stack) - 1 => stack'[i] = stack[i]
         /\ stack'[Len(stack) - 1].n = stack[Len(stack) - 1].n + 1
<1> DEFINE rest == SubSeq(stack, 1, Len(stack) - 1)
           last == Len(stack) - 1
<1>1. rest \in Seq(Frames) /\ Len(rest) = last /\ last \in 1..last /\ \A i \in 1..last : rest[i] = stack[i]
  BY DEF StackInv
<1>2. rest[last] \in Frames
  BY <1>1
<1> DEFINE new == [rest[last] EXCEPT !.n = rest[last].n + 1]
<1>3. new \in Frames /\ new.reactor = rest[last].reactor /\ new.stage = rest[last].stage /\ new.n = rest[last].n + 1
  BY <1>2, NextChild DEF Frames
<1>4. stack' = [rest EXCEPT ![last] = new]
  BY <1>1
<1>5. stack' \in Seq(Frames) /\ Len(stack') = last
  BY <1>1, <1>3, <1>4
<1> HIDE DEF new, rest
<1> QED
  BY <1>1, <1>3, <1>4, <1>5

(* What the steps do to the top of the stack *)
LEMMA PushTop ==
  ASSUME StackInv, AssembleSub
  PROVE  stack' # <<>> /\ Top'.stage = "children"
<1>1. Top \in Frames /\ phase = "assemble"
  BY TopIsFrame DEF AssembleSub, At
<1>2. Children \in Seq(Reactors) /\ Top.n \in Nat /\ Top.n < Len(Children)
  BY <1>1, KidsInTree DEF Frames, StackInv, Children, AssembleSub
<1>3. Frame(Children[Top.n + 1]) \in Frames
  BY <1>2 DEF Frame, Frames
<1>4. stack' = Append(stack, Frame(Children[Top.n + 1]))
  BY DEF AssembleSub
<1>5. /\ Len(stack') = Len(stack) + 1 /\ Len(stack) \in Nat
      /\ stack'[Len(stack) + 1] = Frame(Children[Top.n + 1])
  BY <1>3, <1>4, PushShape DEF StackInv
<1>6. Top' = Frame(Children[Top.n + 1]) /\ stack' # <<>>
  BY <1>5 DEF Top
<1> QED
  BY <1>6 DEF Frame

LEMMA GoesTop ==
  ASSUME StackInv, phase = "assemble", NEW s, NEW n, Goes(s, n)
  PROVE  /\ stack' # <<>> /\ Top'.reactor = Top.reactor
         /\ Top'.stage = s /\ Top'.n = n /\ Top'.k = 0
<1>1. Len(stack) \in 1..Len(stack) /\ Len(stack) \in Nat /\ Top \in Frames
  BY TopIsFrame
<1> DEFINE new == [Top EXCEPT !.stage = s, !.n = n, !.k = 0]
<1>2. new.reactor = Top.reactor /\ new.stage = s /\ new.n = n /\ new.k = 0
  BY <1>1 DEF Frames
<1>3. stack' = [stack EXCEPT ![Len(stack)] = new]
  BY <1>1 DEF Goes, Top, StackInv
<1> HIDE DEF new
<1>4. Len(stack') = Len(stack) /\ stack'[Len(stack)] = new
  BY <1>1, <1>3 DEF StackInv
<1>5. stack' # <<>> /\ Top' = new
  BY <1>1, <1>4 DEF Top
<1> QED
  BY <1>2, <1>5

LEMMA CountTop ==
  ASSUME StackInv, phase = "assemble", GoesFurther
  PROVE  /\ stack' # <<>> /\ Top'.reactor = Top.reactor /\ Top'.stage = Top.stage
         /\ Top'.n = Top.n /\ Top'.k = Top.k + 1
<1>1. Len(stack) \in 1..Len(stack) /\ Len(stack) \in Nat /\ Top \in Frames
  BY TopIsFrame
<1> DEFINE new == [Top EXCEPT !.k = Top.k + 1]
<1>2. new.reactor = Top.reactor /\ new.stage = Top.stage /\ new.n = Top.n /\ new.k = Top.k + 1
  BY <1>1 DEF Frames
<1>3. stack' = [stack EXCEPT ![Len(stack)] = new]
  BY <1>1 DEF GoesFurther, Top
<1> HIDE DEF new
<1>4. Len(stack') = Len(stack) /\ stack'[Len(stack)] = new
  BY <1>1, <1>3 DEF StackInv
<1>5. stack' # <<>> /\ Top' = new
  BY <1>1, <1>4 DEF Top
<1> QED
  BY <1>2, <1>5

LEMMA PopTop ==
  ASSUME StackInv, PathInv, Finish
  PROVE  stack' # <<>> => Top'.stage = "children"
<1> SUFFICES ASSUME stack' # <<>> PROVE Top'.stage = "children"
  OBVIOUS
<1>1. /\ Len(stack) > 1
      /\ stack' = [SubSeq(stack, 1, Len(stack) - 1) EXCEPT ![Len(stack) - 1].n = @ + 1]
  BY DEF Finish
<1> DEFINE last == Len(stack) - 1
<1>2. Len(stack) \in Nat
  BY <1>1 DEF StackInv
<1>3. /\ Len(stack') = last /\ DOMAIN stack' = 1..last
      /\ \A i \in DOMAIN stack' : stack'[i].reactor = stack[i].reactor /\ stack'[i].stage = stack[i].stage
  BY <1>1, PopShape
<1>4. last \in 1..last
  BY <1>1, <1>2
<1>5. Top' = stack'[last] /\ stack'[last].stage = stack[last].stage
  BY <1>3, <1>4 DEF Top
<1>6. stack[last].stage = "children"
  BY <1>1, <1>4 DEF PathInv, PathDown, PathStep
<1> QED
  BY <1>5, <1>6

(* A child that is about to be assembled has no id and is not on the stack. *)
LEMMA NextChildIsNew ==
  ASSUME StackInv, PathInv, GivenInv, phase = "assemble", Top.stage = "children",
         Top.n + 1 \in DOMAIN program.children[Top.reactor]
  PROVE  LET c == program.children[Top.reactor][Top.n + 1] IN
           id_of[c] = Unset /\ \A k \in DOMAIN stack : stack[k].reactor # c
<1> DEFINE c == program.children[Top.reactor][Top.n + 1]
           len == Len(stack)
<1>1. len \in Nat /\ len \in DOMAIN stack /\ DOMAIN stack = 1..len /\ Top \in Frames /\ Top = stack[len]
  BY TopIsFrame DEF StackInv, Top
<1>2. Top.reactor \in Reactors /\ Top.n \in Nat
  BY <1>1 DEF Frames
<1>3. /\ c # Main
      /\ \A r \in Reactors : \A j \in DOMAIN program.children[r] : c = program.children[r][j] => r = Top.reactor /\ j = Top.n + 1
  BY <1>2, KidsInTree DEF StackInv
<1>4. id_of[c] = Unset
  <2> SUFFICES ASSUME id_of[c] # Unset PROVE FALSE
    OBVIOUS
  <2>1. id_of[Top.reactor] = Unset
    BY <1>1 DEF GivenInv, GivenOnStack
  <2>2. PICK k \in DOMAIN stack :
          /\ stack[k].reactor = Top.reactor
          /\ Top.n + 1 <= stack[k].n \/ (k < len /\ Top.n + 1 = stack[k].n + 1)
    BY <1>2, <2>1 DEF GivenInv, GivenOnly, Reached
  <2>3. k = len
    BY <1>1, <2>2 DEF PathInv, PathOnce
  <2> QED
    BY <1>1, <1>2, <2>2, <2>3
<1>5. ASSUME NEW k \in DOMAIN stack, stack[k].reactor = c
      PROVE  FALSE
  <2>1. k # 1
    BY <1>3, <1>5 DEF PathInv, PathRoot
  <2>2. k - 1 \in 1..(len - 1) /\ (k - 1) + 1 = k
    BY <1>1, <2>1
  <2> DEFINE p == k - 1
  <2>3. p \in 1..(len - 1) /\ p + 1 = k /\ p \in DOMAIN stack
    BY <1>1, <2>2
  <2>4. /\ stack[p].n + 1 \in DOMAIN program.children[stack[p].reactor]
        /\ c = program.children[stack[p].reactor][stack[p].n + 1]
    BY <1>5, <2>3 DEF PathInv, PathDown, PathStep
  <2>5. stack[p].reactor \in Reactors
    BY <2>3, FrameTypes
  <2>6. stack[p].reactor = Top.reactor
    BY <1>3, <2>4, <2>5
  <2>7. p = len
    BY <1>1, <2>3, <2>6 DEF PathInv, PathOnce
  <2> QED
    BY <1>1, <2>3, <2>7
<1> QED
  BY <1>4, <1>5

LEMMA SubKeepsOrder ==
  ASSUME StackInv, PathInv, GivenInv, AssembleSub
  PROVE  PathInv' /\ GivenInv'
<1> DEFINE c == program.children[Top.reactor][Top.n + 1]
           len == Len(stack)
<1>1. /\ phase = "assemble" /\ Top.stage = "children" /\ UNCHANGED <<program, id_of>>
      /\ stack' = Append(stack, Frame(c)) /\ Top.n < Len(program.children[Top.reactor])
  BY DEF AssembleSub, At, idVars, Children
<1>2. len \in Nat /\ len \in DOMAIN stack /\ DOMAIN stack = 1..len /\ Top \in Frames /\ Top = stack[len]
  BY <1>1, TopIsFrame DEF StackInv, Top
<1>3. Top.reactor \in Reactors /\ Top.n \in Nat
  BY <1>2 DEF Frames
<1>4. program.children[Top.reactor] \in Seq(Reactors)
  BY <1>3, KidsInTree DEF StackInv
<1>5. Top.n + 1 \in DOMAIN program.children[Top.reactor] /\ c \in Reactors
  BY <1>1, <1>3, <1>4
<1>6. Frame(c) \in Frames /\ Frame(c).reactor = c /\ Frame(c).stage = "children" /\ Frame(c).n = 0
  BY <1>5 DEF Frame, Frames
<1>7. /\ Len(stack') = len + 1 /\ stack'[len + 1] = Frame(c)
      /\ \A k \in 1..len : stack'[k] = stack[k]
  BY <1>1, <1>6, PushShape
<1>8. DOMAIN stack' = 1..(len + 1)
  BY <1>1, <1>2, <1>6 DEF StackInv
<1>9. id_of[c] = Unset /\ \A k \in DOMAIN stack : stack[k].reactor # c
  BY <1>1, <1>5, NextChildIsNew
<1>10. PathRoot' /\ PathOnce'
  <2>1. PathRoot'
    BY <1>2, <1>7 DEF PathInv, PathRoot
  <2>2. ASSUME NEW k \in DOMAIN stack', NEW l \in DOMAIN stack', stack'[k].reactor = stack'[l].reactor
        PROVE  k = l
    BY <2>2, <1>2, <1>6, <1>7, <1>8, <1>9 DEF PathInv, PathOnce
  <2> QED
    BY <2>1, <2>2 DEF PathOnce
<1>11. PathDown'
  <2>1. ASSUME NEW k \in 1..len
        PROVE  /\ stack'[k].stage = "children" /\ stack'[k].n + 1 \in DOMAIN program.children[stack'[k].reactor]
               /\ stack'[k + 1].reactor = program.children[stack'[k].reactor][stack'[k].n + 1]
    <3>1. CASE k = len
      BY <3>1, <1>1, <1>2, <1>5, <1>6, <1>7
    <3>2. CASE k # len
      <4>1. k \in 1..(len - 1) /\ k + 1 \in 1..len
        BY <1>2, <3>2, BelowLast
      <4> QED
        BY <4>1, <1>7 DEF PathInv, PathDown, PathStep
    <3> QED
      BY <3>1, <3>2
  <2>2. Len(stack') - 1 = len
    BY <1>2, <1>7
  <2> QED
    BY <2>1, <2>2, <1>1 DEF PathDown, PathStep
<1>12. GivenOnStack'
  <2> SUFFICES ASSUME NEW k \in DOMAIN stack'
               PROVE  id_of[stack'[k].reactor] # Unset <=> stack'[k].stage # "children"
    BY <1>1 DEF GivenOnStack
  <2>1. CASE k \in DOMAIN stack
    BY <2>1, <1>2, <1>7 DEF GivenInv, GivenOnStack
  <2>2. CASE k = len + 1
    BY <2>2, <1>6, <1>7, <1>9
  <2> QED
    BY <2>1, <2>2, <1>2, <1>8
<1>13. GivenBelow'
  <2> SUFFICES ASSUME NEW k \in DOMAIN stack', NEW j \in DOMAIN program.children[stack'[k].reactor],
                      stack'[k].stage # "children" \/ j <= stack'[k].n
               PROVE  id_of[program.children[stack'[k].reactor][j]] # Unset
    BY <1>1 DEF GivenBelow
  <2>1. CASE k \in DOMAIN stack
    BY <2>1, <1>2, <1>7 DEF GivenInv, GivenBelow
  <2>2. CASE k = len + 1
    <3>1. j <= 0 /\ j \in DOMAIN program.children[c]
      BY <2>2, <1>6, <1>7
    <3>2. program.children[c] \in Seq(Reactors)
      BY <1>5, KidsInTree DEF StackInv
    <3> QED
      BY <3>1, <3>2
  <2> QED
    BY <2>1, <2>2, <1>2, <1>8
<1>14. GivenOnly'
  <2> SUFFICES ASSUME NEW q \in Reactors, NEW j \in DOMAIN program.children[q],
                      id_of[program.children[q][j]] # Unset, id_of[q] = Unset
               PROVE  Reached(q, j)'
    BY <1>1 DEF GivenOnly
  <2>1. PICK k \in DOMAIN stack : /\ stack[k].reactor = q
                                  /\ j <= stack[k].n \/ (k < Len(stack) /\ j = stack[k].n + 1)
    BY DEF GivenInv, GivenOnly, Reached
  <2> QED
    BY <2>1, <1>2, <1>7, <1>8 DEF Reached
<1> QED
  BY <1>10, <1>11, <1>12, <1>13, <1>14 DEF PathInv, GivenInv

LEMMA SelfKeepsOrder ==
  ASSUME OrderInv, AssembleSelf
  PROVE  PathInv' /\ GivenInv'
<1> DEFINE len == Len(stack)
<1>1. /\ phase = "assemble" /\ Top.stage = "children" /\ UNCHANGED program
      /\ id_of' = [id_of EXCEPT ![Top.reactor] = reactor_id]
      /\ Goes("create", 0) /\ Top.n = Len(program.children[Top.reactor])
  BY DEF AssembleSelf, At, Children
<1>2. StackInv /\ PathInv /\ GivenInv
  BY <1>1 DEF OrderInv
<1>3. len \in Nat /\ len \in DOMAIN stack /\ DOMAIN stack = 1..len /\ Top \in Frames /\ Top = stack[len]
  BY <1>1, <1>2, TopIsFrame DEF StackInv, Top
<1>4. Top.reactor \in Reactors /\ Top.n \in Nat
  BY <1>3 DEF Frames
<1>5. /\ Len(stack') = len /\ DOMAIN stack' = DOMAIN stack
      /\ \A i \in DOMAIN stack : stack'[i].reactor = stack[i].reactor
      /\ \A i \in DOMAIN stack : i # len => stack'[i] = stack[i]
      /\ stack'[len].stage = "create" /\ stack'[len].n = 0
  BY <1>1, <1>2, GoesShape
<1>6. \A r \in Reactors : id_of'[r] # Unset <=> id_of[r] # Unset \/ r = Top.reactor
  BY <1>1, <1>4, ProgramsAssumption DEF OrderInv
<1>8. \A k \in DOMAIN stack : stack[k].reactor \in Reactors
  BY <1>2, FrameTypes
<1>9. \A q \in Reactors : program.children[q] \in Seq(Reactors) /\ \A j \in DOMAIN program.children[q] : program.children[q][j] \in Reactors
  BY <1>2, KidsInTree DEF StackInv
<1>10. PathInv'
  <2>1. \A k \in 1..(len - 1) : k \in DOMAIN stack /\ k # len /\ k + 1 \in DOMAIN stack
    BY <1>3, LastIsNotBelow
  <2>2. PathRoot' /\ PathOnce'
    BY <1>2, <1>3, <1>5 DEF PathInv, PathRoot, PathOnce
  <2>3. ASSUME NEW k \in 1..(len - 1)
        PROVE  PathStep(k)'
    BY <2>1, <1>1, <1>2, <1>5 DEF PathInv, PathDown, PathStep
  <2> QED
    BY <2>2, <2>3, <1>5 DEF PathInv, PathDown
<1>11. GivenOnStack'
  <2> SUFFICES ASSUME NEW k \in DOMAIN stack
               PROVE  id_of'[stack[k].reactor] # Unset <=> stack'[k].stage # "children"
    BY <1>5 DEF GivenOnStack
  <2>1. CASE k = len
    BY <2>1, <1>3, <1>4, <1>5, <1>6
  <2>2. CASE k # len
    <3>1. stack[k].reactor # Top.reactor
      BY <2>2, <1>2, <1>3 DEF PathInv, PathOnce
    <3> QED
      BY <2>2, <3>1, <1>2, <1>5, <1>6, <1>8 DEF GivenInv, GivenOnStack
  <2> QED
    BY <2>1, <2>2
<1>12. GivenBelow'
  <2> SUFFICES ASSUME NEW k \in DOMAIN stack', NEW j \in DOMAIN program'.children[stack'[k].reactor],
                      stack'[k].stage # "children" \/ j <= stack'[k].n
               PROVE  id_of'[program'.children[stack'[k].reactor][j]] # Unset
    BY DEF GivenBelow
  <2>0. /\ k \in DOMAIN stack /\ program' = program /\ stack'[k].reactor = stack[k].reactor
        /\ j \in DOMAIN program.children[stack[k].reactor]
    BY <1>1, <1>5
  <2>1. program.children[stack[k].reactor][j] \in Reactors
    BY <2>0, <1>8, <1>9
  <2>2. CASE k = len
    <3>1. j <= Top.n
      BY <2>0, <2>2, <1>1, <1>3, <1>4, <1>9
    <3>2. id_of[program.children[stack[k].reactor][j]] # Unset
      BY <2>0, <2>2, <3>1, <1>2, <1>3 DEF GivenInv, GivenBelow
    <3> QED
      BY <2>0, <2>1, <3>2, <1>6
  <2>3. CASE k # len
    BY <2>0, <2>1, <2>3, <1>2, <1>5, <1>6 DEF GivenInv, GivenBelow
  <2> QED
    BY <2>2, <2>3
<1>13. GivenOnly'
  <2> SUFFICES ASSUME NEW q \in Reactors, NEW j \in DOMAIN program.children[q],
                      id_of'[program.children[q][j]] # Unset, id_of'[q] = Unset
               PROVE  Reached(q, j)'
    BY <1>1 DEF GivenOnly
  <2>1. q # Top.reactor /\ id_of[q] = Unset
    BY <1>6
  <2>2. CASE id_of[program.children[q][j]] # Unset
    <3>1. PICK k \in DOMAIN stack : /\ stack[k].reactor = q
                                    /\ j <= stack[k].n \/ (k < len /\ j = stack[k].n + 1)
      BY <2>1, <2>2, <1>2 DEF GivenInv, GivenOnly, Reached
    <3> QED
      BY <3>1, <2>1, <1>3, <1>5 DEF Reached
  <2>3. CASE program.children[q][j] = Top.reactor
    <3>1. len # 1
      BY <2>3, <1>2, <1>3, KidsInTree DEF PathInv, PathRoot, StackInv
    <3> DEFINE p == len - 1
    <3>2. p \in 1..(len - 1) /\ p + 1 = len /\ p \in DOMAIN stack /\ p < len
      BY <3>1, <1>3
    <3>3. /\ stack[p].n + 1 \in DOMAIN program.children[stack[p].reactor]
          /\ Top.reactor = program.children[stack[p].reactor][stack[p].n + 1]
      BY <3>2, <1>2, <1>3 DEF PathInv, PathDown, PathStep
    <3>4. stack[p].reactor \in Reactors
      BY <3>2, <1>8
    <3>5. q = stack[p].reactor /\ j = stack[p].n + 1
      BY <2>3, <3>3, <3>4, <1>2, KidsInTree DEF StackInv
    <3>6. stack'[p].reactor = q /\ j = stack'[p].n + 1
      BY <3>2, <3>5, <1>5
    <3> QED
      BY <3>2, <3>6, <1>5 DEF Reached
  <2> QED
    BY <2>2, <2>3, <1>6, <1>9
<1> QED
  BY <1>10, <1>11, <1>12, <1>13 DEF GivenInv

(* Steps of a reactor that has its id *)
LEMMA OwnStepKeepsOrder ==
  ASSUME StackInv, PathInv, GivenInv, phase = "assemble", Top.stage # "children",
         UNCHANGED <<program, id_of>>,
         Len(stack') = Len(stack), DOMAIN stack' = DOMAIN stack,
         \A i \in DOMAIN stack : stack'[i].reactor = stack[i].reactor,
         \A i \in DOMAIN stack : i # Len(stack) => stack'[i].stage = stack[i].stage /\ stack'[i].n = stack[i].n,
         stack'[Len(stack)].stage # "children"
  PROVE  PathInv' /\ GivenInv'
<1> DEFINE len == Len(stack)
<1>1. len \in Nat /\ len \in DOMAIN stack /\ DOMAIN stack = 1..len /\ Top = stack[len]
  BY TopIsFrame DEF StackInv, Top
<1>2. \A k \in 1..(len - 1) : k \in DOMAIN stack /\ k # len /\ k + 1 \in DOMAIN stack
  BY <1>1, LastIsNotBelow
<1>3. PathRoot' /\ PathOnce'
  BY <1>1 DEF PathInv, PathRoot, PathOnce
<1>4. ASSUME NEW k \in 1..(len - 1)
      PROVE  PathStep(k)'
  BY <1>2 DEF PathInv, PathDown, PathStep
<1>5. PathInv'
  BY <1>3, <1>4 DEF PathInv, PathDown
<1>6. GivenOnStack'
  BY <1>1 DEF GivenInv, GivenOnStack
<1>7. GivenBelow'
  <2> SUFFICES ASSUME NEW k \in DOMAIN stack', NEW j \in DOMAIN program'.children[stack'[k].reactor],
                      stack'[k].stage # "children" \/ j <= stack'[k].n
               PROVE  id_of'[program'.children[stack'[k].reactor][j]] # Unset
    BY DEF GivenBelow
  <2>1. k \in DOMAIN stack /\ j \in DOMAIN program.children[stack[k].reactor]
    OBVIOUS
  <2>2. stack[k].stage # "children" \/ j <= stack[k].n
    BY <1>1
  <2> QED
    BY <2>1, <2>2 DEF GivenInv, GivenBelow
<1>8. GivenOnly'
  <2> SUFFICES ASSUME NEW q \in Reactors, NEW j \in DOMAIN program.children[q],
                      id_of[program.children[q][j]] # Unset, id_of[q] = Unset
               PROVE  Reached(q, j)'
    BY DEF GivenOnly
  <2>1. PICK k \in DOMAIN stack : /\ stack[k].reactor = q
                                  /\ j <= stack[k].n \/ (k < len /\ j = stack[k].n + 1)
    BY DEF GivenInv, GivenOnly, Reached
  <2>2. k # len
    BY <2>1, <1>1 DEF GivenInv, GivenOnStack
  <2> QED
    BY <2>1, <2>2 DEF Reached
<1> QED
  BY <1>5, <1>6, <1>7, <1>8 DEF GivenInv

(* A reactor that is done leaves the stack, and its parent goes on. *)
LEMMA PopKeepsOrder ==
  ASSUME StackInv, PathInv, GivenInv, phase = "assemble", Top.stage # "children",
         UNCHANGED <<program, id_of>>, Len(stack) > 1,
         stack' = [SubSeq(stack, 1, Len(stack) - 1) EXCEPT ![Len(stack) - 1].n = @ + 1]
  PROVE  PathInv' /\ GivenInv'
<1> DEFINE len == Len(stack)
           last == Len(stack) - 1
<1>1. len \in Nat /\ len \in DOMAIN stack /\ DOMAIN stack = 1..len /\ Top = stack[len]
  BY TopIsFrame DEF StackInv, Top
<1>2. /\ Len(stack') = last /\ DOMAIN stack' = 1..last
      /\ \A i \in DOMAIN stack' : stack'[i].reactor = stack[i].reactor /\ stack'[i].stage = stack[i].stage
      /\ \A i \in DOMAIN stack' : i # last => stack'[i] = stack[i]
      /\ stack'[last].n = stack[last].n + 1
  BY PopShape
<1>3. last \in Nat /\ last \in 1..last /\ last + 1 = len /\ \A i \in 1..last : i \in DOMAIN stack /\ i < len
  BY <1>1
<1>4. PathRoot' /\ PathOnce'
  BY <1>2, <1>3 DEF PathInv, PathRoot, PathOnce
<1>5. ASSUME NEW k \in 1..(last - 1)
      PROVE  PathStep(k)'
  <2>1. k \in 1..last /\ k # last /\ k + 1 \in 1..last
    BY <1>3, LastIsNotBelow
  <2>2. PathStep(k)
    BY <1>3, <2>1 DEF PathInv, PathDown
  <2> QED
    BY <1>2, <2>1, <2>2 DEF PathStep
<1>6. PathInv'
  BY <1>2, <1>4, <1>5 DEF PathInv, PathDown
<1>7. GivenOnStack'
  BY <1>2, <1>3 DEF GivenInv, GivenOnStack
<1>8. PathStep(last)
  BY <1>3 DEF PathInv, PathDown
<1>9. GivenBelow'
  <2> SUFFICES ASSUME NEW k \in DOMAIN stack', NEW j \in DOMAIN program'.children[stack'[k].reactor],
                      stack'[k].stage # "children" \/ j <= stack'[k].n
               PROVE  id_of'[program'.children[stack'[k].reactor][j]] # Unset
    BY DEF GivenBelow
  <2>1. k \in DOMAIN stack /\ j \in DOMAIN program.children[stack[k].reactor]
    BY <1>2, <1>3
  <2>2. CASE stack[k].stage # "children" \/ j <= stack[k].n
    BY <2>1, <2>2, <1>2 DEF GivenInv, GivenBelow
  <2>3. CASE k = last /\ j = stack[last].n + 1
    <3>1. program.children[stack[k].reactor][j] = Top.reactor
      BY <2>3, <1>1, <1>3, <1>8 DEF PathStep
    <3>2. id_of[Top.reactor] # Unset
      BY <1>1 DEF GivenInv, GivenOnStack
    <3> QED
      BY <3>1, <3>2, <1>2
  <2>4. j \in Nat /\ stack[last].n \in Nat
    BY <2>1, <1>3, FrameTypes, KidsInTree DEF StackInv
  <2>5. k # last => stack'[k].n = stack[k].n
    BY <1>2
  <2> QED
    BY <2>2, <2>3, <2>4, <2>5, <1>2
<1>10. GivenOnly'
  <2> SUFFICES ASSUME NEW q \in Reactors, NEW j \in DOMAIN program.children[q],
                      id_of[program.children[q][j]] # Unset, id_of[q] = Unset
               PROVE  Reached(q, j)'
    BY DEF GivenOnly
  <2>1. PICK k \in DOMAIN stack : /\ stack[k].reactor = q
                                  /\ j <= stack[k].n \/ (k < len /\ j = stack[k].n + 1)
    BY DEF GivenInv, GivenOnly, Reached
  <2>2. k # len
    BY <2>1, <1>1 DEF GivenInv, GivenOnStack
  <2>3. k \in 1..last /\ stack'[k].reactor = q
    BY <2>1, <2>2, <1>1, <1>2, <1>3
  <2>4. j \in Nat /\ stack[k].n \in Nat
    BY <2>1, FrameTypes, KidsInTree DEF StackInv
  <2>5. CASE k = last
    BY <2>1, <2>3, <2>4, <2>5, <1>2 DEF Reached
  <2>6. CASE k # last
    <3>1. stack'[k].n = stack[k].n /\ k < last
      BY <2>3, <2>6, <1>2, <1>3
    <3> QED
      BY <2>1, <2>3, <3>1, <1>2 DEF Reached
  <2> QED
    BY <2>5, <2>6
<1> QED
  BY <1>6, <1>7, <1>9, <1>10 DEF GivenInv

(* The components that a reactor declares *)
LEMMA DeclaredTypes ==
  ASSUME program \in Programs, NEW r \in Reactors
  PROVE  /\ program.components[r] \in Seq(Declarations)
         /\ DOMAIN program.components[r] = 1..Len(program.components[r])
         /\ Len(program.components[r]) \in Nat
         /\ \A i \in DOMAIN program.components[r] :
              /\ i \in Nat /\ 0 < i
              /\ program.components[r][i] \in Declarations
              /\ program.components[r][i].id \in Components
              /\ program.components[r][i].channels \in Seq(Ports)
              /\ Len(program.components[r][i].channels) \in Nat
              /\ DOMAIN program.components[r][i].channels = 1..Len(program.components[r][i].channels)
<1> DEFINE decl == program.components[r]
<1>1. decl \in Seq(Declarations)
  BY ProgramsAssumption DEF ProgramTypes
<1> HIDE DEF decl
<1>2. DOMAIN decl = 1..Len(decl) /\ Len(decl) \in Nat /\ \A i \in DOMAIN decl : i \in Nat /\ 0 < i /\ decl[i] \in Declarations
  BY <1>1
<1>3. \A c \in Declarations : /\ c.id \in Components /\ c.channels \in Seq(Ports)
                              /\ Len(c.channels) \in Nat /\ DOMAIN c.channels = 1..Len(c.channels)
  BY DEF Declarations
<1> QED
  BY <1>1, <1>2, <1>3 DEF decl

(* The names of a component and its channels *)
LEMMA NameTypes ==
  ASSUME NEW c \in Declarations
  PROVE  /\ \A k \in 0..Len(c.channels) : NameAt(c, k) \in Names(c)
         /\ Names(c) \subseteq Components
         /\ \A p \in Names(c) : \E k \in 0..Len(c.channels) : p = NameAt(c, k)
<1>1. /\ c.id \in Components /\ c.channels \in Seq(Ports) /\ Len(c.channels) \in Nat
      /\ DOMAIN c.channels = 1..Len(c.channels)
  BY DEF Declarations
<1>2. \A k \in 0..Len(c.channels) : k = 0 \/ k \in DOMAIN c.channels
  BY <1>1
<1>3. \A k \in 0..Len(c.channels) : NameAt(c, k) \in Names(c)
  BY <1>2 DEF NameAt, Names
<1>4. Names(c) \subseteq Components
  BY <1>1, ProgramsAssumption DEF Names
<1>5. ASSUME NEW p \in Names(c)
      PROVE  \E k \in 0..Len(c.channels) : p = NameAt(c, k)
  <2>1. CASE p = c.id
    BY <1>1, <2>1 DEF NameAt
  <2>2. CASE \E j \in DOMAIN c.channels : p = c.channels[j]
    <3>1. PICK j \in 1..Len(c.channels) : p = c.channels[j]
      BY <1>1, <2>2
    <3>2. j # 0 /\ j \in 0..Len(c.channels)
      BY <1>1
    <3> QED
      BY <3>1, <3>2 DEF NameAt
  <2> QED
    BY <1>5, <2>1, <2>2 DEF Names
<1> QED
  BY <1>3, <1>4, <1>5

(* The component that is being created *)
LEMMA NewTypes ==
  ASSUME StackInv, phase = "assemble", Top.n < Len(Declared)
  PROVE  /\ stack # <<>> /\ Top.reactor \in Reactors /\ Top.n \in Nat /\ Top.k \in Nat
         /\ program \in Programs
         /\ Top.n + 1 \in DOMAIN program.components[Top.reactor]
         /\ New = program.components[Top.reactor][Top.n + 1]
         /\ New \in Declarations /\ Len(New.channels) \in Nat
<1>1. Top \in Frames /\ program \in Programs /\ stack # <<>>
  BY TopIsFrame DEF StackInv
<1>2. Top.reactor \in Reactors /\ Top.n \in Nat /\ Top.k \in Nat
  BY <1>1 DEF Frames
<1>3. /\ Declared = program.components[Top.reactor] /\ DOMAIN Declared = 1..Len(Declared)
      /\ Len(Declared) \in Nat
  BY <1>1, <1>2, DeclaredTypes DEF Declared
<1>4. Top.n + 1 \in DOMAIN program.components[Top.reactor]
  BY <1>2, <1>3
<1>5. New = program.components[Top.reactor][Top.n + 1]
  BY <1>3 DEF New
<1> QED
  BY <1>1, <1>2, <1>4, <1>5, DeclaredTypes

(* A component or a channel is created, or the program is refused. *)
LEMMA Creation ==
  ASSUME StackInv, MiddleInv, NewComponent \/ NewChannel
  PROVE  /\ phase = "assemble" /\ Top.stage = "create" /\ Top.n < Len(Declared)
         /\ Top.k \in 0..Len(New.channels)
         /\ \/ Refuse /\ ~NextCompId
            \/ ~Refuse /\ ~Exhausted /\ NextCompId
<1>1. phase = "assemble" /\ Top.stage = "create" /\ (Top.k = 0 \/ Top.k > 0)
  BY DEF NewComponent, NewChannel, At
<1>2. Top.n < Len(Declared)
  BY DEF NewComponent, NewChannel, MiddleInv, At
<1>3. Top.k \in Nat /\ Len(New.channels) \in Nat
  BY <1>1, <1>2, NewTypes
<1>4. Top.k \in 0..Len(New.channels)
  BY <1>1, <1>3 DEF MiddleInv
<1>5. (Refuse /\ ~NextCompId) \/ (~Refuse /\ ~Exhausted /\ NextCompId)
  BY <1>1 DEF NewComponent, NewChannel, Refuse, NextCompId
<1> QED
  BY <1>1, <1>2, <1>4, <1>5

LEMMA CreationTop ==
  ASSUME StackInv, phase = "assemble", Top.stage = "create", Top.n < Len(Declared), NextCompId
  PROVE  /\ stack' # <<>> /\ Top'.reactor = Top.reactor /\ Top'.stage = "create"
         /\ IF Top.k < Len(New.channels)
              THEN GoesFurther /\ Top'.n = Top.n /\ Top'.k = Top.k + 1
              ELSE Goes("create", Top.n + 1) /\ Top'.n = Top.n + 1 /\ Top'.k = 0
         /\ UNCHANGED program
<1>1. CASE Top.k < Len(New.channels)
  BY <1>1, CountTop DEF NextCompId
<1>2. CASE ~(Top.k < Len(New.channels))
  BY <1>2, GoesTop DEF NextCompId
<1> QED
  BY <1>1, <1>2 DEF NextCompId

LEMMA MiddleKept ==
  ASSUME StackInv, PathInv, MiddleInv, phase = "assemble", phase' = "assemble", [Next]_vars
  PROVE  MiddleInv'
<1>1. CASE AssembleSub
  <2>1. Top'.stage = "children"
    BY <1>1, PushTop
  <2> QED
    BY <2>1 DEF MiddleInv
<1>2. CASE AssembleSelf \/ SetIdRange
  <2>1. Goes("create", 0) \/ Goes("declare", 0)
    BY <1>2 DEF AssembleSelf, SetIdRange
  <2>2. Top'.k = 0
    BY <2>1, GoesTop
  <2> QED
    BY <2>2 DEF MiddleInv
<1>3. CASE NewComponent \/ NewChannel
  <2>1. Top.stage = "create" /\ Top.n < Len(Declared) /\ NextCompId
    BY <1>3, Creation DEF Refuse
  <2>2. Top.k \in Nat /\ Len(New.channels) \in Nat
    BY <2>1, NewTypes
  <2>3. CASE Top.k < Len(New.channels)
    <3>1. Top'.reactor = Top.reactor /\ Top'.n = Top.n /\ Top'.k = Top.k + 1 /\ UNCHANGED program
      BY <2>1, <2>3, CreationTop
    <3>2. Declared' = Declared /\ New' = New
      BY <3>1 DEF Declared, New
    <3>3. Top'.n < Len(Declared') /\ Top'.k <= Len(New.channels)
      BY <2>1, <2>2, <2>3, <3>1, <3>2
    <3> QED
      BY <3>2, <3>3 DEF MiddleInv
  <2>4. CASE ~(Top.k < Len(New.channels))
    <3>1. Top'.k = 0
      BY <2>1, <2>4, CreationTop
    <3> QED
      BY <3>1 DEF MiddleInv
  <2> QED
    BY <2>3, <2>4
<1>4. CASE BindRow
  <2>1. Top.stage = "declare" /\ (Goes("declare", Top.n + 1) \/ GoesFurther)
    BY <1>4 DEF BindRow, BindPorts, At, Refuse
  <2>2. Top'.stage = "declare"
    BY <2>1, GoesTop, CountTop
  <2> QED
    BY <2>2 DEF MiddleInv
<1>5. CASE Finish
  <2>1. stack' # <<>>
    BY <1>5, StackInvKept DEF StackInv
  <2>2. Top'.stage = "children"
    BY <1>5, <2>1, PopTop
  <2> QED
    BY <2>2 DEF MiddleInv
<1>6. CASE (\E p \in Ports, v \in Values : Set(p, v)) \/ CleanupTag \/ Refused
  BY <1>6 DEF Set, CleanupTag, Refused
<1>7. CASE UNCHANGED vars
  BY <1>7 DEF vars, MiddleInv, Top, Declared, New
<1> QED
  BY <1>1, <1>2, <1>3, <1>4, <1>5, <1>6, <1>7 DEF Next

LEMMA InitOrder == Init => OrderInv
<1> SUFFICES ASSUME Init PROVE OrderInv
  OBVIOUS
<1>1. StackInv
  BY InitInv DEF AssemblyInv
<1>2. Len(stack) = 1 /\ DOMAIN stack = {1} /\ stack[1] = Frame(Main)
  BY DEF Init
<1>3. stack[1].reactor = Main /\ stack[1].stage = "children" /\ stack[1].n = 0
  BY <1>2 DEF Frame
<1>4. id_of = [r \in Reactors |-> Unset] /\ reactor_id = 0 /\ phase = "assemble" /\ Main \in Reactors
  BY ProgramsAssumption DEF Init
<1>5. PathInv
  BY <1>2, <1>3 DEF PathInv, PathRoot, PathDown, PathOnce
<1>6. GivenOnStack
  BY <1>2, <1>3, <1>4 DEF GivenOnStack
<1>7. \A q \in Reactors : \A j \in DOMAIN program.children[q] :
        j \in Nat \ {0} /\ id_of[program.children[q][j]] = Unset
  BY <1>1, <1>4, KidsInTree DEF StackInv
<1>8. GivenBelow
  BY <1>2, <1>3, <1>4, <1>7 DEF GivenBelow
<1>9. GivenOnly
  BY <1>7 DEF GivenOnly
<1>10. MiddleInv
  BY <1>2, <1>3 DEF MiddleInv, Top
<1> QED
  BY <1>1, <1>4, <1>5, <1>6, <1>8, <1>9, <1>10 DEF OrderInv, GivenInv

LEMMA OrderKept ==
  ASSUME OrderInv, [Next]_vars
  PROVE  OrderInv'
<1>1. StackInv /\ StackInv'
  BY StackInvKept DEF OrderInv
<1>2. id_of' \in [Reactors -> Nat \cup {Unset}] /\ reactor_id' \in Nat
  <2>1. CASE AssembleSelf
    <3>1. Top \in Frames
      BY <1>1, <2>1, TopIsFrame DEF AssembleSelf, At
    <3>2. Incremented(reactor_id) \in Nat
      BY ProgramsAssumption DEF Incremented, OrderInv
    <3> QED
      BY <2>1, <3>1, <3>2 DEF AssembleSelf, OrderInv, Frames
  <2>2. CASE ~AssembleSelf
    <3>1. UNCHANGED <<id_of, reactor_id>>
      BY <2>2 DEF Next, vars, idVars, AssembleSub, NewComponent, NewChannel, NextCompId, Refuse, SetIdRange, BindRow, BindPorts,
                  Finish, Set, CleanupTag, Refused
    <3> QED
      BY <3>1 DEF OrderInv
  <2> QED
    BY <2>1, <2>2
<1>3. phase' = "assemble" => phase = "assemble"
  BY DEF Next, vars, AssembleSub, AssembleSelf, NewComponent, NewChannel, NextCompId, Refuse, SetIdRange, BindRow,
         BindPorts, Finish, Set, CleanupTag, Refused, At
<1>4. ASSUME phase' = "assemble"
      PROVE  PathInv' /\ GivenInv'
  <2>1. phase = "assemble"
    BY <1>3, <1>4
  <2>2. StackInv /\ PathInv /\ GivenInv /\ MiddleInv /\ ~Refuse
    BY <1>1, <1>4, <2>1 DEF OrderInv, Refuse
  <2>3. CASE AssembleSub
    BY <2>2, <2>3, SubKeepsOrder
  <2>4. CASE AssembleSelf
    BY <2>4, SelfKeepsOrder
  <2>5. ASSUME Top.stage # "children", UNCHANGED <<program, id_of>>,
               NEW s \in {"create", "declare"}, NEW n, Goes(s, n)
        PROVE  PathInv' /\ GivenInv'
    BY <2>1, <2>2, <2>5, GoesShape, OwnStepKeepsOrder
  <2>11. ASSUME Top.stage # "children", UNCHANGED <<program, id_of>>, GoesFurther
         PROVE  PathInv' /\ GivenInv'
    <3>1. stack'[Len(stack)].stage # "children"
      BY <2>1, <2>2, <2>11, CountShape, TopIsFrame DEF StackInv, Top
    <3> QED
      BY <2>1, <2>2, <2>11, <3>1, CountShape, OwnStepKeepsOrder
  <2>6. CASE NewComponent \/ NewChannel \/ SetIdRange
    <3>1. Top.stage # "children" /\ UNCHANGED <<program, id_of>>
      BY <2>2, <2>6 DEF NewComponent, NewChannel, NextCompId, SetIdRange, At
    <3>2. (\E s \in {"create", "declare"} : \E n : Goes(s, n)) \/ GoesFurther
      BY <2>2, <2>6 DEF NewComponent, NewChannel, NextCompId, SetIdRange
    <3> QED
      BY <3>1, <3>2, <2>5, <2>11
  <2>7. CASE BindRow
    <3>1. Top.stage = "declare" /\ UNCHANGED <<program, id_of>>
      BY <2>2, <2>7 DEF BindRow, BindPorts, At, idVars
    <3>2. CASE Goes("declare", Top.n + 1)
      BY <3>1, <3>2, <2>5
    <3>3. CASE GoesFurther
      BY <3>1, <3>3, <2>11
    <3> QED
      BY <2>2, <2>7, <3>2, <3>3 DEF BindRow, BindPorts
  <2>8. CASE Finish
    <3>1. Top.stage = "declare" /\ UNCHANGED <<program, id_of>>
      BY <2>8 DEF Finish, At, idVars
    <3>2. /\ Len(stack) > 1
          /\ stack' = [SubSeq(stack, 1, Len(stack) - 1) EXCEPT ![Len(stack) - 1].n = @ + 1]
      BY <1>4, <2>8 DEF Finish
    <3> QED
      BY <2>1, <2>2, <3>1, <3>2, PopKeepsOrder
  <2>9. CASE (\E p \in Ports, v \in Values : Set(p, v)) \/ CleanupTag
    BY <2>1, <2>9 DEF Set, CleanupTag
  <2>10. CASE UNCHANGED vars
    BY <2>2, <2>10 DEF vars, idVars, PathInv, PathRoot, PathDown, PathStep, PathOnce,
                       GivenInv, GivenOnStack, GivenBelow, GivenOnly, Reached
  <2> QED
    BY <2>3, <2>4, <2>6, <2>7, <2>8, <2>9, <2>10 DEF Next, Refused
<1>5. phase' = "assemble" => MiddleInv'
  BY <1>1, <1>3, MiddleKept DEF OrderInv
<1> QED
  BY <1>1, <1>2, <1>4, <1>5 DEF OrderInv

(* Children have their ids before their parents, and each reactor gets one once. *)
THEOREM OrderInvHolds == Spec => []OrderInv
BY InitOrder, OrderKept, PTL DEF Spec

-----------------------------------------------------------------------------
(* The types of all variables *)
CounterTypes ==
  /\ phase \in {"assemble", "refused", "run"}
  /\ cur_trigger \in FirstRegular..TriggerLimit
  /\ trigger_id \in [Components -> Nat \cup {Unset}]
  /\ multiport_ranges \in [Components -> SUBSET Nat]
  /\ reactor_bound \in Seq(Nat)

RegistryTypes ==
  /\ \A i \in DOMAIN reactor_container : reactor_container[i] \in Nat
  /\ \A i \in DOMAIN reactors : i \in Nat /\ reactors[i] \in Reactors \cup {Unset}

LEMMA CreationTypes ==
  ASSUME OrderInv, CounterTypes, NewComponent \/ NewChannel
  PROVE  CounterTypes'
<1>1. StackInv /\ phase = "assemble" /\ MiddleInv
  BY DEF OrderInv, NewComponent, NewChannel, At
<1>2. CASE Refuse
  BY <1>2 DEF Refuse, CounterTypes, idVars
<1>3. CASE ~Refuse
  <2>1. /\ Top.n < Len(Declared) /\ Top.k \in 0..Len(New.channels) /\ ~Exhausted
        /\ trigger_id' = [trigger_id EXCEPT ![NameAt(New, Top.k)] = cur_trigger]
        /\ cur_trigger' = cur_trigger + 1 /\ UNCHANGED <<phase, reactor_bound>>
    BY <1>1, <1>3, Creation DEF NextCompId
  <2>2. New \in Declarations /\ Len(New.channels) \in Nat
    BY <1>1, <2>1, NewTypes
  <2>3. FirstRegular \in Nat /\ TriggerLimit \in Nat /\ cur_trigger \in Nat
    BY ProgramsAssumption DEF CounterTypes
  <2>4. cur_trigger' \in FirstRegular..TriggerLimit
    BY <2>1, <2>3 DEF CounterTypes, Exhausted
  <2>5. trigger_id' \in [Components -> Nat \cup {Unset}]
    BY <2>1, <2>3 DEF CounterTypes
  <2>6. \A x, y \in Nat : (x + 1)..(x + y) \subseteq Nat
    OBVIOUS
  <2>7. NextRange(cur_trigger, Len(New.channels)) \subseteq Nat
    BY <2>2, <2>3, <2>6 DEF NextRange
  <2>8. multiport_ranges' \in [Components -> SUBSET Nat]
    BY <1>3, <2>7 DEF NewComponent, NewChannel, CounterTypes
  <2> QED
    BY <2>1, <2>4, <2>5, <2>8 DEF CounterTypes
<1> QED
  BY <1>2, <1>3

LEMMA CounterTypesKept ==
  ASSUME OrderInv, CounterTypes, [Next]_vars
  PROVE  CounterTypes'
<1>1. CASE NewComponent \/ NewChannel
  BY <1>1, CreationTypes
<1>2. CASE SetIdRange
  <2>1. cur_trigger \in Nat
    BY ProgramsAssumption DEF CounterTypes
  <2> QED
    BY <1>2, <2>1 DEF SetIdRange, CounterTypes
<1>3. CASE ~NewComponent /\ ~NewChannel /\ ~SetIdRange
  <2>1. UNCHANGED <<cur_trigger, trigger_id, multiport_ranges, reactor_bound>>
    BY <1>3 DEF Next, vars, idVars, AssembleSub, AssembleSelf, Refuse, BindRow, BindPorts,
                Finish, Set, CleanupTag, Refused
  <2>2. phase' \in {phase, "refused", "run"}
    BY <1>3 DEF Next, vars, AssembleSub, AssembleSelf, Refuse, BindRow, BindPorts,
                Finish, Set, CleanupTag, Refused
  <2> QED
    BY <2>1, <2>2 DEF CounterTypes
<1> QED
  BY <1>1, <1>2, <1>3

(* When a reactor gets its id, and afterwards, its children have theirs. *)
LEMMA ChildrenHaveIds ==
  ASSUME OrderInv, phase = "assemble", Top.stage # "children" \/ Top.n = Len(Children),
         NEW j \in 1..Len(Children)
  PROVE  Children[j] \in Reactors /\ id_of[Children[j]] \in Nat
<1>1. StackInv /\ GivenInv
  BY DEF OrderInv
<1>2. Len(stack) \in DOMAIN stack /\ Top \in Frames /\ Top = stack[Len(stack)]
  BY <1>1, TopIsFrame DEF StackInv, Top
<1>3. Top.reactor \in Reactors
  BY <1>2 DEF Frames
<1>4. Children \in Seq(Reactors) /\ Children = program.children[Top.reactor]
  BY <1>1, <1>3, KidsInTree DEF StackInv, Children
<1>5. j \in DOMAIN program.children[stack[Len(stack)].reactor] /\ Children[j] \in Reactors
  BY <1>2, <1>4
<1>6. Top.stage # "children" \/ j <= Top.n
  BY <1>4
<1>7. id_of[Children[j]] # Unset
  BY <1>1, <1>2, <1>4, <1>5, <1>6 DEF GivenInv, GivenBelow
<1> QED
  BY <1>5, <1>7 DEF OrderInv

LEMMA RegisteredTypes ==
  ASSUME RegistryTypes, NEW S, S \subseteq Reactors, \A r \in S : id_of[r] \in Nat, reactors' = Registered(S)
  PROVE  \A i \in DOMAIN reactors' : i \in Nat /\ reactors'[i] \in Reactors \cup {Unset}
<1> SUFFICES ASSUME NEW i \in DOMAIN reactors'
             PROVE  i \in Nat /\ reactors'[i] \in Reactors \cup {Unset}
  OBVIOUS
<1> DEFINE D == DOMAIN reactors \cup UNION {0..id_of[r] : r \in S}
<1>1. /\ i \in D
      /\ reactors'[i] = IF \E r \in S : id_of[r] = i THEN CHOOSE r \in S : id_of[r] = i
                        ELSE IF i \in DOMAIN reactors THEN reactors[i] ELSE Unset
  BY DEF Registered
<1>2. i \in Nat
  <2>1. ASSUME NEW r \in S, i \in 0..id_of[r]
        PROVE  i \in Nat
    BY <2>1
  <2> QED
    BY <1>1, <2>1 DEF RegistryTypes
<1>3. (\E r \in S : id_of[r] = i) => (CHOOSE r \in S : id_of[r] = i) \in Reactors
  BY Zenon
<1> QED
  BY <1>1, <1>2, <1>3 DEF RegistryTypes

LEMMA RegistryTypesKept ==
  ASSUME OrderInv, RegistryTypes, [Next]_vars
  PROVE  RegistryTypes'
<1>1. CASE AssembleSelf
  <2>1. phase = "assemble" /\ Top.n = Len(Children) /\ UNCHANGED reactors
    BY <1>1 DEF AssembleSelf, At
  <2>2. reactor_container' = WithContainer({id_of[Children[j]] : j \in 1..Len(Children)}, reactor_id)
    BY <1>1 DEF AssembleSelf
  <2>3. \A i \in DOMAIN reactor_container' : reactor_container'[i] \in Nat
    BY <2>2 DEF WithContainer, RegistryTypes, OrderInv
  <2> QED
    BY <2>1, <2>3 DEF RegistryTypes
<1>2. CASE Finish
  <2>1. phase = "assemble" /\ Top.stage = "declare" /\ UNCHANGED reactor_container
    BY <1>2 DEF Finish, At, idVars
  <2> DEFINE children == {Children[k] : k \in 1..Len(Children)}
  <2>2. \A r \in children : r \in Reactors /\ id_of[r] \in Nat
    BY <2>1, ChildrenHaveIds
  <2>3. CASE reactors' = Registered(children)
    BY <2>1, <2>2, <2>3, RegisteredTypes DEF RegistryTypes
  <2>4. CASE ~(Len(stack) > 1) /\ reactors' = Registered(children \cup {Main})
    <3>1. StackInv /\ PathInv /\ GivenInv
      BY <2>1 DEF OrderInv
    <3>2. Len(stack) \in Nat /\ Len(stack) \in 1..Len(stack) /\ DOMAIN stack = 1..Len(stack)
      BY <2>1, <3>1, TopIsFrame DEF StackInv
    <3>3. Len(stack) = 1 /\ 1 \in DOMAIN stack
      BY <2>4, <3>2
    <3>4. id_of[Main] # Unset
      BY <2>1, <3>1, <3>3 DEF Top, PathInv, PathRoot, GivenInv, GivenOnStack
    <3>5. id_of[Main] \in Nat /\ Main \in Reactors
      BY <3>4, ProgramsAssumption DEF OrderInv
    <3> QED
      BY <2>1, <2>2, <2>4, <3>5, RegisteredTypes DEF RegistryTypes
  <2> QED
    BY <1>2, <2>3, <2>4 DEF Finish
<1>3. CASE ~AssembleSelf /\ ~Finish
  <2>1. UNCHANGED <<reactor_container, reactors>>
    BY <1>3 DEF Next, vars, idVars, AssembleSub, NewComponent, NewChannel, NextCompId, Refuse, SetIdRange, BindRow, BindPorts,
                Set, CleanupTag, Refused
  <2> QED
    BY <2>1 DEF RegistryTypes
<1> QED
  BY <1>1, <1>2, <1>3

(* Every variable of the assembly keeps its type, for every tree of reactors
   and any declarations. *)
THEOREM AssemblyTypesHold == Spec => []TypeOK
<1>1. Init => CounterTypes /\ RegistryTypes
  BY ProgramsAssumption DEF Init, CounterTypes, RegistryTypes
<1>2. OrderInv /\ CounterTypes /\ RegistryTypes /\ [Next]_vars => CounterTypes' /\ RegistryTypes'
  BY CounterTypesKept, RegistryTypesKept
<1>3. AssemblyInv /\ OrderInv /\ CounterTypes /\ RegistryTypes => TypeOK
  <2> SUFFICES ASSUME AssemblyInv, OrderInv, CounterTypes, RegistryTypes PROVE TypeOK
    OBVIOUS
  <2>1. ASSUME NEW k \in DOMAIN stack
        PROVE  /\ stack[k].reactor \in Reactors
               /\ stack[k].stage \in {"children", "create", "declare"}
               /\ stack[k].n \in Nat /\ stack[k].k \in Nat
    <3>1. stack[k] \in Frames
      BY DEF AssemblyInv, StackInv
    <3> QED
      BY <3>1 DEF Frames
  <2> QED
    BY <2>1, ProgramsAssumption
       DEF TypeOK, AssemblyInv, StackInv, WiringTypes, PortInv, OrderInv, CounterTypes, RegistryTypes
<1> QED
  BY <1>1, <1>2, <1>3, AssemblyInvHolds, OrderInvHolds, PTL DEF Spec

-----------------------------------------------------------------------------
(* The registry of reactors.  As long as the ids suffice, those that were given
   are the numbers below their count, each to one reactor. *)
Count == Cardinality(Assembled)
Fits == Count <= ReactorIds

IdsInv ==
  Fits => /\ \A q, r \in Assembled : id_of[q] = id_of[r] => q = r
          /\ \A r \in Assembled : id_of[r] \in 0..(Count - 1)
          /\ \A i \in 0..(Count - 1) : \E r \in Assembled : id_of[r] = i
          /\ Count < ReactorIds => reactor_id = Count

(* A reactor that was assembled is in its place, or it is on the stack or a
   child of one there, and will be registered by it. *)
InPlace(r) == id_of[r] \in DOMAIN reactors /\ reactors[id_of[r]] = r

Awaited(r) ==
  \E k \in DOMAIN stack : \/ stack[k].reactor = r
                          \/ \E j \in DOMAIN program.children[stack[k].reactor] :
                               program.children[stack[k].reactor][j] = r

PlaceInv ==
  Fits /\ phase # "refused" =>
    /\ \A i \in DOMAIN reactors : \E r \in Assembled : i \in 0..id_of[r]
    /\ \A r \in Assembled : InPlace(r) \/ (phase = "assemble" /\ Awaited(r))

LEMMA CountTypes == Assembled \subseteq Reactors /\ IsFiniteSet(Assembled) /\ Count \in Nat
<1>1. Assembled \subseteq Reactors
  BY DEF Assembled
<1>2. IsFiniteSet(Assembled)
  BY <1>1, TreeAssumption, FS_Subset
<1> QED
  BY <1>1, <1>2, FS_CardinalityType DEF Count

LEMMA SameCount ==
  ASSUME UNCHANGED id_of
  PROVE  Assembled' = Assembled /\ Count' = Count /\ (Fits' <=> Fits)
<1>1. Assembled' = Assembled
  BY DEF Assembled
<1> QED
  BY <1>1 DEF Count, Fits

LEMMA Unwrapped ==
  ASSUME NEW n \in Nat, NEW m \in Nat, m < n
  PROVE  m % n = m
OBVIOUS

LEMMA SelfCounts ==
  ASSUME OrderInv, AssembleSelf
  PROVE  /\ Top.reactor \in Reactors /\ Top.reactor \notin Assembled
         /\ Assembled' = Assembled \cup {Top.reactor}
         /\ Count' = Count + 1
         /\ id_of' = [id_of EXCEPT ![Top.reactor] = reactor_id]
         /\ reactor_id' = Incremented(reactor_id)
<1>1. /\ phase = "assemble" /\ Top.stage = "children"
      /\ id_of' = [id_of EXCEPT ![Top.reactor] = reactor_id]
      /\ reactor_id' = Incremented(reactor_id)
  BY DEF AssembleSelf, At
<1>2. StackInv /\ GivenInv
  BY <1>1 DEF OrderInv
<1>3. Len(stack) \in DOMAIN stack /\ Top \in Frames /\ Top = stack[Len(stack)]
  BY <1>1, <1>2, TopIsFrame DEF StackInv, Top
<1>4. Top.reactor \in Reactors
  BY <1>3 DEF Frames
<1>5. id_of[Top.reactor] = Unset
  BY <1>1, <1>2, <1>3 DEF GivenInv, GivenOnStack
<1>6. Top.reactor \notin Assembled
  BY <1>5 DEF Assembled
<1>7. Assembled' = Assembled \cup {Top.reactor}
  BY <1>1, <1>4, ProgramsAssumption DEF Assembled, OrderInv
<1>8. Count' = Count + 1
  BY <1>6, <1>7, CountTypes, FS_AddElement DEF Count
<1> QED
  BY <1>1, <1>4, <1>6, <1>7, <1>8

LEMMA IdsKept ==
  ASSUME OrderInv, IdsInv, [Next]_vars
  PROVE  IdsInv'
<1>1. CASE AssembleSelf
  <2> SUFFICES ASSUME Fits'
               PROVE  /\ \A q, r \in Assembled' : id_of'[q] = id_of'[r] => q = r
                      /\ \A r \in Assembled' : id_of'[r] \in 0..(Count' - 1)
                      /\ \A i \in 0..(Count' - 1) : \E r \in Assembled' : id_of'[r] = i
                      /\ Count' < ReactorIds => reactor_id' = Count'
    BY DEF IdsInv
  <2>1. Count' = Count + 1 /\ Count \in Nat /\ ReactorIds \in Nat \ {0}
    BY <1>1, SelfCounts, CountTypes, ProgramsAssumption
  <2>2. Fits /\ Count < ReactorIds
    BY <2>1 DEF Fits
  <2>3. reactor_id = Count
    BY <2>2 DEF IdsInv
  <2>4. /\ Top.reactor \in Reactors /\ Top.reactor \notin Assembled
        /\ Assembled' = Assembled \cup {Top.reactor}
        /\ id_of' = [id_of EXCEPT ![Top.reactor] = Count]
        /\ reactor_id' = (Count + 1) % ReactorIds
    BY <1>1, <2>3, SelfCounts DEF Incremented
  <2>5. id_of'[Top.reactor] = Count /\ \A r \in Assembled : r # Top.reactor /\ id_of'[r] = id_of[r]
    BY <2>4, CountTypes DEF OrderInv
  <2>6. \A r \in Assembled : id_of[r] \in 0..(Count - 1)
    BY <2>2 DEF IdsInv
  <2>7. \A r \in Assembled : id_of[r] # Count /\ id_of[r] \in 0..Count
    BY <2>1, <2>6
  <2>8. \A q, r \in Assembled' : id_of'[q] = id_of'[r] => q = r
    BY <2>2, <2>4, <2>5, <2>7 DEF IdsInv
  <2>9. \A r \in Assembled' : id_of'[r] \in 0..(Count' - 1)
    <3>1. Count' - 1 = Count /\ Count \in 0..Count
      BY <2>1
    <3> QED
      BY <2>4, <2>5, <2>7, <3>1
  <2>10. Count' < ReactorIds => reactor_id' = Count'
    BY <2>1, <2>4, Unwrapped
  <2>11. ASSUME NEW i \in 0..(Count' - 1)
         PROVE  \E r \in Assembled' : id_of'[r] = i
    <3>1. i = Count \/ i \in 0..(Count - 1)
      BY <2>1
    <3>2. CASE i = Count
      BY <2>4, <2>5, <3>2
    <3>3. CASE i \in 0..(Count - 1)
      <4>1. PICK r \in Assembled : id_of[r] = i
        BY <2>2, <3>3 DEF IdsInv
      <4> QED
        BY <2>4, <2>5, <4>1
    <3> QED
      BY <3>1, <3>2, <3>3
  <2> QED
    BY <2>8, <2>9, <2>10, <2>11
<1>2. CASE ~AssembleSelf
  <2>1. UNCHANGED <<id_of, reactor_id>>
    BY <1>2 DEF Next, vars, idVars, AssembleSub, NewComponent, NewChannel, NextCompId, Refuse, SetIdRange, BindRow, BindPorts,
                Finish, Set, CleanupTag, Refused
  <2> QED
    BY <2>1, SameCount DEF IdsInv
<1> QED
  BY <1>1, <1>2

LEMMA RegisteredPlaces ==
  ASSUME OrderInv, IdsInv, Fits, PlaceInv, phase # "refused",
         NEW S, S \subseteq Assembled, reactors' = Registered(S), UNCHANGED id_of
  PROVE  /\ \A i \in DOMAIN reactors' : \E r \in Assembled : i \in 0..id_of[r]
         /\ \A r \in Assembled : r \in S \/ InPlace(r) => InPlace(r)'
<1>1. DOMAIN reactors' = DOMAIN reactors \cup UNION {0..id_of[r] : r \in S}
  BY DEF Registered
<1>2. \A i \in DOMAIN reactors' : \E r \in Assembled : i \in 0..id_of[r]
  BY <1>1 DEF PlaceInv
<1>3. ASSUME NEW r \in Assembled, r \in S \/ InPlace(r)
      PROVE  id_of[r] \in DOMAIN reactors' /\ reactors'[id_of[r]] = r
  <2>1. id_of[r] \in 0..(Count - 1) /\ Count \in Nat
    BY CountTypes DEF IdsInv
  <2>2. id_of[r] \in 0..id_of[r]
    BY <2>1
  <2>3. id_of[r] \in DOMAIN reactors'
    BY <1>1, <1>3, <2>2 DEF InPlace
  <2>4. \A q \in S : id_of[q] = id_of[r] <=> q = r
    BY DEF IdsInv
  <2>5. reactors'[id_of[r]] = IF \E q \in S : id_of[q] = id_of[r] THEN CHOOSE q \in S : id_of[q] = id_of[r]
                              ELSE IF id_of[r] \in DOMAIN reactors THEN reactors[id_of[r]] ELSE Unset
    BY <1>1, <2>3 DEF Registered
  <2>6. CASE r \in S
    <3>1. (CHOOSE q \in S : id_of[q] = id_of[r]) = r
      BY <2>4, <2>6
    <3> QED
      BY <2>3, <2>5, <2>6, <3>1
  <2>7. CASE r \notin S
    BY <1>3, <2>3, <2>4, <2>5, <2>7 DEF InPlace
  <2> QED
    BY <2>6, <2>7
<1> QED
  BY <1>2, <1>3 DEF InPlace

LEMMA SelfKeepsPlaces ==
  ASSUME OrderInv, IdsInv, PlaceInv, AssembleSelf
  PROVE  PlaceInv'
<1> SUFFICES ASSUME Fits'
             PROVE  /\ \A i \in DOMAIN reactors' : \E r \in Assembled' : i \in 0..id_of'[r]
                    /\ \A r \in Assembled' : InPlace(r)' \/ Awaited(r)'
  BY DEF PlaceInv, AssembleSelf, At
<1>1. phase = "assemble" /\ StackInv /\ Goes("create", 0) /\ UNCHANGED <<program, reactors>>
  BY DEF AssembleSelf, At, OrderInv
<1>2. /\ Top.reactor \notin Assembled /\ Top.reactor \in Reactors
      /\ Assembled' = Assembled \cup {Top.reactor}
      /\ \A r \in Assembled : id_of'[r] = id_of[r]
      /\ Count' = Count + 1 /\ Count \in Nat /\ ReactorIds \in Nat
  BY SelfCounts, CountTypes, ProgramsAssumption DEF OrderInv
<1>3. Fits
  BY <1>2 DEF Fits
<1>4. DOMAIN stack' = DOMAIN stack /\ \A k \in DOMAIN stack : stack'[k].reactor = stack[k].reactor
  BY <1>1, GoesShape
<1>5. Len(stack) \in DOMAIN stack /\ Top = stack[Len(stack)]
  BY <1>1, TopIsFrame DEF StackInv, Top
<1>6. \A i \in DOMAIN reactors' : \E r \in Assembled' : i \in 0..id_of'[r]
  BY <1>1, <1>2, <1>3 DEF PlaceInv
<1>7. ASSUME NEW r \in Assembled
      PROVE  InPlace(r)' \/ Awaited(r)'
  <2>1. InPlace(r) \/ Awaited(r)
    BY <1>1, <1>3 DEF PlaceInv
  <2>2. InPlace(r) => InPlace(r)'
    BY <1>1, <1>2 DEF InPlace
  <2>3. Awaited(r) => Awaited(r)'
    BY <1>1, <1>4 DEF Awaited
  <2> QED
    BY <2>1, <2>2, <2>3
<1>8. ASSUME NEW r, r = Top.reactor
      PROVE  Awaited(r)'
  <2>1. \E k \in DOMAIN stack' : stack'[k].reactor = r
    BY <1>4, <1>5, <1>8
  <2> QED
    BY <2>1 DEF Awaited
<1> QED
  BY <1>2, <1>6, <1>7, <1>8

LEMMA PopKeepsPlaces ==
  ASSUME OrderInv, IdsInv, PlaceInv, Finish, Len(stack) > 1
  PROVE  PlaceInv'
<1> DEFINE kids == {Children[k] : k \in 1..Len(Children)}
           last == Len(stack) - 1
<1>1. /\ phase = "assemble" /\ phase' = "assemble" /\ StackInv /\ PathInv /\ Top.stage = "declare"
      /\ reactors' = Registered(kids) /\ UNCHANGED <<program, id_of>>
      /\ stack' = [SubSeq(stack, 1, Len(stack) - 1) EXCEPT ![Len(stack) - 1].n = @ + 1]
  BY DEF Finish, At, OrderInv, idVars
<1> SUFFICES ASSUME Fits
             PROVE  /\ \A i \in DOMAIN reactors' : \E r \in Assembled : i \in 0..id_of[r]
                    /\ \A r \in Assembled : InPlace(r)' \/ Awaited(r)'
  BY <1>1, SameCount DEF PlaceInv
<1>2. \A r \in kids : r \in Reactors /\ id_of[r] \in Nat
  BY <1>1, ChildrenHaveIds
<1>3. kids \subseteq Assembled
  BY <1>2, ProgramsAssumption DEF Assembled
<1>4. /\ \A i \in DOMAIN reactors' : \E r \in Assembled : i \in 0..id_of[r]
      /\ \A r \in Assembled : r \in kids \/ InPlace(r) => InPlace(r)'
  BY <1>1, <1>3, RegisteredPlaces
<1>5. DOMAIN stack' = 1..last /\ \A k \in 1..last : stack'[k].reactor = stack[k].reactor
  BY <1>1, PopShape
<1>6. Len(stack) \in Nat /\ DOMAIN stack = 1..Len(stack) /\ Top = stack[Len(stack)] /\ Top \in Frames
  BY <1>1, TopIsFrame DEF StackInv, Top
<1>7. last \in 1..last /\ last + 1 = Len(stack) /\ \A k \in DOMAIN stack : k = Len(stack) \/ k \in 1..last
  BY <1>6
<1>8. Children \in Seq(Reactors) /\ Children = program.children[Top.reactor]
  BY <1>1, <1>6, KidsInTree DEF Frames, StackInv, Children
<1>9. ASSUME NEW r \in Assembled, Awaited(r), r \notin kids
      PROVE  Awaited(r)'
  <2>1. PICK k \in DOMAIN stack : \/ stack[k].reactor = r
                                  \/ \E j \in DOMAIN program.children[stack[k].reactor] :
                                       program.children[stack[k].reactor][j] = r
    BY <1>9 DEF Awaited
  <2>2. CASE k \in 1..last
    <3>1. k \in DOMAIN stack' /\ stack'[k].reactor = stack[k].reactor /\ program' = program
      BY <2>2, <1>1, <1>5
    <3>2. \E x \in DOMAIN stack' : \/ stack'[x].reactor = r
                                   \/ \E j \in DOMAIN program'.children[stack'[x].reactor] :
                                        program'.children[stack'[x].reactor][j] = r
      BY <2>1, <3>1
    <3> QED
      BY <3>2 DEF Awaited
  <2>3. CASE k = Len(stack)
    <3>1. ~ \E j \in DOMAIN program.children[Top.reactor] : program.children[Top.reactor][j] = r
      BY <1>8, <1>9
    <3>2. r = Top.reactor
      BY <2>1, <2>3, <3>1, <1>6
    <3>3. /\ stack[last].n + 1 \in DOMAIN program.children[stack[last].reactor]
          /\ r = program.children[stack[last].reactor][stack[last].n + 1]
      BY <1>1, <1>6, <1>7, <3>2 DEF PathInv, PathDown, PathStep
    <3>4. last \in DOMAIN stack' /\ stack'[last].reactor = stack[last].reactor /\ program' = program
      BY <1>1, <1>5, <1>7
    <3>5. \E x \in DOMAIN stack' : \E j \in DOMAIN program'.children[stack'[x].reactor] :
            program'.children[stack'[x].reactor][j] = r
      <4> HIDE DEF last
      <4> QED
        BY <3>3, <3>4
    <3> QED
      BY <3>5 DEF Awaited
  <2> QED
    BY <2>2, <2>3, <1>7
<1>10. \A r \in Assembled : InPlace(r) \/ Awaited(r)
  BY <1>1 DEF PlaceInv
<1> QED
  BY <1>4, <1>9, <1>10

LEMMA PlacesKept ==
  ASSUME OrderInv, IdsInv, PlaceInv, [Next]_vars
  PROVE  PlaceInv'
<1>1. CASE AssembleSelf
  BY <1>1, SelfKeepsPlaces
<1>2. CASE Finish /\ Len(stack) > 1
  BY <1>2, PopKeepsPlaces
<1>3. CASE Finish /\ ~(Len(stack) > 1)
  <2> DEFINE kids == {Children[k] : k \in 1..Len(Children)}
  <2>1. /\ phase = "assemble" /\ phase' \in {"run", "refused"} /\ StackInv /\ PathInv /\ GivenInv
        /\ Top.stage = "declare"
        /\ reactors' = Registered(kids \cup {Main}) /\ UNCHANGED <<program, id_of>>
    BY <1>3 DEF Finish, At, OrderInv, idVars
  <2>2. Len(stack) = 1 /\ DOMAIN stack = {1} /\ Top = stack[1] /\ Top \in Frames
    <3>1. Len(stack) \in Nat /\ Len(stack) \in 1..Len(stack) /\ Top \in Frames /\ DOMAIN stack = 1..Len(stack)
      BY <2>1, TopIsFrame DEF StackInv
    <3>2. Len(stack) = 1
      BY <1>3, <3>1
    <3> QED
      BY <3>1, <3>2 DEF Top
  <2>3. Top.reactor = Main /\ id_of[Main] # Unset
    BY <2>1, <2>2 DEF PathInv, PathRoot, GivenInv, GivenOnStack
  <2>4. kids \cup {Main} \subseteq Assembled
    BY <2>1, <2>3, ChildrenHaveIds, ProgramsAssumption DEF Assembled
  <2>5. Children \in Seq(Reactors) /\ Children = program.children[Main]
    BY <2>1, <2>2, <2>3, KidsInTree DEF Frames, StackInv, Children
  <2>6. ASSUME NEW r \in Assembled, Awaited(r)
        PROVE  r \in kids \cup {Main}
    BY <2>2, <2>3, <2>5, <2>6 DEF Awaited
  <2>7. ASSUME Fits
        PROVE  /\ \A i \in DOMAIN reactors' : \E r \in Assembled : i \in 0..id_of[r]
               /\ \A r \in Assembled : InPlace(r)'
    <3>1. /\ \A i \in DOMAIN reactors' : \E r \in Assembled : i \in 0..id_of[r]
          /\ \A r \in Assembled : r \in kids \cup {Main} \/ InPlace(r) => InPlace(r)'
      BY <2>1, <2>4, <2>7, RegisteredPlaces
    <3>2. \A r \in Assembled : InPlace(r) \/ Awaited(r)
      BY <2>1, <2>7 DEF PlaceInv
    <3> QED
      BY <3>1, <3>2, <2>6
  <2> QED
    BY <2>1, <2>7, SameCount DEF PlaceInv
<1>4. CASE ~AssembleSelf /\ ~Finish
  <2>1. UNCHANGED <<id_of, reactors, program>> /\ phase' \in {phase, "refused"}
    BY <1>4 DEF Next, vars, idVars, AssembleSub, NewComponent, NewChannel, NextCompId, Refuse, SetIdRange, BindRow, BindPorts,
                Set, CleanupTag, Refused
  <2> SUFFICES ASSUME Fits, phase # "refused", phase' = phase
               PROVE  \A r \in Assembled : phase = "assemble" /\ Awaited(r) => Awaited(r)'
    BY <2>1, SameCount DEF PlaceInv, InPlace
  <2>2. SUFFICES ASSUME phase = "assemble", NEW r \in Assembled, Awaited(r)
                 PROVE  Awaited(r)'
    OBVIOUS
  <2>3. ASSUME DOMAIN stack \subseteq DOMAIN stack',
               \A k \in DOMAIN stack : stack'[k].reactor = stack[k].reactor
        PROVE  Awaited(r)'
    BY <2>1, <2>2, <2>3 DEF Awaited
  <2>4. StackInv
    BY DEF OrderInv
  <2>5. CASE AssembleSub
    <3>1. StackInv'
      BY <2>4, StackInvKept
    <3>2. Top \in Frames
      BY <2>2, <2>4, TopIsFrame
    <3>3. Children \in Seq(Reactors) /\ Top.n \in Nat /\ Top.n < Len(Children)
      BY <2>4, <2>5, <3>2, KidsInTree DEF Frames, StackInv, Children, AssembleSub
    <3>4. Frame(Children[Top.n + 1]) \in Frames
      BY <3>3 DEF Frame, Frames
    <3>5. stack' = Append(stack, Frame(Children[Top.n + 1]))
      BY <2>5 DEF AssembleSub
    <3>6. Len(stack') = Len(stack) + 1 /\ \A k \in 1..Len(stack) : stack'[k] = stack[k]
      BY <2>4, <3>4, <3>5, PushShape
    <3>7. DOMAIN stack = 1..Len(stack) /\ DOMAIN stack' = 1..Len(stack') /\ Len(stack) \in Nat
      BY <2>4, <3>1 DEF StackInv
    <3>8. DOMAIN stack \subseteq DOMAIN stack'
      BY <3>6, <3>7
    <3> QED
      BY <2>3, <3>6, <3>7, <3>8
  <2>6. ASSUME NEW s, NEW n, Goes(s, n)
        PROVE  Awaited(r)'
    BY <2>2, <2>3, <2>4, <2>6, GoesShape
  <2>7. CASE GoesFurther
    BY <2>2, <2>3, <2>4, <2>7, CountShape
  <2>8. CASE UNCHANGED stack
    BY <2>3, <2>8
  <2>9. AssembleSub \/ (\E s, n : Goes(s, n)) \/ UNCHANGED stack
        \/ GoesFurther
    <3>1. NewComponent \/ NewChannel => (\E s, n : Goes(s, n)) \/ UNCHANGED stack \/ GoesFurther
      BY DEF NewComponent, NewChannel, NextCompId, Refuse
    <3>2. SetIdRange => \E s, n : Goes(s, n)
      BY DEF SetIdRange
    <3>3. BindRow => \/ (\E s, n : Goes(s, n)) \/ UNCHANGED stack
                     \/ GoesFurther
      BY DEF BindRow, BindPorts, Refuse
    <3> QED
      BY <1>4, <3>1, <3>2, <3>3 DEF Next, vars, Set, CleanupTag, Refused
  <2> QED
    BY <2>5, <2>6, <2>7, <2>8, <2>9
<1> QED
  BY <1>1, <1>2, <1>3, <1>4

LEMMA InitPlaces == Init => IdsInv /\ PlaceInv
<1> SUFFICES ASSUME Init PROVE IdsInv /\ PlaceInv
  OBVIOUS
<1>1. Assembled = {}
  BY DEF Init, Assembled
<1>2. Count = 0
  BY <1>1, FS_EmptySet DEF Count
<1> QED
  BY <1>1, <1>2 DEF Init, IdsInv, PlaceInv

(* Every reactor that was assembled is registered in the place of its own id,
   and every place is that of a reactor, for every tree that has no more reactors
   than there are ids. *)
THEOREM ReactorsInPlaceHolds == Spec => []ReactorsInPlace
<1>1. OrderInv /\ IdsInv /\ PlaceInv /\ [Next]_vars => IdsInv' /\ PlaceInv'
  BY IdsKept, PlacesKept
<1>2. IdsInv /\ PlaceInv => ReactorsInPlace
  <2> SUFFICES ASSUME IdsInv, PlaceInv, phase = "run", Fits
               PROVE  /\ DOMAIN reactors = {id_of[r] : r \in Assembled}
                      /\ \A r \in Assembled : reactors[id_of[r]] = r
    BY DEF ReactorsInPlace, Fits, Count
  <2>1. \A r \in Assembled : id_of[r] \in DOMAIN reactors /\ reactors[id_of[r]] = r
    BY DEF PlaceInv, InPlace
  <2>2. ASSUME NEW i \in DOMAIN reactors
        PROVE  \E r \in Assembled : id_of[r] = i
    <3>1. PICK r \in Assembled : i \in 0..id_of[r]
      BY DEF PlaceInv
    <3>2. id_of[r] \in 0..(Count - 1) /\ Count \in Nat
      BY CountTypes DEF IdsInv
    <3>3. i \in 0..(Count - 1)
      BY <3>1, <3>2
    <3> QED
      BY <3>3 DEF IdsInv
  <2> QED
    BY <2>1, <2>2
<1> QED
  BY <1>1, <1>2, InitPlaces, OrderInvHolds, PTL DEF Spec

-----------------------------------------------------------------------------
(* Which programs are refused.  The tree contains the main reactor and, with a
   reactor, its children, and nothing else. *)
ClosedUnderChildren(S) ==
  \A q \in S : \A j \in DOMAIN program.children[q] : program.children[q][j] \in S

LEMMA TreeIsLeast ==
  /\ Main \in Tree
  /\ program \in Programs => ClosedUnderChildren(Tree)
  /\ \A S \in SUBSET Reactors : Main \in S /\ ClosedUnderChildren(S) => Tree \subseteq S
<1>1. Main \in Tree
  BY ProgramsAssumption DEF Tree
<1>2. ASSUME program \in Programs, NEW q \in Tree, NEW j \in DOMAIN program.children[q]
      PROVE  program.children[q][j] \in Tree
  <2>1. q \in Reactors
    BY DEF Tree
  <2>2. program.children[q][j] \in Reactors
    BY <1>2, <2>1, KidsInTree
  <2>3. ASSUME NEW S \in SUBSET Reactors, Main \in S, ClosedUnderChildren(S)
        PROVE  program.children[q][j] \in S
    <3>1. q \in S
      BY <2>3 DEF Tree, ClosedUnderChildren
    <3> QED
      BY <2>3, <3>1 DEF ClosedUnderChildren
  <2> QED
    BY <2>2, <2>3 DEF Tree, ClosedUnderChildren
<1>3. ASSUME NEW S \in SUBSET Reactors, Main \in S, ClosedUnderChildren(S)
      PROVE  Tree \subseteq S
  BY <1>3 DEF Tree, ClosedUnderChildren
<1> QED
  BY <1>1, <1>2, <1>3 DEF ClosedUnderChildren

(* Only reactors of the tree are assembled, and with them their children.  When
   the program runs, all of them are. *)
TreeInv ==
  /\ \A k \in DOMAIN stack : stack[k].reactor \in Tree
  /\ Assembled \subseteq Tree /\ ClosedUnderChildren(Assembled)
  /\ phase = "run" => Main \in Assembled /\ stack = <<>>

LEMMA SameTree ==
  ASSUME UNCHANGED program
  PROVE  Tree' = Tree
BY DEF Tree

LEMMA InitTree == Init => TreeInv
<1> SUFFICES ASSUME Init PROVE TreeInv
  OBVIOUS
<1>1. Assembled = {}
  BY DEF Init, Assembled
<1>2. DOMAIN stack = {1} /\ stack[1].reactor = Main
  BY DEF Init, Frame
<1> QED
  BY <1>1, <1>2, TreeIsLeast DEF Init, TreeInv, ClosedUnderChildren

LEMMA TreeKept ==
  ASSUME OrderInv, TreeInv, [Next]_vars
  PROVE  TreeInv'
<1>1. StackInv /\ program \in Programs
  BY DEF OrderInv, StackInv
<1>2. Tree' = Tree /\ UNCHANGED program
  <2>1. UNCHANGED program
    BY DEF Next, vars, AssembleSub, AssembleSelf, NewComponent, NewChannel, NextCompId, Refuse, SetIdRange, BindRow, BindPorts,
           Finish, Set, CleanupTag, Refused
  <2> QED
    BY <2>1, SameTree
<1>3. phase = "assemble" => /\ Len(stack) \in DOMAIN stack /\ Top = stack[Len(stack)] /\ Top \in Frames
                            /\ Top.reactor \in Tree /\ Top.reactor \in Reactors
  <2> SUFFICES ASSUME phase = "assemble" PROVE /\ Len(stack) \in DOMAIN stack /\ Top = stack[Len(stack)] /\ Top \in Frames
                            /\ Top.reactor \in Tree /\ Top.reactor \in Reactors
    OBVIOUS
  <2>1. Len(stack) \in DOMAIN stack /\ Top = stack[Len(stack)] /\ Top \in Frames
    BY <1>1, TopIsFrame DEF StackInv, Top
  <2> QED
    BY <2>1 DEF TreeInv, Frames
<1>4. ASSUME UNCHANGED id_of,
             DOMAIN stack' \subseteq DOMAIN stack,
             \A k \in DOMAIN stack' : stack'[k].reactor = stack[k].reactor,
             phase' = "run" => Main \in Assembled /\ stack' = <<>>
      PROVE  TreeInv'
  <2>1. Assembled' = Assembled
    BY <1>4, SameCount
  <2> QED
    BY <1>2, <1>4, <2>1 DEF TreeInv, ClosedUnderChildren
<1>5. CASE AssembleSub
  <2>1. phase = "assemble" /\ phase' = phase /\ UNCHANGED id_of
    BY <1>5 DEF AssembleSub, At, idVars
  <2>2. Children \in Seq(Reactors) /\ Top.n \in Nat /\ Top.n < Len(Children)
    BY <1>1, <1>3, <1>5, <2>1, KidsInTree DEF Frames, Children, AssembleSub
  <2>3. Children[Top.n + 1] \in Tree
    <3>1. Top.n + 1 \in DOMAIN program.children[Top.reactor]
      BY <2>2 DEF Children
    <3> QED
      BY <1>1, <1>3, <2>1, <3>1, TreeIsLeast DEF Children, ClosedUnderChildren
  <2>4. Frame(Children[Top.n + 1]) \in Frames /\ Frame(Children[Top.n + 1]).reactor = Children[Top.n + 1]
    BY <2>2 DEF Frame, Frames
  <2>5. stack' = Append(stack, Frame(Children[Top.n + 1]))
    BY <1>5 DEF AssembleSub
  <2>6. /\ Len(stack') = Len(stack) + 1 /\ stack'[Len(stack) + 1] = Frame(Children[Top.n + 1])
        /\ \A k \in 1..Len(stack) : stack'[k] = stack[k]
    BY <1>1, <2>4, <2>5, PushShape
  <2>7. StackInv'
    BY <1>1, StackInvKept
  <2>8. DOMAIN stack' = 1..(Len(stack) + 1) /\ DOMAIN stack = 1..Len(stack) /\ Len(stack) \in Nat
    BY <1>1, <2>6, <2>7 DEF StackInv
  <2>9. \A k \in DOMAIN stack' : stack'[k].reactor \in Tree
    <3>1. \A k \in DOMAIN stack' : k = Len(stack) + 1 \/ k \in DOMAIN stack
      BY <2>8
    <3> QED
      BY <2>3, <2>4, <2>6, <2>8, <3>1 DEF TreeInv
  <2>10. Assembled' = Assembled
    BY <2>1, SameCount
  <2> QED
    BY <1>2, <2>1, <2>9, <2>10 DEF TreeInv, ClosedUnderChildren
<1>6. CASE AssembleSelf
  <2>1. /\ phase = "assemble" /\ phase' = phase /\ Goes("create", 0) /\ Top.n = Len(Children)
    BY <1>6 DEF AssembleSelf, At
  <2>2. Assembled' = Assembled \cup {Top.reactor}
    BY <1>6, SelfCounts
  <2>3. \A j \in DOMAIN program.children[Top.reactor] : program.children[Top.reactor][j] \in Assembled
    <3> SUFFICES ASSUME NEW j \in DOMAIN program.children[Top.reactor]
                 PROVE  program.children[Top.reactor][j] \in Assembled
      OBVIOUS
    <3>1. program.children[Top.reactor] \in Seq(Reactors)
      BY <1>1, <1>3, <2>1, KidsInTree
    <3>2. j \in 1..Len(Children)
      BY <3>1 DEF Children
    <3>3. Children[j] \in Reactors /\ id_of[Children[j]] \in Nat
      BY <2>1, <3>2, ChildrenHaveIds
    <3>4. id_of[Children[j]] # Unset
      BY <3>3, ProgramsAssumption
    <3> QED
      BY <3>3, <3>4 DEF Assembled, Children
  <2>4. ClosedUnderChildren(Assembled)'
    BY <1>2, <2>2, <2>3 DEF TreeInv, ClosedUnderChildren
  <2>5. DOMAIN stack' = DOMAIN stack /\ \A k \in DOMAIN stack : stack'[k].reactor = stack[k].reactor
    BY <1>1, <2>1, GoesShape
  <2> QED
    BY <1>2, <1>3, <2>1, <2>2, <2>4, <2>5 DEF TreeInv
<1>7. CASE NewComponent \/ NewChannel \/ SetIdRange \/ BindRow
  <2>1. phase = "assemble" /\ phase' \in {"assemble", "refused"} /\ UNCHANGED id_of
    BY <1>7 DEF NewComponent, NewChannel, NextCompId, SetIdRange, BindRow, BindPorts, Refuse, At, idVars
  <2>2. (\E s, n : Goes(s, n)) \/ UNCHANGED stack \/ GoesFurther
    BY <1>7 DEF NewComponent, NewChannel, NextCompId, SetIdRange, BindRow, BindPorts, Refuse
  <2>3. DOMAIN stack' = DOMAIN stack /\ \A k \in DOMAIN stack : stack'[k].reactor = stack[k].reactor
    BY <1>1, <2>1, <2>2, GoesShape, CountShape
  <2> QED
    BY <1>4, <2>1, <2>3
<1>8. CASE Finish /\ Len(stack) > 1
  <2>1. /\ phase' = "assemble" /\ UNCHANGED id_of
        /\ stack' = [SubSeq(stack, 1, Len(stack) - 1) EXCEPT ![Len(stack) - 1].n = @ + 1]
    BY <1>8 DEF Finish, At, idVars
  <2>2. /\ DOMAIN stack' = 1..(Len(stack) - 1)
        /\ \A i \in DOMAIN stack' : stack'[i].reactor = stack[i].reactor
    BY <1>1, <1>8, <2>1, PopShape
  <2>3. DOMAIN stack = 1..Len(stack) /\ Len(stack) \in Nat
    BY <1>1 DEF StackInv
  <2>4. DOMAIN stack' \subseteq DOMAIN stack
    BY <2>2, <2>3
  <2> QED
    BY <1>4, <2>1, <2>2, <2>4
<1>9. CASE Finish /\ ~(Len(stack) > 1)
  <2>1. /\ phase = "assemble" /\ Top.stage = "declare" /\ UNCHANGED id_of /\ stack' = <<>>
    BY <1>9 DEF Finish, At, idVars
  <2>2. Len(stack) \in Nat /\ Len(stack) \in 1..Len(stack) /\ PathInv /\ GivenInv
    BY <1>1, <2>1, TopIsFrame DEF OrderInv
  <2>3. Len(stack) = 1
    BY <1>9, <2>2
  <2>4. Top.reactor = Main /\ id_of[Main] # Unset
    BY <1>3, <2>1, <2>2, <2>3 DEF PathInv, PathRoot, GivenInv, GivenOnStack
  <2>5. Main \in Assembled
    BY <2>4, ProgramsAssumption DEF Assembled
  <2>6. DOMAIN stack' = {}
    BY <2>1
  <2> QED
    BY <1>4, <2>1, <2>5, <2>6
<1>10. CASE UNCHANGED <<stack, id_of, phase>>
  <2>1. phase' = "run" => Main \in Assembled /\ stack' = <<>>
    BY <1>10 DEF TreeInv
  <2> QED
    BY <1>4, <1>10, <2>1
<1> QED
  BY <1>5, <1>6, <1>7, <1>8, <1>9, <1>10 DEF Next, vars, idVars, Set, CleanupTag, Refused
-----------------------------------------------------------------------------
(* The bindings that a reactor with an id has not made yet, which it can only
   have as the reactor on top, and the rows that it has not finished *)
Unbound(r, n, k) ==
  /\ stack # <<>> /\ Top.reactor = r
  /\ \/ Top.stage = "create"
     \/ Top.stage = "declare" /\ (Top.n + 1 < n \/ (Top.n + 1 = n /\ Top.k < k))

Unfinished(r, n) ==
  /\ stack # <<>> /\ Top.reactor = r
  /\ Top.stage = "create" \/ (Top.stage = "declare" /\ Top.n < n)

Done == {x \in Places : x[1] \in Assembled /\ ~Unbound(x[1], x[2], x[3])}

(* What is bound is what was declared so far, each port once. *)
BindInv ==
  /\ \A r \in Assembled : \A n \in DOMAIN program.bindings[r] :
       Unfinished(r, n) \/ ~Malformed(program.bindings[r][n])
  /\ wired = {PairAt(x) : x \in Done}
  /\ bound = {PairAt(x)[2] : x \in Done}
  /\ \A x, y \in Done : PairAt(x)[2] = PairAt(y)[2] => x = y

LEMMA BindingTypes ==
  ASSUME program \in Programs, NEW r \in Reactors
  PROVE  /\ program.bindings[r] \in Seq([up : Seq(Ports), down : Seq(Ports), repeat : BOOLEAN])
         /\ \A n \in DOMAIN program.bindings[r] :
              /\ n \in Nat \ {0}
              /\ program.bindings[r][n] \in [up : Seq(Ports), down : Seq(Ports), repeat : BOOLEAN]
              /\ Len(Pairs(program.bindings[r][n])) \in Nat
              /\ DOMAIN Pairs(program.bindings[r][n]) = 1..Len(Pairs(program.bindings[r][n]))
<1> DEFINE S == [up : Seq(Ports), down : Seq(Ports), repeat : BOOLEAN]
           rows == program.bindings[r]
<1>1. rows \in Seq(S)
  BY ProgramsAssumption DEF ProgramTypes
<1>2. ASSUME NEW b \in S
      PROVE  Len(Pairs(b)) \in Nat /\ DOMAIN Pairs(b) = 1..Len(Pairs(b))
  <2>1. Len(b.up) \in Nat /\ Len(b.down) \in Nat
    OBVIOUS
  <2> DEFINE m == IF b.repeat \/ Len(b.down) < Len(b.up) THEN Len(b.down) ELSE Len(b.up)
             F(i) == <<b.up[IF b.repeat THEN ((i - 1) % Len(b.up)) + 1 ELSE i], b.down[i]>>
  <2>2. m \in Nat /\ Pairs(b) = [i \in 1..m |-> F(i)]
    BY <2>1 DEF Pairs
  <2> HIDE DEF m, F
  <2>3. Len([i \in 1..m |-> F(i)]) = m
    BY <2>2
  <2> QED
    BY <2>2, <2>3
<1>3. \A n \in DOMAIN rows : n \in Nat \ {0} /\ rows[n] \in S
  <2> HIDE DEF S, rows
  <2> QED
    BY <1>1
<1> QED
  BY <1>1, <1>2, <1>3

LEMMA PlaceTypes ==
  ASSUME NEW r, NEW n, NEW k
  PROVE  <<r, n, k>> \in Places <=>
           r \in Tree /\ n \in DOMAIN program.bindings[r] /\ k \in DOMAIN Pairs(program.bindings[r][n])
BY DEF Places

LEMMA PlaceIs ==
  ASSUME NEW x \in Places
  PROVE  \E r \in Tree : \E n \in DOMAIN program.bindings[r] :
           \E k \in DOMAIN Pairs(program.bindings[r][n]) : x = <<r, n, k>>
BY DEF Places

LEMMA SamePlaces ==
  ASSUME UNCHANGED program
  PROVE  Places' = Places /\ \A x \in Places : PairAt(x)' = PairAt(x)
<1>1. Tree' = Tree
  BY SameTree
<1> QED
  BY <1>1 DEF Places, PairAt

(* Steps that bind nothing *)
LEMMA SameBindings ==
  ASSUME BindInv, UNCHANGED <<program, wired, bound>>, Done' = Done,
         \A r \in Assembled' : \A n \in DOMAIN program.bindings[r] :
           Unfinished(r, n)' \/ ~Malformed(program.bindings[r][n])
  PROVE  BindInv'
<1>1. Done \subseteq Places
  BY DEF Done
<1>2. \A x \in Done : PairAt(x)' = PairAt(x)
  BY <1>1, SamePlaces
<1> QED
  BY <1>2 DEF BindInv

LEMMA SameDone ==
  ASSUME UNCHANGED <<program, id_of>>,
         \A r \in Assembled : \A n \in DOMAIN program.bindings[r] :
           \A k \in DOMAIN Pairs(program.bindings[r][n]) : Unbound(r, n, k)' <=> Unbound(r, n, k)
  PROVE  Done' = Done
<1>1. Places' = Places /\ Assembled' = Assembled
  BY SamePlaces, SameCount
<1>2. ASSUME NEW x \in Places, x[1] \in Assembled
      PROVE  Unbound(x[1], x[2], x[3])' <=> Unbound(x[1], x[2], x[3])
  <2>1. PICK r \in Tree : \E n \in DOMAIN program.bindings[r] :
          \E k \in DOMAIN Pairs(program.bindings[r][n]) : x = <<r, n, k>>
    BY PlaceIs
  <2>5. PICK n \in DOMAIN program.bindings[r] :
          \E k \in DOMAIN Pairs(program.bindings[r][n]) : x = <<r, n, k>>
    BY <2>1
  <2>2. PICK k \in DOMAIN Pairs(program.bindings[r][n]) : x = <<r, n, k>>
    BY <2>5
  <2>3. x[1] = r /\ x[2] = n /\ x[3] = k
    BY <2>2
  <2>4. Unbound(r, n, k)' <=> Unbound(r, n, k)
    BY <1>2, <2>3
  <2> QED
    BY <2>3, <2>4
<1> QED
  BY <1>1, <1>2 DEF Done

(* The reactor on top, once it has its id *)
LEMMA TopIsAssembled ==
  ASSUME OrderInv, TreeInv, phase = "assemble"
  PROVE  /\ stack # <<>> /\ program \in Programs
         /\ Top.reactor \in Reactors /\ Top.n \in Nat /\ Top.k \in Nat
         /\ Top.reactor \in Assembled <=> Top.stage # "children"
<1>1. StackInv /\ GivenInv
  BY DEF OrderInv
<1>2. Len(stack) \in DOMAIN stack /\ Top = stack[Len(stack)] /\ Top \in Frames
  BY <1>1, TopIsFrame DEF StackInv, Top
<1>3. Top.reactor \in Reactors /\ Top.n \in Nat /\ Top.k \in Nat
  BY <1>2 DEF Frames
<1>4. Top.reactor \in Assembled <=> Top.stage # "children"
  BY <1>1, <1>2, <1>3 DEF Assembled, GivenInv, GivenOnStack
<1> QED
  BY <1>1, <1>3, <1>4 DEF StackInv

NextRow == Bindings[Top.n + 1]
NextPlace == <<Top.reactor, Top.n + 1, Top.k + 1>>

(* The next pair of ports of a row is bound, or refused, or the row ends. *)
LEMMA BindRowCases ==
  ASSUME OrderInv, TreeInv, BindRow
  PROVE  /\ phase = "assemble" /\ Top.stage = "declare" /\ UNCHANGED <<program, id_of>>
         /\ Top.n + 1 \in DOMAIN program.bindings[Top.reactor]
         /\ NextRow = program.bindings[Top.reactor][Top.n + 1]
         /\ \/ Malformed(NextRow) /\ Refuse
            \/ /\ ~Malformed(NextRow) /\ NextPlace \in Places /\ PairAt(NextPlace) \in Ports \X Ports
               /\ \/ /\ IsBound(PairAt(NextPlace)[2]) \/ FindsCycle(PairAt(NextPlace)[1], PairAt(NextPlace)[2])
                     /\ Refuse
                  \/ /\ Binds(PairAt(NextPlace)[1], PairAt(NextPlace)[2])
                     /\ GoesFurther
            \/ /\ ~Malformed(NextRow) /\ Goes("declare", Top.n + 1)
               /\ Top.k \notin 0..(Len(Pairs(NextRow)) - 1)
               /\ UNCHANGED <<phase, bindVars, portVars>>
<1>1. phase = "assemble" /\ Top.stage = "declare" /\ UNCHANGED <<program, id_of>>
  BY DEF BindRow, BindPorts, Refuse, At, idVars
<1>2. /\ Top.reactor \in Tree /\ Top.reactor \in Reactors /\ Top.n \in Nat /\ Top.k \in Nat
      /\ program \in Programs
  <2>1. Top.reactor \in Assembled
    BY <1>1, TopIsAssembled
  <2> QED
    BY <1>1, <2>1, TopIsAssembled DEF TreeInv
<1>3. /\ Bindings \in Seq([up : Seq(Ports), down : Seq(Ports), repeat : BOOLEAN])
      /\ Bindings = program.bindings[Top.reactor]
  BY <1>2, BindingTypes DEF Bindings
<1>4. Top.n + 1 \in DOMAIN program.bindings[Top.reactor] /\ NextRow = program.bindings[Top.reactor][Top.n + 1]
  <2>1. Top.n < Len(Bindings)
    BY DEF BindRow
  <2> QED
    BY <1>2, <1>3, <2>1 DEF NextRow
<1>5. /\ NextRow \in [up : Seq(Ports), down : Seq(Ports), repeat : BOOLEAN]
      /\ Len(Pairs(NextRow)) \in Nat /\ DOMAIN Pairs(NextRow) = 1..Len(Pairs(NextRow))
  BY <1>2, <1>4, BindingTypes
<1>6. CASE Malformed(NextRow)
  <2>1. Refuse
    BY <1>6 DEF BindRow, NextRow
  <2> QED
    BY <1>1, <1>4, <1>6, <2>1
<1>7. CASE ~Malformed(NextRow) /\ Top.k < Len(Pairs(NextRow))
  <2>1. Top.k + 1 \in DOMAIN Pairs(NextRow)
    BY <1>2, <1>5, <1>7
  <2>2. NextPlace \in Places
    BY <1>2, <1>4, <2>1, PlaceTypes DEF NextPlace
  <2>3. PairAt(NextPlace) = Pairs(NextRow)[Top.k + 1]
    BY <1>4 DEF PairAt, NextPlace
  <2>4. PairAt(NextPlace) \in Ports \X Ports
    BY <1>5, <1>7, <2>1, <2>3, PairsAreOfPorts
  <2>5. BindPorts(PairAt(NextPlace)[1], PairAt(NextPlace)[2])
    BY <1>7, <2>3 DEF BindRow, NextRow
  <2>6. \/ /\ IsBound(PairAt(NextPlace)[2]) \/ FindsCycle(PairAt(NextPlace)[1], PairAt(NextPlace)[2])
           /\ Refuse
        \/ /\ Binds(PairAt(NextPlace)[1], PairAt(NextPlace)[2])
           /\ GoesFurther
    <3> HIDE DEF PairAt, NextPlace
    <3> QED
      BY <2>5 DEF BindPorts, Binds
  <2> QED
    BY <1>1, <1>4, <1>7, <2>2, <2>4, <2>6
<1>8. CASE ~Malformed(NextRow) /\ ~(Top.k < Len(Pairs(NextRow)))
  <2>1. Goes("declare", Top.n + 1) /\ UNCHANGED <<phase, bindVars, portVars>>
    BY <1>8 DEF BindRow, NextRow
  <2>2. Top.k \notin 0..(Len(Pairs(NextRow)) - 1)
    BY <1>2, <1>5, <1>8
  <2> QED
    BY <1>1, <1>4, <1>8, <2>1, <2>2
<1> QED
  BY <1>6, <1>7, <1>8

(* A binding makes the next place one that is done. *)
LEMMA BindsNext ==
  ASSUME OrderInv, TreeInv, BindInv, BindRow, ~Malformed(NextRow), NextPlace \in Places,
         PairAt(NextPlace) \in Ports \X Ports,
         Binds(PairAt(NextPlace)[1], PairAt(NextPlace)[2]),
         GoesFurther
  PROVE  BindInv'
<1>0. PICK x : x = NextPlace
  OBVIOUS
<1>1. /\ phase = "assemble" /\ Top.stage = "declare" /\ UNCHANGED <<program, id_of>>
      /\ Top.n + 1 \in DOMAIN program.bindings[Top.reactor]
      /\ NextRow = program.bindings[Top.reactor][Top.n + 1] /\ StackInv
  BY BindRowCases DEF OrderInv
<1>2. /\ stack # <<>> /\ Top.reactor \in Reactors /\ Top.n \in Nat /\ Top.k \in Nat
      /\ Top.reactor \in Assembled /\ program \in Programs
  BY <1>1, TopIsAssembled
<1>3. /\ stack' # <<>> /\ Top'.reactor = Top.reactor /\ Top'.stage = "declare"
      /\ Top'.n = Top.n /\ Top'.k = Top.k + 1
  BY <1>1, CountTop
<1>4. Assembled' = Assembled /\ Places' = Places /\ \A y \in Places : PairAt(y)' = PairAt(y)
  BY <1>1, SameCount, SamePlaces
<1>5. /\ PairAt(x)[2] \notin bound /\ bound' = bound \cup {PairAt(x)[2]}
      /\ wired' = wired \cup {<<PairAt(x)[1], PairAt(x)[2]>>}
  BY <1>0 DEF Binds, IsBound, ForwardTo
<1>6. <<PairAt(x)[1], PairAt(x)[2]>> = PairAt(x)
  <2>1. \A z \in Ports \X Ports : <<z[1], z[2]>> = z
    OBVIOUS
  <2> QED
    BY <1>0, <2>1
<1>7. ASSUME NEW r \in Assembled, NEW n \in DOMAIN program.bindings[r],
             NEW k \in DOMAIN Pairs(program.bindings[r][n])
      PROVE  Unbound(r, n, k) <=> (<<r, n, k>> = x \/ Unbound(r, n, k)')
  <2>1. r \in Reactors
    BY CountTypes
  <2>2. n \in Nat /\ k \in Nat
    BY <1>2, <2>1, BindingTypes
  <2>3. Unbound(r, n, k) <=> r = Top.reactor /\ (Top.n + 1 < n \/ (Top.n + 1 = n /\ Top.k < k))
    BY <1>1, <1>2 DEF Unbound
  <2>4. Unbound(r, n, k)' <=> r = Top.reactor /\ (Top.n + 1 < n \/ (Top.n + 1 = n /\ Top.k + 1 < k))
    BY <1>3 DEF Unbound
  <2>5. <<r, n, k>> = x <=> r = Top.reactor /\ Top.n + 1 = n /\ Top.k + 1 = k
    BY <1>0 DEF NextPlace
  <2>6. Top.k < k <=> (Top.k + 1 = k \/ Top.k + 1 < k)
    BY <1>2, <2>2
  <2> DEFINE own == r = Top.reactor
             later == Top.n + 1 < n
             same == Top.n + 1 = n
             isNext == <<r, n, k>> = x
  <2>7. /\ Unbound(r, n, k) <=> own /\ (later \/ (same /\ Top.k < k))
        /\ Unbound(r, n, k)' <=> own /\ (later \/ (same /\ Top.k + 1 < k))
        /\ isNext <=> own /\ same /\ Top.k + 1 = k
    BY <2>3, <2>4, <2>5
  <2> HIDE DEF own, later, same, isNext
  <2>8. Unbound(r, n, k) <=> (isNext \/ Unbound(r, n, k)')
    BY <2>6, <2>7, Zenon
  <2> QED
    BY <2>8 DEF isNext
<1>8. /\ x[1] = Top.reactor /\ x[2] = Top.n + 1 /\ x[3] = Top.k + 1
      /\ Unbound(x[1], x[2], x[3]) /\ ~Unbound(x[1], x[2], x[3])'
  <2>1. x[1] = Top.reactor /\ x[2] = Top.n + 1 /\ x[3] = Top.k + 1
    BY <1>0 DEF NextPlace
  <2>2. ~(x[2] < x[2]) /\ ~(x[3] < x[3]) /\ Top.k < x[3]
    BY <1>2, <2>1
  <2>3. Unbound(x[1], x[2], x[3])
    BY <1>1, <1>2, <2>1, <2>2 DEF Unbound
  <2>4. ~Unbound(x[1], x[2], x[3])'
    BY <1>3, <2>1, <2>2 DEF Unbound
  <2> QED
    BY <2>1, <2>3, <2>4
<1>9. Done' = Done \cup {x} /\ x \notin Done
  <2>1. ASSUME NEW y \in Places, y[1] \in Assembled
        PROVE  Unbound(y[1], y[2], y[3]) <=> (y = x \/ Unbound(y[1], y[2], y[3])')
    <3>1. PICK r \in Tree : \E n \in DOMAIN program.bindings[r] :
            \E k \in DOMAIN Pairs(program.bindings[r][n]) : y = <<r, n, k>>
      BY PlaceIs
    <3>2. PICK n \in DOMAIN program.bindings[r] :
            \E k \in DOMAIN Pairs(program.bindings[r][n]) : y = <<r, n, k>>
      BY <3>1
    <3>3. PICK k \in DOMAIN Pairs(program.bindings[r][n]) : y = <<r, n, k>>
      BY <3>2
    <3>4. y[1] = r /\ y[2] = n /\ y[3] = k
      BY <3>3
    <3>5. Unbound(r, n, k) <=> (<<r, n, k>> = x \/ Unbound(r, n, k)')
      BY <1>7, <2>1, <3>4
    <3> QED
      BY <3>3, <3>4, <3>5
  <2>2. x \in Places /\ x[1] \in Assembled
    BY <1>0, <1>2, <1>8
  <2> DEFINE Before(y) == Unbound(y[1], y[2], y[3])
             After(y) == Unbound(y[1], y[2], y[3])'
  <2>3. \A y \in Places : y[1] \in Assembled => (Before(y) <=> (y = x \/ After(y)))
    BY <2>1
  <2>4. Before(x) /\ ~After(x)
    BY <1>8
  <2>5. /\ Done = {y \in Places : y[1] \in Assembled /\ ~Before(y)}
        /\ Done' = {y \in Places : y[1] \in Assembled /\ ~After(y)}
    BY <1>4 DEF Done
  <2> HIDE DEF Before, After
  <2> QED
    BY <2>2, <2>3, <2>4, <2>5
<1>10. \A r \in Assembled' : \A n \in DOMAIN program'.bindings[r] :
         Unfinished(r, n)' \/ ~Malformed(program'.bindings[r][n])
  BY <1>1, <1>2, <1>3, <1>4 DEF BindInv, Unfinished
<1>11. \A y \in Done' : PairAt(y)' = PairAt(y)
  BY <1>4 DEF Done
<1>12. \A y \in Done : PairAt(y)[2] # PairAt(x)[2]
  BY <1>5 DEF BindInv
<1>13. wired' = {PairAt(y) : y \in Done'}
  BY <1>5, <1>6, <1>9 DEF BindInv
<1>14. bound' = {PairAt(y)[2] : y \in Done'}
  BY <1>5, <1>9 DEF BindInv
<1>15. \A y, z \in Done' : PairAt(y)[2] = PairAt(z)[2] => y = z
  BY <1>9, <1>12 DEF BindInv
<1> QED
  BY <1>10, <1>11, <1>13, <1>14, <1>15 DEF BindInv

(* The reactors whose bindings are not affected by a step on top of the stack *)
LEMMA OtherTop ==
  ASSUME NEW r, NEW n, NEW k, stack = <<>> \/ Top.stage = "children" \/ Top.reactor # r
  PROVE  ~Unbound(r, n, k) /\ ~Unfinished(r, n)
BY DEF Unbound, Unfinished

LEMMA OtherTopNext ==
  ASSUME NEW r, NEW n, NEW k, stack' = <<>> \/ Top'.stage = "children" \/ Top'.reactor # r
  PROVE  ~Unbound(r, n, k)' /\ ~Unfinished(r, n)'
BY DEF Unbound, Unfinished

LEMMA FinishBindings ==
  ASSUME OrderInv, TreeInv, BindInv, Finish
  PROVE  BindInv'
<1>1. /\ phase = "assemble" /\ Top.stage = "declare" /\ Top.n = Len(Bindings)
      /\ UNCHANGED <<program, id_of, wired, bound>>
  BY DEF Finish, At, idVars, bindVars, portVars
<1>2. stack' = <<>> \/ Top'.stage = "children"
  BY <1>1, PopTop DEF OrderInv
<1>3. Assembled' = Assembled
  BY <1>1, SameCount
<1>4. ASSUME NEW r \in Assembled, NEW n \in DOMAIN program.bindings[r]
      PROVE  ~Unfinished(r, n) /\ \A k : ~Unbound(r, n, k)
  <2>1. CASE Top.reactor # r
    BY <2>1, OtherTop
  <2>2. CASE Top.reactor = r
    <3>1. program \in Programs /\ r \in Reactors /\ Top.n \in Nat
      BY <1>1, <2>2, TopIsAssembled
    <3>2. Bindings \in Seq([up : Seq(Ports), down : Seq(Ports), repeat : BOOLEAN]) /\ Bindings = program.bindings[r]
      BY <2>2, <3>1, BindingTypes DEF Bindings
    <3>3. n \in Nat /\ ~(Top.n < n) /\ ~(Top.n + 1 < n) /\ Top.n + 1 # n
      BY <1>1, <3>1, <3>2
    <3> QED
      BY <1>1, <3>3 DEF Unfinished, Unbound
  <2> QED
    BY <2>1, <2>2
<1>5. \A r, n, k : ~Unbound(r, n, k)'
  BY <1>2, OtherTopNext
<1>6. Done' = Done
  BY <1>1, <1>4, <1>5, SameDone
<1>7. \A r \in Assembled : \A n \in DOMAIN program.bindings[r] : ~Malformed(program.bindings[r][n])
  BY <1>4 DEF BindInv
<1> QED
  BY <1>1, <1>3, <1>6, <1>7, SameBindings

LEMMA SelfBindings ==
  ASSUME OrderInv, TreeInv, BindInv, AssembleSelf
  PROVE  BindInv'
<1>1. /\ phase = "assemble" /\ Top.stage = "children" /\ Goes("create", 0)
      /\ UNCHANGED <<program, wired, bound>> /\ StackInv
  BY DEF AssembleSelf, At, bindVars, portVars, OrderInv
<1>2. Assembled' = Assembled \cup {Top.reactor} /\ Top.reactor \notin Assembled
  BY SelfCounts
<1>3. stack' # <<>> /\ Top'.reactor = Top.reactor /\ Top'.stage = "create"
  BY <1>1, GoesTop
<1>4. ASSUME NEW r, NEW n, NEW k
      PROVE  /\ ~Unbound(r, n, k) /\ ~Unfinished(r, n)
             /\ Unbound(r, n, k)' <=> r = Top.reactor
             /\ Unfinished(r, n)' <=> r = Top.reactor
  BY <1>1, <1>3 DEF Unbound, Unfinished
<1>5. Places' = Places
  BY <1>1, SamePlaces
<1>6. Done' = Done
  BY <1>2, <1>4, <1>5 DEF Done
<1>7. \A r \in Assembled' : \A n \in DOMAIN program.bindings[r] :
        Unfinished(r, n)' \/ ~Malformed(program.bindings[r][n])
  BY <1>2, <1>4 DEF BindInv
<1> QED
  BY <1>1, <1>6, <1>7, SameBindings

(* The end of the creation of components, and of a row of ports *)
LEMMA RowBindings ==
  ASSUME OrderInv, TreeInv, BindInv, phase = "assemble", UNCHANGED <<program, id_of, wired, bound>>,
         NEW s, NEW m, Goes(s, m),
         \/ Top.stage = "create" /\ s = "create"
         \/ Top.stage = "create" /\ s = "declare" /\ m = 0
         \/ /\ Top.stage = "declare" /\ s = "declare" /\ m = Top.n + 1
            /\ m \in DOMAIN program.bindings[Top.reactor]
            /\ ~Malformed(program.bindings[Top.reactor][m])
            /\ Top.k \notin 0..(Len(Pairs(program.bindings[Top.reactor][m])) - 1)
  PROVE  BindInv'
<1>1. /\ stack # <<>> /\ program \in Programs
      /\ Top.reactor \in Reactors /\ Top.n \in Nat /\ Top.k \in Nat /\ StackInv
  BY TopIsAssembled DEF OrderInv
<1>2. stack' # <<>> /\ Top'.reactor = Top.reactor /\ Top'.stage = s /\ Top'.n = m /\ Top'.k = 0
  BY <1>1, GoesTop
<1>3. Assembled' = Assembled
  BY SameCount
<1>4. ASSUME NEW r \in Assembled, NEW n \in DOMAIN program.bindings[r]
      PROVE  /\ Unfinished(r, n)' \/ ~Malformed(program.bindings[r][n])
             /\ \A k \in DOMAIN Pairs(program.bindings[r][n]) : Unbound(r, n, k)' <=> Unbound(r, n, k)
  <2>1. CASE Top.reactor # r
    <3>1. \A k : ~Unbound(r, n, k) /\ ~Unbound(r, n, k)' /\ ~Unfinished(r, n)
      BY <1>2, <2>1 DEF Unbound, Unfinished
    <3> QED
      BY <3>1 DEF BindInv
  <2>2. CASE Top.reactor = r
    <3>1. /\ n \in Nat \ {0} /\ Len(Pairs(program.bindings[r][n])) \in Nat
          /\ DOMAIN Pairs(program.bindings[r][n]) = 1..Len(Pairs(program.bindings[r][n]))
      BY <1>1, <2>2, BindingTypes
    <3>2. CASE Top.stage = "create"
      BY <1>1, <1>2, <2>2, <3>1, <3>2 DEF Unbound, Unfinished
    <3>3. CASE Top.stage = "declare"
      <4>1. s = "declare" /\ m = Top.n + 1
        BY <3>3
      <4>2. Unfinished(r, n)' \/ ~Malformed(program.bindings[r][n])
        <5>1. CASE m = n
          BY <2>2, <3>3, <5>1
        <5>2. CASE m < n
          BY <1>2, <2>2, <4>1, <5>2 DEF Unfinished
        <5>3. CASE n <= Top.n
          <6>1. ~(Top.n < n)
            BY <1>1, <3>1, <5>3
          <6>2. ~Unfinished(r, n)
            BY <3>3, <6>1 DEF Unfinished
          <6> QED
            BY <6>2 DEF BindInv
        <5> QED
          BY <1>1, <3>1, <4>1, <5>1, <5>2, <5>3
      <4>3. ASSUME NEW k \in DOMAIN Pairs(program.bindings[r][n])
            PROVE  Unbound(r, n, k)' <=> Unbound(r, n, k)
        <5>1. Unbound(r, n, k) <=> (m < n \/ (m = n /\ Top.k < k))
          BY <1>1, <2>2, <3>3, <4>1 DEF Unbound
        <5>2. Unbound(r, n, k)' <=> (m + 1 < n \/ (m + 1 = n /\ 0 < k))
          BY <1>2, <2>2, <4>1 DEF Unbound
        <5>3. k \in Nat /\ 0 < k
          BY <3>1
        <5>4. ~(m = n /\ Top.k < k)
          <6> SUFFICES ASSUME m = n, Top.k < k PROVE FALSE
            OBVIOUS
          <6>1. Top.k \in 0..(Len(Pairs(program.bindings[r][n])) - 1)
            BY <1>1, <3>1, <5>3
          <6> QED
            BY <2>2, <3>3, <6>1
        <5>5. m < n <=> (m + 1 < n \/ m + 1 = n)
          BY <1>1, <3>1, <4>1
        <5> QED
          BY <5>1, <5>2, <5>3, <5>4, <5>5
      <4> QED
        BY <4>2, <4>3
    <3> QED
      BY <3>2, <3>3
  <2> QED
    BY <2>1, <2>2
<1>5. Done' = Done
  BY <1>4, SameDone
<1> QED
  BY <1>3, <1>4, <1>5, SameBindings

(* The next channel of a multiport *)
LEMMA ChannelBindings ==
  ASSUME OrderInv, BindInv, phase = "assemble", UNCHANGED <<program, id_of, wired, bound>>,
         Top.stage = "create", GoesFurther
  PROVE  BindInv'
<1>1. stack # <<>> /\ StackInv
  BY DEF OrderInv, StackInv
<1>2. stack' # <<>> /\ Top'.reactor = Top.reactor /\ Top'.stage = "create"
  BY <1>1, CountTop
<1>3. \A r, n, k : (Unbound(r, n, k)' <=> Unbound(r, n, k)) /\ (Unfinished(r, n)' <=> Unfinished(r, n))
  BY <1>1, <1>2 DEF Unbound, Unfinished
<1>4. Assembled' = Assembled /\ Done' = Done
  BY <1>3, SameCount, SameDone
<1> QED
  BY <1>3, <1>4, SameBindings DEF BindInv

LEMMA BindingsKept ==
  ASSUME OrderInv, TreeInv, BindInv, [Next]_vars
  PROVE  BindInv'
<1>1. CASE Finish
  BY <1>1, FinishBindings
<1>2. CASE AssembleSelf
  BY <1>2, SelfBindings
<1>3. CASE UNCHANGED <<program, id_of, wired, bound, stack>>
  <2>1. Assembled' = Assembled /\ Top' = Top
    BY <1>3, SameCount DEF Top
  <2>2. \A r, n, k : (Unbound(r, n, k)' <=> Unbound(r, n, k)) /\ (Unfinished(r, n)' <=> Unfinished(r, n))
    BY <1>3, <2>1 DEF Unbound, Unfinished
  <2>3. Done' = Done
    BY <1>3, <2>2, SameDone
  <2> QED
    BY <1>3, <2>1, <2>2, <2>3, SameBindings DEF BindInv
<1>4. CASE AssembleSub
  <2>1. /\ phase = "assemble" /\ Top.stage = "children" /\ UNCHANGED <<program, id_of, wired, bound>> /\ StackInv
    BY <1>4 DEF AssembleSub, At, idVars, bindVars, portVars, OrderInv
  <2>2. Top'.stage = "children" /\ Assembled' = Assembled
    BY <1>4, <2>1, PushTop, SameCount
  <2>3. \A r, n, k : ~Unbound(r, n, k) /\ ~Unfinished(r, n) /\ ~Unbound(r, n, k)'
    BY <2>1, <2>2, OtherTop, OtherTopNext
  <2>4. Done' = Done
    BY <2>1, <2>3, SameDone
  <2> QED
    BY <2>1, <2>2, <2>3, <2>4, SameBindings DEF BindInv
<1>5. CASE NewComponent \/ NewChannel \/ SetIdRange
  <2>1. CASE Refuse
    BY <1>3, <2>1 DEF Refuse, idVars, bindVars, portVars
  <2>2. CASE ~Refuse
    <3>1. /\ phase = "assemble" /\ Top.stage = "create" /\ UNCHANGED <<program, id_of, wired, bound>>
      BY <1>5, <2>2 DEF NewComponent, NewChannel, NextCompId, SetIdRange, At, idVars, bindVars, portVars
    <3>2. Goes("create", Top.n + 1) \/ Goes("declare", 0) \/ GoesFurther
      BY <1>5, <2>2 DEF NewComponent, NewChannel, NextCompId, SetIdRange
    <3> QED
      BY <3>1, <3>2, RowBindings, ChannelBindings
  <2> QED
    BY <2>1, <2>2
<1>6. CASE BindRow
  <2>1. CASE Refuse
    BY <1>3, <2>1 DEF Refuse, idVars, bindVars, portVars
  <2>2. CASE ~Refuse
    <3>1. /\ phase = "assemble" /\ Top.stage = "declare" /\ UNCHANGED <<program, id_of>>
          /\ Top.n + 1 \in DOMAIN program.bindings[Top.reactor]
          /\ NextRow = program.bindings[Top.reactor][Top.n + 1]
      BY <1>6, BindRowCases
    <3>2. CASE /\ ~Malformed(NextRow) /\ NextPlace \in Places /\ PairAt(NextPlace) \in Ports \X Ports
               /\ Binds(PairAt(NextPlace)[1], PairAt(NextPlace)[2])
               /\ GoesFurther
      BY <1>6, <3>2, BindsNext
    <3>3. CASE /\ ~Malformed(NextRow) /\ Goes("declare", Top.n + 1)
               /\ Top.k \notin 0..(Len(Pairs(NextRow)) - 1)
               /\ UNCHANGED <<phase, bindVars, portVars>>
      <4>1. UNCHANGED <<wired, bound>>
        BY <3>3 DEF bindVars, portVars
      <4> QED
        BY <3>1, <3>3, <4>1, RowBindings
    <3> QED
      BY <1>6, <2>2, <3>2, <3>3, BindRowCases
  <2> QED
    BY <2>1, <2>2
<1>7. CASE (\E p \in Ports, v \in Values : Set(p, v)) \/ CleanupTag \/ Refused \/ UNCHANGED vars
  BY <1>3, <1>7 DEF Set, SetImpl, CleanupTag, Refused, vars, idVars, bindVars, portVars
<1> QED
  BY <1>1, <1>2, <1>4, <1>5, <1>6, <1>7 DEF Next

LEMMA InitBindings == Init => BindInv
<1> SUFFICES ASSUME Init PROVE BindInv
  OBVIOUS
<1>1. Assembled = {}
  BY DEF Init, Assembled
<1>2. Done = {}
  BY <1>1 DEF Done
<1> QED
  BY <1>1, <1>2 DEF Init, PortsInit, BindInv
-----------------------------------------------------------------------------
(* The ids of triggers that were given are as many as the components and channels
   that were created.  What a reactor with an id has not created yet are components
   and channels that come later, which it can only have as the reactor on top. *)
Uncounted(r, n, j) ==
  /\ stack # <<>> /\ Top.reactor = r /\ Top.stage = "create"
  /\ Top.n + 1 < n \/ (Top.n + 1 = n /\ Top.k <= j)

IdsOf(c) == {<<c, j>> : j \in 0..Len(c.channels)}

Created ==
  UNION {UNION {{<<program.components[r][n], j>> :
                   j \in {j \in 0..Len(program.components[r][n].channels) : ~Uncounted(r, n, j)}}
                : n \in DOMAIN program.components[r]} : r \in Assembled}

CountInv == cur_trigger = FirstRegular + Cardinality(Created)

(* A step that gives an id *)
Creates == (NewComponent \/ NewChannel) /\ ~Refuse

LEMMA CreatesNew ==
  ASSUME OrderInv, TreeInv, Creates
  PROVE  /\ phase = "assemble" /\ Top.stage = "create" /\ Top.n < Len(Declared) /\ StackInv
         /\ Top.k \in 0..Len(New.channels) /\ Top.k \in Nat /\ Len(New.channels) \in Nat
         /\ ~Exhausted /\ NextCompId
         /\ stack # <<>> /\ program \in Programs
         /\ Top.reactor \in Reactors /\ Top.reactor \in Assembled /\ Top.n \in Nat
         /\ Top.n + 1 \in DOMAIN program.components[Top.reactor]
         /\ New = program.components[Top.reactor][Top.n + 1] /\ New \in Declarations
<1>1. StackInv /\ phase = "assemble" /\ MiddleInv
  BY DEF OrderInv, Creates, NewComponent, NewChannel, At
<1>2. /\ Top.stage = "create" /\ Top.n < Len(Declared) /\ Top.k \in 0..Len(New.channels)
      /\ ~Exhausted /\ NextCompId
  BY <1>1, Creation DEF Creates
<1> QED
  BY <1>1, <1>2, NewTypes, TopIsAssembled

(* What steps do to what has not been created *)
LEMMA SameUncounted ==
  ASSUME OrderInv, TreeInv, [Next]_vars, ~Creates, ~AssembleSelf,
         NEW r \in Assembled, NEW n \in DOMAIN program.components[r], NEW j
  PROVE  Uncounted(r, n, j)' <=> Uncounted(r, n, j)
<1>1. StackInv
  BY DEF OrderInv
<1>2. ASSUME stack = <<>> \/ Top.stage # "create", stack' = <<>> \/ Top'.stage # "create"
      PROVE  Uncounted(r, n, j)' <=> Uncounted(r, n, j)
  BY <1>2 DEF Uncounted
<1>3. CASE UNCHANGED stack
  BY <1>3 DEF Uncounted, Top
<1>4. CASE SetIdRange
  <2>1. /\ phase = "assemble" /\ Top.stage = "create" /\ Goes("declare", 0) /\ Top.n = Len(Declared)
    BY <1>4 DEF SetIdRange, At
  <2>2. Top'.stage = "declare"
    BY <1>1, <2>1, GoesTop
  <2>3. Top.reactor = r => ~(Top.n + 1 < n) /\ Top.n + 1 # n
    <3>1. program \in Programs /\ r \in Reactors
      BY <1>1, CountTypes DEF StackInv
    <3>2. n \in Nat /\ n \in 1..Len(program.components[r]) /\ Len(program.components[r]) \in Nat
      BY <3>1, DeclaredTypes
    <3>3. Top.reactor = r => Top.n = Len(program.components[r])
      BY <2>1 DEF Declared
    <3> QED
      BY <3>2, <3>3
  <2> QED
    BY <2>2, <2>3 DEF Uncounted
<1>5. CASE AssembleSub
  <2>1. Top.stage = "children" /\ Top'.stage = "children"
    BY <1>1, <1>5, PushTop DEF AssembleSub, At
  <2> QED
    BY <1>2, <2>1
<1>6. CASE Finish
  <2>1. Top.stage = "declare" /\ (stack' = <<>> \/ Top'.stage = "children")
    BY <1>1, <1>6, PopTop DEF Finish, At, OrderInv
  <2> QED
    BY <1>2, <2>1
<1>7. CASE BindRow /\ ~Refuse
  <2>1. /\ phase = "assemble" /\ Top.stage = "declare" /\ (Goes("declare", Top.n + 1) \/ GoesFurther)
    BY <1>7, BindRowCases
  <2>2. Top'.stage = "declare"
    BY <1>1, <2>1, GoesTop, CountTop
  <2> QED
    BY <1>2, <2>1, <2>2
<1>8. CASE Refuse \/ (\E p \in Ports, v \in Values : Set(p, v)) \/ CleanupTag \/ Refused \/ UNCHANGED vars
  BY <1>3, <1>8 DEF Refuse, Set, CleanupTag, Refused, vars
<1> QED
  BY <1>4, <1>5, <1>6, <1>7, <1>8 DEF Next, Creates

LEMMA SelfUncounted ==
  ASSUME OrderInv, TreeInv, AssembleSelf,
         NEW r \in Reactors, NEW n \in DOMAIN program.components[r], NEW j \in Nat
  PROVE  ~Uncounted(r, n, j) /\ (Uncounted(r, n, j)' <=> r = Top.reactor)
<1>1. phase = "assemble" /\ Top.stage = "children" /\ Goes("create", 0) /\ StackInv
  BY DEF AssembleSelf, At, OrderInv
<1>2. stack' # <<>> /\ Top'.reactor = Top.reactor /\ Top'.stage = "create" /\ Top'.n = 0 /\ Top'.k = 0
  BY <1>1, GoesTop
<1>3. n \in Nat /\ 0 < n
  BY <1>1, DeclaredTypes DEF StackInv
<1>4. Uncounted(r, n, j)' <=> r = Top.reactor
  BY <1>2, <1>3 DEF Uncounted
<1> QED
  BY <1>1, <1>4 DEF Uncounted

LEMMA CreationUncounts ==
  ASSUME OrderInv, TreeInv, Creates, NEW r \in Assembled, NEW n \in DOMAIN program.components[r],
         NEW j \in 0..Len(program.components[r][n].channels)
  PROVE  /\ Uncounted(r, n, j)' <=> Uncounted(r, n, j) /\ ~(r = Top.reactor /\ n = Top.n + 1 /\ j = Top.k)
         /\ r = Top.reactor /\ n = Top.n + 1 => (Uncounted(r, n, j) <=> Top.k <= j)
<1> DEFINE m == Top.n + 1
           k == Top.k
           len == Len(New.channels)
<1>1. /\ phase = "assemble" /\ Top.stage = "create" /\ Top.n < Len(Declared) /\ StackInv
      /\ k \in 0..len /\ len \in Nat /\ NextCompId
      /\ stack # <<>> /\ program \in Programs /\ Top.n \in Nat
      /\ New = program.components[Top.reactor][m]
  BY CreatesNew
<1>2. /\ stack' # <<>> /\ Top'.reactor = Top.reactor /\ Top'.stage = "create"
      /\ IF k < len THEN Top'.n = Top.n /\ Top'.k = k + 1 ELSE Top'.n = m /\ Top'.k = 0
  BY <1>1, CreationTop
<1>3. n \in Nat /\ Len(program.components[r][n].channels) \in Nat /\ j \in Nat
  <2>1. n \in Nat /\ Len(program.components[r][n].channels) \in Nat
    BY <1>1, CountTypes, DeclaredTypes
  <2> QED
    BY <2>1
<1>4. r = Top.reactor /\ n = m => j <= len
  BY <1>1, <1>3
<1> HIDE DEF len
<1>5. Uncounted(r, n, j) <=> r = Top.reactor /\ (m < n \/ (m = n /\ k <= j))
  BY <1>1 DEF Uncounted
<1>6. CASE k < len
  <2>1. Uncounted(r, n, j)' <=> r = Top.reactor /\ (m < n \/ (m = n /\ k + 1 <= j))
    BY <1>2, <1>6 DEF Uncounted
  <2>2. ~(m < m) /\ (k + 1 <= j <=> (k <= j /\ j # k))
    BY <1>1, <1>3
  <2> QED
    BY <1>5, <2>1, <2>2
<1>7. CASE ~(k < len)
  <2>1. Uncounted(r, n, j)' <=> r = Top.reactor /\ (m + 1 < n \/ (m + 1 = n /\ 0 <= j))
    BY <1>2, <1>7 DEF Uncounted
  <2>2. m < n <=> (m + 1 < n \/ (m + 1 = n /\ 0 <= j))
    BY <1>1, <1>3
  <2>3. r = Top.reactor /\ n = m => (k <= j <=> j = k)
    BY <1>1, <1>3, <1>4, <1>7
  <2>4. ~(m < m)
    BY <1>1
  <2> QED
    BY <1>5, <2>1, <2>2, <2>3, <2>4
<1> QED
  BY <1>6, <1>7

(* No id belongs to two components or channels. *)
LEMMA NamesApart ==
  ASSUME program \in Programs, NEW q \in Reactors, NEW r \in Reactors,
         NEW i \in DOMAIN program.components[q], NEW j \in DOMAIN program.components[r],
         Names(program.components[q][i]) \cap Names(program.components[r][j]) # {}
  PROVE  q = r /\ i = j
BY ComponentsAssumption

LEMMA PlacesApart ==
  ASSUME program \in Programs, NEW q \in Reactors, NEW r \in Reactors,
         NEW n \in DOMAIN program.components[q], NEW m \in DOMAIN program.components[r],
         NEW i \in 0..Len(program.components[q][n].channels),
         NEW j \in 0..Len(program.components[r][m].channels),
         NameAt(program.components[q][n], i) = NameAt(program.components[r][m], j)
  PROVE  q = r /\ n = m /\ i = j
<1> DEFINE c == program.components[q][n]
           d == program.components[r][m]
<1>1. c \in Declarations /\ d \in Declarations
  BY DeclaredTypes
<1>2. NameAt(c, i) \in Names(c) /\ NameAt(d, j) \in Names(d)
  BY <1>1, NameTypes
<1>3. Names(c) \cap Names(d) # {}
  BY <1>2
<1>4. q = r /\ n = m
  BY <1>3, NamesApart
<1>5. \A k, l \in DOMAIN c.channels : c.channels[k] # c.id /\ (c.channels[k] = c.channels[l] => k = l)
  BY ComponentsAssumption
<1>6. DOMAIN c.channels = 1..Len(c.channels) /\ Len(c.channels) \in Nat
  BY DeclaredTypes
<1>7. (i = 0 \/ i \in DOMAIN c.channels) /\ (j = 0 \/ j \in DOMAIN c.channels)
  BY <1>4, <1>6
<1>8. NameAt(c, i) = NameAt(c, j)
  BY <1>4
<1> HIDE DEF c
<1>9. i = j
  BY <1>5, <1>7, <1>8 DEF NameAt
<1> QED
  BY <1>4, <1>9

LEMMA FiniteImage ==
  ASSUME NEW f, IsFiniteSet(DOMAIN f)
  PROVE  IsFiniteSet({f[x] : x \in DOMAIN f})
<1> DEFINE T == {f[x] : x \in DOMAIN f}
           g == [x \in DOMAIN f |-> f[x]]
<1>1. g \in Surjection(DOMAIN f, T)
  BY DEF Surjection
<1> QED
  BY <1>1, FS_Surjection

LEMMA IdsOfCount ==
  ASSUME NEW c, Len(c.channels) \in Nat
  PROVE  IsFiniteSet(IdsOf(c)) /\ Cardinality(IdsOf(c)) = 1 + Len(c.channels)
<1> DEFINE len == Len(c.channels)
           S == 0..len
           f == [j \in S |-> <<c, j>>]
<1>1. f \in Bijection(S, IdsOf(c))
  <2> DEFINE T == {<<c, j>> : j \in S}
  <2>1. T = IdsOf(c)
    BY DEF IdsOf
  <2> HIDE DEF S
  <2>2. f \in [S -> T] /\ \A t \in T : \E j \in S : f[j] = t
    OBVIOUS
  <2>3. \A i, j \in S : f[i] = f[j] => i = j
    OBVIOUS
  <2> HIDE DEF f, T
  <2>4. f \in Bijection(S, T)
    BY <2>2, <2>3 DEF Bijection, Injection, Surjection, IsInjective
  <2> QED
    BY <2>1, <2>4
<1>2. ExistsBijection(S, IdsOf(c))
  BY <1>1 DEF ExistsBijection
<1>3. IsFiniteSet(S) /\ Cardinality(S) = 1 + len
  BY FS_Interval
<1> HIDE DEF S, len
<1>4. IsFiniteSet(IdsOf(c)) /\ Cardinality(IdsOf(c)) = Cardinality(S)
  BY <1>2, <1>3, FS_Bijection
<1> QED
  BY <1>3, <1>4 DEF len

LEMMA UsedFinite ==
  ASSUME program \in Programs
  PROVE  IsFiniteSet(UsedIds)
<1> DEFINE Of(r) == {program.components[r][k] : k \in DOMAIN program.components[r]}
           All == UNION {Of(r) : r \in Tree}
<1>1. Tree \subseteq Reactors /\ IsFiniteSet(Tree)
  <2>1. Tree \in SUBSET Reactors
    BY DEF Tree
  <2> QED
    BY <2>1, TreeAssumption, FS_Subset
<1>2. ASSUME NEW r \in Tree
      PROVE  IsFiniteSet(Of(r)) /\ \A c \in Of(r) : Len(c.channels) \in Nat
  <2>1. /\ program.components[r] \in Seq(Declarations)
        /\ \A k \in DOMAIN program.components[r] : program.components[r][k].channels \in Seq(Ports)
    BY <1>1, DeclaredTypes
  <2>2. IsFiniteSet(DOMAIN program.components[r])
    <3>1. DOMAIN program.components[r] = 1..Len(program.components[r]) /\ Len(program.components[r]) \in Nat
      BY <2>1
    <3> QED
      BY <3>1, FS_Interval
  <2>3. \A k \in DOMAIN program.components[r] : Len(program.components[r][k].channels) \in Nat
    BY <2>1
  <2> QED
    BY <2>2, <2>3, FiniteImage
<1>3. IsFiniteSet({Of(r) : r \in Tree})
  <2> DEFINE f == [r \in Tree |-> Of(r)]
  <2>1. DOMAIN f = Tree /\ {f[x] : x \in DOMAIN f} = {Of(r) : r \in Tree}
    OBVIOUS
  <2> HIDE DEF f, Of
  <2> QED
    BY <1>1, <2>1, FiniteImage
<1>4. IsFiniteSet(All) /\ \A c \in All : Len(c.channels) \in Nat
  <2> HIDE DEF Of
  <2> QED
    BY <1>2, <1>3, FS_UNION
<1>5. IsFiniteSet({IdsOf(c) : c \in All})
  <2> DEFINE f == [c \in All |-> IdsOf(c)]
  <2>1. DOMAIN f = All /\ {f[x] : x \in DOMAIN f} = {IdsOf(c) : c \in All}
    OBVIOUS
  <2> HIDE DEF f, All
  <2> QED
    BY <1>4, <2>1, FiniteImage
<1>6. \A S \in {IdsOf(c) : c \in All} : IsFiniteSet(S)
  <2> HIDE DEF All
  <2> QED
    BY <1>4, IdsOfCount
<1>7. IsFiniteSet(UNION {IdsOf(c) : c \in All})
  <2> HIDE DEF All
  <2> QED
    BY <1>5, <1>6, FS_UNION
<1> QED
  BY <1>7 DEF UsedIds, IdsOf

LEMMA CreatedIs ==
  \A y : y \in Created <=>
           \E r \in Assembled : \E n \in DOMAIN program.components[r] :
             \E j \in 0..Len(program.components[r][n].channels) :
               ~Uncounted(r, n, j) /\ y = <<program.components[r][n], j>>
BY DEF Created

LEMMA CreatedNext ==
  ASSUME UNCHANGED program
  PROVE  \A y : y \in Created' <=>
           \E r \in Assembled' : \E n \in DOMAIN program.components[r] :
             \E j \in 0..Len(program.components[r][n].channels) :
               ~Uncounted(r, n, j)' /\ y = <<program.components[r][n], j>>
BY DEF Created

LEMMA UsedIs ==
  \A y : y \in UsedIds <=> \E r \in Tree : \E n \in DOMAIN program.components[r] :
                             y \in IdsOf(program.components[r][n])
BY DEF UsedIds, IdsOf

LEMMA CreatedAreUsed ==
  ASSUME TreeInv
  PROVE  Created \subseteq UsedIds
<1> SUFFICES ASSUME NEW y \in Created PROVE y \in UsedIds
  OBVIOUS
<1>1. PICK r \in Assembled : \E n \in DOMAIN program.components[r] :
             \E j \in 0..Len(program.components[r][n].channels) :
               ~Uncounted(r, n, j) /\ y = <<program.components[r][n], j>>
  BY CreatedIs
<1>2. PICK n \in DOMAIN program.components[r] : y \in IdsOf(program.components[r][n])
  BY <1>1 DEF IdsOf
<1>3. r \in Tree
  BY DEF TreeInv
<1> QED
  BY <1>2, <1>3, UsedIs

LEMMA CreatedFinite ==
  ASSUME TreeInv, program \in Programs
  PROVE  /\ IsFiniteSet(Created) /\ Created \subseteq UsedIds /\ Cardinality(Created) \in Nat
         /\ IsFiniteSet(UsedIds) /\ Cardinality(UsedIds) \in Nat
<1>1. IsFiniteSet(UsedIds) /\ Created \in SUBSET UsedIds
  BY UsedFinite, CreatedAreUsed
<1>2. IsFiniteSet(Created)
  BY <1>1, FS_Subset
<1> QED
  BY <1>1, <1>2, FS_CardinalityType

(* What is to be created next has no id yet. *)
LEMMA NewIsApart ==
  ASSUME OrderInv, TreeInv, phase = "assemble", Top.stage = "create", Top.n < Len(Declared),
         NEW j \in 0..Len(New.channels), Top.k <= j
  PROVE  <<New, j>> \in UsedIds \ Created
<1> DEFINE m == Top.n + 1
<1>1. /\ stack # <<>> /\ program \in Programs /\ Top.reactor \in Reactors /\ Top.reactor \in Assembled
      /\ m \in DOMAIN program.components[Top.reactor] /\ New = program.components[Top.reactor][m]
  BY NewTypes, TopIsAssembled DEF OrderInv
<1>2. <<New, j>> \in UsedIds
  <2>1. <<New, j>> \in IdsOf(New) /\ Top.reactor \in Tree
    BY <1>1 DEF IdsOf, TreeInv
  <2> QED
    BY <1>1, <2>1, UsedIs
<1>3. ASSUME <<New, j>> \in Created
      PROVE  FALSE
  <2>1. PICK r \in Assembled : \E n \in DOMAIN program.components[r] :
             \E i \in 0..Len(program.components[r][n].channels) :
               ~Uncounted(r, n, i) /\ <<New, j>> = <<program.components[r][n], i>>
    BY <1>3, CreatedIs
  <2>2. PICK n \in DOMAIN program.components[r] :
               ~Uncounted(r, n, j) /\ New = program.components[r][n]
    BY <2>1
  <2>3. PICK q \in Reactors : q = Top.reactor
    BY <1>1
  <2>4. PICK i \in DOMAIN program.components[q] : i = m /\ New = program.components[q][i]
    BY <1>1, <2>3
  <2>5. r = Top.reactor /\ n = m
    <3>1. Names(program.components[r][n]) \cap Names(program.components[q][i]) # {}
      BY <2>2, <2>4 DEF Names
    <3>2. r \in Reactors
      BY CountTypes
    <3>3. r = q /\ n = i
      BY <1>1, <3>1, <3>2, NamesApart
    <3> QED
      BY <2>3, <2>4, <3>3
  <2>6. Uncounted(r, n, j)
    BY <1>1, <2>5 DEF Uncounted
  <2> QED
    BY <2>2, <2>6
<1> QED
  BY <1>2, <1>3

LEMMA CreationKeepsCount ==
  ASSUME OrderInv, TreeInv, CountInv, Creates
  PROVE  CountInv'
<1>1. /\ phase = "assemble" /\ Top.stage = "create" /\ Top.n < Len(Declared)
      /\ Top.k \in 0..Len(New.channels) /\ Top.k \in Nat /\ program \in Programs
      /\ Top.reactor \in Assembled
      /\ Top.n + 1 \in DOMAIN program.components[Top.reactor]
      /\ New = program.components[Top.reactor][Top.n + 1]
      /\ UNCHANGED <<program, id_of>> /\ cur_trigger' = cur_trigger + 1
  BY CreatesNew DEF NextCompId
<1>2. Assembled' = Assembled
  BY <1>1, SameCount
<1> DEFINE x == <<New, Top.k>>
<1>3. Top.k <= Top.k
  BY <1>1
<1>4. x \notin Created
  BY <1>1, <1>3, NewIsApart
<1>5. \A y \in Created' : y \in Created \cup {x}
  <2> SUFFICES ASSUME NEW y \in Created' PROVE y \in Created \cup {x}
    OBVIOUS
  <2>1. PICK r \in Assembled : \E n \in DOMAIN program.components[r] :
             \E j \in 0..Len(program.components[r][n].channels) :
               ~Uncounted(r, n, j)' /\ y = <<program.components[r][n], j>>
    BY <1>1, <1>2, CreatedNext
  <2>2. PICK n \in DOMAIN program.components[r] :
             \E j \in 0..Len(program.components[r][n].channels) :
               ~Uncounted(r, n, j)' /\ y = <<program.components[r][n], j>>
    BY <2>1
  <2>3. PICK j \in 0..Len(program.components[r][n].channels) :
               ~Uncounted(r, n, j)' /\ y = <<program.components[r][n], j>>
    BY <2>2
  <2>4. ~Uncounted(r, n, j) \/ (r = Top.reactor /\ n = Top.n + 1 /\ j = Top.k)
    BY <2>3, CreationUncounts
  <2> QED
    BY <1>1, <2>3, <2>4, CreatedIs
<1>6. \A y \in Created : y \in Created'
  <2> SUFFICES ASSUME NEW y \in Created PROVE y \in Created'
    OBVIOUS
  <2>1. PICK r \in Assembled : \E n \in DOMAIN program.components[r] :
             \E j \in 0..Len(program.components[r][n].channels) :
               ~Uncounted(r, n, j) /\ y = <<program.components[r][n], j>>
    BY CreatedIs
  <2>2. PICK n \in DOMAIN program.components[r] :
             \E j \in 0..Len(program.components[r][n].channels) :
               ~Uncounted(r, n, j) /\ y = <<program.components[r][n], j>>
    BY <2>1
  <2>3. PICK j \in 0..Len(program.components[r][n].channels) :
               ~Uncounted(r, n, j) /\ y = <<program.components[r][n], j>>
    BY <2>2
  <2>4. ~Uncounted(r, n, j)'
    BY <2>3, CreationUncounts
  <2> QED
    BY <1>1, <1>2, <2>3, <2>4, CreatedNext
<1>7. x \in Created'
  <2>0. PICK r \in Assembled : r = Top.reactor
    BY <1>1
  <2>1. PICK n \in DOMAIN program.components[r] : r = Top.reactor /\ n = Top.n + 1
    BY <1>1, <2>0
  <2>2. PICK j \in 0..Len(program.components[r][n].channels) : j = Top.k
    BY <1>1, <2>1
  <2>3. ~Uncounted(r, n, j)'
    BY <2>1, <2>2, CreationUncounts
  <2>4. x = <<program.components[r][n], j>>
    BY <1>1, <2>1, <2>2
  <2> QED
    BY <1>1, <1>2, <2>3, <2>4, CreatedNext
<1> HIDE DEF x
<1>8. Created' = Created \cup {x}
  BY <1>5, <1>6, <1>7
<1>9. IsFiniteSet(Created) /\ Cardinality(Created) \in Nat
  BY <1>1, CreatedFinite
<1>10. Cardinality(Created') = Cardinality(Created) + 1
  BY <1>4, <1>8, <1>9, FS_AddElement
<1> QED
  <2>1. FirstRegular \in Nat
    BY ProgramsAssumption
  <2>2. \A a, b \in Nat : (a + b) + 1 = a + (b + 1)
    OBVIOUS
  <2> QED
    BY <1>1, <1>9, <1>10, <2>1, <2>2 DEF CountInv

LEMMA CountKept ==
  ASSUME OrderInv, TreeInv, CountInv, [Next]_vars
  PROVE  CountInv'
<1>1. CASE Creates
  BY <1>1, CreationKeepsCount
<1>2. CASE ~Creates
  <2>1. UNCHANGED <<cur_trigger, program>>
    BY <1>2 DEF Creates, Next, vars, idVars, AssembleSub, AssembleSelf, NewComponent, NewChannel, NextCompId,
                Refuse, SetIdRange, BindRow, BindPorts, Finish, Set, CleanupTag, Refused
  <2>2. \A r \in Assembled : \A n \in DOMAIN program.components[r] :
          \A j \in 0..Len(program.components[r][n].channels) : j \in Nat
    <3>1. \A r \in Assembled : \A n \in DOMAIN program.components[r] :
            Len(program.components[r][n].channels) \in Nat
      BY CountTypes, DeclaredTypes DEF OrderInv, StackInv
    <3> QED
      BY <3>1
  <2>3. CASE AssembleSelf
    <3>1. Assembled' = Assembled \cup {Top.reactor} /\ Top.reactor \notin Assembled /\ Top.reactor \in Reactors
      BY <2>3, SelfCounts
    <3>2. \A r \in Assembled : \A n \in DOMAIN program.components[r] :
            \A j \in 0..Len(program.components[r][n].channels) :
              ~Uncounted(r, n, j) /\ ~Uncounted(r, n, j)'
      BY <2>2, <2>3, <3>1, CountTypes, SelfUncounted
    <3>3. ASSUME NEW n \in DOMAIN program.components[Top.reactor],
                 NEW i \in 0..Len(program.components[Top.reactor][n].channels),
                 NEW r, r = Top.reactor
          PROVE  Uncounted(r, n, i)'
      <4>1. Len(program.components[r][n].channels) \in Nat
        BY <3>1, <3>3, DeclaredTypes DEF OrderInv, StackInv
      <4>2. i \in Nat
        BY <3>3, <4>1
      <4> QED
        BY <2>3, <3>1, <3>3, <4>2, SelfUncounted
    <3>4. \A y : y \in Created' <=> y \in Created
      <4>1. ASSUME NEW y \in Created'
            PROVE  y \in Created
        <5>1. PICK r \in Assembled' : \E n \in DOMAIN program.components[r] :
                     \E j \in 0..Len(program.components[r][n].channels) :
                       ~Uncounted(r, n, j)' /\ y = <<program.components[r][n], j>>
          BY <2>1, <4>1, CreatedNext
        <5>2. r # Top.reactor
          BY <3>3, <5>1
        <5>3. r \in Assembled
          BY <3>1, <5>2
        <5> QED
          BY <3>2, <5>1, <5>3, CreatedIs
      <4>2. ASSUME NEW y \in Created
            PROVE  y \in Created'
        <5>1. PICK r \in Assembled : \E n \in DOMAIN program.components[r] :
                     \E j \in 0..Len(program.components[r][n].channels) :
                       ~Uncounted(r, n, j) /\ y = <<program.components[r][n], j>>
          BY <4>2, CreatedIs
        <5>2. \E n \in DOMAIN program.components[r] :
                     \E j \in 0..Len(program.components[r][n].channels) :
                       ~Uncounted(r, n, j)' /\ y = <<program.components[r][n], j>>
          BY <3>2, <5>1
        <5>3. r \in Assembled'
          BY <3>1
        <5> QED
          BY <2>1, <5>2, <5>3, CreatedNext
      <4> QED
        BY <4>1, <4>2
    <3>5. Created' = Created
      BY <3>4
    <3> QED
      BY <2>1, <3>5 DEF CountInv
  <2>4. CASE ~AssembleSelf
    <3>1. UNCHANGED id_of
      BY <2>4 DEF Next, vars, idVars, AssembleSub, NewComponent, NewChannel, NextCompId, Refuse, SetIdRange, BindRow,
                  BindPorts, Finish, Set, CleanupTag, Refused
    <3>2. Assembled' = Assembled
      BY <3>1, SameCount
    <3>3. \A r \in Assembled : \A n \in DOMAIN program.components[r] : \A j :
            Uncounted(r, n, j)' <=> Uncounted(r, n, j)
      BY <1>2, <2>4, SameUncounted
    <3>4. \A y : y \in Created' <=> y \in Created
      BY <2>1, <3>2, <3>3, CreatedIs, CreatedNext
    <3>5. Created' = Created
      BY <3>4
    <3> QED
      BY <2>1, <3>5 DEF CountInv
  <2> QED
    BY <2>3, <2>4
<1> QED
  BY <1>1, <1>2

LEMMA InitCount == Init => CountInv
<1> SUFFICES ASSUME Init PROVE CountInv
  OBVIOUS
<1>1. Assembled = {}
  BY DEF Init, Assembled
<1>2. Created = {}
  BY <1>1 DEF Created
<1> QED
  BY <1>2, FS_EmptySet, ProgramsAssumption DEF Init, CountInv

(* No multiport that was created is empty. *)
FilledInv ==
  \A r \in Assembled : \A n \in DOMAIN program.components[r] :
    LET c == program.components[r][n] IN
      Uncounted(r, n, 0) \/ (c.multiport => c.channels # <<>>)

LEMMA FilledKept ==
  ASSUME OrderInv, TreeInv, FilledInv, [Next]_vars
  PROVE  FilledInv'
<1>1. UNCHANGED program
  BY DEF Next, vars, AssembleSub, AssembleSelf, NewComponent, NewChannel, NextCompId, Refuse, SetIdRange, BindRow,
         BindPorts, Finish, Set, CleanupTag, Refused
<1> SUFFICES ASSUME NEW r \in Assembled', NEW n \in DOMAIN program.components[r],
                    ~Uncounted(r, n, 0)', program.components[r][n].multiport
             PROVE  program.components[r][n].channels # <<>>
  BY <1>1 DEF FilledInv
<1>2. r \in Assembled => Uncounted(r, n, 0) \/ program.components[r][n].channels # <<>>
  BY DEF FilledInv
<1>3. CASE Creates
  <2>1. r \in Assembled /\ program \in Programs
    BY <1>3, SameCount, CreatesNew DEF NextCompId
  <2>2. 0 \in 0..Len(program.components[r][n].channels)
    <3>1. Len(program.components[r][n].channels) \in Nat
      BY <2>1, CountTypes, DeclaredTypes
    <3> QED
      BY <3>1
  <2>3. Uncounted(r, n, 0) => r = Top.reactor /\ n = Top.n + 1 /\ Top.k = 0
    BY <1>3, <2>1, <2>2, CreationUncounts
  <2>4. CASE r = Top.reactor /\ n = Top.n + 1 /\ Top.k = 0
    <3>1. NewComponent /\ ~Refuse
      BY <1>3, <2>4 DEF Creates, NewChannel
    <3>2. New = program.components[r][n]
      BY <1>3, <2>4, CreatesNew
    <3> QED
      BY <3>1, <3>2 DEF NewComponent, BankFails
  <2> QED
    BY <1>2, <2>1, <2>3, <2>4
<1>4. CASE AssembleSelf
  <2>1. /\ Assembled' = Assembled \cup {Top.reactor} /\ Top.reactor \notin Assembled
        /\ Top.reactor \in Reactors
    BY <1>4, SelfCounts
  <2>2. ~Uncounted(r, n, 0) /\ (Uncounted(r, n, 0)' <=> r = Top.reactor)
    BY <1>4, <2>1, CountTypes, SelfUncounted
  <2> QED
    BY <1>2, <2>1, <2>2
<1>5. CASE ~Creates /\ ~AssembleSelf
  <2>1. UNCHANGED id_of
    BY <1>5 DEF Creates, Next, vars, idVars, AssembleSub, NewComponent, NewChannel, Refuse, SetIdRange, BindRow,
                BindPorts, Finish, Set, CleanupTag, Refused
  <2>2. r \in Assembled
    BY <2>1, SameCount
  <2> QED
    BY <1>2, <1>5, <2>2, SameUncounted
<1> QED
  BY <1>3, <1>4, <1>5

(* What a program is refused for *)
Wrong ==
  \/ \E r \in Tree : \E n \in DOMAIN program.bindings[r] : Malformed(program.bindings[r][n])
  \/ BoundTwice
  \/ ~Acyclic({PairAt(x) : x \in Places})
  \/ EmptyMultiport
  \/ FirstRegular + Cardinality(UsedIds) > TriggerLimit

CauseInv == phase = "refused" => Wrong

LEMMA SameWrong ==
  ASSUME UNCHANGED program
  PROVE  Wrong' <=> Wrong
<1>1. Tree' = Tree /\ Places' = Places
  BY SameTree, SamePlaces
<1>2. \A x : PairAt(x)' = PairAt(x)
  BY DEF PairAt
<1>3. UsedIds' = UsedIds /\ (BoundTwice' <=> BoundTwice) /\ (EmptyMultiport' <=> EmptyMultiport)
  BY <1>1, <1>2 DEF UsedIds, BoundTwice, EmptyMultiport
<1>4. {PairAt(x) : x \in Places}' = {PairAt(x) : x \in Places}
  BY <1>1, <1>2
<1>5. Acyclic({PairAt(x) : x \in Places}') <=> Acyclic({PairAt(x) : x \in Places})
  BY <1>4
<1> QED
  BY <1>1, <1>3, <1>5 DEF Wrong, Acyclic

(* A cycle in what is wired is one in the program. *)
LEMMA WiredIsDeclared ==
  ASSUME BindInv, ~Acyclic(wired)
  PROVE  Wrong
<1>1. wired \subseteq {PairAt(x) : x \in Places}
  BY DEF BindInv, Done
<1> HIDE DEF Wrong
<1>2. ~Acyclic({PairAt(x) : x \in Places})
  BY <1>1, AcyclicBefore
<1> QED
  BY <1>2 DEF Wrong

(* A row is refused for a cause. *)
LEMMA BindRowRefuses ==
  ASSUME AssemblyInv, OrderInv, TreeInv, BindInv, BindRow, Refuse
  PROVE  Wrong
<1>1. /\ phase = "assemble" /\ Top.stage = "declare"
      /\ Top.n + 1 \in DOMAIN program.bindings[Top.reactor]
      /\ NextRow = program.bindings[Top.reactor][Top.n + 1]
  BY BindRowCases
<1>2. /\ stack # <<>> /\ Top.reactor \in Tree /\ Top.reactor \in Assembled
      /\ Top.n \in Nat /\ Top.k \in Nat
  <2>1. Top.reactor \in Assembled
    BY <1>1, TopIsAssembled
  <2> QED
    BY <1>1, <2>1, TopIsAssembled DEF TreeInv
<1>3. CASE Malformed(NextRow)
  BY <1>1, <1>2, <1>3 DEF Wrong
<1>4. CASE /\ ~Malformed(NextRow) /\ NextPlace \in Places /\ PairAt(NextPlace) \in Ports \X Ports
           /\ IsBound(PairAt(NextPlace)[2])
  <2>1. PICK x : x = NextPlace
    OBVIOUS
  <2>2. PICK y \in Done : PairAt(y)[2] = PairAt(x)[2]
    BY <1>4, <2>1 DEF IsBound, BindInv
  <2>3. x \notin Done
    <3>1. x[1] = Top.reactor /\ x[2] = Top.n + 1 /\ x[3] = Top.k + 1
      BY <2>1 DEF NextPlace
    <3>2. Top.k < x[3]
      BY <1>2, <3>1
    <3>3. Unbound(x[1], x[2], x[3])
      BY <1>1, <1>2, <3>1, <3>2 DEF Unbound
    <3> QED
      BY <3>3 DEF Done
  <2>4. BoundTwice
    BY <1>4, <2>1, <2>2, <2>3 DEF BoundTwice, Done
  <2> QED
    BY <2>4 DEF Wrong
<1>5. CASE /\ ~Malformed(NextRow) /\ NextPlace \in Places /\ PairAt(NextPlace) \in Ports \X Ports
           /\ ~IsBound(PairAt(NextPlace)[2])
           /\ FindsCycle(PairAt(NextPlace)[1], PairAt(NextPlace)[2])
  <2>1. PICK up \in Ports, down \in Ports : PairAt(NextPlace) = <<up, down>>
    BY <1>5
  <2>2. down \notin bound /\ FindsCycle(up, down)
    BY <1>5, <2>1 DEF IsBound
  <2>3. CASE ~Acyclic(wired)
    BY <2>3, WiredIsDeclared
  <2>4. CASE Acyclic(wired)
    <3>1. WiringTypes /\ SourceInv /\ CellInv
      BY <2>4 DEF AssemblyInv, PortInv
    <3>2. cell[down] = down
      BY <2>2, <3>1 DEF CellInv
    <3>3. up \in downstreams[down] \/ (cell[up] = down /\ up = down)
      BY <2>2, <3>1, <3>2 DEF FindsCycle, Listed, WiringTypes, PortsTypeOK
    <3>4. source[up] = down
      <4>1. CASE up \in downstreams[down]
        BY <2>2, <3>1, <4>1 DEF CellInv
      <4>2. CASE up = down
        BY <2>2, <3>1, <4>2 DEF SourceInv
      <4> QED
        BY <3>3, <4>1, <4>2
    <3>5. ~Acyclic(wired \cup {<<up, down>>})
      BY <2>2, <3>1, <3>4, ClosedCycle
    <3>6. wired \cup {<<up, down>>} \subseteq {PairAt(x) : x \in Places}
      BY <1>5, <2>1 DEF BindInv, Done
    <3>7. ~Acyclic({PairAt(x) : x \in Places})
      BY <3>5, <3>6, AcyclicBefore
    <3> QED
      BY <3>7 DEF Wrong
  <2> QED
    BY <2>3, <2>4
<1>6. ~(~Malformed(NextRow) /\ Goes("declare", Top.n + 1) /\ UNCHANGED <<phase, bindVars, portVars>>)
  BY <1>1 DEF Refuse
<1>7. ~(Binds(PairAt(NextPlace)[1], PairAt(NextPlace)[2]) /\ GoesFurther)
  BY <1>1 DEF Refuse, Binds
<1> QED
  BY <1>3, <1>4, <1>5, <1>6, <1>7, BindRowCases

LEMMA NewRefuses ==
  ASSUME OrderInv, TreeInv, CountInv, NewComponent \/ NewChannel, Refuse
  PROVE  Wrong
<1> DEFINE c == Cardinality(Created)
           u == Cardinality(UsedIds)
           len == Len(New.channels)
<1>1. /\ phase = "assemble" /\ Top.stage = "create" /\ Top.n < Len(Declared)
      /\ Top.k \in 0..len /\ ~NextCompId
  BY Creation DEF OrderInv, NewComponent, NewChannel, At
<1>2. /\ Top.k \in Nat /\ len \in Nat /\ program \in Programs
      /\ Top.reactor \in Reactors /\ Top.reactor \in Assembled
      /\ Top.n + 1 \in DOMAIN program.components[Top.reactor]
      /\ New = program.components[Top.reactor][Top.n + 1]
  BY <1>1, NewTypes, TopIsAssembled DEF OrderInv
<1>3. /\ IsFiniteSet(Created) /\ Created \subseteq UsedIds /\ c \in Nat
      /\ IsFiniteSet(UsedIds) /\ u \in Nat
  BY <1>2, CreatedFinite
<1>4. FirstRegular \in Nat /\ TriggerLimit \in Nat
  BY ProgramsAssumption
<1>5. CASE Exhausted
  <2>1. <<New, Top.k>> \in UsedIds \ Created
    <3>1. Top.k <= Top.k
      BY <1>2
    <3> QED
      BY <1>1, <3>1, NewIsApart
  <2>2. PICK x : x \in UsedIds \ Created
    BY <2>1
  <2>3. Cardinality(Created \cup {x}) = c + 1
    BY <1>3, <2>2, FS_AddElement
  <2>4. c + 1 <= u
    <3>1. Created \cup {x} \in SUBSET UsedIds
      BY <1>3, <2>2
    <3> QED
      BY <1>3, <2>3, <3>1, FS_Subset
  <2>5. (FirstRegular + c) + 1 > TriggerLimit
    BY <1>5 DEF Exhausted, CountInv
  <2>6. FirstRegular + u > TriggerLimit
    <3> HIDE DEF c, u
    <3> QED
      BY <1>3, <1>4, <2>4, <2>5
  <2> QED
    BY <2>6 DEF Wrong
<1>6. CASE ~Exhausted
  <2>1. Top.k = 0 /\ New.multiport /\ (New.channels = <<>> \/ ReservationFails(cur_trigger, len))
    BY <1>1, <1>6 DEF NewComponent, NewChannel, BankFails
  <2>2. CASE New.channels = <<>>
    <3>1. Top.reactor \in Tree
      BY <1>2 DEF TreeInv
    <3>2. EmptyMultiport
      BY <1>2, <2>1, <2>2, <3>1 DEF EmptyMultiport
    <3> QED
      BY <3>2 DEF Wrong
  <2>3. CASE ReservationFails(cur_trigger, len)
    <3>1. \A j \in 0..len : <<New, j>> \in UsedIds \ Created
      <4>1. \A j \in 0..len : Top.k <= j
        BY <1>2, <2>1
      <4> QED
        BY <1>1, <4>1, NewIsApart
    <3>2. PICK d : d = New
      OBVIOUS
    <3>3. IdsOf(d) \subseteq UsedIds /\ Created \cap IdsOf(d) = {}
      BY <3>1, <3>2 DEF IdsOf
    <3>4. IsFiniteSet(IdsOf(d)) /\ Cardinality(IdsOf(d)) = 1 + len
      BY <1>2, <3>2, IdsOfCount
    <3>5. Cardinality(Created \cup IdsOf(d)) = c + (1 + len)
      <4>1. Cardinality(Created \cup IdsOf(d)) = c + Cardinality(IdsOf(d)) - Cardinality(Created \cap IdsOf(d))
        BY <1>3, <3>4, FS_Union
      <4>2. Cardinality(Created \cap IdsOf(d)) = 0
        BY <3>3, FS_EmptySet
      <4> HIDE DEF c, len
      <4> QED
        BY <1>2, <1>3, <3>4, <4>1, <4>2
    <3>6. c + (1 + len) <= u
      <4>1. Created \cup IdsOf(d) \in SUBSET UsedIds
        BY <1>3, <3>3
      <4> QED
        BY <1>3, <3>5, <4>1, FS_Subset
    <3>7. (FirstRegular + c) + 1 + len > TriggerLimit
      BY <2>3 DEF ReservationFails, CountInv
    <3>8. FirstRegular + u > TriggerLimit
      <4> HIDE DEF c, u, len
      <4> QED
        BY <1>2, <1>3, <1>4, <3>6, <3>7
    <3> QED
      BY <3>8 DEF Wrong
  <2> QED
    BY <2>1, <2>2, <2>3
<1> QED
  BY <1>5, <1>6

LEMMA CauseKept ==
  ASSUME AssemblyInv, OrderInv, TreeInv, BindInv, CountInv, CauseInv, [Next]_vars
  PROVE  CauseInv'
<1>1. UNCHANGED program
  BY DEF Next, vars, AssembleSub, AssembleSelf, NewComponent, NewChannel, NextCompId, Refuse, SetIdRange, BindRow, BindPorts,
         Finish, Set, CleanupTag, Refused
<1>2. phase' = "refused" => \/ phase = "refused" \/ ((NewComponent \/ NewChannel) /\ Refuse)
                            \/ (BindRow /\ Refuse) \/ (Finish /\ ~Acyclic(wired))
  BY DEF Next, vars, AssembleSub, AssembleSelf, NewComponent, NewChannel, NextCompId, SetIdRange, BindRow, BindPorts,
         Finish, Set, CleanupTag, Refused, At
<1>3. phase' = "refused" => Wrong
  BY <1>2, NewRefuses, BindRowRefuses, WiredIsDeclared DEF CauseInv
<1> QED
  BY <1>1, <1>3, SameWrong DEF CauseInv

(* When the program runs, everything that it declares was created and bound. *)
LEMMA RunsAreRight ==
  ASSUME AssemblyInv, TreeInv, BindInv, CounterTypes, CountInv, FilledInv, phase = "run"
  PROVE  ~Wrong
<1>1. stack = <<>> /\ Acyclic(wired)
  BY DEF TreeInv, AssemblyInv, PortInv
<1>2. Tree = Assembled
  <2>1. Assembled \in SUBSET Reactors
    BY CountTypes
  <2> QED
    BY <2>1, TreeIsLeast DEF TreeInv
<1>3. /\ \A r, n, k : ~Unbound(r, n, k) /\ ~Unfinished(r, n)
      /\ \A r, n, j : ~Uncounted(r, n, j)
  BY <1>1 DEF Unbound, Unfinished, Uncounted
<1>4. Done = Places
  <2>1. \A x \in Places : x[1] \in Tree
    BY DEF Places
  <2> QED
    BY <1>2, <1>3, <2>1 DEF Done
<1>5. \A r \in Tree : \A n \in DOMAIN program.bindings[r] : ~Malformed(program.bindings[r][n])
  BY <1>2, <1>3 DEF BindInv
<1>6. ~BoundTwice
  BY <1>4 DEF BindInv, BoundTwice
<1>7. Acyclic({PairAt(x) : x \in Places})
  BY <1>1, <1>4 DEF BindInv
<1>8. Created = UsedIds
  <2>1. \A y : y \in Created <=> \E r \in Tree : \E n \in DOMAIN program.components[r] :
                                  y \in IdsOf(program.components[r][n])
    BY <1>2, <1>3, CreatedIs DEF IdsOf
  <2> QED
    BY <2>1, UsedIs
<1>9. ~(FirstRegular + Cardinality(UsedIds) > TriggerLimit)
  <2>1. FirstRegular \in Nat /\ TriggerLimit \in Nat
    BY ProgramsAssumption
  <2>2. FirstRegular + Cardinality(UsedIds) \in FirstRegular..TriggerLimit
    BY <1>8 DEF CountInv, CounterTypes
  <2> QED
    BY <2>1, <2>2
<1>10. ~EmptyMultiport
  BY <1>2, <1>3 DEF FilledInv, EmptyMultiport
<1> QED
  BY <1>5, <1>6, <1>7, <1>9, <1>10 DEF Wrong

(* A program runs only if all of its components and bindings are in order, and is
   refused only for one of the causes that are listed, an empty multiport among
   them, for every tree of reactors and any declarations. *)
THEOREM RefusedForCauseHolds == Spec => []RefusedForCause
<1>1. Init => CounterTypes /\ CauseInv /\ FilledInv
  BY ProgramsAssumption DEF Init, CounterTypes, CauseInv, FilledInv, Assembled
<1>2. OrderInv /\ CounterTypes /\ TreeInv /\ [Next]_vars => CounterTypes' /\ TreeInv'
  BY CounterTypesKept, TreeKept
<1>3. OrderInv /\ TreeInv /\ BindInv /\ [Next]_vars => BindInv'
  BY BindingsKept
<1>4. OrderInv /\ TreeInv /\ CountInv /\ FilledInv /\ [Next]_vars => CountInv' /\ FilledInv'
  BY CountKept, FilledKept
<1>5. AssemblyInv /\ OrderInv /\ TreeInv /\ BindInv /\ CountInv /\ CauseInv /\ [Next]_vars => CauseInv'
  BY CauseKept
<1>6. AssemblyInv /\ TreeInv /\ BindInv /\ CounterTypes /\ CountInv /\ FilledInv /\ CauseInv => RefusedForCause
  <2> SUFFICES ASSUME AssemblyInv, TreeInv, BindInv, CounterTypes, CountInv, FilledInv, CauseInv
               PROVE  (phase = "refused" => Wrong) /\ (phase = "run" => ~Wrong)
    BY DEF RefusedForCause, Wrong
  <2> QED
    BY RunsAreRight DEF CauseInv
<1> QED
  BY <1>1, <1>2, <1>3, <1>4, <1>5, <1>6, InitTree, InitBindings, InitCount,
     AssemblyInvHolds, OrderInvHolds, PTL DEF Spec

-----------------------------------------------------------------------------
(* The ids that are reserved for the channels of a multiport.  No id is given
   twice, and those that were given are below the counter. *)
GivenIds ==
  /\ \A d \in Components : trigger_id[d] = Unset \/ trigger_id[d] \in 0..(cur_trigger - 1)
  /\ \A d, e \in Components : trigger_id[d] = trigger_id[e] /\ trigger_id[d] # Unset => d = e

(* A component that was created has its id, which the ids of its channels follow,
   also those that are still to be given, which exist and are reserved. *)
IdsFollow(r, n) ==
  LET c == program.components[r][n] IN
    /\ trigger_id[c.id] \in Nat /\ trigger_id[c.id] + 1 + Len(c.channels) <= TriggerLimit
    /\ c.multiport => multiport_ranges[c.id] = NextRange(trigger_id[c.id], Len(c.channels))
    /\ \A j \in 0..Len(c.channels) :
         Uncounted(r, n, j) \/ trigger_id[NameAt(c, j)] = trigger_id[c.id] + j

RangeInv ==
  \A r \in Assembled : \A n \in DOMAIN program.components[r] : Uncounted(r, n, 0) \/ IdsFollow(r, n)

(* In the middle of a multiport, the next of its ids is that of the counter. *)
MiddleId ==
  phase = "assemble" /\ Top.stage = "create" /\ Top.k > 0 => cur_trigger = trigger_id[New.id] + Top.k

NeverInTheMiddle == phase = "refused" /\ stack # <<>> /\ Top.stage = "create" => Top.k = 0

(* The steps that give no id *)
LEMMA NoIdIsGiven ==
  ASSUME [Next]_vars, ~Creates
  PROVE  UNCHANGED <<program, cur_trigger, trigger_id, multiport_ranges>>
BY DEF Creates, Next, vars, idVars, AssembleSub, AssembleSelf, NewComponent, NewChannel, NextCompId,
       Refuse, SetIdRange, BindRow, BindPorts, Finish, Set, CleanupTag, Refused

LEMMA GivenIdsKept ==
  ASSUME OrderInv, TreeInv, CounterTypes, GivenIds, [Next]_vars
  PROVE  GivenIds'
<1>1. CASE Creates
  <2>1. PICK x : x = NameAt(New, Top.k)
    OBVIOUS
  <2>2. trigger_id' = [trigger_id EXCEPT ![x] = cur_trigger] /\ cur_trigger' = cur_trigger + 1
    BY <1>1, <2>1, CreatesNew DEF NextCompId
  <2>3. cur_trigger \in Nat /\ trigger_id \in [Components -> Nat \cup {Unset}] /\ Unset \notin Nat
    BY ProgramsAssumption DEF CounterTypes
  <2>4. \A d \in Components : trigger_id'[d] = IF d = x THEN cur_trigger ELSE trigger_id[d]
    BY <2>2, <2>3
  <2>5. \A d \in Components : trigger_id[d] # cur_trigger
    BY <2>3 DEF GivenIds
  <2>6. \A d \in Components : trigger_id'[d] = Unset \/ trigger_id'[d] \in 0..(cur_trigger' - 1)
    BY <2>2, <2>3, <2>4 DEF GivenIds
  <2>7. \A d, e \in Components : trigger_id'[d] = trigger_id'[e] /\ trigger_id'[d] # Unset => d = e
    BY <2>4, <2>5 DEF GivenIds
  <2> QED
    BY <2>6, <2>7 DEF GivenIds
<1>2. CASE ~Creates
  BY <1>2, NoIdIsGiven DEF GivenIds
<1> QED
  BY <1>1, <1>2

(* A step that gives an id changes the id of what it creates. *)
LEMMA OtherIds ==
  ASSUME OrderInv, TreeInv, CounterTypes, Creates,
         NEW r \in Assembled, NEW n \in DOMAIN program.components[r],
         NEW j \in 0..Len(program.components[r][n].channels)
  PROVE  trigger_id'[NameAt(program.components[r][n], j)] =
           IF r = Top.reactor /\ n = Top.n + 1 /\ j = Top.k THEN cur_trigger
           ELSE trigger_id[NameAt(program.components[r][n], j)]
<1>1. /\ Top.k \in 0..Len(New.channels) /\ NextCompId /\ program \in Programs
      /\ Top.reactor \in Reactors /\ Top.n + 1 \in DOMAIN program.components[Top.reactor]
      /\ New = program.components[Top.reactor][Top.n + 1] /\ New \in Declarations
  BY CreatesNew
<1>2. trigger_id \in [Components -> Nat \cup {Unset}]
  BY DEF CounterTypes
<1>3. r \in Reactors /\ program.components[r][n] \in Declarations
  BY <1>1, CountTypes, DeclaredTypes
<1>4. NameAt(program.components[r][n], j) \in Components
  BY <1>3, NameTypes
<1>5. NameAt(program.components[r][n], j) = NameAt(New, Top.k) <=>
        r = Top.reactor /\ n = Top.n + 1 /\ j = Top.k
  <2>1. PICK q \in Reactors : q = Top.reactor
    BY <1>1
  <2>2. PICK m \in DOMAIN program.components[q] : m = Top.n + 1 /\ New = program.components[q][m]
    BY <1>1, <2>1
  <2>3. PICK k \in 0..Len(program.components[q][m].channels) : k = Top.k
    BY <1>1, <2>2
  <2>4. NameAt(program.components[r][n], j) = NameAt(program.components[q][m], k) => r = q /\ n = m /\ j = k
    BY <1>1, <1>3, PlacesApart
  <2> QED
    BY <2>1, <2>2, <2>3, <2>4
<1> QED
  BY <1>1, <1>2, <1>4, <1>5 DEF NextCompId

(* What is created gets the next of its ids, which are reserved first. *)
LEMMA NewFollows ==
  ASSUME OrderInv, TreeInv, CounterTypes, RangeInv, MiddleId, Creates,
         NEW r \in Assembled, NEW n \in DOMAIN program.components[r], r = Top.reactor, n = Top.n + 1
  PROVE  IdsFollow(r, n)' /\ cur_trigger = trigger_id'[program.components[r][n].id] + Top.k
<1> DEFINE c == program.components[r][n]
           len == Len(c.channels)
           t == trigger_id'[c.id]
<1>1. /\ Top.k \in 0..len /\ len \in Nat /\ ~Exhausted /\ NextCompId /\ program \in Programs
      /\ New = c /\ c \in Declarations /\ r \in Reactors /\ phase = "assemble" /\ Top.stage = "create"
  BY CreatesNew
<1>2. cur_trigger \in Nat /\ TriggerLimit \in Nat
  BY ProgramsAssumption DEF CounterTypes
<1>3. \A j \in 0..len : /\ Uncounted(r, n, j)' <=> Uncounted(r, n, j) /\ j # Top.k
                        /\ Uncounted(r, n, j) <=> Top.k <= j
                        /\ trigger_id'[NameAt(c, j)] = IF j = Top.k THEN cur_trigger ELSE trigger_id[NameAt(c, j)]
  BY CreationUncounts, OtherIds
<1>4. 0 \in 0..len /\ c.id = NameAt(c, 0)
  BY <1>1 DEF NameAt
<1>5. UNCHANGED program
  BY <1>1 DEF NextCompId
<1> HIDE DEF c, len
<1>6. CASE Top.k = 0
  <2>1. t = cur_trigger
    BY <1>3, <1>4, <1>6
  <2>2. ~BankFails /\ (c.multiport => multiport_ranges' =
                         [multiport_ranges EXCEPT ![c.id] = NextRange(cur_trigger, len)])
    BY <1>1, <1>6 DEF Creates, NewComponent, NewChannel, len
  <2>3. t + 1 + len <= TriggerLimit
    <3>1. CASE c.multiport
      <4>1. ~ReservationFails(cur_trigger, Len(c.channels))
        BY <1>1, <2>2, <3>1 DEF BankFails
      <4>2. ~(cur_trigger + 1 + len > TriggerLimit)
        BY <4>1 DEF ReservationFails, len
      <4> QED
        BY <1>1, <1>2, <2>1, <4>2
    <3>2. CASE ~c.multiport
      <4>1. c.channels = <<>>
        BY <1>1, <3>2, ComponentsAssumption DEF c
      <4>2. len = 0
        BY <4>1 DEF len
      <4> QED
        BY <1>1, <1>2, <2>1, <4>2 DEF Exhausted
    <3> QED
      BY <3>1, <3>2
  <2>4. c.multiport => multiport_ranges'[c.id] = NextRange(t, len)
    <3>1. c.id \in Components /\ multiport_ranges \in [Components -> SUBSET Nat]
      BY <1>1 DEF CounterTypes, Declarations
    <3> QED
      BY <2>1, <2>2, <3>1
  <2>5. \A j \in 0..len : Uncounted(r, n, j)' \/ trigger_id'[NameAt(c, j)] = t + j
    <3> SUFFICES ASSUME NEW j \in 0..len, ~Uncounted(r, n, j)' PROVE trigger_id'[NameAt(c, j)] = t + j
      OBVIOUS
    <3>1. 0 <= j
      BY <1>1
    <3>2. j = 0
      BY <1>3, <1>6, <3>1
    <3> QED
      BY <1>2, <1>4, <2>1, <3>2
  <2>6. IdsFollow(r, n)'
    BY <1>2, <1>5, <2>1, <2>3, <2>4, <2>5 DEF IdsFollow, c, len
  <2>7. cur_trigger = t + Top.k
    BY <1>2, <1>6, <2>1
  <2> QED
    BY <2>6, <2>7 DEF c
<1>7. CASE Top.k > 0
  <2>1. ~Uncounted(r, n, 0) /\ 0 # Top.k
    BY <1>1, <1>3, <1>4, <1>7
  <2>2. IdsFollow(r, n)
    BY <2>1 DEF RangeInv
  <2>3. t = trigger_id[c.id]
    BY <1>3, <1>4, <2>1
  <2>4. UNCHANGED multiport_ranges
    BY <1>7 DEF Creates, NewComponent, NewChannel
  <2>5. cur_trigger = t + Top.k
    BY <1>1, <1>7, <2>3 DEF MiddleId
  <2>6. \A j \in 0..len : Uncounted(r, n, j)' \/ trigger_id'[NameAt(c, j)] = t + j
    <3> SUFFICES ASSUME NEW j \in 0..len, ~Uncounted(r, n, j)' PROVE trigger_id'[NameAt(c, j)] = t + j
      OBVIOUS
    <3>1. CASE j = Top.k
      BY <1>3, <2>5, <3>1
    <3>2. CASE j # Top.k
      <4>1. ~Uncounted(r, n, j) /\ trigger_id'[NameAt(c, j)] = trigger_id[NameAt(c, j)]
        BY <1>3, <3>2
      <4>2. trigger_id[NameAt(c, j)] = trigger_id[c.id] + j
        BY <2>2, <4>1 DEF IdsFollow, c, len
      <4> QED
        BY <2>3, <4>1, <4>2
    <3> QED
      BY <3>1, <3>2
  <2>7. IdsFollow(r, n)'
    BY <1>5, <2>2, <2>3, <2>4, <2>6 DEF IdsFollow, c, len
  <2> QED
    BY <2>5, <2>7 DEF c
<1> QED
  BY <1>1, <1>6, <1>7

LEMMA RangesKept ==
  ASSUME OrderInv, TreeInv, CounterTypes, RangeInv, MiddleId, [Next]_vars
  PROVE  RangeInv'
<1>1. CASE Creates
  <2>1. UNCHANGED <<program, id_of>> /\ program \in Programs /\ New = program.components[Top.reactor][Top.n + 1]
    BY <1>1, CreatesNew DEF NextCompId
  <2>2. Assembled' = Assembled
    BY <2>1, SameCount
  <2>3. ASSUME NEW r \in Assembled, NEW n \in DOMAIN program.components[r], ~Uncounted(r, n, 0)'
        PROVE  IdsFollow(r, n)'
    <3>1. CASE r = Top.reactor /\ n = Top.n + 1
      BY <1>1, <3>1, NewFollows
    <3>2. CASE ~(r = Top.reactor /\ n = Top.n + 1)
      <4> DEFINE c == program.components[r][n]
                 len == Len(c.channels)
      <4>1. r \in Reactors /\ len \in Nat /\ c.id \in Components
        BY <2>1, CountTypes, DeclaredTypes
      <4>2. \A j \in 0..len : /\ Uncounted(r, n, j)' <=> Uncounted(r, n, j)
                              /\ trigger_id'[NameAt(c, j)] = trigger_id[NameAt(c, j)]
        BY <1>1, <3>2, CreationUncounts, OtherIds
      <4>3. 0 \in 0..len /\ c.id = NameAt(c, 0)
        BY <4>1 DEF NameAt
      <4>4. IdsFollow(r, n)
        BY <2>3, <4>2, <4>3 DEF RangeInv
      <4>5. multiport_ranges'[c.id] = multiport_ranges[c.id]
        <5>1. New.id # c.id
          <6>1. PICK q \in Reactors : q = Top.reactor
            BY <1>1, CreatesNew
          <6>2. PICK m \in DOMAIN program.components[q] : m = Top.n + 1 /\ New = program.components[q][m]
            BY <1>1, <6>1, CreatesNew
          <6>3. New.id = c.id => Names(program.components[q][m]) \cap Names(program.components[r][n]) # {}
            BY <6>2 DEF Names
          <6>4. Names(program.components[q][m]) \cap Names(program.components[r][n]) # {} => q = r /\ m = n
            BY <2>1, <4>1, NamesApart
          <6> QED
            BY <3>2, <6>1, <6>2, <6>3, <6>4
        <5> HIDE DEF c
        <5> QED
          BY <1>1, <4>1, <5>1 DEF Creates, NewComponent, NewChannel, CounterTypes
      <4>6. trigger_id'[c.id] = trigger_id[c.id]
        BY <4>2, <4>3
      <4>7. \A j \in 0..len : Uncounted(r, n, j)' \/ trigger_id'[NameAt(c, j)] = trigger_id'[c.id] + j
        BY <4>2, <4>4, <4>6 DEF IdsFollow
      <4> QED
        BY <2>1, <4>4, <4>5, <4>6, <4>7 DEF IdsFollow
    <3> QED
      BY <3>1, <3>2
  <2> QED
    BY <2>1, <2>2, <2>3 DEF RangeInv
<1>2. CASE ~Creates
  <2>1. UNCHANGED <<program, cur_trigger, trigger_id, multiport_ranges>> /\ program \in Programs
    BY <1>2, NoIdIsGiven DEF OrderInv, StackInv
  <2>2. ASSUME NEW r \in Assembled, NEW n \in DOMAIN program.components[r],
               \A j \in 0..Len(program.components[r][n].channels) : Uncounted(r, n, j)' <=> Uncounted(r, n, j)
        PROVE  Uncounted(r, n, 0)' \/ IdsFollow(r, n)'
    <3>1. r \in Reactors /\ Len(program.components[r][n].channels) \in Nat
      BY <2>1, CountTypes, DeclaredTypes
    <3>2. Uncounted(r, n, 0)' <=> Uncounted(r, n, 0)
      BY <2>2, <3>1
    <3>3. IdsFollow(r, n) => IdsFollow(r, n)'
      BY <2>1, <2>2 DEF IdsFollow
    <3> QED
      BY <3>2, <3>3 DEF RangeInv
  <2>3. CASE AssembleSelf
    <3>1. Assembled' = Assembled \cup {Top.reactor} /\ Top.reactor \in Reactors /\ Top.reactor \notin Assembled
      BY <2>3, SelfCounts
    <3>2. ASSUME NEW r \in Reactors, NEW n \in DOMAIN program.components[r]
          PROVE  \A j \in {0} \cup 0..Len(program.components[r][n].channels) :
                   ~Uncounted(r, n, j) /\ (Uncounted(r, n, j)' <=> r = Top.reactor)
      <4>1. Len(program.components[r][n].channels) \in Nat
        BY <2>1, DeclaredTypes
      <4>2. \A j \in {0} \cup 0..Len(program.components[r][n].channels) : j \in Nat
        BY <4>1
      <4> QED
        BY <2>3, <4>2, SelfUncounted
    <3>3. ASSUME NEW r \in Assembled', NEW n \in DOMAIN program.components[r]
          PROVE  Uncounted(r, n, 0)' \/ IdsFollow(r, n)'
      <4>1. CASE r = Top.reactor
        BY <3>1, <3>2, <4>1
      <4>2. CASE r # Top.reactor
        <5>1. r \in Assembled /\ r \in Reactors
          BY <3>1, <4>2, CountTypes
        <5> QED
          BY <2>2, <3>2, <4>2, <5>1
      <4> QED
        BY <4>1, <4>2
    <3> QED
      BY <2>1, <3>3 DEF RangeInv
  <2>4. CASE ~AssembleSelf
    <3>1. UNCHANGED id_of
      BY <1>2, <2>4 DEF Creates, Next, vars, idVars, AssembleSub, NewComponent, NewChannel, NextCompId, Refuse,
                        SetIdRange, BindRow, BindPorts, Finish, Set, CleanupTag, Refused
    <3>2. Assembled' = Assembled
      BY <3>1, SameCount
    <3>3. \A r \in Assembled : \A n \in DOMAIN program.components[r] : \A j :
            Uncounted(r, n, j)' <=> Uncounted(r, n, j)
      BY <1>2, <2>4, SameUncounted
    <3>4. \A r \in Assembled : \A n \in DOMAIN program.components[r] :
            Uncounted(r, n, 0)' \/ IdsFollow(r, n)'
      BY <2>2, <3>3
    <3> QED
      BY <2>1, <3>2, <3>4 DEF RangeInv
  <2> QED
    BY <2>3, <2>4
<1> QED
  BY <1>1, <1>2

LEMMA MiddleIdKept ==
  ASSUME OrderInv, TreeInv, CounterTypes, RangeInv, MiddleId, [Next]_vars
  PROVE  MiddleId'
<1>1. CASE Creates
  <2>1. /\ Top.n < Len(Declared) /\ StackInv /\ NextCompId /\ Top.k \in Nat /\ phase = "assemble"
        /\ Top.stage = "create" /\ Top.reactor \in Assembled
        /\ Top.n + 1 \in DOMAIN program.components[Top.reactor]
        /\ New = program.components[Top.reactor][Top.n + 1] /\ New \in Declarations
    BY <1>1, CreatesNew
  <2>2. /\ Top'.reactor = Top.reactor /\ UNCHANGED program
        /\ \/ Top'.n = Top.n /\ Top'.k = Top.k + 1
           \/ Top'.k = 0
    BY <2>1, CreationTop
  <2>3. cur_trigger' = cur_trigger + 1 /\ cur_trigger \in Nat
    BY <2>1, ProgramsAssumption DEF NextCompId, CounterTypes
  <2>4. PICK r \in Assembled : r = Top.reactor
    BY <2>1
  <2>5. PICK n \in DOMAIN program.components[r] : n = Top.n + 1
    BY <2>1, <2>4
  <2>6. cur_trigger = trigger_id'[New.id] + Top.k /\ trigger_id'[New.id] \in Nat
    <3>1. IdsFollow(r, n)' /\ cur_trigger = trigger_id'[program.components[r][n].id] + Top.k
      BY <1>1, <2>4, <2>5, NewFollows
    <3>2. New = program.components[r][n]
      BY <2>1, <2>4, <2>5
    <3> QED
      BY <2>2, <3>1, <3>2 DEF IdsFollow
  <2>7. CASE Top'.n = Top.n /\ Top'.k = Top.k + 1
    <3>1. New' = New
      BY <2>2, <2>7 DEF New, Declared
    <3>2. \A a, b \in Nat : (a + b) + 1 = a + (b + 1)
      OBVIOUS
    <3>3. cur_trigger' = trigger_id'[New.id] + (Top.k + 1)
      BY <2>1, <2>3, <2>6, <3>2
    <3> QED
      BY <2>7, <3>1, <3>3 DEF MiddleId
  <2>8. CASE Top'.k = 0
    BY <2>8 DEF MiddleId
  <2> QED
    BY <2>2, <2>7, <2>8
<1>2. CASE ~Creates
  <2> SUFFICES ASSUME phase' = "assemble" PROVE MiddleId'
    BY DEF MiddleId
  <2>0. phase = "assemble"
    BY DEF Next, vars, AssembleSub, AssembleSelf, NewComponent, NewChannel, SetIdRange, BindRow, Finish,
           Set, CleanupTag, Refused, At
  <2>1. StackInv /\ PathInv
    BY <2>0 DEF OrderInv
  <2>2. CASE AssembleSub
    <3>1. Top'.stage = "children"
      BY <2>1, <2>2, PushTop
    <3> QED
      BY <3>1 DEF MiddleId
  <2>3. CASE AssembleSelf \/ SetIdRange
    <3>1. phase = "assemble" /\ (Goes("create", 0) \/ Goes("declare", 0))
      BY <2>3 DEF AssembleSelf, SetIdRange, At
    <3>2. Top'.k = 0
      BY <2>1, <3>1, GoesTop
    <3> QED
      BY <3>2 DEF MiddleId
  <2>4. CASE Finish
    <3>1. stack' # <<>> /\ phase = "assemble"
      BY <2>1, <2>4 DEF Finish, At, StackInv
    <3>2. Top'.stage = "children"
      BY <2>1, <2>4, <3>1, PopTop
    <3> QED
      BY <3>2 DEF MiddleId
  <2>5. CASE BindRow /\ ~Refuse
    <3>1. phase = "assemble" /\ Top.stage = "declare" /\ (Goes("declare", Top.n + 1) \/ GoesFurther)
      BY <2>5, BindRowCases DEF OrderInv
    <3>2. Top'.stage = "declare"
      BY <2>1, <3>1, GoesTop, CountTop
    <3> QED
      BY <3>2 DEF MiddleId
  <2>6. CASE UNCHANGED <<program, phase, stack, cur_trigger, trigger_id>>
    BY <2>6 DEF MiddleId, Top, New, Declared
  <2>7. CASE Refuse \/ (\E p \in Ports, v \in Values : Set(p, v)) \/ CleanupTag \/ Refused \/ UNCHANGED vars
    BY <2>6, <2>7 DEF Refuse, Set, CleanupTag, Refused, vars, idVars
  <2> QED
    BY <1>2, <2>2, <2>3, <2>4, <2>5, <2>7 DEF Next, Creates
<1> QED
  BY <1>1, <1>2

(* The ids for the channels of a multiport do not run out. *)
LEMMA NoChannelIsRefused ==
  ASSUME OrderInv, TreeInv, CounterTypes, RangeInv, MiddleId, NewChannel
  PROVE  ~Exhausted
<1>1. /\ phase = "assemble" /\ Top.stage = "create" /\ Top.k > 0 /\ Top.n < Len(Declared)
      /\ Top.k \in 0..Len(New.channels) /\ StackInv
  BY Creation DEF OrderInv, NewChannel, At
<1>2. /\ stack # <<>> /\ program \in Programs /\ Top.reactor \in Assembled /\ Top.n \in Nat /\ Top.k \in Nat
      /\ Top.n + 1 \in DOMAIN program.components[Top.reactor]
      /\ New = program.components[Top.reactor][Top.n + 1] /\ Len(New.channels) \in Nat
  BY <1>1, NewTypes, TopIsAssembled
<1>3. PICK r \in Assembled : r = Top.reactor
  BY <1>2
<1>4. PICK n \in DOMAIN program.components[r] : n = Top.n + 1
  BY <1>2, <1>3
<1>5. ~Uncounted(r, n, 0)
  BY <1>1, <1>2, <1>4 DEF Uncounted
<1>6. IdsFollow(r, n) /\ New = program.components[r][n]
  BY <1>2, <1>3, <1>4, <1>5 DEF RangeInv
<1>7. trigger_id[New.id] \in Nat /\ trigger_id[New.id] + 1 + Len(New.channels) <= TriggerLimit
  BY <1>6 DEF IdsFollow
<1>8. cur_trigger = trigger_id[New.id] + Top.k
  BY <1>1 DEF MiddleId
<1>9. TriggerLimit \in Nat
  BY ProgramsAssumption
<1>10. \A t, k, l, m \in Nat : k <= l /\ t + 1 + l <= m => ~((t + k) + 1 > m)
  OBVIOUS
<1>11. Top.k <= Len(New.channels)
  BY <1>1, <1>2
<1>12. ~((trigger_id[New.id] + Top.k) + 1 > TriggerLimit)
  BY <1>2, <1>7, <1>9, <1>10, <1>11
<1> QED
  BY <1>8, <1>12 DEF Exhausted

LEMMA NeverInTheMiddleKept ==
  ASSUME OrderInv, TreeInv, CounterTypes, RangeInv, MiddleId, NeverInTheMiddle, [Next]_vars
  PROVE  NeverInTheMiddle'
<1> SUFFICES ASSUME phase' = "refused" PROVE NeverInTheMiddle'
  BY DEF NeverInTheMiddle
<1>1. CASE UNCHANGED <<phase, stack>>
  BY <1>1 DEF NeverInTheMiddle, Top
<1>2. CASE NewComponent
  <2>1. UNCHANGED stack /\ Top.k = 0
    BY <1>2 DEF NewComponent, NextCompId, Refuse, At
  <2> QED
    BY <2>1 DEF NeverInTheMiddle, Top
<1>3. CASE NewChannel
  <2>1. ~Exhausted
    BY <1>3, NoChannelIsRefused
  <2> QED
    BY <1>3, <2>1 DEF NewChannel, NextCompId, At
<1>4. CASE BindRow
  <2>1. Top.stage = "declare" /\ phase = "assemble"
    BY <1>4 DEF BindRow, At
  <2>2. UNCHANGED stack
    BY <1>4, <2>1 DEF BindRow, BindPorts, Refuse
  <2> QED
    BY <2>1, <2>2 DEF NeverInTheMiddle, Top
<1>5. CASE Finish
  <2>1. stack' = <<>>
    BY <1>5 DEF Finish, At
  <2> QED
    BY <2>1 DEF NeverInTheMiddle
<1> QED
  BY <1>1, <1>2, <1>3, <1>4, <1>5
  DEF Next, vars, AssembleSub, AssembleSelf, SetIdRange, At, Set, CleanupTag, Refused

(* A multiport whose ids were reserved is created to the end, and the ids that are
   reserved for it are those of its channels and of nothing else, in every
   program. *)
THEOREM ReservationKeptHolds == Spec => []ReservationKept
<1>1. Init => CounterTypes /\ GivenIds /\ RangeInv /\ MiddleId /\ NeverInTheMiddle
  <2> SUFFICES ASSUME Init PROVE CounterTypes /\ GivenIds /\ RangeInv /\ MiddleId /\ NeverInTheMiddle
    OBVIOUS
  <2>1. Assembled = {} /\ phase = "assemble" /\ Top.stage = "children"
    BY DEF Init, Assembled, Top, Frame
  <2>2. trigger_id = [c \in Components |-> Unset]
    BY DEF Init
  <2> QED
    BY <2>1, <2>2, ProgramsAssumption
    DEF Init, CounterTypes, GivenIds, RangeInv, MiddleId, NeverInTheMiddle
<1>2. OrderInv /\ CounterTypes /\ TreeInv /\ [Next]_vars => CounterTypes' /\ TreeInv'
  BY CounterTypesKept, TreeKept
<1>3. OrderInv /\ TreeInv /\ CounterTypes /\ GivenIds /\ [Next]_vars => GivenIds'
  BY GivenIdsKept
<1>4. OrderInv /\ TreeInv /\ CounterTypes /\ RangeInv /\ MiddleId /\ NeverInTheMiddle /\ [Next]_vars
        => RangeInv' /\ MiddleId' /\ NeverInTheMiddle'
  BY RangesKept, MiddleIdKept, NeverInTheMiddleKept
<1>5. OrderInv /\ CounterTypes /\ TreeInv /\ GivenIds /\ RangeInv /\ NeverInTheMiddle => ReservationKept
  <2> SUFFICES ASSUME OrderInv, CounterTypes, TreeInv, GivenIds, RangeInv, NeverInTheMiddle
               PROVE  phase = "run" => \A r \in Assembled : \A n \in DOMAIN program.components[r] :
                        LET c == program.components[r][n] IN
                          c.multiport =>
                            /\ multiport_ranges[c.id] = {trigger_id[c.channels[j]] : j \in DOMAIN c.channels}
                            /\ \A d \in Components : trigger_id[d] \in multiport_ranges[c.id] =>
                                                       \E j \in DOMAIN c.channels : d = c.channels[j]
    BY DEF ReservationKept, NeverInTheMiddle
  <2> SUFFICES ASSUME phase = "run", NEW r \in Assembled, NEW n \in DOMAIN program.components[r],
                      NEW c, c = program.components[r][n], c.multiport
               PROVE  /\ multiport_ranges[c.id] = {trigger_id[c.channels[j]] : j \in DOMAIN c.channels}
                      /\ \A d \in Components : trigger_id[d] \in multiport_ranges[c.id] =>
                                                 \E j \in DOMAIN c.channels : d = c.channels[j]
    OBVIOUS
  <2>1. stack = <<>> /\ program \in Programs /\ r \in Reactors
    BY CountTypes DEF TreeInv, OrderInv, StackInv
  <2>2. \A j : ~Uncounted(r, n, j)
    BY <2>1 DEF Uncounted
  <2>3. IdsFollow(r, n)
    BY <2>2 DEF RangeInv
  <2>4. /\ c \in Declarations /\ Len(c.channels) \in Nat /\ DOMAIN c.channels = 1..Len(c.channels)
        /\ c.channels \in Seq(Ports)
    BY <2>1, DeclaredTypes
  <2>5. PICK t \in Nat : t = trigger_id[c.id]
    BY <2>3 DEF IdsFollow
  <2>6. \A j \in DOMAIN c.channels : trigger_id[c.channels[j]] = t + j /\ c.channels[j] \in Components
    <3> SUFFICES ASSUME NEW j \in DOMAIN c.channels
                 PROVE  trigger_id[c.channels[j]] = t + j /\ c.channels[j] \in Components
      OBVIOUS
    <3>1. j \in 0..Len(c.channels) /\ j # 0
      BY <2>4
    <3>2. NameAt(c, j) = c.channels[j]
      BY <3>1 DEF NameAt
    <3>3. trigger_id[NameAt(c, j)] = t + j
      BY <2>2, <2>3, <2>5, <3>1 DEF IdsFollow
    <3>4. c.channels[j] \in Components
      BY <2>4, ProgramsAssumption
    <3> QED
      BY <3>2, <3>3, <3>4
  <2>7. multiport_ranges[c.id] = (t + 1)..(t + Len(c.channels))
    BY <2>3, <2>5 DEF IdsFollow, NextRange
  <2>8. \A i : i \in (t + 1)..(t + Len(c.channels)) <=> \E j \in DOMAIN c.channels : i = t + j
    <3>1. ASSUME NEW i \in (t + 1)..(t + Len(c.channels))
          PROVE  \E j \in DOMAIN c.channels : i = t + j
      <4>1. i - t \in 1..Len(c.channels) /\ i = t + (i - t)
        BY <2>4, <3>1
      <4> QED
        BY <2>4, <4>1
    <3>2. \A j \in DOMAIN c.channels : t + j \in (t + 1)..(t + Len(c.channels))
      BY <2>4
    <3> QED
      BY <3>1, <3>2
  <2>9. multiport_ranges[c.id] = {trigger_id[c.channels[j]] : j \in DOMAIN c.channels}
    BY <2>6, <2>7, <2>8
  <2>10. ASSUME NEW d \in Components, trigger_id[d] \in multiport_ranges[c.id]
         PROVE  \E j \in DOMAIN c.channels : d = c.channels[j]
    <3>1. PICK j \in DOMAIN c.channels : trigger_id[d] = trigger_id[c.channels[j]]
      BY <2>9, <2>10
    <3>2. trigger_id[d] = t + j /\ j \in Nat
      BY <2>4, <2>6, <3>1
    <3>3. trigger_id[d] \in Nat
      BY <3>2
    <3>4. trigger_id[d] # Unset
      BY <3>3, ProgramsAssumption
    <3> QED
      BY <2>6, <3>1, <3>4 DEF GivenIds
  <2> QED
    BY <2>9, <2>10
<1> QED
  BY <1>1, <1>2, <1>3, <1>4, <1>5, InitTree, OrderInvHolds, PTL DEF Spec

-----------------------------------------------------------------------------
(* Which reactor is found for a trigger.  The ids of the components of a reactor
   are between the bound of the reactor before it and its own, which is that of the
   counter as long as it creates components. *)
Creating == stack # <<>> /\ Top.stage = "create"

Low(i) == IF i = 0 THEN 0 ELSE reactor_bound[i]
High(i) == IF i < Len(reactor_bound) THEN reactor_bound[i + 1] ELSE cur_trigger

Ascending ==
  \A i \in DOMAIN reactor_bound :
    /\ reactor_bound[i] <= cur_trigger
    /\ \A j \in DOMAIN reactor_bound : i <= j => reactor_bound[i] <= reactor_bound[j]

(* A component or a channel that was created has an id of its reactor. *)
IsWithin(r, p) == trigger_id[p] \in Low(id_of[r])..(High(id_of[r]) - 1)

BoundInv ==
  /\ Ascending
  /\ Count = IF Creating THEN Len(reactor_bound) + 1 ELSE Len(reactor_bound)
  /\ Fits => /\ Creating => id_of[Top.reactor] = Len(reactor_bound)
             /\ \A r \in Assembled : \A n \in DOMAIN program.components[r] :
                  \A j \in 0..Len(program.components[r][n].channels) :
                    Uncounted(r, n, j) \/ IsWithin(r, NameAt(program.components[r][n], j))

LEMMA BoundTypes ==
  ASSUME CounterTypes
  PROVE  /\ cur_trigger \in Nat /\ Len(reactor_bound) \in Nat
         /\ DOMAIN reactor_bound = 1..Len(reactor_bound)
         /\ \A i \in DOMAIN reactor_bound : reactor_bound[i] \in Nat
<1>1. cur_trigger \in Nat
  BY ProgramsAssumption DEF CounterTypes
<1> QED
  BY <1>1 DEF CounterTypes

(* The step that gives the counter as the bound of a reactor *)
LEMMA AppendBound ==
  ASSUME CounterTypes, reactor_bound' = Append(reactor_bound, cur_trigger)
  PROVE  /\ Len(reactor_bound') = Len(reactor_bound) + 1
         /\ DOMAIN reactor_bound' = 1..(Len(reactor_bound) + 1)
         /\ reactor_bound'[Len(reactor_bound) + 1] = cur_trigger
         /\ \A i \in DOMAIN reactor_bound : reactor_bound'[i] = reactor_bound[i]
<1>1. cur_trigger \in Nat /\ reactor_bound \in Seq(Nat)
  BY BoundTypes DEF CounterTypes
<1> QED
  BY <1>1

LEMMA SetIdRangeBounds ==
  ASSUME OrderInv, TreeInv, CounterTypes, IdsInv, BoundInv, SetIdRange
  PROVE  BoundInv'
<1> DEFINE len == Len(reactor_bound)
<1>1. /\ phase = "assemble" /\ Top.stage = "create" /\ Goes("declare", 0) /\ Top.n = Len(Declared)
      /\ reactor_bound' = Append(reactor_bound, cur_trigger) /\ StackInv
      /\ UNCHANGED <<program, id_of, cur_trigger, trigger_id>>
  BY DEF SetIdRange, At, OrderInv
<1>2. /\ stack # <<>> /\ program \in Programs /\ Top.reactor \in Reactors /\ Top.reactor \in Assembled
  BY <1>1, TopIsAssembled
<1>3. stack' # <<>> /\ Top'.stage = "declare"
  BY <1>1, GoesTop
<1>4. /\ Len(reactor_bound') = len + 1 /\ DOMAIN reactor_bound' = 1..(len + 1)
      /\ reactor_bound'[len + 1] = cur_trigger
      /\ \A i \in DOMAIN reactor_bound : reactor_bound'[i] = reactor_bound[i]
  BY <1>1, AppendBound
<1>5. /\ cur_trigger \in Nat /\ len \in Nat /\ DOMAIN reactor_bound = 1..len
      /\ \A i \in 1..len : reactor_bound[i] \in Nat
  BY BoundTypes
<1> HIDE DEF len
<1>6. Creating /\ ~Creating'
  BY <1>1, <1>2, <1>3 DEF Creating
<1>7. Count' = len + 1 /\ Count = len + 1 /\ Assembled' = Assembled /\ (Fits' <=> Fits)
  BY <1>1, <1>6, SameCount DEF BoundInv, len
<1>8. Ascending'
  <2> SUFFICES ASSUME NEW i \in 1..(len + 1), NEW j \in 1..(len + 1)
               PROVE  /\ reactor_bound'[i] <= cur_trigger
                      /\ i <= j => reactor_bound'[i] <= reactor_bound'[j]
    BY <1>1, <1>4 DEF Ascending
  <2>1. \A a \in 1..len : \A b \in 1..len :
          reactor_bound[a] <= cur_trigger /\ (a <= b => reactor_bound[a] <= reactor_bound[b])
    BY <1>5 DEF BoundInv, Ascending
  <2>2. \A a \in 1..(len + 1) : a = len + 1 \/ a \in 1..len
    BY <1>5
  <2>3. CASE i = len + 1
    <3>1. i <= j => j = len + 1
      BY <1>5, <2>3
    <3> QED
      BY <1>4, <1>5, <2>3, <3>1
  <2>4. CASE i \in 1..len
    BY <1>4, <1>5, <2>1, <2>2, <2>4
  <2> QED
    BY <2>2, <2>3, <2>4
<1>9. ASSUME Fits, NEW r \in Assembled
      PROVE  Low(id_of[r])' = Low(id_of[r]) /\ High(id_of[r])' = High(id_of[r])
  <2>1. id_of[r] \in 0..len
    BY <1>5, <1>7, <1>9 DEF IdsInv
  <2>2. Low(id_of[r])' = Low(id_of[r])
    <3>1. CASE id_of[r] = 0
      BY <1>1, <3>1 DEF Low
    <3>2. CASE id_of[r] \in 1..len
      BY <1>1, <1>4, <1>5, <3>2 DEF Low
    <3> QED
      BY <1>5, <2>1, <3>1, <3>2
  <2>3. High(id_of[r])' = High(id_of[r])
    <3>1. CASE id_of[r] = len
      <4>1. High(id_of[r]) = cur_trigger
        BY <1>5, <3>1 DEF High, len
      <4>2. id_of'[r] < Len(reactor_bound') /\ reactor_bound'[id_of'[r] + 1] = cur_trigger
        BY <1>1, <1>4, <1>5, <3>1
      <4>3. High(id_of[r])' = cur_trigger
        BY <4>2 DEF High
      <4> QED
        BY <4>1, <4>3
    <3>2. CASE id_of[r] \in 0..(len - 1)
      <4>1. id_of[r] < len /\ id_of[r] < len + 1 /\ id_of[r] + 1 \in 1..len
        BY <1>5, <3>2
      <4>2. High(id_of[r]) = reactor_bound[id_of[r] + 1]
        BY <4>1 DEF High, len
      <4>3. High(id_of[r])' = reactor_bound'[id_of[r] + 1]
        BY <1>1, <1>4, <4>1 DEF High
      <4> QED
        BY <1>4, <1>5, <4>1, <4>2, <4>3
    <3> QED
      BY <1>5, <2>1, <3>1, <3>2
  <2> QED
    BY <2>2, <2>3
<1>10. ASSUME Fits, NEW r \in Assembled, NEW n \in DOMAIN program.components[r],
              NEW j \in 0..Len(program.components[r][n].channels)
       PROVE  IsWithin(r, NameAt(program.components[r][n], j))'
  <2>1. ~Uncounted(r, n, j)
    <3>1. r \in Reactors
      BY CountTypes
    <3>2. n \in Nat /\ n \in 1..Len(program.components[r]) /\ Len(program.components[r]) \in Nat
      BY <1>2, <3>1, DeclaredTypes
    <3>3. Top.reactor = r => Top.n = Len(program.components[r])
      BY <1>1 DEF Declared
    <3>4. Top.reactor = r => ~(Top.n + 1 < n) /\ Top.n + 1 # n
      BY <3>2, <3>3
    <3> QED
      BY <3>4 DEF Uncounted
  <2>2. IsWithin(r, NameAt(program.components[r][n], j))
    BY <1>10, <2>1 DEF BoundInv
  <2>3. Low(id_of[r])' = Low(id_of[r]) /\ High(id_of[r])' = High(id_of[r])
    BY <1>9, <1>10
  <2> QED
    BY <1>1, <2>2, <2>3 DEF IsWithin, NameAt
<1> QED
  BY <1>1, <1>4, <1>6, <1>7, <1>8, <1>10 DEF BoundInv

(* Creating a component keeps the bounds *)
LEMMA NewBounds ==
  ASSUME OrderInv, TreeInv, CounterTypes, IdsInv, BoundInv, Creates
  PROVE  BoundInv'
<1> DEFINE len == Len(reactor_bound)
<1>1. /\ phase = "assemble" /\ Top.stage = "create" /\ Top.n < Len(Declared) /\ StackInv
      /\ stack # <<>> /\ program \in Programs /\ Top.reactor \in Reactors /\ Top.reactor \in Assembled
      /\ UNCHANGED <<program, id_of, reactor_bound>> /\ cur_trigger' = cur_trigger + 1 /\ NextCompId
  BY CreatesNew DEF NextCompId
<1>2. stack' # <<>> /\ Top'.reactor = Top.reactor /\ Top'.stage = "create"
  BY <1>1, CreationTop
<1>3. /\ cur_trigger \in Nat /\ len \in Nat /\ DOMAIN reactor_bound = 1..len
      /\ \A i \in 1..len : reactor_bound[i] \in Nat
  BY BoundTypes
<1> HIDE DEF len
<1>4. cur_trigger' \in Nat /\ cur_trigger < cur_trigger'
  BY <1>1, <1>3
<1>5. Creating /\ Creating' /\ Count' = Count /\ Assembled' = Assembled /\ (Fits' <=> Fits)
  BY <1>1, <1>2, SameCount DEF Creating
<1>6. Count = len + 1
  BY <1>5 DEF BoundInv, len
<1>7. Ascending'
  <2>1. \A i \in 1..len : reactor_bound[i] <= cur_trigger'
    <3>1. \A i \in 1..len : reactor_bound[i] <= cur_trigger
      BY <1>3 DEF BoundInv, Ascending
    <3> QED
      BY <1>3, <1>4, <3>1
  <2> QED
    BY <1>1, <1>3, <2>1 DEF BoundInv, Ascending
<1>8. ASSUME Fits, NEW r \in Assembled
       PROVE  /\ id_of[r] \in 0..len
              /\ Low(id_of[r])' = Low(id_of[r]) /\ Low(id_of[r]) \in 0..cur_trigger
              /\ r # Top.reactor => High(id_of[r])' = High(id_of[r])
              /\ r = Top.reactor => High(id_of[r]) = cur_trigger /\ High(id_of[r])' = cur_trigger'
  <2>1. id_of[r] \in 0..len
    BY <1>3, <1>6, <1>8 DEF IdsInv
  <2>2. Low(id_of[r])' = Low(id_of[r])
    BY <1>1 DEF Low
  <2>3. Low(id_of[r]) \in 0..cur_trigger
    <3>1. CASE id_of[r] = 0
      BY <1>3, <3>1 DEF Low
    <3>2. CASE id_of[r] \in 1..len
      <4>1. id_of[r] \in DOMAIN reactor_bound /\ id_of[r] # 0
        BY <1>3, <3>2
      <4>2. reactor_bound[id_of[r]] <= cur_trigger /\ reactor_bound[id_of[r]] \in Nat
        BY <1>3, <4>1 DEF BoundInv, Ascending
      <4> QED
        BY <1>3, <4>1, <4>2 DEF Low
    <3> QED
      BY <1>3, <2>1, <3>1, <3>2
  <2>4. id_of[Top.reactor] = len
    BY <1>5, <1>8 DEF BoundInv, len
  <2>5. r # Top.reactor => id_of[r] < len
    <3>1. r # Top.reactor => id_of[r] # len
      BY <1>1, <1>8, <2>4 DEF IdsInv
    <3> QED
      BY <1>3, <2>1, <3>1
  <2>6. r # Top.reactor => High(id_of[r])' = High(id_of[r])
    BY <1>1, <2>5 DEF High, len
  <2>7. r = Top.reactor => High(id_of[r]) = cur_trigger /\ High(id_of[r])' = cur_trigger'
    <3> SUFFICES ASSUME r = Top.reactor PROVE High(id_of[r]) = cur_trigger /\ High(id_of[r])' = cur_trigger'
      OBVIOUS
    <3>1. ~(id_of[r] < Len(reactor_bound)) /\ id_of'[r] = id_of[r] /\ reactor_bound' = reactor_bound
      BY <1>1, <1>3, <2>4 DEF len
    <3>2. High(id_of[r]) = cur_trigger
      BY <3>1 DEF High
    <3>3. High(id_of[r])' = cur_trigger'
      BY <3>1 DEF High
    <3> QED
      BY <3>2, <3>3
  <2> QED
    BY <2>1, <2>2, <2>3, <2>6, <2>7
<1>9. ASSUME Fits, NEW r \in Assembled, NEW n \in DOMAIN program.components[r],
             NEW j \in 0..Len(program.components[r][n].channels)
      PROVE  Uncounted(r, n, j)' \/ IsWithin(r, NameAt(program.components[r][n], j))'
  <2> DEFINE p == NameAt(program.components[r][n], j)
  <2>1. ASSUME trigger_id'[p] \in Low(id_of[r])'..(High(id_of[r])' - 1)
        PROVE  IsWithin(r, NameAt(program.components[r][n], j))'
    BY <1>1, <2>1 DEF IsWithin, NameAt
  <2>2. CASE r = Top.reactor /\ n = Top.n + 1 /\ j = Top.k
    <3>1. trigger_id'[p] = cur_trigger
      BY <2>2, OtherIds
    <3>2. Low(id_of[r])' \in 0..cur_trigger /\ High(id_of[r])' = cur_trigger'
      BY <1>8, <1>9, <2>2
    <3> QED
      BY <1>1, <1>3, <2>1, <3>1, <3>2
  <2>3. CASE ~(r = Top.reactor /\ n = Top.n + 1 /\ j = Top.k)
    <3> SUFFICES ASSUME ~Uncounted(r, n, j)' PROVE IsWithin(r, NameAt(program.components[r][n], j))'
      OBVIOUS
    <3>1. ~Uncounted(r, n, j)
      BY <2>3, CreationUncounts
    <3>2. trigger_id'[p] = trigger_id[p]
      BY <2>3, OtherIds
    <3>3. trigger_id'[p] \in Low(id_of[r])..(High(id_of[r]) - 1)
      BY <1>9, <3>1, <3>2 DEF BoundInv, IsWithin
    <3> HIDE DEF p
    <3>4. CASE r # Top.reactor
      BY <1>8, <1>9, <2>1, <3>3, <3>4
    <3>5. CASE r = Top.reactor
      <4>1. /\ Low(id_of[r])' = Low(id_of[r]) /\ Low(id_of[r]) \in 0..cur_trigger
            /\ High(id_of[r]) = cur_trigger /\ High(id_of[r])' = cur_trigger'
        BY <1>8, <1>9, <3>5
      <4> QED
        BY <1>3, <1>4, <2>1, <3>3, <4>1
    <3> QED
      BY <3>4, <3>5
  <2> QED
    BY <2>2, <2>3
<1>10. Fits' => id_of'[Top'.reactor] = Len(reactor_bound')
  BY <1>1, <1>2, <1>5 DEF BoundInv
<1> QED
  BY <1>1, <1>5, <1>6, <1>7, <1>9, <1>10 DEF BoundInv

(* Steps that give no id and set no bound *)
LEMMA SameBounds ==
  ASSUME BoundInv, UNCHANGED <<program, id_of, cur_trigger, trigger_id, reactor_bound>>,
         Creating' <=> Creating, Creating => Top'.reactor = Top.reactor,
         \A r \in Assembled : \A n \in DOMAIN program.components[r] : \A j :
           Uncounted(r, n, j)' <=> Uncounted(r, n, j)
  PROVE  BoundInv'
<1>1. Assembled' = Assembled /\ Count' = Count /\ (Fits' <=> Fits)
  BY SameCount
<1>2. Ascending'
  BY DEF BoundInv, Ascending
<1>3. \A i : Low(i)' = Low(i) /\ High(i)' = High(i)
  BY DEF Low, High
<1>4. ASSUME NEW r \in Assembled, NEW n \in DOMAIN program.components[r],
             NEW j \in 0..Len(program.components[r][n].channels), Fits
      PROVE  Uncounted(r, n, j)' \/ IsWithin(r, NameAt(program.components[r][n], j))'
  <2>1. Uncounted(r, n, j) \/ IsWithin(r, NameAt(program.components[r][n], j))
    BY <1>4 DEF BoundInv
  <2>2. IsWithin(r, NameAt(program.components[r][n], j))' <=> IsWithin(r, NameAt(program.components[r][n], j))
    BY <1>3 DEF IsWithin, NameAt
  <2> QED
    BY <2>1, <2>2
<1> QED
  BY <1>1, <1>2, <1>4 DEF BoundInv

LEMMA SelfBounds ==
  ASSUME OrderInv, TreeInv, CounterTypes, IdsInv, BoundInv, AssembleSelf
  PROVE  BoundInv'
<1>1. /\ phase = "assemble" /\ Top.stage = "children" /\ Goes("create", 0) /\ StackInv
      /\ UNCHANGED <<program, cur_trigger, trigger_id, reactor_bound>>
      /\ id_of' = [id_of EXCEPT ![Top.reactor] = reactor_id]
  BY DEF AssembleSelf, At, OrderInv
<1>2. /\ Top.reactor \in Reactors /\ Top.reactor \notin Assembled
      /\ Assembled' = Assembled \cup {Top.reactor} /\ Count' = Count + 1 /\ Count \in Nat
      /\ ReactorIds \in Nat
  BY SelfCounts, CountTypes, ProgramsAssumption
<1>3. stack' # <<>> /\ Top'.reactor = Top.reactor /\ Top'.stage = "create" /\ Top'.n = 0
  BY <1>1, GoesTop
<1>4. ~Creating /\ Creating' /\ Count = Len(reactor_bound)
  BY <1>1, <1>3 DEF Creating, BoundInv
<1>5. \A r \in Assembled : r \in Reactors /\ id_of'[r] = id_of[r]
  BY <1>1, <1>2, CountTypes DEF OrderInv
<1>6. Fits' => Fits /\ id_of'[Top.reactor] = Len(reactor_bound)
  BY <1>1, <1>2, <1>4 DEF Fits, IdsInv, OrderInv
<1>7. Ascending'
  BY <1>1 DEF BoundInv, Ascending
<1>8. ASSUME NEW r \in Reactors, NEW n \in DOMAIN program.components[r],
             NEW j \in 0..Len(program.components[r][n].channels)
      PROVE  ~Uncounted(r, n, j) /\ (Uncounted(r, n, j)' <=> r = Top.reactor)
  <2>1. Len(program.components[r][n].channels) \in Nat
    BY <1>1, DeclaredTypes DEF StackInv
  <2>2. j \in Nat
    BY <2>1
  <2> QED
    BY <2>2, SelfUncounted
<1>9. ASSUME Fits, NEW r \in Assembled, NEW n \in DOMAIN program.components[r],
             NEW j \in 0..Len(program.components[r][n].channels)
      PROVE  IsWithin(r, NameAt(program.components[r][n], j))'
  <2>1. id_of'[r] = id_of[r] /\ r \in Reactors
    BY <1>5, <1>9
  <2>2. IsWithin(r, NameAt(program.components[r][n], j))
    BY <1>8, <1>9, <2>1 DEF BoundInv
  <2>3. Low(id_of[r])' = Low(id_of[r]) /\ High(id_of[r])' = High(id_of[r])
    BY <1>1, <2>1 DEF Low, High
  <2> QED
    BY <1>1, <2>2, <2>3 DEF IsWithin, NameAt
<1>10. Count' = Len(reactor_bound') + 1
  BY <1>1, <1>2, <1>4
<1>11. Fits' => \A r \in Assembled' : \A n \in DOMAIN program'.components[r] :
                  \A j \in 0..Len(program'.components[r][n].channels) :
                    Uncounted(r, n, j)' \/ IsWithin(r, NameAt(program.components[r][n], j))'
  BY <1>1, <1>2, <1>6, <1>8, <1>9
<1> QED
  BY <1>1, <1>3, <1>4, <1>6, <1>7, <1>10, <1>11 DEF BoundInv

LEMMA BoundsKept ==
  ASSUME OrderInv, TreeInv, CounterTypes, IdsInv, BoundInv, [Next]_vars
  PROVE  BoundInv'
<1>1. CASE AssembleSelf
  BY <1>1, SelfBounds
<1>2. CASE SetIdRange
  BY <1>2, SetIdRangeBounds
<1>3. CASE Creates
  BY <1>3, NewBounds
<1>4. CASE ~AssembleSelf /\ ~SetIdRange /\ ~Creates
  <2>1. UNCHANGED <<program, id_of, cur_trigger, trigger_id, reactor_bound>>
    BY <1>4 DEF Creates, Next, vars, idVars, AssembleSub, NewComponent, NewChannel, NextCompId, Refuse,
                BindRow, BindPorts, Finish, Set, CleanupTag, Refused
  <2>2. StackInv
    BY DEF OrderInv
  <2>3. (Creating' <=> Creating) /\ (Creating => Top'.reactor = Top.reactor)
    <3>1. CASE UNCHANGED stack
      BY <3>1 DEF Creating, Top
    <3>2. CASE AssembleSub \/ Finish \/ (BindRow /\ ~Refuse)
      <4>1. Top.stage # "create"
        BY <3>2 DEF AssembleSub, Finish, BindRow, At
      <4>2. stack' = <<>> \/ Top'.stage # "create"
        <5>1. CASE AssembleSub
          BY <2>2, <5>1, PushTop
        <5>2. CASE Finish
          BY <5>2, PopTop DEF Finish, At, OrderInv
        <5>3. CASE BindRow /\ ~Refuse
          <6>1. /\ phase = "assemble" /\ Top.stage = "declare"
                /\ Goes("declare", Top.n + 1) \/ GoesFurther
            BY <5>3, BindRowCases
          <6> QED
            BY <2>2, <6>1, GoesTop, CountTop
        <5> QED
          BY <3>2, <5>1, <5>2, <5>3
      <4> QED
        BY <4>1, <4>2 DEF Creating
    <3>3. CASE Refuse \/ (\E p \in Ports, v \in Values : Set(p, v)) \/ CleanupTag \/ Refused \/ UNCHANGED vars
      BY <3>1, <3>3 DEF Refuse, Set, CleanupTag, Refused, vars
    <3> QED
      BY <1>4, <3>2, <3>3 DEF Next, Creates
  <2>4. \A r \in Assembled : \A n \in DOMAIN program.components[r] : \A j :
          Uncounted(r, n, j)' <=> Uncounted(r, n, j)
    BY <1>4, SameUncounted
  <2> QED
    BY <2>1, <2>3, <2>4, SameBounds
<1> QED
  BY <1>1, <1>2, <1>3, <1>4

(* The container of a reactor is its parent. *)
ContainerInv ==
  Fits =>
    /\ \A i \in DOMAIN reactor_container :
         \E r \in Assembled : \E j \in DOMAIN program.children[r] : i = id_of[program.children[r][j]]
    /\ \A r \in Assembled : \A j \in DOMAIN program.children[r] :
         LET i == id_of[program.children[r][j]] IN
           i \in DOMAIN reactor_container /\ reactor_container[i] = id_of[r]

LEMMA ContainersKept ==
  ASSUME OrderInv, TreeInv, IdsInv, ContainerInv, [Next]_vars
  PROVE  ContainerInv'
<1>1. UNCHANGED program
  BY DEF Next, vars, AssembleSub, AssembleSelf, NewComponent, NewChannel, NextCompId, Refuse, SetIdRange, BindRow, BindPorts,
         Finish, Set, CleanupTag, Refused
<1>2. CASE ~AssembleSelf
  <2>1. UNCHANGED <<id_of, reactor_container>>
    BY <1>2 DEF Next, vars, idVars, AssembleSub, NewComponent, NewChannel, NextCompId, Refuse, SetIdRange, BindRow, BindPorts,
                Finish, Set, CleanupTag, Refused
  <2> QED
    BY <1>1, <2>1, SameCount DEF ContainerInv
<1>3. CASE AssembleSelf
  <2> SUFFICES ASSUME Fits' PROVE ContainerInv'
    BY DEF ContainerInv
  <2>1. /\ phase = "assemble" /\ Top.stage = "children" /\ Top.n = Len(Children)
        /\ id_of' = [id_of EXCEPT ![Top.reactor] = reactor_id]
        /\ reactor_container' = WithContainer({id_of[Children[j]] : j \in 1..Len(Children)}, reactor_id)
        /\ program \in Programs
    BY <1>3 DEF AssembleSelf, At, OrderInv, StackInv
  <2>2. /\ Top.reactor \in Reactors /\ Top.reactor \notin Assembled
        /\ Assembled' = Assembled \cup {Top.reactor} /\ Count' = Count + 1 /\ Count \in Nat
        /\ ReactorIds \in Nat
    BY <1>3, SelfCounts, CountTypes, ProgramsAssumption
  <2>3. Fits
    BY <2>2 DEF Fits
  <2> DEFINE top == Top.reactor
             kids == {id_of[Children[j]] : j \in 1..Len(Children)}
  <2>4. Children = program.children[top] /\ DOMAIN program.children[top] = 1..Len(Children)
    <3>1. program.children[top] \in Seq(Reactors)
      BY <2>1, <2>2, KidsInTree
    <3> QED
      BY <3>1 DEF Children
  <2>5. \A r \in Assembled : id_of'[r] = id_of[r]
    BY <2>1, <2>2, CountTypes DEF OrderInv
  <2>6. id_of'[top] = reactor_id
    BY <2>1, <2>2 DEF OrderInv
  <2>7. \A j \in DOMAIN program.children[top] : program.children[top][j] \in Assembled
    <3> SUFFICES ASSUME NEW j \in DOMAIN program.children[top] PROVE program.children[top][j] \in Assembled
      OBVIOUS
    <3>1. Children[j] \in Reactors /\ id_of[Children[j]] \in Nat
      BY <2>1, <2>4, ChildrenHaveIds
    <3>2. id_of[Children[j]] # Unset
      BY <3>1, ProgramsAssumption
    <3> QED
      BY <2>4, <3>1, <3>2 DEF Assembled
  <2>8. \A r \in Assembled : \A j \in DOMAIN program.children[r] : program.children[r][j] \in Assembled
    BY DEF TreeInv, ClosedUnderChildren
  <2>9. kids = {id_of[program.children[top][j]] : j \in DOMAIN program.children[top]}
    BY <2>4
  <2>10. /\ DOMAIN reactor_container' = DOMAIN reactor_container \cup kids
         /\ \A i \in DOMAIN reactor_container' :
              reactor_container'[i] = IF i \in kids THEN reactor_id ELSE reactor_container[i]
    BY <2>1 DEF WithContainer
  <2> HIDE DEF top, kids
  <2>11. ASSUME NEW i \in DOMAIN reactor_container'
         PROVE  \E r \in Assembled' : \E j \in DOMAIN program.children[r] : i = id_of'[program.children[r][j]]
    <3>1. CASE i \in kids
      <4>1. PICK j \in DOMAIN program.children[top] : i = id_of[program.children[top][j]]
        BY <2>9, <3>1
      <4>2. i = id_of'[program.children[top][j]]
        BY <2>5, <2>7, <4>1
      <4> QED
        BY <2>2, <4>2 DEF top
    <3>2. CASE i \in DOMAIN reactor_container
      <4>1. PICK r \in Assembled : \E j \in DOMAIN program.children[r] : i = id_of[program.children[r][j]]
        BY <2>3, <3>2 DEF ContainerInv
      <4>2. PICK j \in DOMAIN program.children[r] : i = id_of[program.children[r][j]]
        BY <4>1
      <4>3. i = id_of'[program.children[r][j]]
        BY <2>5, <2>8, <4>2
      <4> QED
        BY <2>2, <4>3
    <3> QED
      BY <2>10, <2>11, <3>1, <3>2
  <2>12. ASSUME NEW r \in Assembled', NEW j \in DOMAIN program.children[r]
         PROVE  /\ id_of'[program.children[r][j]] \in DOMAIN reactor_container'
                /\ reactor_container'[id_of'[program.children[r][j]]] = id_of'[r]
    <3>1. CASE r = top
      <4>1. id_of'[program.children[r][j]] \in kids
        BY <2>5, <2>7, <2>9, <2>12, <3>1
      <4> QED
        BY <2>6, <2>10, <3>1, <4>1
    <3>2. CASE r # top
      <4>1. r \in Assembled /\ program.children[r][j] \in Assembled
        BY <2>2, <2>8, <2>12, <3>2 DEF top
      <4>2. /\ id_of[program.children[r][j]] \in DOMAIN reactor_container
            /\ reactor_container[id_of[program.children[r][j]]] = id_of[r]
        BY <2>3, <2>12, <4>1 DEF ContainerInv
      <4>3. id_of'[program.children[r][j]] = id_of[program.children[r][j]] /\ id_of'[r] = id_of[r]
        BY <2>5, <4>1
      <4>4. id_of[program.children[r][j]] \notin kids
        <5> SUFFICES ASSUME NEW l \in DOMAIN program.children[top],
                            id_of[program.children[r][j]] = id_of[program.children[top][l]]
                     PROVE  FALSE
          BY <2>9
        <5>1. program.children[r][j] = program.children[top][l]
          BY <2>3, <2>7, <4>1 DEF IdsInv
        <5>2. r \in Reactors /\ top \in Reactors
          BY <2>2, <4>1, CountTypes DEF top
        <5>3. r = top
          BY <2>1, <2>12, <5>1, <5>2, KidsInTree
        <5> QED
          BY <3>2, <5>3
      <4> QED
        BY <2>10, <4>2, <4>3, <4>4
    <3> QED
      BY <3>1, <3>2
  <2> QED
    BY <1>1, <2>11, <2>12 DEF ContainerInv
<1> QED
  BY <1>2, <1>3

(* A sequence without positions is empty *)
LEMMA NothingInside ==
  ASSUME NEW S, NEW s \in Seq(S), \A i \in DOMAIN s : FALSE
  PROVE  s = <<>>
<1>1. Len(s) \in Nat /\ DOMAIN s = 1..Len(s)
  OBVIOUS
<1>2. Len(s) = 0
  <2> SUFFICES ASSUME Len(s) # 0 PROVE FALSE
    OBVIOUS
  <2>1. 1 \in DOMAIN s
    BY <1>1
  <2> QED
    BY <2>1
<1> QED
  BY <1>2

LEMMA FoundIsOwner ==
  ASSUME OrderInv, TreeInv, CounterTypes, IdsInv, PlaceInv, BoundInv, Fits, phase = "run",
         NEW q \in Assembled, NEW k \in DOMAIN program.components[q],
         NEW p \in Names(program.components[q][k]), NEW id \in Found(trigger_id[p])
  PROVE  id = id_of[q] \/ program.components[reactors[id]] = <<>>
<1> DEFINE t == trigger_id[p]
           R == id_of[q]
           len == Len(reactor_bound)
<1>1. stack = <<>> /\ program \in Programs
  BY DEF TreeInv, OrderInv, StackInv
<1>2. ~Creating /\ \A r, n, j : ~Uncounted(r, n, j)
  BY <1>1 DEF Creating, Uncounted
<1>3. Count = len /\ len \in Nat /\ DOMAIN reactor_bound = 1..len /\ \A i \in 1..len : reactor_bound[i] \in Nat
  BY <1>2, BoundTypes DEF BoundInv
<1> HIDE DEF len
<1>4. \A r \in Assembled : id_of[r] \in 0..(len - 1)
  BY <1>3 DEF IdsInv
<1>5. \A r \in Assembled : High(id_of[r]) = reactor_bound[id_of[r] + 1] /\ id_of[r] + 1 \in 1..len
  <2> SUFFICES ASSUME NEW r \in Assembled
               PROVE  High(id_of[r]) = reactor_bound[id_of[r] + 1] /\ id_of[r] + 1 \in 1..len
    OBVIOUS
  <2>1. id_of[r] < len /\ id_of[r] + 1 \in 1..len
    BY <1>3, <1>4
  <2> QED
    BY <2>1 DEF High, len
<1>6. \A i, j \in 1..len : i <= j => reactor_bound[i] <= reactor_bound[j]
  BY <1>3 DEF BoundInv, Ascending
<1>7. ASSUME NEW r \in Assembled, NEW i \in DOMAIN program.components[r], NEW a \in Names(program.components[r][i])
      PROVE  IsWithin(r, a)
  <2>1. PICK d \in Declarations : d = program.components[r][i]
    BY <1>1, CountTypes, DeclaredTypes
  <2>2. PICK j \in 0..Len(d.channels) : a = NameAt(d, j)
    BY <2>1, NameTypes
  <2> QED
    BY <1>2, <2>1, <2>2 DEF BoundInv
<1>8. t \in Low(R)..(reactor_bound[R + 1] - 1) /\ R \in 0..(len - 1) /\ R + 1 \in 1..len
  BY <1>4, <1>5, <1>7 DEF IsWithin
<1>9. Low(R) \in Nat /\ reactor_bound[R + 1] \in Nat
  <2>1. CASE R = 0
    BY <1>3, <1>8, <2>1 DEF Low
  <2>2. CASE R \in 1..len
    BY <1>3, <1>8, <2>2 DEF Low
  <2> QED
    BY <1>3, <1>8, <2>1, <2>2
<1>10. t \in Nat /\ Low(R) <= t /\ t < reactor_bound[R + 1]
  BY <1>8, <1>9
<1> HIDE DEF t
<1>11. ASSUME NEW i \in 1..len, i <= R
       PROVE  reactor_bound[i] <= t
  <2>1. R \in 1..len /\ R # 0
    BY <1>3, <1>8, <1>11
  <2>2. reactor_bound[i] <= reactor_bound[R] /\ reactor_bound[R] = Low(R)
    BY <1>6, <1>11, <2>1 DEF Low
  <2> QED
    BY <1>3, <1>9, <1>10, <2>2
<1>12. ASSUME NEW i \in 1..len, ~(i <= R)
       PROVE  t < reactor_bound[i]
  <2>1. R + 1 <= i
    BY <1>3, <1>8, <1>12
  <2>2. reactor_bound[R + 1] <= reactor_bound[i]
    BY <1>6, <1>8, <2>1
  <2> QED
    BY <1>3, <1>9, <1>10, <2>2
<1> DEFINE hits == {i \in DOMAIN reactor_bound : reactor_bound[i] = t}
           below == {i \in DOMAIN reactor_bound : reactor_bound[i] < t}
<1>13. CASE hits # {}
  <2>1. id \in 1..len /\ reactor_bound[id] = t
    BY <1>3, <1>13 DEF Found, t
  <2>2. id <= R
    BY <1>3, <1>10, <1>12, <2>1
  <2>3. CASE id # R
    <3>1. id \in 0..(Count - 1) /\ id + 1 \in 1..len /\ id + 1 <= R /\ id # 0
      BY <1>3, <1>8, <2>1, <2>2, <2>3
    <3>2. PICK x \in Assembled : id_of[x] = id
      BY <3>1 DEF IdsInv
    <3>3. reactors[id] = x
      BY <1>1, <3>2 DEF PlaceInv, InPlace
    <3>4. reactor_bound[id + 1] <= t
      BY <1>11, <3>1
    <3>5. ASSUME NEW i \in DOMAIN program.components[x]
          PROVE  FALSE
      <4>1. program.components[x][i].id \in Names(program.components[x][i])
        BY DEF Names
      <4>2. PICK a : a = trigger_id[program.components[x][i].id]
        OBVIOUS
      <4>3. a \in Low(id)..(High(id) - 1)
        BY <1>7, <3>2, <3>5, <4>1, <4>2 DEF IsWithin
      <4>4. Low(id) = t /\ High(id) = reactor_bound[id + 1]
        BY <1>5, <2>1, <3>1, <3>2 DEF Low
      <4> QED
        BY <1>3, <1>10, <3>1, <3>4, <4>3, <4>4
    <3>6. program.components[x] = <<>>
      <4>1. program.components[x] \in Seq(Declarations)
        BY <1>1, CountTypes, DeclaredTypes
      <4> QED
        BY <3>5, <4>1, NothingInside
    <3> QED
      BY <3>3, <3>6
  <2> QED
    BY <2>3
<1>14. CASE hits = {}
  <2>1. id = Cardinality(below)
    BY <1>14 DEF Found, t
  <2>2. below = 1..R
    <3>1. ASSUME NEW i \in 1..len
          PROVE  reactor_bound[i] < t <=> i <= R
      <4>1. reactor_bound[i] # t
        BY <1>3, <1>14
      <4> QED
        BY <1>3, <1>10, <1>11, <1>12, <4>1
    <3>2. \A i : i \in 1..R <=> i \in 1..len /\ i <= R
      BY <1>3, <1>8
    <3> HIDE DEF R
    <3> QED
      BY <1>3, <3>1, <3>2
  <2>3. Cardinality(1..R) = R
    <3>1. R \in Nat
      BY <1>3, <1>8
    <3> HIDE DEF R
    <3>2. Cardinality(1..R) = IF 1 > R THEN 0 ELSE R - 1 + 1
      BY <3>1, FS_Interval
    <3> QED
      BY <3>1, <3>2
  <2> QED
    BY <2>1, <2>2, <2>3
<1> QED
  BY <1>13, <1>14

(* A reaction of a reactor may set an input if and only if it is one of a child,
   and an output if and only if it is its own. *)
LEMMA MaySetIsRight ==
  ASSUME OrderInv, TreeInv, IdsInv, ContainerInv, Fits,
         NEW q \in Assembled, NEW r \in Assembled, NEW kind \in {"Input", "Output"}
  PROVE  MaySet(r, kind, id_of[q]) <=>
           IF kind = "Input" THEN q \in {program.children[r][j] : j \in DOMAIN program.children[r]} ELSE r = q
<1>1. program \in Programs /\ q \in Reactors /\ r \in Reactors /\ id_of[q] \in Nat /\ id_of[r] \in Nat
  <2>1. q \in Reactors /\ r \in Reactors /\ id_of[q] # Unset /\ id_of[r] # Unset
    BY DEF Assembled
  <2> QED
    BY <2>1 DEF OrderInv, StackInv
<1>2. \A x, y \in Assembled : id_of[x] = id_of[y] => x = y
  BY DEF IdsInv
<1>3. \A x \in Assembled : \A j \in DOMAIN program.children[x] : program.children[x][j] \in Assembled
  BY DEF TreeInv, ClosedUnderChildren
<1>4. CASE kind = "Output"
  BY <1>2, <1>4 DEF MaySet
<1>5. ASSUME NEW j \in DOMAIN program.children[r], q = program.children[r][j]
      PROVE  Container(id_of[q]) = id_of[r]
  BY <1>5 DEF ContainerInv, Container
<1>6. ASSUME Container(id_of[q]) = id_of[r]
      PROVE  \E j \in DOMAIN program.children[r] : q = program.children[r][j]
  <2>1. id_of[q] \in DOMAIN reactor_container
    BY <1>1, <1>6, ProgramsAssumption DEF Container
  <2>2. PICK x \in Assembled : \E j \in DOMAIN program.children[x] : id_of[q] = id_of[program.children[x][j]]
    BY <2>1 DEF ContainerInv
  <2>3. PICK j \in DOMAIN program.children[x] : id_of[q] = id_of[program.children[x][j]]
    BY <2>2
  <2>4. q = program.children[x][j]
    BY <1>2, <1>3, <2>3
  <2>5. reactor_container[id_of[q]] = id_of[x]
    BY <2>3 DEF ContainerInv
  <2>6. x = r
    BY <1>2, <1>6, <2>1, <2>5 DEF Container
  <2> QED
    BY <2>4, <2>6
<1>7. CASE kind = "Input"
  BY <1>5, <1>6, <1>7 DEF MaySet
<1> QED
  BY <1>4, <1>7

(* Of the ports of kind Output a debug build lets a reaction set just those of its
   own reactor, and of those of kind Input just those of its children, unless the
   registry takes the port for one of a reactor that has no components, for every
   tree of reactors.  References to ports of children are not checked. *)
THEOREM SetsAreCheckedHolds == Spec => []SetsAreChecked
<1>1. Init => CounterTypes /\ BoundInv /\ ContainerInv
  <2> SUFFICES ASSUME Init PROVE CounterTypes /\ BoundInv /\ ContainerInv
    OBVIOUS
  <2>1. Assembled = {}
    BY DEF Init, Assembled
  <2>2. Count = 0
    BY <2>1, FS_EmptySet DEF Count
  <2>3. ~Creating /\ reactor_bound = <<>>
    BY DEF Init, Creating, Top, Frame
  <2> QED
    BY <2>1, <2>2, <2>3, ProgramsAssumption DEF Init, CounterTypes, BoundInv, Ascending, ContainerInv
<1>2. OrderInv /\ CounterTypes /\ TreeInv /\ [Next]_vars => CounterTypes' /\ TreeInv'
  BY CounterTypesKept, TreeKept
<1>3. OrderInv /\ IdsInv /\ PlaceInv /\ [Next]_vars => IdsInv' /\ PlaceInv'
  BY IdsKept, PlacesKept
<1>4. OrderInv /\ TreeInv /\ CounterTypes /\ IdsInv /\ BoundInv /\ [Next]_vars => BoundInv'
  BY BoundsKept
<1>5. OrderInv /\ TreeInv /\ IdsInv /\ ContainerInv /\ [Next]_vars => ContainerInv'
  BY ContainersKept
<1>6. OrderInv /\ TreeInv /\ CounterTypes /\ IdsInv /\ PlaceInv /\ BoundInv /\ ContainerInv => SetsAreChecked
  <2> SUFFICES ASSUME OrderInv, TreeInv, CounterTypes, IdsInv, PlaceInv, BoundInv, ContainerInv,
                      phase = "run", Fits,
                      NEW q \in Assembled, NEW r \in Assembled, NEW n \in DOMAIN program.components[q],
                      NEW kind, kind = program.components[q][n].kind, kind \in {"Input", "Output"},
                      NEW p \in Ports \cap Names(program.components[q][n]), NEW id \in Found(trigger_id[p])
               PROVE  \/ MaySet(r, kind, id) <=>
                           IF kind = "Input" THEN q \in {program.children[r][j] : j \in DOMAIN program.children[r]}
                           ELSE r = q
                      \/ program.components[reactors[id]] = <<>>
    BY DEF SetsAreChecked, Fits, Count
  <2>1. id = id_of[q] \/ program.components[reactors[id]] = <<>>
    BY FoundIsOwner
  <2>2. MaySet(r, kind, id_of[q]) <=>
          IF kind = "Input" THEN q \in {program.children[r][j] : j \in DOMAIN program.children[r]} ELSE r = q
    BY MaySetIsRight
  <2>3. CASE id = id_of[q]
    BY <2>2, <2>3
  <2> QED
    BY <2>1, <2>3
<1> QED
  BY <1>1, <1>2, <1>3, <1>4, <1>5, <1>6, InitTree, InitPlaces, OrderInvHolds, PTL DEF Spec
=============================================================================
