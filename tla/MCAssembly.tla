----------------------------- MODULE MCAssembly -----------------------------
(* Instances of Assembly for TLC: a main reactor with children s, e and o; o
   has a child n, and n a child l.  s has an input si and an output so; e has no
   components; o, n and l have inputs oi, ni, li, and o and n have outputs oo, no.
   There may be a multiport m with channels m0 and m1, of inputs of s or, created
   last, of references of main to outputs of its children. *)
EXTENDS Assembly, SequencesExt

CONSTANTS main, s, e, o, n, l, si, so, oi, oo, ni, no, li, m, m0, m1, v

MCChildren ==
  [r \in Reactors |-> IF r = main THEN <<s, e, o>> ELSE IF r = o THEN <<n>>
                      ELSE IF r = n THEN <<l>> ELSE <<>>]

Single(c, kind) == [id |-> c, kind |-> kind, multiport |-> FALSE, channels |-> <<>>]

MCMultiport(kind, channels) == [id |-> m, kind |-> kind, multiport |-> TRUE, channels |-> channels]

(* The components, some more of s among them, and some of main *)
MCComponents(ofs, ofmain) ==
  [r \in Reactors |->
     IF r = s THEN <<Single(si, "Input")>> \o ofs \o <<Single(so, "Output")>>
     ELSE IF r = o THEN <<Single(oi, "Input"), Single(oo, "Output")>>
     ELSE IF r = n THEN <<Single(ni, "Input"), Single(no, "Output")>>
     ELSE IF r = l THEN <<Single(li, "Input")>>
     ELSE IF r = main THEN ofmain
     ELSE <<>>]

(* The bindings that reactor r may declare, some of which exclude each other. *)
MCBindable(r) ==
  IF r = main THEN {<<so, oi>>, <<oo, si>>}
  ELSE IF r = s THEN {<<si, so>>}
  ELSE IF r = o THEN {<<oi, ni>>, <<no, oo>>, <<oi, oo>>}
  ELSE IF r = n THEN {<<ni, li>>, <<ni, no>>}
  ELSE {}

Pair(b) == [up |-> <<b[1]>>, down |-> <<b[2]>>, repeat |-> FALSE]

Orders(B) == UNION {SetToSeqs(S) : S \in SUBSET {Pair(b) : b \in B}}

MCBindings ==
  {[r \in Reactors |-> IF r = main THEN bm ELSE IF r = s THEN bs ELSE IF r = o THEN bo
                       ELSE IF r = n THEN bn ELSE <<>>]
     : bm \in Orders(MCBindable(main)), bs \in Orders(MCBindable(s)),
       bo \in Orders(MCBindable(o)), bn \in Orders(MCBindable(n))}

(* Rows that the main reactor may bind: none, or one of two or no upstream ports
   to three inputs. *)
MCRows ==
  {<<>>} \cup {<<[up |-> up, down |-> <<oi, m0, si>>, repeat |-> repeat]>>
                : up \in {<<so, oo>>, <<>>}, repeat \in BOOLEAN}

(* Any bindings of single ports without the multiport, and any of the rows with
   a multiport of up to two channels. *)
MCPrograms ==
  {[children |-> MCChildren, components |-> MCComponents(<<>>, <<>>), bindings |-> b] : b \in MCBindings}
  \cup
  {[children |-> MCChildren, components |-> c,
    bindings |-> [r \in Reactors |-> IF r = main THEN rows ELSE <<>>]]
      : c \in UNION {{MCComponents(<<MCMultiport("Input", channels)>>, <<>>),
                       MCComponents(<<>>, <<MCMultiport("ChildOutputReference", channels)>>)}
                      : channels \in {<<>>, <<m0>>, <<m0, m1>>}},
        rows \in MCRows}
=============================================================================
