--------------------------- MODULE MCReactionWave ---------------------------
(* Instances of WaveValues for TLC: a main reactor A with reactions a1, a2
   and a timer t, which has the synthesized reactions boot and again; a child
   B with an input i, an output q and reactions b1, b2; a child C with a
   multiport input m of two channels, an output k and a reaction c. *)
EXTENDS WaveValues

CONSTANTS a1, a2, boot, again, b1, b2, c, i, q, k, m, m0, m1, STARTUP, t

MCReactorOf ==
  [r \in Reactions |-> IF r \in {b1, b2} THEN "B" ELSE IF r = c THEN "C" ELSE "A"]
MCRank == [r \in Reactions |-> IF r \in {a2, b2} THEN 1 ELSE IF r = boot THEN 2
                               ELSE IF r = again THEN 3 ELSE 0]
MCChannels == [b \in Banks |-> {m0, m1}]

(* What varies: who sets i, how b2 depends on it, how C is fed, and what is
   done with the output of C, including a cycle. *)
MCPrograms ==
  {[triggers |-> {<<STARTUP, boot>>, <<t, again>>, <<STARTUP, a1>>, <<i, b1>>, <<m, c>>}
                 \cup onTimer \cup onInput \cup onOutput,
    uses     |-> (IF onInput = {} THEN {<<i, b2>>} ELSE {})
                 \cup readOutput,
    effects  |-> {<<boot, t>>, <<a1, i>>, <<b1, q>>, <<c, k>>} \cup setters,
    bindings |-> IF <<a2, m>> \in setters THEN {} ELSE {<<q, m0>>}]
     : onTimer \in {{<<t, a2>>}, {<<t, b2>>}, {<<t, a2>>, <<t, b2>>, <<t, c>>}},
       onInput \in {{}, {<<i, b2>>}},
       onOutput \in {{}, {<<k, a2>>}},
       readOutput \in {{}, {<<k, a1>>}, {<<k, a2>>}},
       setters \in {{}, {<<a2, i>>}, {<<a2, m>>}, {<<b2, q>>}}}
=============================================================================
