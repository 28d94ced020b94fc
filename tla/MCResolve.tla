----------------------------- MODULE MCResolve -----------------------------
(* A small instance of Resolve: a channel and three claims, a chain the hub   *)
(* reorganises once, and the pairs of calls that meet on shared outputs.      *)
EXTENDS Resolve

CONSTANTS c1, c2, ch, s1, s2, u, cb

MCCalls == {c1, c2}
MCTx == {ch, s1, s2, u, cb}
MCChannelOf == [t \in MCTx |-> IF t \in {s1, s2} THEN ch ELSE NoTx]

\* Heights 0 to 2, a fork of the same height, and a longer one: in its block 2
\* the streams are at other positions, and u moves to its block 3.
MCChains == << << <<cb>>, <<ch, cb>>, <<cb, s1, u, s2>> >>,
               << <<cb>>, <<ch, cb>>, <<s1, u>> >>,
               << <<cb>>, <<ch, cb>>, <<s2, s1>>, <<u>> >> >>

Job(kind, ask) == [kind |-> kind, ask |-> ask, supports |-> <<>>, inChannel |-> FALSE]

Pair(a, b) == [p \in MCCalls |-> IF p = c1 THEN a ELSE b]

MCScenarios ==
    {Pair([Job("resolve", <<s1, s2>>) EXCEPT !.inChannel = TRUE], Job("search", <<s1>>)),
     Pair(Job("purchases", <<s1, s2>>), Job("search", <<ch, u>>)),
     Pair(Job("lookup", <<s2>>), Job("search", <<s2>>)),
     Pair([Job("local", <<s1>>) EXCEPT !.supports = <<ch>>], Job("collection", <<s1, u>>))}
=============================================================================
