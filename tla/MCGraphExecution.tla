-------------------------- MODULE MCGraphExecution --------------------------
(***************************************************************************)
(* Bounds for TLC: every graph over four vertices, up to renaming, and     *)
(* graphs of three vertices with parallel edges and batch schedulers.      *)
(***************************************************************************)
EXTENDS GraphExecution

CONSTANTS a, b, c, d

\* The pairs <<from, to>> of a vertex order: every DAG is, up to renaming, a
\* set of edges that point down this order.
Down4 == {<<b, a>>, <<c, a>>, <<c, b>>, <<d, a>>, <<d, b>>, <<d, c>>}
Down3 == {<<b, a>>, <<c, a>>, <<c, b>>}

Single(pairs) == {<<p[1], p[2], 1>> : p \in pairs}

\* every DAG over four vertices
AllDags4 == {[nodes |-> {a, b, c, d}, edges |-> Single(ps)] : ps \in SUBSET Down4}

\* every DAG over two or three vertices, with one or two copies of an edge
MultiDags ==
    {[nodes |-> {a, b, c}, edges |-> E] :
        E \in SUBSET {<<p[1], p[2], k>> : p \in Down3, k \in {1, 2}}}
    \cup {[nodes |-> {a, b}, edges |-> E] :
        E \in SUBSET {<<b, a, k>> : k \in {1, 2}}}

SomeGraphs == AllDags4 \cup MultiDags

\* sub-graphs over a batch: none, one edge, a chain, a doubled edge, a fan
SomeBatching ==
    {{}, {<<a, b, 1>>}, {<<a, b, 1>>, <<b, c, 1>>}, {<<b, c, 1>>, <<b, c, 2>>},
     {<<c, a, 1>>, <<c, b, 1>>}}
=============================================================================
