------------------------------ MODULE TaskGraph ------------------------------
(***************************************************************************)
(* The Graph class of modules/misc/src/graph.ts as it is stored: every     *)
(* vertex has a list of neighbours and a list of back neighbours.  The     *)
(* lists are read sorted, so only how often a vertex occurs in one matters:*)
(* g.out[u][v] is how often v is in the neighbours of u, g.in[v][u] how    *)
(* often u is in the back neighbours of v.                                 *)
(***************************************************************************)
EXTENDS DependencyGraph

NoLinks == [u \in Vertices |-> [v \in Vertices |-> 0]]
EmptyGraph == [vertices |-> {}, out |-> NoLinks, in |-> NoLinks]

AddVertex(g, v) == [g EXCEPT !.vertices = @ \cup {v}]

\* edge(), from u to each v as often as times[v] says; both become vertices.
AddEdges(g, u, times) ==
    [vertices |-> g.vertices \cup UNION {{u, v} : v \in {w \in Vertices : times[w] > 0}},
     out |-> [g.out EXCEPT ![u] = [v \in Vertices |-> g.out[u][v] + times[v]]],
     in |-> [v \in Vertices |-> [g.in[v] EXCEPT ![u] = @ + times[v]]]]

\* a list of n occurrences after splicing out one, k times
Spliced(n, k) == IF n > k THEN n - k ELSE 0

\* mutant: each neighbour forgets the removed vertex only once
RemoveVertex_once(g, v) ==
    [vertices |-> g.vertices \ {v},
     out |-> [u \in Vertices |-> [w \in Vertices |->
                IF u = v THEN 0 ELSE IF w = v THEN Spliced(g.out[u][v], 1) ELSE g.out[u][w]]],
     in |-> [u \in Vertices |-> [w \in Vertices |->
                IF u = v THEN 0 ELSE IF w = v THEN Spliced(g.in[u][v], 1) ELSE g.in[u][w]]]]

\* remove(): every occurrence of u among the neighbours and back neighbours of v
\* makes u forget one occurrence of v in each of its own lists.
RemoveVertex(g, v) ==
    LET times(u) == g.in[v][u] + g.out[v][u] IN
    [vertices |-> g.vertices \ {v},
     out |-> [u \in Vertices |-> [w \in Vertices |->
                IF u = v THEN 0
                ELSE IF w = v THEN Spliced(g.out[u][v], times(u)) ELSE g.out[u][w]]],
     in |-> [u \in Vertices |-> [w \in Vertices |->
                IF u = v THEN 0
                ELSE IF w = v THEN Spliced(g.in[u][v], times(u)) ELSE g.in[u][w]]]]

\* copy(): the edges are made anew from the neighbour lists.
Copy(g) ==
    [vertices |-> g.vertices, out |-> g.out,
     in |-> [v \in Vertices |-> [u \in Vertices |-> g.out[u][v]]]]

\* how many occurrences of the vertices of a set are in a list
Occurrences(list) ==
    LET sum[S \in SUBSET Vertices] ==
            IF S = {} THEN 0
            ELSE LET v == CHOOSE x \in S : TRUE IN list[v] + sum[S \ {v}]
    IN sum

\* neighbors.length
ListLength(list) == Occurrences(list)[Vertices]

\* mutant: counts each neighbour once
Settled_distinct(g) ==
    LET degree == [v \in Vertices |-> Cardinality({u \in Vertices : g.out[v][u] > 0})]
        peel[s \in [ready : SUBSET Vertices, degree : [Vertices -> Int],
                    seen : SUBSET Vertices]] ==
            IF s.ready = {} THEN s.seen
            ELSE LET v == CHOOSE x \in s.ready : TRUE
                     left == [u \in Vertices |-> s.degree[u] - g.in[v][u]]
                     new == {u \in Vertices : s.degree[u] > 0 /\ left[u] <= 0}
                 IN peel[[ready |-> (s.ready \ {v}) \cup new, degree |-> left,
                          seen |-> s.seen \cup {v}]]
    IN peel[[ready |-> {v \in g.vertices : degree[v] = 0}, degree |-> degree, seen |-> {}]]

\* The vertices isCyclic() reaches: it takes those without unseen neighbours off
\* a list, each lowers the counter of its back neighbours, once per occurrence,
\* and a counter that comes by zero puts its vertex on the list.
Settled(g) ==
    LET degree == [v \in Vertices |-> ListLength(g.out[v])]
        peel[s \in [ready : SUBSET Vertices, degree : [Vertices -> Int],
                    seen : SUBSET Vertices]] ==
            IF s.ready = {} THEN s.seen
            ELSE LET v == CHOOSE x \in s.ready : TRUE
                     left == [u \in Vertices |-> s.degree[u] - g.in[v][u]]
                     new == {u \in Vertices : s.degree[u] > 0 /\ left[u] <= 0}
                 IN peel[[ready |-> (s.ready \ {v}) \cup new, degree |-> left,
                          seen |-> s.seen \cup {v}]]
    IN peel[[ready |-> {v \in g.vertices : degree[v] = 0}, degree |-> degree, seen |-> {}]]

IsCyclic(g) == Cardinality(Settled(g)) # Cardinality(g.vertices)

\* traverseFrom(): what a depth-first search along the lists visits.
TraverseFrom(lists, start) ==
    LET visit[s \in [todo : SUBSET Vertices, seen : SUBSET Vertices]] ==
            IF s.todo = {} THEN s.seen
            ELSE LET v == CHOOSE x \in s.todo : TRUE
                     next == {u \in Vertices : lists[v][u] > 0}
                     seen == s.seen \cup {v}
                 IN visit[[todo |-> (s.todo \cup next) \ seen, seen |-> seen]]
    IN visit[[todo |-> start, seen |-> {}]]

\* The graph as a set of edges.
EdgesOf(g) ==
    UNION {{<<u, v, i>> : i \in 1 .. g.out[u][v]} : u \in Vertices, v \in Vertices}
=============================================================================
