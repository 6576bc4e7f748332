---------------------------- MODULE Planning_proofs ----------------------------
(***************************************************************************)
(* Proofs about Planning, for any catalog of tasks and any request.  First *)
(* about the graph: its two lists of every edge agree, traverseFrom()      *)
(* visits what is reachable and nothing else, isCyclic() is right.  Then   *)
(* about the planning: cycles are found, a plan is what the request needs, *)
(* and what a task reads is produced before it runs.                       *)
(***************************************************************************)
EXTENDS Planning, Recursion, SequenceTheorems

TaskGraphs == [vertices : SUBSET Vertices, out : Links, in : Links]

\* The lists of a graph agree and lead to its vertices.
Agrees(g) ==
    /\ g \in TaskGraphs
    /\ \A u, v \in Vertices :
        /\ g.out[u][v] = g.in[v][u]
        /\ g.out[u][v] > 0 => {u, v} \subseteq g.vertices

\* A graph without vertices agrees.
LEMMA EmptyAgrees == Agrees(EmptyGraph)
  BY DEF Agrees, TaskGraphs, EmptyGraph, NoLinks, Links

\* Graph.vertex() keeps the lists.
LEMMA AddVertexAgrees == ASSUME NEW g, Agrees(g), NEW v \in Vertices PROVE Agrees(AddVertex(g, v))
  BY DEF Agrees, TaskGraphs, AddVertex

\* Graph.edge() puts the same number of occurrences in both lists.
LEMMA AddEdgesAgrees ==
    ASSUME NEW g, Agrees(g), NEW u \in Vertices, NEW times \in [Vertices -> Nat]
    PROVE  /\ Agrees(AddEdges(g, u, times))
           /\ g.vertices \subseteq AddEdges(g, u, times).vertices
           /\ \A x, y \in Vertices : AddEdges(g, u, times).out[x][y]
                                      = IF x = u THEN g.out[x][y] + times[y] ELSE g.out[x][y]
  <1> DEFINE h == AddEdges(g, u, times)
  <1>1. g.out \in Links /\ g.in \in Links /\ g.vertices \subseteq Vertices BY DEF Agrees, TaskGraphs
  <1>2. \A x, y \in Vertices :
            /\ h.out[x][y] = IF x = u THEN g.out[x][y] + times[y] ELSE g.out[x][y]
            /\ h.in[x][y] = IF y = u THEN g.in[x][y] + times[x] ELSE g.in[x][y]
    BY <1>1 DEF AddEdges, Links
  <1>3. h.out \in Links
    <2>1. \A x, y \in Vertices : g.out[x][y] + times[y] \in Nat BY <1>1 DEF Links
    <2>2. h.out = [g.out EXCEPT ![u] = [v \in Vertices |-> g.out[u][v] + times[v]]] BY DEF AddEdges
    <2>3. [v \in Vertices |-> g.out[u][v] + times[v]] \in [Vertices -> Nat] BY <2>1
    <2> QED BY <1>1, <2>2, <2>3 DEF Links
  <1>4. h.in \in Links
    <2>1. \A x \in Vertices : [g.in[x] EXCEPT ![u] = @ + times[x]] \in [Vertices -> Nat] BY <1>1 DEF Links
    <2>2. h.in = [v \in Vertices |-> [g.in[v] EXCEPT ![u] = @ + times[v]]] BY DEF AddEdges
    <2> QED BY <2>1, <2>2 DEF Links
  <1>5. h.vertices = g.vertices \cup UNION {{u, v} : v \in {w \in Vertices : times[w] > 0}} BY DEF AddEdges
  <1>6. h.vertices \subseteq Vertices /\ g.vertices \subseteq h.vertices
        /\ \A v \in Vertices : times[v] > 0 => {u, v} \subseteq h.vertices
    BY <1>1, <1>5
  <1>7. h \in TaskGraphs BY <1>3, <1>4, <1>6 DEF AddEdges, TaskGraphs
  <1> HIDE DEF h
  <1>8. ASSUME NEW x \in Vertices, NEW y \in Vertices
        PROVE  h.out[x][y] = h.in[y][x] /\ (h.out[x][y] > 0 => {x, y} \subseteq h.vertices)
    <2>1. g.out[x][y] = g.in[y][x] /\ (g.out[x][y] > 0 => {x, y} \subseteq g.vertices) BY DEF Agrees
    <2>2. g.out[x][y] \in Nat /\ times[y] \in Nat BY <1>1 DEF Links
    <2>3. CASE x = u
      <3>1. h.out[x][y] = g.out[x][y] + times[y] BY <1>2, <2>3
      <3>2. \A a, b \in Nat : a + b > 0 => a > 0 \/ b > 0 OBVIOUS
      <3>3. h.out[x][y] > 0 => g.out[x][y] > 0 \/ times[y] > 0 BY <2>2, <3>1, <3>2
      <3> QED BY <1>2, <1>6, <2>1, <2>3, <3>3
    <2>4. CASE x # u BY <1>2, <1>6, <2>1, <2>4
    <2> QED BY <2>3, <2>4
  <1>9. Agrees(h) BY <1>7, <1>8 DEF Agrees
  <1> QED BY <1>2, <1>6, <1>9 DEF h

\* Graph.copy() makes lists that agree.
LEMMA CopyAgrees == ASSUME NEW g, Agrees(g) PROVE Agrees(Copy(g))
  <1> DEFINE h == Copy(g)
  <1>1. g.out \in Links /\ g.in \in Links /\ g.vertices \subseteq Vertices BY DEF Agrees, TaskGraphs
  <1>2. /\ h = [vertices |-> h.vertices, out |-> h.out, in |-> h.in]
        /\ h.vertices = g.vertices /\ h.out = g.out
        /\ h.in = [v \in Vertices |-> [u \in Vertices |-> g.out[u][v]]]
    BY DEF Copy
  <1> HIDE DEF h
  <1>3. \A u, v \in Vertices : g.out[u][v] \in Nat BY <1>1 DEF Links
  <1>4. \A v \in Vertices : [u \in Vertices |-> g.out[u][v]] \in [Vertices -> Nat] BY <1>3
  <1>5. h.in \in Links BY <1>2, <1>4 DEF Links
  <1>6. h \in TaskGraphs BY <1>1, <1>2, <1>5 DEF TaskGraphs
  <1>7. \A u, v \in Vertices : h.out[u][v] = h.in[v][u] /\ (h.out[u][v] > 0 => {u, v} \subseteq h.vertices)
    BY <1>2 DEF Agrees
  <1>8. Agrees(h) BY <1>6, <1>7 DEF Agrees
  <1> QED BY <1>8 DEF h

\* Graph.remove() leaves no occurrence of the vertex in any list, and touches no other.
LEMMA RemoveVertexAgrees ==
    ASSUME NEW g, Agrees(g), NEW v \in Vertices
    PROVE  /\ Agrees(RemoveVertex(g, v))
           /\ RemoveVertex(g, v).vertices = g.vertices \ {v}
           /\ \A x, y \in Vertices :
                RemoveVertex(g, v).out[x][y] = IF x = v \/ y = v THEN 0 ELSE g.out[x][y]
  <1> DEFINE h == RemoveVertex(g, v)
             times(u) == g.in[v][u] + g.out[v][u]
  <1>1. g.out \in Links /\ g.in \in Links /\ g.vertices \subseteq Vertices BY DEF Agrees, TaskGraphs
  <1>2. \A x, y \in Vertices : g.out[x][y] \in Nat /\ g.in[x][y] \in Nat BY <1>1 DEF Links
  <1>3. \A n, k \in Nat : Spliced(n, k) \in Nat /\ (n <= k => Spliced(n, k) = 0) BY DEF Spliced
  <1>4. \A u \in Vertices : times(u) \in Nat /\ g.out[u][v] <= times(u) /\ g.in[u][v] <= times(u)
    <2> TAKE u \in Vertices
    <2>1. g.out[u][v] = g.in[v][u] /\ g.in[u][v] = g.out[v][u] BY DEF Agrees
    <2>2. \A a, b \in Nat : a + b \in Nat /\ a <= a + b /\ b <= a + b OBVIOUS
    <2> QED BY <1>2, <2>1, <2>2
  <1>5. \A u \in Vertices : Spliced(g.out[u][v], times(u)) = 0 /\ Spliced(g.in[u][v], times(u)) = 0
    BY <1>2, <1>3, <1>4
  <1>6. /\ h.out = [u \in Vertices |-> [w \in Vertices |->
                        IF u = v THEN 0
                        ELSE IF w = v THEN Spliced(g.out[u][v], times(u)) ELSE g.out[u][w]]]
        /\ h.in = [u \in Vertices |-> [w \in Vertices |->
                        IF u = v THEN 0
                        ELSE IF w = v THEN Spliced(g.in[u][v], times(u)) ELSE g.in[u][w]]]
        /\ h.vertices = g.vertices \ {v}
        /\ h = [vertices |-> h.vertices, out |-> h.out, in |-> h.in]
    BY DEF RemoveVertex
  <1> HIDE DEF h, times
  <1>7. \A x, y \in Vertices :
            /\ h.out[x][y] = IF x = v \/ y = v THEN 0 ELSE g.out[x][y]
            /\ h.in[x][y] = IF x = v \/ y = v THEN 0 ELSE g.in[x][y]
    BY <1>5, <1>6
  <1>8. h.out \in Links /\ h.in \in Links
    <2>1. DOMAIN h.out = Vertices /\ DOMAIN h.in = Vertices BY <1>6
    <2>2. \A x, y \in Vertices : h.out[x][y] \in Nat /\ h.in[x][y] \in Nat BY <1>2, <1>7
    <2>3. \A x \in Vertices : h.out[x] \in [Vertices -> Nat] /\ h.in[x] \in [Vertices -> Nat]
      BY <1>6, <2>2
    <2> QED BY <1>6, <2>3 DEF Links
  <1>9. h \in TaskGraphs BY <1>1, <1>6, <1>8 DEF TaskGraphs
  <1>10. \A x, y \in Vertices : h.out[x][y] = h.in[y][x] /\ (h.out[x][y] > 0 => {x, y} \subseteq h.vertices)
    BY <1>6, <1>7 DEF Agrees
  <1>11. Agrees(h) BY <1>9, <1>10 DEF Agrees
  <1>12. h.vertices = g.vertices \ {v} /\ \A x, y \in Vertices : h.out[x][y] = IF x = v \/ y = v THEN 0 ELSE g.out[x][y]
    BY <1>6, <1>7
  <1> QED BY <1>11, <1>12 DEF h


-----------------------------------------------------------------------------
(* traverseFrom()                                                          *)

\* C holds every neighbour of its members.
ClosedUnder(lists, C) == \A u \in C, v \in Vertices : lists[u][v] > 0 => v \in C

\* The states of a traversal.
Visits == [todo : SUBSET Vertices, seen : SUBSET Vertices]

\* The next state: a vertex that is to do is seen.
Visited(lists, s) ==
    LET v == CHOOSE x \in s.todo : TRUE
        follow == {u \in Vertices : lists[v][u] > 0}
        seen == s.seen \cup {v}
    IN [todo |-> (s.todo \cup follow) \ seen, seen |-> seen]

\* What the traversal must have of a vertex that is to do.
LEMMA VisitedIs ==
    ASSUME NEW lists, NEW s \in Visits, s.todo # {}
    PROVE  \E v \in s.todo :
              /\ Visited(lists, s) \in Visits
              /\ Visited(lists, s).seen = s.seen \cup {v}
              /\ Visited(lists, s).todo = (s.todo \cup {u \in Vertices : lists[v][u] > 0}) \ (s.seen \cup {v})
  <1> DEFINE v == CHOOSE x \in s.todo : TRUE
  <1>1. v \in s.todo OBVIOUS
  <1>2. v \in Vertices /\ s.seen \subseteq Vertices /\ s.todo \subseteq Vertices BY <1>1 DEF Visits
  <1>3. Visited(lists, s) = [todo |-> (s.todo \cup {u \in Vertices : lists[v][u] > 0}) \ (s.seen \cup {v}),
                             seen |-> s.seen \cup {v}]
    BY DEF Visited
  <1> HIDE DEF v
  <1> QED BY <1>1, <1>2, <1>3 DEF Visits

\* How far a traversal is from its end.
VisitsLeft == [s \in Visits |-> 2 * Cardinality(Vertices \ s.seen) + (IF s.todo \cap s.seen = {} THEN 0 ELSE 1)]

LEMMA VisitsLeftDrops ==
    ASSUME NEW lists
    PROVE  /\ VisitsLeft \in [Visits -> Nat]
           /\ \A s \in Visits : s.todo # {} =>
                Visited(lists, s) \in Visits /\ VisitsLeft[Visited(lists, s)] < VisitsLeft[s]
  <1>1. ASSUME NEW s \in Visits
        PROVE  /\ IsFiniteSet(Vertices \ s.seen) /\ Cardinality(Vertices \ s.seen) \in Nat
               /\ VisitsLeft[s] = 2 * Cardinality(Vertices \ s.seen) + (IF s.todo \cap s.seen = {} THEN 0 ELSE 1)
    <2>1. IsFiniteSet(Vertices \ s.seen) BY VerticesAssumption, FS_Subset
    <2> QED BY <2>1, FS_CardinalityType DEF VisitsLeft
  <1>2. VisitsLeft \in [Visits -> Nat]
    <2>1. \A n \in Nat : 2 * n + 0 \in Nat /\ 2 * n + 1 \in Nat OBVIOUS
    <2> QED BY <1>1, <2>1 DEF VisitsLeft
  <1>3. ASSUME NEW s \in Visits, s.todo # {}
        PROVE  Visited(lists, s) \in Visits /\ VisitsLeft[Visited(lists, s)] < VisitsLeft[s]
    <2> DEFINE t == Visited(lists, s)
    <2>1. PICK v \in s.todo : t \in Visits /\ t.seen = s.seen \cup {v} /\ t.todo \cap t.seen = {}
      BY <1>3, VisitedIs
    <2> HIDE DEF t
    <2>2. VisitsLeft[t] = 2 * Cardinality(Vertices \ t.seen)
      <3>1. \A n \in Nat : 2 * n + 0 = 2 * n OBVIOUS
      <3> QED BY <1>1, <2>1, <3>1
    <2>3. CASE v \in s.seen
      <3>1. t.seen = s.seen /\ s.todo \cap s.seen # {} BY <2>1, <2>3
      <3>2. \A n \in Nat : 2 * n < 2 * n + 1 OBVIOUS
      <3>3. VisitsLeft[s] = 2 * Cardinality(Vertices \ s.seen) + 1 BY <1>1, <3>1
      <3> QED BY <1>1, <2>1, <2>2, <3>1, <3>2, <3>3 DEF t
    <2>4. CASE v \notin s.seen
      <3>1. v \in Vertices \ s.seen /\ Vertices \ t.seen = (Vertices \ s.seen) \ {v} BY <2>1, <2>4 DEF Visits
      <3>2. Cardinality(Vertices \ t.seen) = Cardinality(Vertices \ s.seen) - 1
        <4> DEFINE S == Vertices \ s.seen
        <4>1. v \in S /\ IsFiniteSet(S) /\ Vertices \ t.seen = S \ {v} BY <1>1, <3>1
        <4> HIDE DEF S
        <4>2. Cardinality(S \ {v}) = Cardinality(S) - 1 BY <4>1, FS_RemoveElement
        <4> QED BY <4>1, <4>2 DEF S
      <3>3. \A n \in Nat, k \in {0, 1} : 2 * (n - 1) < 2 * n + k OBVIOUS
      <3>4. VisitsLeft[t] = 2 * (Cardinality(Vertices \ s.seen) - 1) BY <2>2, <3>2
      <3>5. VisitsLeft[t] < VisitsLeft[s] BY <1>1, <3>3, <3>4
      <3> QED BY <2>1, <3>5 DEF t
    <2> QED BY <2>3, <2>4
  <1> QED BY <1>2, <1>3

\* What traverseFrom() is at the end of its recursion, and before.
LEMMA TraversalIs ==
    ASSUME NEW lists
    PROVE  \E visit :
              /\ \A start : TraverseFrom(lists, start) = visit[[todo |-> start, seen |-> {}]]
              /\ \A s \in Visits : visit[s] = IF s.todo = {} THEN s.seen ELSE visit[Visited(lists, s)]
  <1> DEFINE step == [g \in [Visits -> SUBSET Vertices] |->
                        [s \in Visits |-> IF s.todo = {} THEN s.seen ELSE g[Visited(lists, s)]]]
             visit == CHOOSE f : f = [s \in Visits |-> IF s.todo = {} THEN s.seen ELSE f[Visited(lists, s)]]
  <1>1. \A start : TraverseFrom(lists, start) = visit[[todo |-> start, seen |-> {}]]
    BY DEF TraverseFrom, Visits, Visited
  <1>2. \E f \in [Visits -> SUBSET Vertices] : f = step[f]
    <2>1. step \in [[Visits -> SUBSET Vertices] -> [Visits -> SUBSET Vertices]]
      <3>1. ASSUME NEW g \in [Visits -> SUBSET Vertices], NEW s \in Visits
            PROVE  (IF s.todo = {} THEN s.seen ELSE g[Visited(lists, s)]) \in SUBSET Vertices
        BY VisitsLeftDrops DEF Visits
      <3> QED BY <3>1
    <2>2. ASSUME NEW g \in [Visits -> SUBSET Vertices], NEW h \in [Visits -> SUBSET Vertices], NEW x \in Visits,
                 \A y \in Visits : VisitsLeft[y] < VisitsLeft[x] => g[y] = h[y]
          PROVE  step[g][x] = step[h][x]
      BY <2>2, VisitsLeftDrops
    <2>3. IsRecursive(step, Visits, SUBSET Vertices, VisitsLeft)
      <3>1. VisitsLeft \in [Visits -> Nat] BY VisitsLeftDrops
      <3> HIDE DEF step
      <3> QED BY <2>1, <2>2, <3>1 DEF IsRecursive
    <2> HIDE DEF step
    <2> QED BY <2>3, RecursiveFunction
  <1>3. \E f : f = [s \in Visits |-> IF s.todo = {} THEN s.seen ELSE f[Visited(lists, s)]]
    BY <1>2
  <1>4. visit = [s \in Visits |-> IF s.todo = {} THEN s.seen ELSE visit[Visited(lists, s)]]
    BY <1>3
  <1> HIDE DEF visit
  <1>5. \A s \in Visits : visit[s] = IF s.todo = {} THEN s.seen ELSE visit[Visited(lists, s)] BY <1>4
  <1> QED BY <1>1, <1>5

\* A traversal that reached s ends with what it saw, what was to do, and what is to be
\* reached from there, and nothing else.
EndsWith(lists, s, result) ==
    /\ s.seen \cup s.todo \subseteq result /\ result \subseteq Vertices
    /\ (\A u \in s.seen, v \in Vertices : lists[u][v] > 0 => v \in s.seen \cup s.todo)
            => ClosedUnder(lists, result)
    /\ \A C \in SUBSET Vertices :
            s.seen \cup s.todo \subseteq C /\ ClosedUnder(lists, C) => result \subseteq C

\* traverseFrom() visits the least set of vertices that contains the start and all
\* neighbours of its members.
LEMMA TraversalIsLeast ==
    ASSUME NEW lists, NEW start \in SUBSET Vertices
    PROVE  /\ start \subseteq TraverseFrom(lists, start) /\ TraverseFrom(lists, start) \subseteq Vertices
           /\ ClosedUnder(lists, TraverseFrom(lists, start))
           /\ \A C \in SUBSET Vertices :
                start \subseteq C /\ ClosedUnder(lists, C) => TraverseFrom(lists, start) \subseteq C
  <1>1. PICK visit :
            /\ \A from : TraverseFrom(lists, from) = visit[[todo |-> from, seen |-> {}]]
            /\ \A s \in Visits : visit[s] = IF s.todo = {} THEN s.seen ELSE visit[Visited(lists, s)]
    BY TraversalIs
  <1> DEFINE good == {s \in Visits : EndsWith(lists, s, visit[s])}
  <1>2. ASSUME NEW s \in Visits, \A t \in Visits : VisitsLeft[t] < VisitsLeft[s] => t \in good
        PROVE  s \in good
    <2>1. CASE s.todo = {}
      <3>1. visit[s] = s.seen BY <1>1, <2>1
      <3> QED BY <2>1, <3>1 DEF EndsWith, ClosedUnder, Visits
    <2>2. CASE s.todo # {}
      <3> DEFINE t == Visited(lists, s)
      <3>1. t \in Visits /\ VisitsLeft[t] < VisitsLeft[s] BY <2>2, VisitsLeftDrops
      <3>2. EndsWith(lists, t, visit[t]) BY <1>2, <3>1
      <3>3. visit[s] = visit[t] BY <1>1, <2>2
      <3>4. PICK v \in s.todo :
                t.seen = s.seen \cup {v}
                /\ t.todo = (s.todo \cup {u \in Vertices : lists[v][u] > 0}) \ (s.seen \cup {v})
        BY <2>2, VisitedIs
      <3> HIDE DEF t
      <3>5. t.seen \cup t.todo = s.seen \cup s.todo \cup {u \in Vertices : lists[v][u] > 0} BY <3>4
      <3>6. (\A u \in s.seen, w \in Vertices : lists[u][w] > 0 => w \in s.seen \cup s.todo)
                => (\A u \in t.seen, w \in Vertices : lists[u][w] > 0 => w \in t.seen \cup t.todo)
        BY <3>4, <3>5
      <3>7. \A C \in SUBSET Vertices :
                s.seen \cup s.todo \subseteq C /\ ClosedUnder(lists, C) => t.seen \cup t.todo \subseteq C
        BY <3>4, <3>5 DEF ClosedUnder
      <3>8. EndsWith(lists, s, visit[t]) BY <3>2, <3>5, <3>6, <3>7 DEF EndsWith
      <3> QED BY <3>3, <3>8
    <2> QED BY <2>1, <2>2
  <1>3. VisitsLeft \in [Visits -> Nat] BY VisitsLeftDrops
  <1>4. \A s \in Visits : s \in good
    <2> HIDE DEF good
    <2> QED BY <1>2, <1>3, MeasureInduction
  <1> DEFINE first == [todo |-> start, seen |-> {}]
  <1>5. first \in Visits /\ first.todo = start /\ first.seen = {} BY DEF Visits
  <1>6. EndsWith(lists, first, TraverseFrom(lists, start)) BY <1>1, <1>4, <1>5
  <1> HIDE DEF first
  <1> QED BY <1>5, <1>6 DEF EndsWith

\* An edge is as many triples as it occurs in the list.
LEMMA EdgeIs ==
    ASSUME NEW g, g.out \in Links
    PROVE  /\ EdgesOf(g) \subseteq Edges
           /\ \A u, v \in Vertices, i \in Nat : <<u, v, i>> \in EdgesOf(g) <=> 1 <= i /\ i <= g.out[u][v]
  <1>1. \A u, v \in Vertices : g.out[u][v] \in Nat BY DEF Links
  <1>2. \A e : e \in EdgesOf(g) <=> \E u, v \in Vertices : \E i \in 1 .. g.out[u][v] : e = <<u, v, i>>
    <2> DEFINE of(u, v) == {<<u, v, i>> : i \in 1 .. g.out[u][v]}
    <2>1. \A e, u, v : e \in of(u, v) <=> \E i \in 1 .. g.out[u][v] : e = <<u, v, i>> OBVIOUS
    <2>2. EdgesOf(g) = UNION {of(u, v) : u \in Vertices, v \in Vertices} BY DEF EdgesOf
    <2> HIDE DEF of
    <2>3. \A e : e \in EdgesOf(g) <=> \E u, v \in Vertices : e \in of(u, v) BY <2>2
    <2> QED BY <2>1, <2>3
  <1>3. EdgesOf(g) \subseteq Edges BY <1>1, <1>2 DEF Edges
  <1>4. ASSUME NEW u \in Vertices, NEW v \in Vertices, NEW i \in Nat
        PROVE  <<u, v, i>> \in EdgesOf(g) <=> 1 <= i /\ i <= g.out[u][v]
    BY <1>1, <1>2
  <1> QED BY <1>3, <1>4

\* A set is closed under the lists if it is under the edges.
LEMMA ClosedUnderEdges ==
    ASSUME NEW g, g.out \in Links, NEW C \in SUBSET Vertices
    PROVE  ClosedUnder(g.out, C) <=> \A e \in EdgesOf(g) : e[1] \in C => e[2] \in C
  <1>1. ASSUME ClosedUnder(g.out, C), NEW e \in EdgesOf(g), e[1] \in C PROVE e[2] \in C
    <2>1. PICK u \in Vertices, v \in Vertices, i \in Nat : e = <<u, v, i>> BY EdgeIs DEF Edges
    <2>2. g.out[u][v] \in Nat /\ 1 <= i /\ i <= g.out[u][v] BY <2>1, EdgeIs DEF Links
    <2>3. g.out[u][v] > 0 BY <2>2
    <2> QED BY <1>1, <2>1, <2>3 DEF ClosedUnder
  <1>2. ASSUME \A e \in EdgesOf(g) : e[1] \in C => e[2] \in C PROVE ClosedUnder(g.out, C)
    <2> SUFFICES ASSUME NEW u \in C, NEW v \in Vertices, g.out[u][v] > 0 PROVE v \in C BY DEF ClosedUnder
    <2>1. g.out[u][v] \in Nat BY DEF Links
    <2>2. <<u, v, 1>> \in EdgesOf(g) BY <2>1, EdgeIs
    <2> QED BY <1>2, <2>2
  <1> QED BY <1>1, <1>2

\* traverseFrom() is the closure along the edges (DependencyGraph).
LEMMA TraversalIsForward ==
    ASSUME NEW g, g.out \in Links, NEW start \in SUBSET Vertices
    PROVE  TraverseFrom(g.out, start) = Forward(EdgesOf(g), start)
  <1> DEFINE R == TraverseFrom(g.out, start)
  <1>1. /\ start \subseteq R /\ R \subseteq Vertices /\ ClosedUnder(g.out, R)
        /\ \A C \in SUBSET Vertices : start \subseteq C /\ ClosedUnder(g.out, C) => R \subseteq C
    BY TraversalIsLeast
  <1>2. \A C \in SUBSET Vertices : ClosedUnder(g.out, C) <=> \A e \in EdgesOf(g) : e[1] \in C => e[2] \in C
    BY ClosedUnderEdges
  <1> HIDE DEF R
  <1>3. R \in SUBSET Vertices /\ \A e \in EdgesOf(g) : e[1] \in R => e[2] \in R BY <1>1, <1>2
  <1>4. Forward(EdgesOf(g), start) \subseteq R BY <1>1, <1>3 DEF Forward
  <1>5. R \subseteq Forward(EdgesOf(g), start) BY <1>1, <1>2 DEF Forward
  <1> QED BY <1>4, <1>5 DEF R

-----------------------------------------------------------------------------
(* isCyclic()                                                              *)

\* The sizes of the sets of vertices.
Sizes == [S \in SUBSET Vertices |-> Cardinality(S)]

LEMMA SizesDrop ==
    /\ Sizes \in [SUBSET Vertices -> Nat]
    /\ \A S \in SUBSET Vertices : \A x \in S : S \ {x} \in SUBSET Vertices /\ Sizes[S \ {x}] < Sizes[S]
  <1>1. ASSUME NEW S \in SUBSET Vertices PROVE IsFiniteSet(S) /\ Cardinality(S) \in Nat
    BY VerticesAssumption, FS_Subset, FS_CardinalityType
  <1>2. Sizes \in [SUBSET Vertices -> Nat] BY <1>1 DEF Sizes
  <1>3. ASSUME NEW S \in SUBSET Vertices, NEW x \in S
        PROVE  S \ {x} \in SUBSET Vertices /\ Sizes[S \ {x}] < Sizes[S]
    <2>1. Cardinality(S \ {x}) = Cardinality(S) - 1 BY <1>1, FS_RemoveElement
    <2>2. Cardinality(S \ {x}) < Cardinality(S) BY <1>1, <2>1
    <2> QED BY <2>2 DEF Sizes
  <1> QED BY <1>2, <1>3

\* The sum of no occurrences, and of some.
LEMMA OccurrencesIs ==
    ASSUME NEW list \in [Vertices -> Nat]
    PROVE  /\ Occurrences(list)[{}] = 0
           /\ \A S \in SUBSET Vertices : S # {} =>
                \E v \in S : Occurrences(list)[S] = list[v] + Occurrences(list)[S \ {v}]
  <1> DEFINE first(S) == CHOOSE x \in S : TRUE
             step == [g \in [SUBSET Vertices -> Nat] |->
                        [S \in SUBSET Vertices |-> IF S = {} THEN 0 ELSE list[first(S)] + g[S \ {first(S)}]]]
             sum == CHOOSE f : f = [S \in SUBSET Vertices |->
                                      IF S = {} THEN 0 ELSE list[first(S)] + f[S \ {first(S)}]]
  <1>1. Occurrences(list) = sum BY DEF Occurrences
  <1>2. \A S \in SUBSET Vertices : S # {} => first(S) \in S OBVIOUS
  <1> HIDE DEF first
  <1>3. \E f : f \in [SUBSET Vertices -> Nat] /\ f = step[f]
    <2>1. step \in [[SUBSET Vertices -> Nat] -> [SUBSET Vertices -> Nat]]
      <3>1. ASSUME NEW g \in [SUBSET Vertices -> Nat], NEW S \in SUBSET Vertices
            PROVE  (IF S = {} THEN 0 ELSE list[first(S)] + g[S \ {first(S)}]) \in Nat
        BY <1>2
      <3> QED BY <3>1
    <2>2. ASSUME NEW g \in [SUBSET Vertices -> Nat], NEW h \in [SUBSET Vertices -> Nat], NEW x \in SUBSET Vertices,
                 \A y \in SUBSET Vertices : Sizes[y] < Sizes[x] => g[y] = h[y]
          PROVE  step[g][x] = step[h][x]
      BY <1>2, <2>2, SizesDrop
    <2> HIDE DEF step
    <2>3. IsRecursive(step, SUBSET Vertices, Nat, Sizes) BY <2>1, <2>2, SizesDrop DEF IsRecursive
    <2> QED BY <2>3, RecursiveFunction
  <1>4. \E f : f = [S \in SUBSET Vertices |-> IF S = {} THEN 0 ELSE list[first(S)] + f[S \ {first(S)}]]
    BY <1>3
  <1>5. sum = [S \in SUBSET Vertices |-> IF S = {} THEN 0 ELSE list[first(S)] + sum[S \ {first(S)}]]
    BY <1>4
  <1> HIDE DEF sum
  <1>6. \A S \in SUBSET Vertices : sum[S] = IF S = {} THEN 0 ELSE list[first(S)] + sum[S \ {first(S)}]
    BY <1>5
  <1> QED BY <1>1, <1>2, <1>6

\* It is a number, and the order of summation does not matter.
LEMMA OccurrencesWithout ==
    ASSUME NEW list \in [Vertices -> Nat]
    PROVE  \A S \in SUBSET Vertices :
             /\ Occurrences(list)[S] \in Nat
             /\ \A x \in S : Occurrences(list)[S] = list[x] + Occurrences(list)[S \ {x}]
  <1> DEFINE sum(S) == Occurrences(list)[S]
             number == {S \in SUBSET Vertices : sum(S) \in Nat}
             good == {S \in SUBSET Vertices : \A x \in S : sum(S) = list[x] + sum(S \ {x})}
  <1>1. sum({}) = 0 /\ \A S \in SUBSET Vertices : S # {} => \E v \in S : sum(S) = list[v] + sum(S \ {v})
    BY OccurrencesIs
  <1> HIDE DEF sum
  <1>0. \A S \in SUBSET Vertices : sum(S) \in Nat
    <2>1. ASSUME NEW S \in SUBSET Vertices, \A x \in S : S \ {x} \in number PROVE S \in number
      <3>1. CASE S = {} BY <1>1, <3>1
      <3>2. CASE S # {}
        <4>1. PICK v \in S : sum(S) = list[v] + sum(S \ {v}) BY <1>1, <3>2
        <4>2. sum(S \ {v}) \in Nat /\ list[v] \in Nat BY <2>1
        <4> QED BY <4>1, <4>2
      <3> QED BY <3>1, <3>2
    <2> HIDE DEF number
    <2>2. \A S \in SUBSET Vertices : S \in number BY <2>1, VerticesAssumption, InductionOnSubsets
    <2> QED BY <2>2 DEF number
  <1>2. ASSUME NEW S \in SUBSET Vertices, \A x \in S : S \ {x} \in good PROVE S \in good
    <2>1. CASE S = {} BY <1>1, <2>1
    <2>2. CASE S # {}
      <3>1. PICK v \in S : sum(S) = list[v] + sum(S \ {v}) BY <1>1, <2>2
      <3>2. sum(S \ {v}) \in Nat /\ list[v] \in Nat BY <1>0
      <3>4. ASSUME NEW x \in S, x # v PROVE sum(S) = list[x] + sum(S \ {x})
        <4>1. sum(S \ {v}) = list[x] + sum((S \ {v}) \ {x}) BY <1>2, <3>4
        <4>2. sum(S \ {x}) = list[v] + sum((S \ {x}) \ {v}) BY <1>2, <3>4
        <4>3. (S \ {v}) \ {x} = (S \ {x}) \ {v} OBVIOUS
        <4>4. sum(S \ {x}) \in Nat /\ list[x] \in Nat /\ sum((S \ {x}) \ {v}) \in Nat BY <1>0
        <4>5. \A a, b, c \in Nat : a + (b + c) = b + (a + c) OBVIOUS
        <4>6. sum(S) = list[v] + (list[x] + sum((S \ {x}) \ {v})) BY <3>1, <4>1, <4>3
        <4>7. list[x] + sum(S \ {x}) = list[x] + (list[v] + sum((S \ {x}) \ {v})) BY <4>2
        <4>8. list[v] + (list[x] + sum((S \ {x}) \ {v})) = list[x] + (list[v] + sum((S \ {x}) \ {v}))
          BY <3>2, <4>4, <4>5
        <4> QED BY <4>6, <4>7, <4>8
      <3> QED BY <3>1, <3>4
    <2> QED BY <2>1, <2>2
  <1> HIDE DEF good
  <1>3. \A S \in SUBSET Vertices : S \in good BY <1>2, VerticesAssumption, InductionOnSubsets
  <1> QED BY <1>0, <1>3 DEF good, sum

\* No occurrence adds up to nothing.
LEMMA NoOccurrences ==
    ASSUME NEW list \in [Vertices -> Nat]
    PROVE  \A S \in SUBSET Vertices : Occurrences(list)[S] = 0 <=> \A x \in S : list[x] = 0
  <1> DEFINE sum(S) == Occurrences(list)[S]
             good == {S \in SUBSET Vertices : sum(S) = 0 <=> \A x \in S : list[x] = 0}
  <1>1. sum({}) = 0 BY OccurrencesIs
  <1>2. \A S \in SUBSET Vertices : sum(S) \in Nat /\ \A x \in S : sum(S) = list[x] + sum(S \ {x})
    BY OccurrencesWithout
  <1> HIDE DEF sum
  <1>3. ASSUME NEW S \in SUBSET Vertices, \A x \in S : S \ {x} \in good PROVE S \in good
    <2>1. CASE S = {} BY <1>1, <2>1
    <2>2. CASE S # {}
      <3>1. PICK v \in S : TRUE BY <2>2
      <3>2. sum(S) = list[v] + sum(S \ {v}) /\ sum(S \ {v}) \in Nat /\ list[v] \in Nat BY <1>2
      <3>3. sum(S) = 0 <=> list[v] = 0 /\ sum(S \ {v}) = 0
        <4>1. \A a, b \in Nat : a + b = 0 <=> a = 0 /\ b = 0 OBVIOUS
        <4> QED BY <3>2, <4>1
      <3>4. S \ {v} \in good BY <1>3
      <3> QED BY <3>3, <3>4
    <2> QED BY <2>1, <2>2
  <1> HIDE DEF good
  <1>4. \A S \in SUBSET Vertices : S \in good BY <1>3, VerticesAssumption, InductionOnSubsets
  <1> QED BY <1>4 DEF good, sum

\* The states of isCyclic().
Peels == [ready : SUBSET Vertices, degree : [Vertices -> Int], seen : SUBSET Vertices]

\* The next state: a vertex on the list is seen.
Peeled(g, s) ==
    LET v == CHOOSE x \in s.ready : TRUE
        left == [u \in Vertices |-> s.degree[u] - g.in[v][u]]
        new == {u \in Vertices : s.degree[u] > 0 /\ left[u] <= 0}
    IN [ready |-> (s.ready \ {v}) \cup new, degree |-> left, seen |-> s.seen \cup {v}]

\* What it is.
LEMMA PeeledIs ==
    ASSUME NEW g, g.in \in Links, NEW s \in Peels, s.ready # {}
    PROVE  /\ Peeled(g, s) \in Peels
           /\ \E v \in s.ready :
                /\ Peeled(g, s).seen = s.seen \cup {v}
                /\ \A u \in Vertices : Peeled(g, s).degree[u] = s.degree[u] - g.in[v][u]
                /\ Peeled(g, s).ready = (s.ready \ {v})
                       \cup {u \in Vertices : s.degree[u] > 0 /\ Peeled(g, s).degree[u] <= 0}
  <1> DEFINE v == CHOOSE x \in s.ready : TRUE
             left == [u \in Vertices |-> s.degree[u] - g.in[v][u]]
             new == {u \in Vertices : s.degree[u] > 0 /\ left[u] <= 0}
  <1>1. v \in s.ready OBVIOUS
  <1>2. Peeled(g, s) = [ready |-> (s.ready \ {v}) \cup new, degree |-> left, seen |-> s.seen \cup {v}]
    BY DEF Peeled
  <1> HIDE DEF v
  <1>3. s.ready \subseteq Vertices /\ s.seen \subseteq Vertices /\ s.degree \in [Vertices -> Int]
    BY DEF Peels
  <1>4. v \in Vertices BY <1>1, <1>3
  <1>5. \A u \in Vertices : s.degree[u] - g.in[v][u] \in Int
    <2>1. \A u \in Vertices : g.in[v][u] \in Nat /\ s.degree[u] \in Int BY <1>3, <1>4 DEF Links
    <2> QED BY <2>1
  <1>6. left \in [Vertices -> Int] BY <1>5
  <1>7. \A u \in Vertices : left[u] = s.degree[u] - g.in[v][u] OBVIOUS
  <1> HIDE DEF left
  <1>8. Peeled(g, s) \in Peels BY <1>2, <1>3, <1>4, <1>6 DEF Peels
  <1> QED BY <1>1, <1>2, <1>7, <1>8

\* How far isCyclic() is from its end: vertices on the list, and those that may come to it.
Waiting(s) == {u \in Vertices : s.degree[u] > 0}
PeelsLeft == [s \in Peels |-> Cardinality(Waiting(s)) + Cardinality(s.ready)]

LEMMA PeelsLeftDrops ==
    ASSUME NEW g, g.in \in Links
    PROVE  /\ PeelsLeft \in [Peels -> Nat]
           /\ \A s \in Peels : s.ready # {} => Peeled(g, s) \in Peels /\ PeelsLeft[Peeled(g, s)] < PeelsLeft[s]
  <1>1. ASSUME NEW S \in SUBSET Vertices PROVE IsFiniteSet(S) /\ Cardinality(S) \in Nat
    BY VerticesAssumption, FS_Subset, FS_CardinalityType
  <1>2. \A s \in Peels : Waiting(s) \in SUBSET Vertices /\ s.ready \in SUBSET Vertices
    BY DEF Waiting, Peels
  <1>3. PeelsLeft \in [Peels -> Nat]
    <2>1. \A s \in Peels : Cardinality(Waiting(s)) + Cardinality(s.ready) \in Nat BY <1>1, <1>2
    <2> QED BY <2>1 DEF PeelsLeft
  <1>4. ASSUME NEW s \in Peels, s.ready # {}
        PROVE  Peeled(g, s) \in Peels /\ PeelsLeft[Peeled(g, s)] < PeelsLeft[s]
    <2> DEFINE t == Peeled(g, s)
               new == {u \in Vertices : s.degree[u] > 0 /\ t.degree[u] <= 0}
    <2>1. t \in Peels BY <1>4, PeeledIs
    <2>2. PICK v \in s.ready :
            /\ \A u \in Vertices : t.degree[u] = s.degree[u] - g.in[v][u]
            /\ t.ready = (s.ready \ {v}) \cup new
      BY <1>4, PeeledIs
    <2> HIDE DEF t
    <2>3. v \in Vertices BY DEF Peels
    <2>4. \A u \in Vertices : t.degree[u] > 0 => s.degree[u] > 0
      <3>1. \A u \in Vertices : g.in[v][u] \in Nat /\ s.degree[u] \in Int BY <2>3 DEF Links, Peels
      <3>2. \A a \in Int, b \in Nat : a - b > 0 => a > 0 OBVIOUS
      <3> QED BY <2>2, <3>1, <3>2
    <2>5. \A u \in Vertices : t.degree[u] \in Int BY <2>1 DEF Peels
    <2>6. Waiting(t) = Waiting(s) \ new /\ Waiting(s) \cap new = new
      BY <2>4, <2>5 DEF Waiting
    <2> DEFINE W == Waiting(s)
               R == s.ready
    <2>7. W \in SUBSET Vertices /\ new \in SUBSET Vertices /\ R \in SUBSET Vertices BY <1>2
    <2>8. PeelsLeft[s] = Cardinality(W) + Cardinality(R)
          /\ PeelsLeft[t] = Cardinality(W \ new) + Cardinality((R \ {v}) \cup new)
      BY <2>1, <2>2, <2>6 DEF PeelsLeft
    <2>9. v \in R OBVIOUS
    <2> HIDE DEF W, R, new
    <2>10. IsFiniteSet(W) /\ IsFiniteSet(R) /\ IsFiniteSet(new) /\ IsFiniteSet(R \ {v})
           /\ Cardinality(W) \in Nat /\ Cardinality(R) \in Nat /\ Cardinality(new) \in Nat
           /\ Cardinality(W \ new) \in Nat /\ Cardinality((R \ {v}) \cup new) \in Nat
      BY <1>1, <2>7
    <2>11. W \cap new = new BY <2>6 DEF W
    <2>12. Cardinality(W \ new) = Cardinality(W) - Cardinality(new) BY <2>10, <2>11, FS_Difference
    <2>13. Cardinality(R \ {v}) = Cardinality(R) - 1 BY <2>9, <2>10, FS_RemoveElement
    <2> DEFINE Q == R \ {v}
    <2>14. IsFiniteSet(Q) BY <2>10
    <2>15. Cardinality(Q) = Cardinality(R) - 1 BY <2>13
    <2>16. Cardinality(Q \cup new) \in Nat /\ PeelsLeft[t] = Cardinality(W \ new) + Cardinality(Q \cup new) BY <2>8, <2>10
    <2> HIDE DEF Q
    <2>17. Cardinality(Q \cup new) = Cardinality(Q) + Cardinality(new) - Cardinality(Q \cap new)
      BY <2>10, <2>14, FS_Union
    <2>18. Cardinality(Q \cap new) \in Nat
      <3>1. Q \cap new \in SUBSET Vertices BY <2>7
      <3> QED BY <1>1, <3>1
    <2>19. \A w, r, n, k \in Nat : (w - n) + ((r - 1) + n - k) < w + r OBVIOUS
    <2>20. PeelsLeft[t] = (Cardinality(W) - Cardinality(new)) + ((Cardinality(R) - 1) + Cardinality(new) - Cardinality(Q \cap new))
      BY <2>12, <2>15, <2>16, <2>17
    <2>21. PeelsLeft[t] < PeelsLeft[s] BY <2>8, <2>10, <2>18, <2>19, <2>20
    <2> QED BY <2>1, <2>21 DEF t
  <1> QED BY <1>3, <1>4

\* isCyclic() before its end, and at it.
LEMMA SettledIs ==
    ASSUME NEW g, g.vertices \subseteq Vertices, g.in \in Links
    PROVE  \E peel :
              /\ Settled(g) = peel[[ready |-> {v \in g.vertices : ListLength(g.out[v]) = 0},
                                    degree |-> [v \in Vertices |-> ListLength(g.out[v])], seen |-> {}]]
              /\ \A s \in Peels : peel[s] = IF s.ready = {} THEN s.seen ELSE peel[Peeled(g, s)]
  <1> DEFINE step == [f \in [Peels -> SUBSET Vertices] |->
                        [s \in Peels |-> IF s.ready = {} THEN s.seen ELSE f[Peeled(g, s)]]]
             peel == CHOOSE f : f = [s \in Peels |-> IF s.ready = {} THEN s.seen ELSE f[Peeled(g, s)]]
             degree == [v \in Vertices |-> ListLength(g.out[v])]
  <1>1. Settled(g) = peel[[ready |-> {v \in g.vertices : degree[v] = 0}, degree |-> degree, seen |-> {}]]
    BY DEF Settled, Peels, Peeled
  <1>2. \E f \in [Peels -> SUBSET Vertices] : f = step[f]
    <2>1. step \in [[Peels -> SUBSET Vertices] -> [Peels -> SUBSET Vertices]]
      <3>1. ASSUME NEW f \in [Peels -> SUBSET Vertices], NEW s \in Peels
            PROVE  (IF s.ready = {} THEN s.seen ELSE f[Peeled(g, s)]) \in SUBSET Vertices
        BY PeelsLeftDrops DEF Peels
      <3> QED BY <3>1
    <2>2. ASSUME NEW f \in [Peels -> SUBSET Vertices], NEW h \in [Peels -> SUBSET Vertices], NEW x \in Peels,
                 \A y \in Peels : PeelsLeft[y] < PeelsLeft[x] => f[y] = h[y]
          PROVE  step[f][x] = step[h][x]
      BY <2>2, PeelsLeftDrops
    <2>3. IsRecursive(step, Peels, SUBSET Vertices, PeelsLeft)
      <3>1. PeelsLeft \in [Peels -> Nat] BY PeelsLeftDrops
      <3> HIDE DEF step
      <3> QED BY <2>1, <2>2, <3>1 DEF IsRecursive
    <2> HIDE DEF step
    <2> QED BY <2>3, RecursiveFunction
  <1>3. \E f : f = [s \in Peels |-> IF s.ready = {} THEN s.seen ELSE f[Peeled(g, s)]]
    BY <1>2
  <1>4. peel = [s \in Peels |-> IF s.ready = {} THEN s.seen ELSE peel[Peeled(g, s)]]
    BY <1>3
  <1> HIDE DEF peel
  <1>5. \A s \in Peels : peel[s] = IF s.ready = {} THEN s.seen ELSE peel[Peeled(g, s)] BY <1>4
  <1>6. degree = [v \in Vertices |-> ListLength(g.out[v])] OBVIOUS
  <1>7. {v \in g.vertices : degree[v] = 0} = {v \in g.vertices : ListLength(g.out[v]) = 0} OBVIOUS
  <1> QED BY <1>1, <1>5, <1>7

-----------------------------------------------------------------------------
\* The members of S depend on members of S only, in some order.
Ranked(g, S) ==
    \E rank \in [Vertices -> Nat] :
        \A u \in S : /\ rank[u] <= Cardinality(S)
                    /\ \A w \in Vertices : g.out[u][w] > 0 => w \in S /\ rank[w] < rank[u]

\* What isCyclic() keeps up: the counter of a vertex counts its neighbours that are not
\* seen, a vertex is on the list if that is zero, and what is seen is in an order.
PeelInv(g, s) ==
    /\ s.seen \subseteq g.vertices
    /\ \A u \in Vertices : s.degree[u] = Occurrences(g.out[u])[Vertices \ s.seen]
    /\ s.ready = {u \in g.vertices \ s.seen : s.degree[u] = 0}
    /\ Ranked(g, s.seen)

\* What it ends with: an order of what it reached, and no end elsewhere.
Settles(g, S) ==
    /\ S \subseteq g.vertices /\ Ranked(g, S)
    /\ \A u \in g.vertices \ S : \E w \in g.vertices \ S : g.out[u][w] > 0

LEMMA RankedGrows ==
    ASSUME NEW g, g.out \in Links, NEW S \in SUBSET Vertices, NEW v \in Vertices \ S, Ranked(g, S),
           \A w \in Vertices : g.out[v][w] > 0 => w \in S
    PROVE  Ranked(g, S \cup {v})
  <1> DEFINE T == S \cup {v}
             n == Cardinality(S)
  <1>1. IsFiniteSet(S) /\ n \in Nat BY VerticesAssumption, FS_Subset, FS_CardinalityType
  <1>2. Cardinality(T) = n + 1 BY <1>1, FS_AddElement
  <1>3. PICK rank \in [Vertices -> Nat] :
            \A u \in S : rank[u] <= n /\ \A w \in Vertices : g.out[u][w] > 0 => w \in S /\ rank[w] < rank[u]
    BY DEF Ranked
  <1> DEFINE rank2 == [u \in Vertices |-> IF u = v THEN n + 1 ELSE rank[u]]
  <1>4. rank2 \in [Vertices -> Nat] BY <1>1
  <1>5. rank2[v] = n + 1 /\ \A u \in S : rank2[u] = rank[u] OBVIOUS
  <1> HIDE DEF rank2, n
  <1>6. ASSUME NEW u \in T
        PROVE  rank2[u] <= n + 1 /\ \A w \in Vertices : g.out[u][w] > 0 => w \in T /\ rank2[w] < rank2[u]
    <2>1. \A a, b \in Nat : a <= b => a <= b + 1 /\ a < b + 1 OBVIOUS
    <2>2. \A w \in S : rank[w] \in Nat /\ rank[w] <= n BY <1>3
    <2>3. CASE u = v
      <3>1. n + 1 <= n + 1 BY <1>1
      <3> QED BY <1>1, <1>5, <2>1, <2>2, <2>3, <3>1
    <2>4. CASE u \in S BY <1>1, <1>3, <1>5, <2>1, <2>2, <2>4
    <2> QED BY <2>3, <2>4
  <1>7. Ranked(g, T) BY <1>2, <1>4, <1>6 DEF Ranked
  <1> QED BY <1>7

\* Every step of isCyclic() keeps that up.
LEMMA PeelInvStep ==
    ASSUME NEW g, Agrees(g), NEW s \in Peels, s.ready # {}, PeelInv(g, s)
    PROVE  PeelInv(g, Peeled(g, s))
  <1> DEFINE t == Peeled(g, s)
  <1>1. /\ g.vertices \subseteq Vertices /\ g.out \in Links /\ g.in \in Links
        /\ \A u, w \in Vertices : g.out[u][w] = g.in[w][u] /\ (g.out[u][w] > 0 => u \in g.vertices /\ w \in g.vertices)
    BY DEF Agrees, TaskGraphs
  <1>2. PICK v \in s.ready :
            /\ t.seen = s.seen \cup {v}
            /\ \A u \in Vertices : t.degree[u] = s.degree[u] - g.in[v][u]
            /\ t.ready = (s.ready \ {v}) \cup {u \in Vertices : s.degree[u] > 0 /\ t.degree[u] <= 0}
    BY <1>1, PeeledIs
  <1> HIDE DEF t
  <1>3. v \in g.vertices /\ v \in Vertices /\ v \notin s.seen /\ s.degree[v] = 0 BY <1>1 DEF PeelInv
  <1> DEFINE left == Vertices \ s.seen
  <1>4. left \in SUBSET Vertices /\ v \in left /\ left \ {v} = Vertices \ t.seen BY <1>2, <1>3
  <1>5. ASSUME NEW u \in Vertices
        PROVE  /\ g.out[u] \in [Vertices -> Nat] /\ g.out[u][v] \in Nat
               /\ s.degree[u] = Occurrences(g.out[u])[left] /\ s.degree[u] \in Nat
               /\ t.degree[u] = Occurrences(g.out[u])[left \ {v}] /\ t.degree[u] \in Nat
               /\ s.degree[u] = g.out[u][v] + t.degree[u]
    <2>1. g.out[u] \in [Vertices -> Nat] /\ g.out[u][v] \in Nat BY <1>1, <1>3 DEF Links
    <2>2. s.degree[u] = Occurrences(g.out[u])[left] BY DEF PeelInv
    <2> HIDE DEF left
    <2>3. /\ Occurrences(g.out[u])[left] = g.out[u][v] + Occurrences(g.out[u])[left \ {v}]
          /\ Occurrences(g.out[u])[left] \in Nat /\ Occurrences(g.out[u])[left \ {v}] \in Nat
      <3> DEFINE list == g.out[u]
      <3>1. list \in [Vertices -> Nat] BY <2>1
      <3>2. left \in SUBSET Vertices /\ left \ {v} \in SUBSET Vertices /\ v \in left BY <1>4
      <3> HIDE DEF list
      <3>3. /\ Occurrences(list)[left] = list[v] + Occurrences(list)[left \ {v}]
            /\ Occurrences(list)[left] \in Nat
        BY <3>1, <3>2, OccurrencesWithout
      <3>4. Occurrences(list)[left \ {v}] \in Nat BY <3>1, <3>2, OccurrencesWithout
      <3> QED BY <3>3, <3>4 DEF list
    <2>4. t.degree[u] = s.degree[u] - g.out[u][v] BY <1>1, <1>2, <1>3
    <2>5. \A a, b, c \in Nat : a = b + c => a - b = c OBVIOUS
    <2>6. s.degree[u] - g.out[u][v] = Occurrences(g.out[u])[left \ {v}] BY <2>1, <2>2, <2>3, <2>5
    <2>7. t.degree[u] = Occurrences(g.out[u])[left \ {v}] BY <2>4, <2>6
    <2> QED BY <2>1, <2>2, <2>3, <2>7
  <1>6. \A w \in Vertices : g.out[v][w] > 0 => w \in s.seen
    <2>1. \A w \in left : g.out[v][w] = 0
      <3>1. Occurrences(g.out[v])[left] = 0 /\ g.out[v] \in [Vertices -> Nat] BY <1>3, <1>5
      <3> HIDE DEF left
      <3> QED BY <1>4, <3>1, NoOccurrences
    <2> QED BY <2>1
  <1>7. ASSUME NEW u \in s.seen PROVE s.degree[u] = 0
    <2>1. u \in Vertices BY <1>1 DEF PeelInv
    <2>2. \A w \in Vertices : g.out[u][w] > 0 => w \in s.seen BY DEF PeelInv, Ranked
    <2>3. \A w \in left : g.out[u][w] = 0
      <3>1. \A w \in Vertices : g.out[u][w] \in Nat BY <1>1, <2>1 DEF Links
      <3> QED BY <2>2, <3>1
    <2>4. g.out[u] \in [Vertices -> Nat] /\ s.degree[u] = Occurrences(g.out[u])[left] BY <1>5, <2>1
    <2> HIDE DEF left
    <2> QED BY <1>4, <2>3, <2>4, NoOccurrences
  <1>8. t.seen \subseteq g.vertices BY <1>2, <1>3 DEF PeelInv
  <1>9. \A u \in Vertices : t.degree[u] = Occurrences(g.out[u])[Vertices \ t.seen] BY <1>4, <1>5
  <1>10. t.ready = {u \in g.vertices \ t.seen : t.degree[u] = 0}
    <2>1. ASSUME NEW u \in t.ready PROVE u \in g.vertices \ t.seen /\ t.degree[u] = 0
      <3>1. CASE u \in s.ready \ {v}
        <4>1. u \in g.vertices \ t.seen /\ s.degree[u] = 0 /\ u \in Vertices BY <1>1, <1>2, <3>1 DEF PeelInv
        <4>2. \A a, b \in Nat : 0 = a + b => b = 0 OBVIOUS
        <4> QED BY <1>5, <4>1, <4>2
      <3>2. CASE u \in Vertices /\ s.degree[u] > 0 /\ t.degree[u] <= 0
        <4>1. \A a, b \in Nat : b <= 0 /\ a + b > 0 => b = 0 /\ a > 0 OBVIOUS
        <4>2. t.degree[u] = 0 /\ g.out[u][v] > 0 BY <1>5, <3>2, <4>1
        <4>3. u \in g.vertices BY <1>1, <1>3, <3>2, <4>2
        <4>4. u \notin s.seen /\ u # v BY <1>3, <1>7, <3>2
        <4> QED BY <1>2, <4>2, <4>3, <4>4
      <3> QED BY <1>2, <3>1, <3>2
    <2>2. ASSUME NEW u \in g.vertices \ t.seen, t.degree[u] = 0 PROVE u \in t.ready
      <3>1. u \in Vertices /\ u \notin s.seen /\ u # v BY <1>1, <1>2
      <3>2. CASE s.degree[u] = 0 BY <1>2, <3>1, <3>2 DEF PeelInv
      <3>3. CASE s.degree[u] # 0
        <4>1. s.degree[u] > 0 /\ t.degree[u] <= 0 BY <1>5, <2>2, <3>1, <3>3
        <4> QED BY <1>2, <3>1, <4>1
      <3> QED BY <3>2, <3>3
    <2> QED BY <2>1, <2>2
  <1>11. Ranked(g, t.seen)
    <2>1. s.seen \in SUBSET Vertices /\ v \in Vertices \ s.seen BY <1>1, <1>3 DEF PeelInv
    <2> QED BY <1>1, <1>2, <1>6, <2>1, RankedGrows DEF PeelInv
  <1>12. PeelInv(g, t) BY <1>8, <1>9, <1>10, <1>11 DEF PeelInv
  <1> QED BY <1>12 DEF t

\* isCyclic() reaches what can be put in an order, and stops where every vertex that is
\* left has a neighbour that is left.
LEMMA SettledSettles == ASSUME NEW g, Agrees(g) PROVE Settles(g, Settled(g))
  <1> DEFINE first == [ready |-> {v \in g.vertices : ListLength(g.out[v]) = 0},
                       degree |-> [v \in Vertices |-> ListLength(g.out[v])], seen |-> {}]
  <1>1. /\ g.vertices \subseteq Vertices /\ g.out \in Links /\ g.in \in Links
        /\ \A u, w \in Vertices : g.out[u][w] > 0 => w \in g.vertices
    BY DEF Agrees, TaskGraphs
  <1>2. PICK peel :
          /\ Settled(g) = peel[first]
          /\ \A s \in Peels : peel[s] = IF s.ready = {} THEN s.seen ELSE peel[Peeled(g, s)]
    BY <1>1, SettledIs
  <1> DEFINE good == {s \in Peels : PeelInv(g, s) => Settles(g, peel[s])}
  <1>3. ASSUME NEW s \in Peels, \A t \in Peels : PeelsLeft[t] < PeelsLeft[s] => t \in good
        PROVE  s \in good
    <2> SUFFICES ASSUME PeelInv(g, s) PROVE Settles(g, peel[s]) OBVIOUS
    <2>1. CASE s.ready = {}
      <3>1. peel[s] = s.seen BY <1>2, <2>1
      <3>2. ASSUME NEW u \in g.vertices \ s.seen PROVE \E w \in g.vertices \ s.seen : g.out[u][w] > 0
        <4> DEFINE left == Vertices \ s.seen
        <4>1. u \in Vertices /\ s.degree[u] # 0 BY <1>1, <2>1 DEF PeelInv
        <4>2. Occurrences(g.out[u])[left] # 0 BY <4>1 DEF PeelInv
        <4>3. g.out[u] \in [Vertices -> Nat] /\ left \in SUBSET Vertices BY <1>1, <4>1 DEF Links
        <4>4. PICK w \in left : g.out[u][w] # 0
          <5> HIDE DEF left
          <5> QED BY <4>2, <4>3, NoOccurrences
        <4>5. g.out[u][w] > 0 BY <4>3, <4>4
        <4> QED BY <1>1, <4>1, <4>4, <4>5
      <3> QED BY <3>1, <3>2 DEF PeelInv, Settles
    <2>2. CASE s.ready # {}
      <3>1. Peeled(g, s) \in Peels /\ PeelsLeft[Peeled(g, s)] < PeelsLeft[s] BY <1>1, <2>2, PeelsLeftDrops
      <3>2. PeelInv(g, Peeled(g, s)) BY <2>2, PeelInvStep
      <3>3. peel[s] = peel[Peeled(g, s)] BY <1>2, <2>2
      <3> QED BY <1>3, <3>1, <3>2, <3>3
    <2> QED BY <2>1, <2>2
  <1>4. \A s \in Peels : s \in good
    <2> HIDE DEF good
    <2>1. PeelsLeft \in [Peels -> Nat] BY <1>1, PeelsLeftDrops
    <2> QED BY <1>3, <2>1, MeasureInduction
  <1>5. \A v \in Vertices : ListLength(g.out[v]) = Occurrences(g.out[v])[Vertices] /\ ListLength(g.out[v]) \in Nat
    BY <1>1, OccurrencesWithout DEF ListLength, Links
  <1>6. first \in Peels
    <2>1. [v \in Vertices |-> ListLength(g.out[v])] \in [Vertices -> Int] BY <1>5
    <2> QED BY <1>1, <2>1 DEF Peels
  <1>7. PeelInv(g, first)
    <2>1. first.seen = {} /\ Vertices \ first.seen = Vertices OBVIOUS
    <2>2. \A v \in Vertices : first.degree[v] = ListLength(g.out[v]) OBVIOUS
    <2>3. first.ready = {v \in g.vertices \ first.seen : first.degree[v] = 0} BY <1>1
    <2>4. Ranked(g, first.seen)
      <3>1. [u \in Vertices |-> 0] \in [Vertices -> Nat] OBVIOUS
      <3> QED BY <2>1, <3>1 DEF Ranked
    <2> HIDE DEF first
    <2> QED BY <1>5, <2>1, <2>2, <2>3, <2>4 DEF PeelInv
  <1> HIDE DEF first
  <1> QED BY <1>2, <1>4, <1>6, <1>7

\* isCyclic() is true of the graphs with a cycle, and only of them.
LEMMA IsCyclicIsRight ==
    ASSUME NEW g, Agrees(g)
    PROVE  IsCyclic(g) <=> ~Acyclic(EdgesOf(g))
  <1> DEFINE S == Settled(g)
  <1>1. g.vertices \subseteq Vertices /\ g.out \in Links
        /\ \A u, w \in Vertices : g.out[u][w] > 0 => u \in g.vertices
    BY DEF Agrees, TaskGraphs
  <1>2. Settles(g, S) BY SettledSettles
  <1> HIDE DEF S
  <1>3. S \subseteq g.vertices BY <1>2 DEF Settles
  <1>4. IsCyclic(g) <=> S # g.vertices
    <2>1. IsFiniteSet(g.vertices) BY <1>1, VerticesAssumption, FS_Subset
    <2>2. S \in SUBSET g.vertices BY <1>3
    <2>3. Cardinality(g.vertices) = Cardinality(S) => S = g.vertices
      <3> DEFINE V == g.vertices
      <3>1. IsFiniteSet(V) /\ S \in SUBSET V BY <2>1, <2>2
      <3> HIDE DEF V
      <3>2. Cardinality(V) = Cardinality(S) => V = S BY <3>1, FS_Subset
      <3> QED BY <3>2 DEF V
    <2> QED BY <2>3 DEF IsCyclic, S
  <1>5. ASSUME S = g.vertices PROVE Acyclic(EdgesOf(g))
    <2>1. PICK rank \in [Vertices -> Nat] :
            \A u \in S : rank[u] <= Cardinality(S)
                        /\ \A w \in Vertices : g.out[u][w] > 0 => w \in S /\ rank[w] < rank[u]
      BY <1>2 DEF Settles, Ranked
    <2>2. Cardinality(S) \in Nat /\ Cardinality(Vertices) \in Nat /\ Cardinality(S) <= Cardinality(Vertices)
      <3>1. S \in SUBSET Vertices BY <1>1, <1>3
      <3>2. IsFiniteSet(S) /\ Cardinality(S) <= Cardinality(Vertices) BY <3>1, VerticesAssumption, FS_Subset
      <3> QED BY <3>2, VerticesAssumption, FS_CardinalityType
    <2> DEFINE rank2 == [u \in Vertices |-> IF u \in S THEN rank[u] ELSE 0]
    <2>3. ASSUME NEW u \in Vertices PROVE (IF u \in S THEN rank[u] ELSE 0) \in 0 .. Cardinality(Vertices)
      <3>1. \A a, b, c \in Nat : a <= b /\ b <= c => a \in 0 .. c OBVIOUS
      <3>2. 0 \in 0 .. Cardinality(Vertices) BY <2>2
      <3> QED BY <2>1, <2>2, <3>1, <3>2
    <2>4. rank2 \in [Vertices -> 0 .. Cardinality(Vertices)] BY <2>3
    <2>5. ASSUME NEW e \in EdgesOf(g) PROVE rank2[e[2]] < rank2[e[1]]
      <3>1. PICK u \in Vertices, w \in Vertices, i \in Nat : e = <<u, w, i>> BY <1>1, EdgeIs DEF Edges
      <3>2. g.out[u][w] \in Nat /\ 1 <= i /\ i <= g.out[u][w] BY <1>1, <3>1, EdgeIs DEF Links
      <3>3. g.out[u][w] > 0 BY <3>2
      <3>4. u \in S BY <1>1, <1>5, <3>3
      <3>5. w \in S /\ rank[w] < rank[u] BY <2>1, <3>3, <3>4
      <3>6. e[1] = u /\ e[2] = w BY <3>1
      <3> QED BY <3>4, <3>5, <3>6
    <2> HIDE DEF rank2
    <2> QED BY <2>4, <2>5 DEF Acyclic
  <1>6. ASSUME Acyclic(EdgesOf(g)), S # g.vertices PROVE FALSE
    <2>1. PICK rank \in [Vertices -> 0 .. Cardinality(Vertices)] : \A e \in EdgesOf(g) : rank[e[2]] < rank[e[1]]
      BY <1>6 DEF Acyclic
    <2>2. Cardinality(Vertices) \in Nat BY VerticesAssumption, FS_CardinalityType
    <2>3. \A u \in Vertices : rank[u] \in Nat BY <2>1, <2>2
    <2> DEFINE ranks == {rank[u] : u \in g.vertices \ S}
    <2>4. ranks \subseteq Nat /\ ranks # {} BY <1>1, <1>3, <1>6, <2>3
    <2>5. PICK n \in ranks : \A m \in ranks : n <= m
      <3> HIDE DEF ranks
      <3> QED BY <2>4, LeastNat
    <2>6. PICK u \in g.vertices \ S : rank[u] = n OBVIOUS
    <2>7. PICK w \in g.vertices \ S : g.out[u][w] > 0 BY <1>2 DEF Settles
    <2>8. u \in Vertices /\ w \in Vertices BY <1>1
    <2>9. <<u, w, 1>> \in EdgesOf(g)
      <3>1. g.out[u][w] \in Nat BY <1>1, <2>8 DEF Links
      <3>2. 1 <= g.out[u][w] BY <2>7, <3>1
      <3> QED BY <1>1, <2>8, <3>2, EdgeIs
    <2>10. rank[w] < rank[u] BY <2>1, <2>9
    <2>11. rank[u] <= rank[w] BY <2>5, <2>6
    <2> QED BY <2>3, <2>8, <2>10, <2>11
  <1> QED BY <1>4, <1>5, <1>6

-----------------------------------------------------------------------------
(* The planning                                                            *)

\* The registry holds the outputs of all tasks, and no two of them collide.
Registered ==
    /\ ~OutputsCollide
    /\ reg = [p \in {l[2] : l \in Outputs} |-> infos[(CHOOSE l \in Outputs : l[2] = p)[1]].name]

\* The i-th task is in g, with an edge to the producer of each of its inputs.
Linked(g, i) ==
    /\ infos[i].name \in g.vertices
    /\ \A p \in infos[i].inputs :
            Lookup(reg, p) \in Vertices => g.out[infos[i].name][Lookup(reg, p)] > 0

\* g is what is left of a whole when some vertices are removed, none to be kept.
IsPart(g, whole, keep) ==
    /\ keep \subseteq g.vertices /\ g.vertices \subseteq whole.vertices
    /\ \A u, w \in Vertices :
            g.out[u][w] = IF u \in g.vertices /\ w \in g.vertices THEN whole.out[u][w] ELSE 0

Needed == TraverseFrom(errorPropagationGraph.out, startingPoints)

\* What each statement of the planning leaves to the next.
StageInv ==
    /\ stage = "VALIDATE" => next = 1
    /\ stage \in {"REGISTER", "APPLY", "DROP", "PREPARED"} => Registered
    /\ stage = "REGISTER" => \A i \in 1 .. next - 1 : Linked(taskGraph, i)
    /\ stage = "APPLY" =>
        /\ \A i \in DOMAIN infos : Linked(taskGraph, i)
        /\ taskGraph.vertices = errorPropagationGraph.vertices
        /\ taskGraph.out = errorPropagationGraph.out
        /\ ~IsCyclic(taskGraph)
    /\ stage = "CYCLIC" => IsCyclic(taskGraph)
    /\ stage \in {"DROP", "PREPARED"} =>
        /\ \A i \in DOMAIN infos : Linked(errorPropagationGraph, i)
        /\ errorPropagationGraph.vertices \subseteq TaskNames
        /\ IsPart(taskGraph, errorPropagationGraph, Needed)
    /\ stage = "PREPARED" => taskGraph.vertices \subseteq InScope

\* The inductive invariant.
Inv ==
    /\ infos \in Catalogs /\ selector \in Selectors
    /\ TypeOK
    /\ Agrees(taskGraph) /\ Agrees(errorPropagationGraph)
    /\ StageInv

-----------------------------------------------------------------------------
\* The catalog is a list of tasks.
LEMMA CatalogIs ==
    ASSUME infos \in Catalogs
    PROVE  /\ Len(infos) \in Nat /\ DOMAIN infos = 1 .. Len(infos)
           /\ \A i \in DOMAIN infos :
                /\ infos[i].name \in Vertices /\ infos[i].deps \subseteq Vertices
                /\ infos[i].inputs \subseteq Seq(Names) /\ infos[i].outputs \subseteq Seq(Names)
                /\ IsFiniteSet(infos[i].inputs)
           /\ TaskNames \subseteq Vertices
  BY CatalogsAssumption DEF TaskNames

\* An output is an output of a task of the catalog.
LEMMA OutputIs ==
    /\ \A l \in Outputs : l[1] \in DOMAIN infos /\ l[2] \in infos[l[1]].outputs
    /\ \A i \in DOMAIN infos : \A p \in infos[i].outputs : <<i, p>> \in Outputs
  <1>1. \A l : l \in Locations <=> \E i \in DOMAIN infos : \E p \in UNION {infos[j].outputs : j \in DOMAIN infos} : l = <<i, p>>
    BY DEF Locations
  <1>2. \A i \in DOMAIN infos : \A p \in infos[i].outputs :
            p \in UNION {infos[j].outputs : j \in DOMAIN infos}
    OBVIOUS
  <1> QED BY <1>1, <1>2 DEF Outputs

\* validateTaskInfos() fills the registry with tasks.
LEMMA RegisteredIs ==
    ASSUME infos \in Catalogs, Registered
    PROVE  /\ DOMAIN reg = {l[2] : l \in Outputs} /\ DOMAIN reg \subseteq Seq(Names)
           /\ \A p \in DOMAIN reg : reg[p] \in TaskNames
           /\ \A l \in Outputs : l[2] \in DOMAIN reg /\ (l[2] # Root => reg[l[2]] = infos[l[1]].name)
  <1>1. DOMAIN reg = {l[2] : l \in Outputs} BY DEF Registered
  <1>2. \A l \in Outputs : l[1] \in DOMAIN infos /\ l[2] \in Seq(Names) BY OutputIs, CatalogIs
  <1>3. DOMAIN reg \subseteq Seq(Names) BY <1>1, <1>2
  <1>4. \A p \in DOMAIN reg : reg[p] \in TaskNames
    <2> TAKE p \in DOMAIN reg
    <2> DEFINE l == CHOOSE x \in Outputs : x[2] = p
    <2>1. l \in Outputs BY <1>1
    <2>2. reg[p] = infos[l[1]].name BY <1>1 DEF Registered
    <2> HIDE DEF l
    <2> QED BY <1>2, <2>1, <2>2 DEF TaskNames
  <1>5. ASSUME NEW l \in Outputs PROVE l[2] \in DOMAIN reg /\ (l[2] # Root => reg[l[2]] = infos[l[1]].name)
    <2> DEFINE k == CHOOSE x \in Outputs : x[2] = l[2]
    <2>1. l[2] \in DOMAIN reg BY <1>1
    <2>2. k \in Outputs /\ k[2] = l[2] OBVIOUS
    <2>3. reg[l[2]] = infos[k[1]].name BY <2>1, <1>1 DEF Registered
    <2> HIDE DEF k
    <2>4. ASSUME l[2] # Root PROVE k = l
      <3>1. l[2] \in Seq(Names) BY <1>2
      <3>2. Len(l[2]) \in Nat /\ Len(l[2]) <= Len(l[2]) BY <3>1
      <3>3. IsPrefixOf(l[2], k[2]) BY <2>2, <2>4, <3>2 DEF IsPrefixOf
      <3> QED BY <2>2, <3>3 DEF Registered, OutputsCollide
    <2> QED BY <2>1, <2>3, <2>4
  <1> QED BY <1>1, <1>3, <1>4, <1>5

\* The same of the next state.
RegistryTyped ==
    infos \in Catalogs /\ Registered =>
        DOMAIN reg \subseteq Seq(Names) /\ \A p \in DOMAIN reg : reg[p] \in TaskNames

LEMMA RegistryTypes == RegistryTyped
  BY RegisteredIs DEF RegistryTyped

\* A set of places in a sequence has a last.
LEMMA LastPlace ==
    ASSUME NEW n \in Nat, NEW T \in SUBSET (1 .. n), T # {}
    PROVE  \E i \in T : \A j \in T : j <= i
  <1> DEFINE back == {n - i : i \in T}
  <1>1. back \subseteq Nat /\ back # {}
    <2>1. \A i \in 1 .. n : n - i \in Nat OBVIOUS
    <2>2. back \subseteq Nat BY <2>1
    <2> QED BY <2>2
  <1>2. PICK k \in back : \A m \in back : k <= m
    <2> HIDE DEF back
    <2> QED BY <1>1, LeastNat
  <1>3. PICK i \in T : k = n - i OBVIOUS
  <1>4. ASSUME NEW j \in T PROVE j <= i
    <2>1. n - i <= n - j BY <1>2, <1>3
    <2> QED BY <2>1
  <1> QED BY <1>4

\* lookup() finds the output that is nearest above a location.
LEMMA LookupIs ==
    ASSUME NEW r, NEW p \in Seq(Names)
    PROVE  \/ Lookup(r, p) = NoTask /\ \A i \in 1 .. Len(p) : SubSeq(p, 1, i) \notin DOMAIN r
           \/ \E i \in 1 .. Len(p) :
                /\ SubSeq(p, 1, i) \in DOMAIN r /\ Lookup(r, p) = r[SubSeq(p, 1, i)]
                /\ \A j \in 1 .. Len(p) : SubSeq(p, 1, j) \in DOMAIN r => j <= i
  <1> DEFINE at == {i \in 1 .. Len(p) : SubSeq(p, 1, i) \in DOMAIN r}
             last == CHOOSE i \in at : \A j \in at : j <= i
  <1>1. Lookup(r, p) = IF at = {} THEN NoTask ELSE r[SubSeq(p, 1, last)] BY DEF Lookup
  <1>2. ASSUME at # {} PROVE last \in at /\ \A j \in at : j <= last
    <2>1. Len(p) \in Nat /\ at \in SUBSET (1 .. Len(p)) OBVIOUS
    <2>2. \E i \in at : \A j \in at : j <= i
      <3> HIDE DEF at
      <3> QED BY <1>2, <2>1, LastPlace
    <2> QED BY <2>2
  <1> HIDE DEF last
  <1> QED BY <1>1, <1>2

\* What lies in an output is found to be of the task that makes it: no output lies in
\* another, so none is nearer.
LEMMA InputsAreFound ==
    ASSUME infos \in Catalogs, Registered, NEW k \in DOMAIN infos, NEW o \in infos[k].outputs, o # Root,
           NEW p \in Seq(Names), Encloses(o, p)
    PROVE  Lookup(reg, p) = infos[k].name
  <1>1. /\ <<k, o>> \in Outputs /\ o \in Seq(Names)
        /\ o \in DOMAIN reg /\ reg[o] = infos[k].name
    <2>1. <<k, o>> \in Outputs BY OutputIs
    <2>2. o \in Seq(Names) BY CatalogIs
    <2>3. <<k, o>>[1] = k /\ <<k, o>>[2] = o OBVIOUS
    <2> QED BY <2>1, <2>2, <2>3, RegisteredIs
  <1>2. Len(o) \in 1 .. Len(p) /\ SubSeq(p, 1, Len(o)) = o
    <2>1. Len(o) \in Nat /\ Len(p) \in Nat /\ Len(o) # 0 BY <1>1 DEF Root
    <2> QED BY <2>1 DEF Encloses
  <1>3. PICK i \in 1 .. Len(p) :
            /\ SubSeq(p, 1, i) \in DOMAIN reg /\ Lookup(reg, p) = reg[SubSeq(p, 1, i)]
            /\ \A j \in 1 .. Len(p) : SubSeq(p, 1, j) \in DOMAIN reg => j <= i
    BY <1>1, <1>2, LookupIs
  <1> DEFINE q == SubSeq(p, 1, i)
  <1>4. Len(o) <= i BY <1>1, <1>2, <1>3
  <1>5. ASSUME i # Len(o) PROVE FALSE
    <2>1. Len(o) < i /\ i <= Len(p) /\ Len(o) \in Nat /\ i \in Nat /\ Len(p) \in Nat
      <3>1. Len(o) \in Nat /\ Len(p) \in Nat BY <1>1
      <3>2. \A n \in Nat : \A j \in 1 .. n : j \in Nat /\ j <= n OBVIOUS
      <3>3. i \in Nat /\ i <= Len(p) BY <3>1, <3>2
      <3>4. \A a, b \in Nat : a <= b /\ b # a => a < b OBVIOUS
      <3> QED BY <1>4, <1>5, <3>1, <3>3, <3>4
    <2>2. \A j \in 1 .. Len(p) : p[j] \in Names OBVIOUS
    <2>3. Len(q) = i /\ \A j \in 1 .. i : q[j] = p[j]
      <3>1. \A j \in 1 .. i : p[j] \in Names BY <2>1, <2>2
      <3>2. 1 \in Int /\ i \in Int /\ 1 <= i BY <2>1
      <3>3. Len(q) = i - 1 + 1 /\ \A j \in 1 .. i - 1 + 1 : q[j] = p[1 + j - 1] BY <3>1, <3>2, SubSeqProperties
      <3>4. i - 1 + 1 = i /\ \A j \in 1 .. i : 1 + j - 1 = j OBVIOUS
      <3> HIDE DEF q
      <3> QED BY <3>3, <3>4
    <2>4. \A j \in 1 .. Len(o) : o[j] = p[j]
      <3>1. \A j \in 1 .. Len(o) : p[j] \in Names BY <2>1, <2>2
      <3>2. \A j \in 1 .. Len(o) - 1 + 1 : SubSeq(p, 1, Len(o))[j] = p[1 + j - 1]
        BY <2>1, <3>1, SubSeqProperties
      <3>3. \A j \in 1 .. Len(o) : j \in 1 .. Len(o) - 1 + 1 /\ 1 + j - 1 = j BY <2>1
      <3> QED BY <1>2, <3>2, <3>3
    <2>5. PICK l \in Outputs : l[2] = q BY <1>3, RegisteredIs
    <2> HIDE DEF q
    <2>6. Len(o) <= Len(q) /\ \A j \in 1 .. Len(o) : o[j] = q[j] BY <2>1, <2>3, <2>4
    <2>7. \A j \in 1 .. Len(o) - 1 : o[j] = q[j] BY <2>1, <2>6
    <2>8. o[Len(o)] = q[Len(o)] BY <1>2, <2>6
    <2>9. IsPrefixOf(o, q) BY <2>6, <2>7, <2>8 DEF IsPrefixOf
    <2>10. <<k, o>> # l /\ <<k, o>>[2] = o BY <2>1, <2>3, <2>5
    <2> QED BY <1>1, <2>5, <2>9, <2>10 DEF Registered, OutputsCollide
  <1>6. q = o BY <1>2, <1>5
  <1> QED BY <1>1, <1>3, <1>6

\* Only tasks start a plan.
LEMMA ChosenAreTasks ==
    ASSUME infos \in Catalogs, selector \in Selectors, Registered
    PROVE  Chosen \subseteq TaskNames
  <1>1. \A p \in DOMAIN reg : reg[p] \in TaskNames BY RegisteredIs
  <1>2. ASSUME NEW g \in selector.goals PROVE WideLookup(reg, g) \subseteq TaskNames
    <2>1. g \in Seq(Names) BY SelectorsAssumption
    <2>2. Lookup(reg, g) # NoTask => Lookup(reg, g) \in TaskNames BY <1>1, <2>1, LookupIs
    <2> QED BY <1>1, <2>2 DEF WideLookup
  <1>3. GoalTasks \subseteq TaskNames BY <1>2 DEF GoalTasks
  <1> QED BY <1>3 DEF Chosen

-----------------------------------------------------------------------------
\* The invariant holds at first.
LEMMA InitInv == Init => Inv
  <1> SUFFICES ASSUME Init PROVE Inv OBVIOUS
  <1>1. TaskNames \subseteq Vertices /\ Len(infos) \in Nat BY CatalogIs DEF Init
  <1>2. EmptyGraph.vertices = {} /\ EmptyGraph.out \in Links /\ EmptyGraph.in \in Links
    BY DEF EmptyGraph, NoLinks, Links
  <1>3. TypeOK
    <2>1. next \in 1 .. Len(infos) + 1 BY <1>1 DEF Init
    <2> QED BY <1>1, <1>2, <2>1 DEF Init, TypeOK
  <1>4. StageInv BY DEF Init, StageInv
  <1> QED BY <1>3, <1>4, EmptyAgrees DEF Init, Inv

\* Graphs that agree have their type.
LEMMA AgreesType ==
    ASSUME NEW g, Agrees(g)
    PROVE  g.vertices \subseteq Vertices /\ g.out \in Links /\ g.in \in Links
  BY DEF Agrees, TaskGraphs

\* What the steps leave alone.
LEMMA SameInput ==
    ASSUME infos' = infos
    PROVE  /\ TaskNames' = TaskNames /\ Outputs' = Outputs /\ OutputsCollide' = OutputsCollide
           /\ reg' = reg => Registered' = Registered
  <1>1. Outputs' = Outputs BY DEF Outputs, Locations
  <1>2. TaskNames' = TaskNames BY DEF TaskNames
  <1>3. OutputsCollide' = OutputsCollide BY <1>1 DEF OutputsCollide
  <1> QED BY <1>1, <1>2, <1>3 DEF Registered

\* validateTaskInfos() lets only outputs pass that do not collide.
LEMMA ValidateInv == ASSUME Inv, ValidateTaskInfos PROVE Inv'
  <1>1. /\ UNCHANGED <<infos, selector, next, taskGraph, errorPropagationGraph, startingPoints>>
        /\ TaskNames' = TaskNames /\ Outputs' = Outputs /\ OutputsCollide' = OutputsCollide
    BY SameInput DEF ValidateTaskInfos
  <1>2. CASE stage' = "REGISTER" /\ ~OutputsCollide
             /\ reg' = [p \in {l[2] : l \in Outputs} |-> infos[(CHOOSE l \in Outputs : l[2] = p)[1]].name]
    <2>1. Registered' BY <1>1, <1>2 DEF Registered
    <2>2. DOMAIN reg' \subseteq Seq(Names) /\ \A p \in DOMAIN reg' : reg'[p] \in TaskNames'
      <3>1. infos' \in Catalogs BY <1>1 DEF Inv
      <3>2. RegistryTyped' BY RegistryTypes, PTL
      <3> QED BY <2>1, <3>1, <3>2 DEF RegistryTyped
    <2>3. TypeOK' BY <1>1, <1>2, <2>2 DEF Inv, TypeOK
    <2>4. stage = "VALIDATE" /\ next' = 1 BY <1>1 DEF Inv, StageInv, ValidateTaskInfos
    <2>5. \A i \in 1 .. next' - 1 : Linked(taskGraph, i)' BY <2>4
    <2>6. StageInv' BY <1>2, <2>1, <2>5 DEF StageInv
    <2> QED BY <1>1, <2>3, <2>6 DEF Inv, Agrees
  <1>3. CASE stage' \in {"NAME_COLLISION", "OUTPUT_COLLISION"} /\ reg' = reg
    <2>1. TypeOK' BY <1>1, <1>3 DEF Inv, TypeOK, Failures
    <2>2. StageInv' BY <1>3 DEF StageInv
    <2> QED BY <1>1, <2>1, <2>2 DEF Inv, Agrees
  <1> QED BY <1>2, <1>3 DEF ValidateTaskInfos, Fail

\* Edges that are added take none away.
LEMMA LinkedGrows ==
    ASSUME infos \in Catalogs, NEW g, NEW h, Agrees(g), Agrees(h), g.vertices \subseteq h.vertices,
           \A x, y \in Vertices : g.out[x][y] <= h.out[x][y],
           NEW i \in DOMAIN infos, Linked(g, i)
    PROVE  Linked(h, i)
  <1>1. \A x, y \in Vertices : g.out[x][y] \in Nat /\ h.out[x][y] \in Nat
    BY AgreesType DEF Links
  <1>2. \A a, b \in Nat : a > 0 /\ a <= b => b > 0 OBVIOUS
  <1>3. \A x, y \in Vertices : g.out[x][y] > 0 => h.out[x][y] > 0 BY <1>1, <1>2
  <1>4. infos[i].name \in Vertices BY CatalogIs
  <1> QED BY <1>3, <1>4 DEF Linked

\* registerTask() links the task to the producers of its inputs.
LEMMA RegisterInv == ASSUME Inv, RegisterTask PROVE Inv'
  <1> DEFINE info == infos[next]
             inputs == [v \in Vertices |-> Cardinality({p \in info.inputs : Lookup(reg, p) = v})]
             deps == [v \in Vertices |-> IF v \in info.deps THEN 1 ELSE 0]
             g1 == AddVertex(taskGraph, info.name)
             g2 == AddEdges(g1, info.name, inputs)
             g3 == AddEdges(g2, info.name, deps)
  <1>1. next \in DOMAIN infos /\ next \in Nat /\ Len(infos) \in Nat
        /\ infos \in Catalogs /\ stage = "REGISTER" /\ next \in 1 .. Len(infos)
    <2>1. infos \in Catalogs /\ stage = "REGISTER" /\ next <= Len(infos) BY DEF Inv, RegisterTask
    <2>2. next \in 1 .. Len(infos) + 1 BY DEF Inv, TypeOK
    <2>3. Len(infos) \in Nat /\ DOMAIN infos = 1 .. Len(infos) BY <2>1, CatalogIs
    <2> QED BY <2>1, <2>2, <2>3
  <1>2. info.name \in Vertices /\ IsFiniteSet(info.inputs) BY <1>1, CatalogIs
  <1>3. inputs \in [Vertices -> Nat] /\ \A p \in info.inputs : Lookup(reg, p) \in Vertices => inputs[Lookup(reg, p)] > 0
    <2> DEFINE of(v) == {p \in info.inputs : Lookup(reg, p) = v}
    <2>1. ASSUME NEW v \in Vertices
          PROVE  Cardinality(of(v)) \in Nat /\ (of(v) # {} => Cardinality(of(v)) > 0)
      <3>1. IsFiniteSet(of(v)) BY <1>2, FS_Subset
      <3> HIDE DEF of
      <3>2. Cardinality(of(v)) \in Nat BY <3>1, FS_CardinalityType
      <3>3. Cardinality(of(v)) = 0 <=> of(v) = {} BY <3>1, FS_EmptySet
      <3> QED BY <3>2, <3>3
    <2>2. inputs = [v \in Vertices |-> Cardinality(of(v))] OBVIOUS
    <2>3. \A p \in info.inputs : of(Lookup(reg, p)) # {} OBVIOUS
    <2> HIDE DEF inputs, of
    <2> QED BY <2>1, <2>2, <2>3
  <1>4. deps \in [Vertices -> Nat] OBVIOUS
  <1>5. taskGraph' = g3
    BY DEF RegisterTask, WithInputs, WithDeps
  <1>6. /\ Agrees(g1) /\ info.name \in g1.vertices /\ taskGraph.vertices \subseteq g1.vertices
        /\ g1.out = taskGraph.out
    <2>1. Agrees(taskGraph) /\ taskGraph \in TaskGraphs BY DEF Inv, Agrees
    <2>2. g1.vertices = taskGraph.vertices \cup {info.name} /\ g1.out = taskGraph.out
      BY <2>1 DEF AddVertex, TaskGraphs
    <2>3. Agrees(g1) BY <1>2, <2>1, AddVertexAgrees
    <2> QED BY <2>2, <2>3
  <1> HIDE DEF inputs, deps, g1
  <1>7. /\ Agrees(g2) /\ g1.vertices \subseteq g2.vertices
        /\ \A x, y \in Vertices : g2.out[x][y] = IF x = info.name THEN g1.out[x][y] + inputs[y] ELSE g1.out[x][y]
    <2>1. inputs \in [Vertices -> Nat] BY <1>3
    <2>2. Agrees(g1) /\ info.name \in Vertices BY <1>2, <1>6
    <2> HIDE DEF info
    <2> QED BY <2>1, <2>2, AddEdgesAgrees
  <1> HIDE DEF g2
  <1>8. /\ Agrees(g3) /\ g2.vertices \subseteq g3.vertices
        /\ \A x, y \in Vertices : g3.out[x][y] = IF x = info.name THEN g2.out[x][y] + deps[y] ELSE g2.out[x][y]
    BY <1>2, <1>4, <1>7, AddEdgesAgrees
  <1> HIDE DEF g3
  <1>9. \A x, y \in Vertices :
            /\ g1.out[x][y] \in Nat /\ g2.out[x][y] \in Nat /\ g3.out[x][y] \in Nat
            /\ inputs[y] \in Nat /\ deps[y] \in Nat
    BY <1>3, <1>4, <1>6, <1>7, <1>8, AgreesType DEF Links
  <1>10. \A a, b, c \in Nat : (a = b + c => b <= a) /\ (a = b => b <= a) /\ (a = b + c /\ c > 0 => a > 0)
                              /\ (b > 0 /\ b <= a => a > 0) /\ (a <= b /\ b <= c => a <= c)
    OBVIOUS
  <1>11. \A x, y \in Vertices : g1.out[x][y] <= g2.out[x][y] /\ g2.out[x][y] <= g3.out[x][y]
    <2> TAKE x \in Vertices, y \in Vertices
    <2>1. CASE x = info.name
      <3>1. g2.out[x][y] = g1.out[x][y] + inputs[y] /\ g3.out[x][y] = g2.out[x][y] + deps[y] BY <1>7, <1>8, <2>1
      <3> QED BY <1>9, <1>10, <3>1
    <2>2. CASE x # info.name
      <3>1. g2.out[x][y] = g1.out[x][y] /\ g3.out[x][y] = g2.out[x][y] BY <1>7, <1>8, <2>2
      <3> QED BY <1>9, <1>10, <3>1
    <2> QED BY <2>1, <2>2
  <1>12. taskGraph.vertices \subseteq g3.vertices /\ info.name \in g3.vertices
         /\ \A x, y \in Vertices : taskGraph.out[x][y] <= g3.out[x][y]
    BY <1>6, <1>7, <1>8, <1>9, <1>10, <1>11
  <1>13. Linked(g3, next)
    <2>1. ASSUME NEW p \in info.inputs, Lookup(reg, p) \in Vertices PROVE g3.out[info.name][Lookup(reg, p)] > 0
      <3> DEFINE v == Lookup(reg, p)
      <3>1. inputs[v] > 0 BY <1>3, <2>1
      <3>2. v \in Vertices BY <2>1
      <3> HIDE DEF v
      <3>3. g2.out[info.name][v] = g1.out[info.name][v] + inputs[v] BY <1>2, <1>7, <3>2
      <3>4. g2.out[info.name][v] > 0 BY <1>2, <1>9, <1>10, <3>1, <3>2, <3>3
      <3>5. g3.out[info.name][v] > 0 BY <1>2, <1>9, <1>10, <1>11, <3>2, <3>4
      <3> QED BY <3>5 DEF v
    <2> QED BY <1>12, <2>1 DEF Linked
  <1>14. ASSUME NEW i \in 1 .. next' - 1 PROVE Linked(g3, i)
    <2>1. next' = next + 1 BY DEF RegisterTask
    <2>2. CASE i = next BY <1>13, <2>2
    <2>3. CASE i # next
      <3>1. i \in 1 .. next - 1 /\ i \in DOMAIN infos
        <4>1. DOMAIN infos = 1 .. Len(infos) BY <1>1, CatalogIs
        <4> QED BY <1>1, <2>1, <2>3, <4>1
      <3>2. Linked(taskGraph, i) BY <1>1, <3>1 DEF Inv, StageInv
      <3> QED BY <1>1, <1>8, <1>12, <3>1, <3>2, LinkedGrows DEF Inv
    <2> QED BY <2>2, <2>3
  <1>15. /\ UNCHANGED <<infos, selector, stage, reg, errorPropagationGraph, startingPoints>>
         /\ next' \in 1 .. Len(infos) + 1
    BY <1>1 DEF RegisterTask
  <1>16. Registered' /\ TaskNames' = TaskNames
    <2>1. Registered BY <1>1 DEF Inv, StageInv
    <2> QED BY <1>15, <2>1, SameInput
  <1>17. \A i \in 1 .. next' - 1 : Linked(taskGraph, i)' BY <1>5, <1>14, <1>15 DEF Linked
  <1>18. StageInv' BY <1>1, <1>15, <1>16, <1>17 DEF StageInv
  <1>19. Agrees(taskGraph') BY <1>5, <1>8
  <1>20. TypeOK' BY <1>15, <1>16, <1>19, AgreesType DEF Inv, TypeOK
  <1> QED BY <1>15, <1>18, <1>19, <1>20 DEF Inv, Agrees

\* A plan is made of a graph without cycles, with all tasks in it.
LEMMA MakePlanInv == ASSUME Inv, MakePlan PROVE Inv'
  <1>1. /\ UNCHANGED <<infos, selector, reg, next, taskGraph, startingPoints>>
        /\ TaskNames' = TaskNames /\ (Registered' <=> Registered)
        /\ stage = "REGISTER" /\ Registered /\ infos \in Catalogs
    BY SameInput DEF MakePlan, Inv, StageInv
  <1>2. \A i \in DOMAIN infos : Linked(taskGraph, i)
    <2>1. Len(infos) \in Nat /\ DOMAIN infos = 1 .. Len(infos) BY <1>1, CatalogIs
    <2>2. next > Len(infos) /\ next \in 1 .. Len(infos) + 1 BY DEF MakePlan, Inv, TypeOK
    <2>3. next - 1 = Len(infos) BY <2>1, <2>2
    <2> QED BY <1>1, <2>1, <2>3 DEF Inv, StageInv
  <1>3. CASE IsCyclic(taskGraph)
    <2>1. stage' = "CYCLIC" /\ errorPropagationGraph' = errorPropagationGraph BY <1>3 DEF MakePlan, Fail
    <2>2. StageInv' BY <1>1, <1>3, <2>1 DEF StageInv, IsCyclic
    <2>3. TypeOK' BY <1>1, <2>1 DEF Inv, TypeOK, Failures
    <2> QED BY <1>1, <2>1, <2>2, <2>3 DEF Inv, Agrees
  <1>4. CASE ~IsCyclic(taskGraph)
    <2>1. stage' = "APPLY" /\ errorPropagationGraph' = Copy(taskGraph) BY <1>4 DEF MakePlan
    <2>2. Agrees(errorPropagationGraph') /\ errorPropagationGraph'.vertices = taskGraph.vertices
          /\ errorPropagationGraph'.out = taskGraph.out
      BY <2>1, CopyAgrees DEF Inv, Copy
    <2>3. \A i \in DOMAIN infos : Linked(taskGraph, i)' BY <1>1, <1>2 DEF Linked
    <2>4. ~IsCyclic(taskGraph)' BY <1>1, <1>4
    <2>5. StageInv' BY <1>1, <2>1, <2>2, <2>3, <2>4 DEF StageInv
    <2>6. TypeOK' BY <1>1, <2>1, <2>2, AgreesType DEF Inv, TypeOK
    <2> QED BY <1>1, <2>2, <2>5, <2>6 DEF Inv, Agrees
  <1> QED BY <1>3, <1>4

\* computeStartingPoints() gives tasks of the graph, so all that they need is in it.
LEMMA StartInv == ASSUME Inv, ComputeStartingPoints PROVE Inv'
  <1>1. /\ UNCHANGED <<infos, selector, reg, next, taskGraph, errorPropagationGraph>>
        /\ TaskNames' = TaskNames /\ (Registered' <=> Registered)
        /\ stage = "APPLY" /\ Registered /\ infos \in Catalogs /\ selector \in Selectors
    BY SameInput DEF ComputeStartingPoints, Inv, StageInv
  <1>2. CASE stage' \in {"NO_TASK_FOR_GOAL", "MISSING_TASK"} /\ startingPoints' = startingPoints
    <2>1. StageInv' BY <1>2 DEF StageInv
    <2>2. TypeOK' BY <1>1, <1>2 DEF Inv, TypeOK, Failures
    <2> QED BY <1>1, <2>1, <2>2 DEF Inv, Agrees
  <1>3. CASE stage' = "DROP" /\ startingPoints' = Chosen /\ taskGraph.vertices \subseteq TaskNames
    <2> DEFINE g == taskGraph
               whole == errorPropagationGraph
    <2>1. /\ Agrees(g) /\ Agrees(whole) /\ g.vertices = whole.vertices /\ g.out = whole.out
          /\ \A i \in DOMAIN infos : Linked(g, i)
      BY <1>1 DEF Inv, StageInv
    <2>2. Chosen \subseteq TaskNames BY <1>1, ChosenAreTasks
    <2>3. TaskNames \subseteq g.vertices BY <2>1 DEF TaskNames, Linked
    <2>4. Needed' = TraverseFrom(whole.out, Chosen) BY <1>1, <1>3 DEF Needed
    <2>5. TraverseFrom(whole.out, Chosen) \subseteq g.vertices
      <3>1. g.vertices \in SUBSET Vertices BY <2>1, AgreesType
      <3>2. ClosedUnder(whole.out, g.vertices) BY <2>1, <3>1 DEF ClosedUnder, Agrees
      <3>3. Chosen \in SUBSET Vertices /\ Chosen \subseteq g.vertices BY <2>2, <2>3, <3>1
      <3> HIDE DEF g, whole
      <3> QED BY <3>1, <3>2, <3>3, TraversalIsLeast
    <2>6. \A u, w \in Vertices :
            g.out[u][w] = IF u \in g.vertices /\ w \in g.vertices THEN whole.out[u][w] ELSE 0
      <3>1. \A u, w \in Vertices : g.out[u][w] \in Nat BY <2>1, AgreesType DEF Links
      <3>2. \A u, w \in Vertices : g.out[u][w] > 0 => u \in g.vertices /\ w \in g.vertices BY <2>1 DEF Agrees
      <3> QED BY <2>1, <3>1, <3>2
    <2>7. IsPart(g, whole, Needed)' BY <1>1, <2>1, <2>4, <2>5, <2>6 DEF IsPart
    <2>8. \A i \in DOMAIN infos' : Linked(errorPropagationGraph, i)' BY <1>1, <2>1 DEF Linked
    <2>9. whole.vertices \subseteq TaskNames BY <1>3, <2>1
    <2>10. StageInv' BY <1>1, <1>3, <2>7, <2>8, <2>9 DEF StageInv
    <2>11. TypeOK' BY <1>1, <1>3, <2>2 DEF Inv, TypeOK
    <2> QED BY <1>1, <2>10, <2>11 DEF Inv, Agrees
  <1> QED BY <1>2, <1>3 DEF ComputeStartingPoints, Fail

\* Removing what is not needed takes nothing from what is: the scope that is computed
\* once is the scope at every step.
LEMMA ScopeIsNeeded ==
    ASSUME NEW g, NEW whole, Agrees(g), Agrees(whole), NEW start \in SUBSET Vertices,
           IsPart(g, whole, TraverseFrom(whole.out, start))
    PROVE  TraverseFrom(g.out, start) = TraverseFrom(whole.out, start)
  <1> DEFINE N == TraverseFrom(whole.out, start)
             M == TraverseFrom(g.out, start)
  <1>1. /\ start \subseteq N /\ N \in SUBSET Vertices /\ ClosedUnder(whole.out, N)
        /\ \A C \in SUBSET Vertices : start \subseteq C /\ ClosedUnder(whole.out, C) => N \subseteq C
    BY TraversalIsLeast
  <1>2. /\ start \subseteq M /\ M \in SUBSET Vertices /\ ClosedUnder(g.out, M)
        /\ \A C \in SUBSET Vertices : start \subseteq C /\ ClosedUnder(g.out, C) => M \subseteq C
    BY TraversalIsLeast
  <1>3. /\ N \subseteq g.vertices
        /\ \A u, w \in Vertices :
            g.out[u][w] = IF u \in g.vertices /\ w \in g.vertices THEN whole.out[u][w] ELSE 0
    BY DEF IsPart
  <1> HIDE DEF N, M
  <1>4. ClosedUnder(g.out, N)
    <2>1. \A u, w \in Vertices : g.out[u][w] > 0 => whole.out[u][w] > 0 BY <1>3
    <2> QED BY <1>1, <2>1 DEF ClosedUnder
  <1>5. M \subseteq N BY <1>1, <1>2, <1>4
  <1>6. ClosedUnder(whole.out, M)
    <2> SUFFICES ASSUME NEW u \in M, NEW w \in Vertices, whole.out[u][w] > 0 PROVE w \in M BY DEF ClosedUnder
    <2>1. u \in N /\ w \in N BY <1>1, <1>5 DEF ClosedUnder
    <2>2. g.out[u][w] = whole.out[u][w] /\ u \in Vertices BY <1>1, <1>3, <2>1
    <2> QED BY <1>2, <2>2 DEF ClosedUnder
  <1>7. N \subseteq M BY <1>1, <1>2, <1>6
  <1> QED BY <1>5, <1>7 DEF M, N

\* The same of the planning.
LEMMA InScopeIsNeeded == ASSUME Inv, stage \in {"DROP", "PREPARED"} PROVE InScope = Needed
  <1>1. startingPoints \in SUBSET Vertices BY DEF Inv, TypeOK
  <1>2. IsPart(taskGraph, errorPropagationGraph, TraverseFrom(errorPropagationGraph.out, startingPoints))
    BY DEF Inv, StageInv, Needed
  <1> QED BY <1>1, <1>2, ScopeIsNeeded DEF Inv, InScope, Needed

\* dropOutOfScope() removes nothing that is needed.
LEMMA DropInv == ASSUME Inv, DropVertex PROVE Inv'
  <1>1. /\ UNCHANGED <<infos, selector, stage, reg, next, errorPropagationGraph, startingPoints>>
        /\ TaskNames' = TaskNames /\ (Registered' <=> Registered)
        /\ stage = "DROP" /\ Registered
    BY SameInput DEF DropVertex, Inv, StageInv
  <1> DEFINE g == taskGraph
             whole == errorPropagationGraph
  <1>2. PICK v \in g.vertices \ InScope : taskGraph' = RemoveVertex(g, v) BY DEF DropVertex
  <1>3. /\ Agrees(g) /\ g.vertices \subseteq Vertices
        /\ IsPart(g, whole, Needed) /\ v \notin Needed
    BY <1>1, <1>2, InScopeIsNeeded, AgreesType DEF Inv, StageInv
  <1> DEFINE h == RemoveVertex(g, v)
  <1>4. /\ Agrees(h) /\ h.vertices = g.vertices \ {v}
        /\ \A x, y \in Vertices : h.out[x][y] = IF x = v \/ y = v THEN 0 ELSE g.out[x][y]
    BY <1>3, RemoveVertexAgrees
  <1> HIDE DEF h
  <1>5. IsPart(h, whole, Needed) BY <1>3, <1>4 DEF IsPart
  <1>6. Needed' = Needed BY <1>1 DEF Needed
  <1>7. IsPart(taskGraph, errorPropagationGraph, Needed)' BY <1>1, <1>2, <1>5, <1>6 DEF IsPart, h
  <1>8. \A i \in DOMAIN infos' : Linked(errorPropagationGraph, i)' BY <1>1 DEF Inv, StageInv, Linked
  <1>9. StageInv' BY <1>1, <1>7, <1>8 DEF Inv, StageInv
  <1>10. Agrees(taskGraph') BY <1>2, <1>4 DEF h
  <1>11. TypeOK' BY <1>1, <1>10, AgreesType DEF Inv, TypeOK
  <1> QED BY <1>1, <1>9, <1>10, <1>11 DEF Inv, Agrees

\* Every step keeps the invariant.
LEMMA NextInv == ASSUME Inv, [Next]_vars PROVE Inv'
  <1>1. CASE PlanPrepared
    <2>1. /\ UNCHANGED <<infos, selector, reg, next, taskGraph, errorPropagationGraph, startingPoints>>
          /\ TaskNames' = TaskNames /\ (Registered' <=> Registered) /\ stage = "DROP"
          /\ stage' \in {"NO_STARTING_POINT", "PREPARED"} /\ taskGraph.vertices \subseteq InScope
      BY <1>1, SameInput DEF PlanPrepared, Fail
    <2>2. Needed' = Needed /\ InScope' = InScope BY <2>1 DEF Needed, InScope
    <2>3. IsPart(taskGraph, errorPropagationGraph, Needed)' BY <2>1, <2>2 DEF Inv, StageInv, IsPart
    <2>4. \A i \in DOMAIN infos' : Linked(errorPropagationGraph, i)' BY <2>1 DEF Inv, StageInv, Linked
    <2>5. StageInv' BY <2>1, <2>2, <2>3, <2>4 DEF Inv, StageInv
    <2>6. TypeOK' BY <2>1 DEF Inv, TypeOK, Failures
    <2> QED BY <2>1, <2>5, <2>6 DEF Inv, Agrees
  <1>2. CASE UNCHANGED vars
    <2>1. /\ UNCHANGED <<infos, selector, stage, reg, next, taskGraph, errorPropagationGraph, startingPoints>>
          /\ TaskNames' = TaskNames /\ (Registered' <=> Registered)
      BY <1>2, SameInput DEF vars
    <2>2. Needed' = Needed /\ InScope' = InScope /\ (IsCyclic(taskGraph)' <=> IsCyclic(taskGraph))
      BY <2>1 DEF Needed, InScope
    <2>3. \A i : (Linked(taskGraph, i)' <=> Linked(taskGraph, i))
                 /\ (Linked(errorPropagationGraph, i)' <=> Linked(errorPropagationGraph, i))
      BY <2>1 DEF Linked
    <2>4. IsPart(taskGraph, errorPropagationGraph, Needed)' <=> IsPart(taskGraph, errorPropagationGraph, Needed)
      BY <2>1, <2>2 DEF IsPart
    <2>5. StageInv' BY <2>1, <2>2, <2>3, <2>4 DEF Inv, StageInv
    <2>6. TypeOK' BY <2>1 DEF Inv, TypeOK
    <2> QED BY <2>1, <2>5, <2>6 DEF Inv, Agrees
  <1> QED BY <1>1, <1>2, ValidateInv, RegisterInv, MakePlanInv, StartInv, DropInv DEF Next

-----------------------------------------------------------------------------
\* What a prepared plan is.
LEMMA PlanIs ==
    ASSUME Inv, stage = "PREPARED"
    PROVE  /\ taskGraph.vertices = Needed
           /\ Needed = Forward(EdgesOf(errorPropagationGraph), startingPoints)
           /\ IsPart(taskGraph, errorPropagationGraph, Needed)
  <1>1. InScope = Needed BY InScopeIsNeeded
  <1>2. IsPart(taskGraph, errorPropagationGraph, Needed) /\ taskGraph.vertices \subseteq InScope BY DEF Inv, StageInv
  <1>3. startingPoints \in SUBSET Vertices /\ errorPropagationGraph.out \in Links BY DEF Inv, TypeOK
  <1>4. Needed = Forward(EdgesOf(errorPropagationGraph), startingPoints) BY <1>3, TraversalIsForward DEF Needed
  <1> QED BY <1>1, <1>2, <1>4 DEF IsPart

\* isCyclic() decides: a plan is made of acyclic graphs only, and of all of them.
LEMMA InvCycles == Inv => CyclesAreFound
  BY IsCyclicIsRight DEF Inv, StageInv, CyclesAreFound

LEMMA InvScope == Inv => PlanIsScope
  <1> SUFFICES ASSUME Inv, stage = "PREPARED"
               PROVE  LET all == EdgesOf(errorPropagationGraph)
                          needed == Forward(all, startingPoints) IN
                      /\ taskGraph.vertices = needed
                      /\ EdgesOf(taskGraph) = {e \in all : e[1] \in needed /\ e[2] \in needed}
    BY DEF PlanIsScope
  <1> DEFINE g == taskGraph
             whole == errorPropagationGraph
  <1>1. /\ g.vertices = Needed /\ Needed = Forward(EdgesOf(whole), startingPoints)
        /\ \A u, w \in Vertices :
            g.out[u][w] = IF u \in Needed /\ w \in Needed THEN whole.out[u][w] ELSE 0
    BY PlanIs DEF IsPart
  <1>2. g.out \in Links /\ whole.out \in Links BY DEF Inv, TypeOK
  <1> HIDE DEF g, whole
  <1>3. ASSUME NEW u \in Vertices, NEW w \in Vertices, NEW i \in Nat
        PROVE  <<u, w, i>> \in EdgesOf(g) <=> <<u, w, i>> \in EdgesOf(whole) /\ u \in Needed /\ w \in Needed
    <2>1. <<u, w, i>> \in EdgesOf(g) <=> (1 <= i /\ i <= g.out[u][w]) BY <1>2, EdgeIs
    <2>2. <<u, w, i>> \in EdgesOf(whole) <=> (1 <= i /\ i <= whole.out[u][w]) BY <1>2, EdgeIs
    <2>3. ~(1 <= i /\ i <= 0) OBVIOUS
    <2> QED BY <1>1, <2>1, <2>2, <2>3
  <1>4. EdgesOf(g) \subseteq Edges /\ EdgesOf(whole) \subseteq Edges BY <1>2, EdgeIs
  <1>5. EdgesOf(g) = {e \in EdgesOf(whole) : e[1] \in Needed /\ e[2] \in Needed} BY <1>3, <1>4 DEF Edges
  <1> QED BY <1>1, <1>5 DEF g, whole

LEMMA InvInputs == Inv => InputsComeFirst
  <1> SUFFICES ASSUME Inv, stage = "PREPARED", NEW t \in taskGraph.vertices, NEW u \in TaskNames,
                      NEW p \in Info(t).inputs, NEW o \in Info(u).outputs \ {Root}, Encloses(o, p)
               PROVE  u \in taskGraph.vertices /\ <<t, u, 1>> \in EdgesOf(taskGraph)
    BY DEF InputsComeFirst
  <1> DEFINE g == taskGraph
             whole == errorPropagationGraph
  <1>1. /\ infos \in Catalogs /\ Registered /\ g.out \in Links /\ whole.out \in Links
        /\ g.vertices = Needed /\ Needed = TraverseFrom(whole.out, startingPoints)
        /\ IsPart(g, whole, Needed) /\ g.vertices \subseteq TaskNames /\ TaskNames \subseteq Vertices
        /\ startingPoints \in SUBSET Vertices
        /\ \A i \in DOMAIN infos : Linked(whole, i)
    BY PlanIs DEF Inv, TypeOK, StageInv, Needed, IsPart
  <1>2. PICK i \in DOMAIN infos : infos[i].name = t /\ Info(t) = infos[i] BY <1>1 DEF TaskNames, Info
  <1>3. PICK k \in DOMAIN infos : infos[k].name = u /\ Info(u) = infos[k] BY DEF TaskNames, Info
  <1>4. Lookup(reg, p) = u
    <2>1. p \in Seq(Names) BY <1>1, <1>2, CatalogIs
    <2>2. o \in infos[k].outputs /\ o # Root BY <1>3
    <2> QED BY <1>1, <1>3, <2>1, <2>2, InputsAreFound
  <1>5. t \in Vertices /\ u \in Vertices BY <1>1
  <1>6. whole.out[t][u] > 0 BY <1>1, <1>2, <1>4, <1>5 DEF Linked
  <1>7. u \in Needed
    <2>1. ClosedUnder(whole.out, Needed) BY <1>1, TraversalIsLeast
    <2> QED BY <1>1, <1>5, <1>6, <2>1 DEF ClosedUnder
  <1>8. g.out[t][u] = whole.out[t][u] /\ g.out[t][u] \in Nat BY <1>1, <1>5, <1>7 DEF IsPart, Links
  <1>9. 1 <= g.out[t][u] BY <1>6, <1>8
  <1>10. <<t, u, 1>> \in EdgesOf(g) BY <1>1, <1>5, <1>9, EdgeIs
  <1> QED BY <1>1, <1>7, <1>10

\* The state of the planning keeps its type, whatever the catalog and the request.
THEOREM TypeCorrect == Spec => []TypeOK
  <1>1. Init => Inv BY InitInv
  <1>2. Inv /\ [Next]_vars => Inv' BY NextInv
  <1>3. Inv => TypeOK BY DEF Inv
  <1> QED BY <1>1, <1>2, <1>3, PTL DEF Spec

\* The lists of the task graph, and of the copy made for the propagation of
\* errors, agree in every state of the planning of any catalog (Graph.edge(),
\* copy() and remove(), as Planner and ExecutionPlan call them).
THEOREM ListsStayInStep == Spec => []ListsAgree
  <1>1. Init => Inv BY InitInv
  <1>2. Inv /\ [Next]_vars => Inv' BY NextInv
  <1>3. Inv => ListsAgree BY DEF Inv, Agrees, ListsAgree
  <1> QED BY <1>1, <1>2, <1>3, PTL DEF Spec

\* Planner.computePlan() rejects the catalogs whose tasks depend on each other in a
\* circle, and no other, for graphs of any size with any number of edges between two
\* tasks (Graph.isCyclic()).
THEOREM CyclesAreAlwaysFound == Spec => []CyclesAreFound
  <1>1. Init => Inv BY InitInv
  <1>2. Inv /\ [Next]_vars => Inv' BY NextInv
  <1> QED BY <1>1, <1>2, InvCycles, PTL DEF Spec

\* ExecutionPlan.apply() leaves exactly what the starting points need, in whatever
\* order the other tasks are removed.
THEOREM PlansAreScopes == Spec => []PlanIsScope
  <1>1. Init => Inv BY InitInv
  <1>2. Inv /\ [Next]_vars => Inv' BY NextInv
  <1> QED BY <1>1, <1>2, InvScope, PTL DEF Spec

\* An input of a planned task that is an output of another task, or lies in one, is
\* made by a task of the plan, and the plan has an edge between them (validateTaskInfos(), lookup(), registerTask() and
\* dropOutOfScope() together).
THEOREM InputsAlwaysComeFirst == Spec => []InputsComeFirst
  <1>1. Init => Inv BY InitInv
  <1>2. Inv /\ [Next]_vars => Inv' BY NextInv
  <1> QED BY <1>1, <1>2, InvInputs, PTL DEF Spec
=============================================================================
