-------------------------- MODULE DependencyGraph --------------------------
(***************************************************************************)
(* The directed graphs of modules/misc/src/graph.ts, as sets of edges.     *)
(* An edge is a triple <<from, to, copy>>: Graph.edge() appends to the     *)
(* neighbour lists without looking, so there may be several edges between  *)
(* the same two vertices, and every count of neighbours sees each of them. *)
(***************************************************************************)
EXTENDS Integers, FiniteSets

CONSTANT Vertices   \* the vertices a graph may have

ASSUME VerticesAssumption == IsFiniteSet(Vertices)

Edges == Vertices \X Vertices \X Nat

\* neighborsOf(v).length
OutDegree(E, v) == Cardinality({e \in E : e[1] = v})

\* how often n occurs in backNeighborsOf(v)
Multiplicity(E, n, v) == Cardinality({e \in E : e[1] = n /\ e[2] = v})

\* ~isCyclic(): the vertices can be ranked along the edges.
Acyclic(E) ==
    \E rank \in [Vertices -> 0 .. Cardinality(Vertices)] :
        \A e \in E : rank[e[2]] < rank[e[1]]

\* traverseFrom(S): the least set that contains S and is closed under E
\* (direction forward) or under its inverse (direction backwards).
Forward(E, S) ==
    {v \in Vertices : \A C \in SUBSET Vertices :
        (S \subseteq C /\ \A e \in E : e[1] \in C => e[2] \in C) => v \in C}
Backward(E, S) ==
    {v \in Vertices : \A C \in SUBSET Vertices :
        (S \subseteq C /\ \A e \in E : e[2] \in C => e[1] \in C) => v \in C}
=============================================================================
