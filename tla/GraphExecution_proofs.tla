------------------------ MODULE GraphExecution_proofs ------------------------
(***************************************************************************)
(* Proofs that an execution of any graph, with any batchScheduler and any  *)
(* concurrency, keeps its counters exact, schedules every vertex once and  *)
(* after its dependencies, and runs nothing on top of a failure.           *)
(***************************************************************************)
EXTENDS GraphExecution, FiniteSetTheorems, TLAPS

\* The edges that v still waits for.
Waiting(E, v) == {e \in E : e[1] = v /\ e[2] \notin Settled}

\* Before execute() nothing is counted, queued or run.
NothingBeforeStart ==
    ~started =>
        /\ batchEdges = {}
        /\ firstError = NoError
        /\ \A v \in Vertices : work[v] = "none" /\ queued[v] = 0 /\ batchCount[v] = 0

\* What was taken from the queue is a vertex that waits for nothing.
WorkIsReleased ==
    \A v \in Vertices :
        work[v] # "none" => v \in graph.nodes /\ count[v] = 0 /\ batchCount[v] = 0

\* A sub-graph holds back vertices that the graph itself no longer does.
BatchesAreReleased ==
    \A e \in batchEdges :
        /\ e[1] \in graph.nodes /\ e[2] \in graph.nodes
        /\ count[e[1]] = 0 /\ count[e[2]] = 0

\* The error is set exactly when some work threw, and only then work is skipped.
ErrorMatchesWork ==
    /\ firstError # NoError <=> \E v \in Vertices : work[v] = "threw"
    /\ \A v \in Vertices : work[v] = "skipped" => firstError # NoError

\* What runs, or ran, stands on dependencies whose work returned.
RunsOnReturned ==
    \A e \in graph.edges \cup batchEdges :
        work[e[1]] \in {"running", "returned", "threw"} => work[e[2]] = "returned"

\* numLeft counts the vertices that have not settled.
NumLeftExact == numLeft = Cardinality(graph.nodes \ Settled)

\* The inductive invariant: the counters and the queue at every moment are what
\* the graph and the settled vertices say they are.
IInv ==
    /\ TypeOK /\ IsFiniteSet(batchEdges)
    /\ NothingBeforeStart
    /\ CountsExact
    /\ ScheduledOnce
    /\ WorkIsReleased
    /\ BatchesAreReleased
    /\ ErrorMatchesWork
    /\ RunsOnReturned
    /\ NumLeftExact
    /\ OutcomeMatchesWork

-----------------------------------------------------------------------------
(* Counting edges.                                                         *)

\* Counting the edges of a finite set gives a natural number.
LEMMA CountsAreNat ==
    ASSUME NEW E, IsFiniteSet(E), NEW n, NEW v
    PROVE  /\ OutDegree(E, n) \in Nat /\ Multiplicity(E, n, v) \in Nat
           /\ Cardinality(Waiting(E, n)) \in Nat /\ IsFiniteSet(Waiting(E, n))
<1>1. {e \in E : e[1] = n} \in SUBSET E  OBVIOUS
<1>2. {e \in E : e[1] = n /\ e[2] = v} \in SUBSET E  OBVIOUS
<1>3. Waiting(E, n) \in SUBSET E  BY DEF Waiting
<1> QED BY <1>1, <1>2, <1>3, FS_Subset, FS_CardinalityType DEF OutDegree, Multiplicity

\* There is an edge from n to v exactly when the multiplicity is positive.
LEMMA MultiplicityPositive ==
    ASSUME NEW E, IsFiniteSet(E), NEW n, NEW v
    PROVE  Multiplicity(E, n, v) > 0 <=> \E e \in E : e[1] = n /\ e[2] = v
<1> DEFINE M == {e \in E : e[1] = n /\ e[2] = v}
<1>1. IsFiniteSet(M)  BY M \in SUBSET E, FS_Subset
<1>2. Cardinality(M) \in Nat /\ (Cardinality(M) = 0 <=> M = {})
  BY <1>1, FS_EmptySet, FS_CardinalityType
<1>3. M = {} <=> ~ \E e \in E : e[1] = n /\ e[2] = v  OBVIOUS
<1> QED BY <1>2, <1>3 DEF Multiplicity

\* A vertex waits for no edge exactly when all its edges lead to settled ones.
LEMMA WaitingZero ==
    ASSUME NEW E, IsFiniteSet(E), NEW n
    PROVE  Cardinality(Waiting(E, n)) = 0
             <=> \A e \in E : e[1] = n => e[2] \in Settled
<1>1. IsFiniteSet(Waiting(E, n))  BY CountsAreNat
<1>2. Waiting(E, n) = {} <=> \A e \in E : e[1] = n => e[2] \in Settled  BY DEF Waiting
<1> QED BY <1>1, <1>2, FS_EmptySet

\* When v settles, n waits for as many edges less as it has to v.
LEMMA WaitingAfterSettling ==
    ASSUME NEW E, IsFiniteSet(E), NEW n, NEW v,
           v \notin Settled, Settled' = Settled \cup {v}
    PROVE  Cardinality({e \in E : e[1] = n /\ e[2] \notin Settled'})
             = Cardinality(Waiting(E, n)) - Multiplicity(E, n, v)
<1> DEFINE W == Waiting(E, n)
           M == {e \in E : e[1] = n /\ e[2] = v}
<1>1. {e \in E : e[1] = n /\ e[2] \notin Settled'} = W \ M  BY DEF Waiting
<1>2. W \cap M = M  BY DEF Waiting
<1>3. IsFiniteSet(W)  BY CountsAreNat
<1>4. Cardinality(W \ M) = Cardinality(W) - Cardinality(W \cap M)  BY <1>3, FS_Difference
<1> QED BY <1>1, <1>2, <1>4 DEF Multiplicity

-----------------------------------------------------------------------------
(* The facts about graphs that the steps use.                              *)

\* The assumptions on the constants, for the graph being executed.
LEMMA GraphFacts ==
    ASSUME graph \in Graphs
    PROVE  /\ graph.nodes \subseteq Vertices
           /\ graph.edges \subseteq Edges /\ IsFiniteSet(graph.edges)
           /\ \A e \in graph.edges : /\ e[1] \in graph.nodes /\ e[2] \in graph.nodes
                                     /\ e[1] \in Vertices /\ e[2] \in Vertices
<1> QED BY GraphsAssumption DEF Edges

\* When v settles, the counters and the queue change as the invariant says:
\* this is what the subscribers of progressMade do, whoever publishes.
LEMMA PublishStep ==
    ASSUME IInv, started, NEW v \in graph.nodes, v \notin Settled,
           count[v] = 0, batchCount[v] = 0,
           NEW error, NEW bag \in [Vertices -> Nat],
           bag[v] = 0, \A u \in Vertices \ {v} : bag[u] = queued[u],
           work' \in [Vertices -> WorkStates],
           work'[v] \in {"returned", "threw", "skipped"},
           \A u \in Vertices \ {v} : work'[u] = work[u],
           Publish(v, error, bag)
    PROVE  /\ count' \in [Vertices -> Int] /\ batchCount' \in [Vertices -> Int]
           /\ queued' \in [Vertices -> Nat]
           /\ batchEdges' \subseteq Edges /\ IsFiniteSet(batchEdges')
           /\ CountsExact' /\ ScheduledOnce' /\ WorkIsReleased' /\ BatchesAreReleased'
           /\ \A e \in batchEdges' : e \in batchEdges \/ work'[e[1]] = "none"
<1> DEFINE batch == ReachZero(count, graph.edges, v)
           released == ReachZero(batchCount, batchEdges, v)
<1> USE DEF IInv
<1>1. /\ graph' = graph /\ started' = started
      /\ graph.nodes \subseteq Vertices /\ v \in Vertices
      /\ IsFiniteSet(graph.edges) /\ IsFiniteSet(batchEdges)
      /\ \A e \in graph.edges : /\ e[1] \in graph.nodes /\ e[2] \in graph.nodes
                                /\ e[1] \in Vertices /\ e[2] \in Vertices
      /\ count \in [Vertices -> Int] /\ batchCount \in [Vertices -> Int]
  BY GraphFacts DEF TypeOK, Publish
<1>2. Settled' = Settled \cup {v}
  BY <1>1 DEF Settled, TypeOK
<1>3. PICK sub \in BatchGraphs :
        /\ \A e \in sub : e[1] \in batch /\ e[2] \in batch
        /\ batchEdges' = batchEdges \cup sub
        /\ batchCount' = [n \in Vertices |->
              IF n \in batch THEN OutDegree(sub, n)
              ELSE Decremented(batchCount, batchEdges, v)[n]]
        /\ queued' = [n \in Vertices |->
              IF n \in released \/ (n \in batch /\ OutDegree(sub, n) = 0)
              THEN bag[n] + 1 ELSE bag[n]]
  BY DEF Publish, ScheduleBatch
<1>4. sub \subseteq Edges /\ IsFiniteSet(sub)
  BY BatchGraphsAssumption
<1>5. \A n \in Vertices :
        /\ Multiplicity(graph.edges, n, v) \in Nat
        /\ Multiplicity(batchEdges, n, v) \in Nat
        /\ OutDegree(sub, n) \in Nat
        /\ Cardinality(Waiting(graph.edges, n)) \in Nat
        /\ Cardinality(Waiting(batchEdges, n)) \in Nat
  BY <1>1, <1>4, CountsAreNat
<1>6. /\ count' = [n \in Vertices |-> count[n] - Multiplicity(graph.edges, n, v)]
      /\ batchCount' = [n \in Vertices |->
            IF n \in batch THEN OutDegree(sub, n)
            ELSE batchCount[n] - Multiplicity(batchEdges, n, v)]
  BY <1>3 DEF Publish, Decremented
<1>7. /\ count' \in [Vertices -> Int] /\ batchCount' \in [Vertices -> Int]
      /\ queued' \in [Vertices -> Nat]
  <2>1. count' \in [Vertices -> Int]  BY <1>1, <1>5, <1>6
  <2>2. batchCount' \in [Vertices -> Int]  BY <1>1, <1>5, <1>6
  <2>3. queued' \in [Vertices -> Nat]  BY <1>3
  <2> QED BY <2>1, <2>2, <2>3
<1>8. batchEdges' \subseteq Edges /\ IsFiniteSet(batchEdges')
  BY <1>3, <1>4, <1>1, FS_Union DEF TypeOK
\* the counters before the step
<1>9. \A n \in graph.nodes :
        /\ count[n] = Cardinality(Waiting(graph.edges, n))
        /\ batchCount[n] = Cardinality(Waiting(batchEdges, n))
  BY DEF CountsExact, Waiting
\* a vertex of the batch was waiting, and for v only
<1>10. \A n \in batch :
        /\ n \in graph.nodes /\ n # v /\ count[n] > 0 /\ count'[n] = 0
        /\ work[n] = "none" /\ work'[n] = "none" /\ queued[n] = 0
        /\ n \notin Settled'
  <2> SUFFICES ASSUME NEW n \in batch
               PROVE  /\ n \in graph.nodes /\ n # v /\ count[n] > 0 /\ count'[n] = 0
                      /\ work[n] = "none" /\ work'[n] = "none" /\ queued[n] = 0
                      /\ n \notin Settled'
    OBVIOUS
  <2>1. /\ n \in Vertices /\ Multiplicity(graph.edges, n, v) > 0
        /\ count[n] = Multiplicity(graph.edges, n, v)
    BY DEF ReachZero
  <2>2. n \in graph.nodes  BY <2>1, <1>1, MultiplicityPositive
  <2>3. n # v /\ count[n] > 0 /\ count'[n] = 0  BY <2>1, <1>5, <1>6
  <2>4. work[n] = "none"  BY <2>1, <2>3 DEF WorkIsReleased
  <2>5. queued[n] = 0  BY <2>1, <2>3 DEF ScheduledOnce
  <2>6. work'[n] = "none"  BY <2>1, <2>3, <2>4
  <2>7. n \notin Settled'  BY <2>6 DEF Settled
  <2> QED BY <2>2, <2>3, <2>4, <2>5, <2>6, <2>7
\* a vertex let go by a sub-graph was held back by it alone
<1>11. \A n \in released :
        /\ n \in graph.nodes /\ n # v /\ count[n] = 0 /\ count'[n] = 0
        /\ n \notin batch /\ batchCount[n] > 0 /\ batchCount'[n] = 0
        /\ work[n] = "none" /\ work'[n] = "none" /\ queued[n] = 0
  <2> SUFFICES ASSUME NEW n \in released
               PROVE  /\ n \in graph.nodes /\ n # v /\ count[n] = 0 /\ count'[n] = 0
                      /\ n \notin batch /\ batchCount[n] > 0 /\ batchCount'[n] = 0
                      /\ work[n] = "none" /\ work'[n] = "none" /\ queued[n] = 0
    OBVIOUS
  <2>1. /\ n \in Vertices /\ Multiplicity(batchEdges, n, v) > 0
        /\ batchCount[n] = Multiplicity(batchEdges, n, v)
    BY DEF ReachZero
  <2>2. n \in graph.nodes /\ count[n] = 0
    BY <2>1, <1>1, MultiplicityPositive DEF BatchesAreReleased
  <2>3. n # v /\ batchCount[n] > 0 /\ n \notin batch  BY <2>1, <2>2, <1>10
  <2>4. batchCount'[n] = 0  BY <2>1, <2>3, <1>5, <1>6
  <2>5. \A e \in graph.edges : e[1] = n => e[2] \in Settled
    BY <2>2, <1>9, <1>1, WaitingZero
  <2>6. Multiplicity(graph.edges, n, v) = 0
    BY <2>5, <1>1, <1>5, <2>1, MultiplicityPositive
  <2>7. count'[n] = 0  BY <2>1, <2>2, <2>6, <1>6
  <2>8. work[n] = "none" /\ queued[n] = 0
    BY <2>1, <2>3 DEF WorkIsReleased, ScheduledOnce
  <2>9. work'[n] = "none"  BY <2>1, <2>3, <2>8
  <2> QED BY <2>2, <2>3, <2>4, <2>7, <2>8, <2>9
\* every other vertex keeps waiting, or keeps having nothing to wait for
<1>12. \A n \in graph.nodes \ (batch \cup released) :
        (count'[n] = 0 /\ batchCount'[n] = 0) <=> (count[n] = 0 /\ batchCount[n] = 0)
  <2> SUFFICES ASSUME NEW n \in graph.nodes \ (batch \cup released)
               PROVE  (count'[n] = 0 /\ batchCount'[n] = 0)
                        <=> (count[n] = 0 /\ batchCount[n] = 0)
    OBVIOUS
  <2> DEFINE m == Multiplicity(graph.edges, n, v)
             b == Multiplicity(batchEdges, n, v)
  <2>1. n \in Vertices /\ m \in Nat /\ b \in Nat  BY <1>1, <1>5
  <2>2. count'[n] = count[n] - m /\ batchCount'[n] = batchCount[n] - b  BY <2>1, <1>6
  <2>3. count[n] \in Int /\ batchCount[n] \in Int  BY <2>1, <1>1
  <2>4. m = 0 \/ count[n] # m  BY <2>1 DEF ReachZero
  <2>5. b = 0 \/ batchCount[n] # b  BY <2>1 DEF ReachZero
  <2>6. m > 0 => count[n] # 0
    BY <2>1, <1>1, <1>9, WaitingZero, MultiplicityPositive
  <2>7. b > 0 => batchCount[n] # 0
    BY <2>1, <1>1, <1>9, WaitingZero, MultiplicityPositive
  <2>8. count'[n] = 0 <=> count[n] = 0
    <3> HIDE DEF m, IInv
    <3> QED BY <2>1, <2>2, <2>3, <2>4, <2>6
  <2>9. batchCount'[n] = 0 <=> batchCount[n] = 0
    <3> HIDE DEF b, IInv
    <3> QED BY <2>1, <2>2, <2>3, <2>5, <2>7
  <2> QED BY <2>8, <2>9
<1>13. CountsExact'
  <2> SUFFICES ASSUME NEW n \in graph.nodes
               PROVE  /\ count'[n] = Cardinality({e \in graph.edges :
                                        e[1] = n /\ e[2] \notin Settled'})
                      /\ batchCount'[n] = Cardinality({e \in batchEdges' :
                                        e[1] = n /\ e[2] \notin Settled'})
    BY <1>1 DEF CountsExact
  <2>1. n \in Vertices  BY <1>1
  <2>2. count'[n] = Cardinality({e \in graph.edges : e[1] = n /\ e[2] \notin Settled'})
    BY <2>1, <1>1, <1>2, <1>6, <1>9, WaitingAfterSettling
  <2>3. CASE n \in batch
    <3>1. {e \in batchEdges' : e[1] = n /\ e[2] \notin Settled'} = {e \in sub : e[1] = n}
      BY <2>3, <1>3, <1>10 DEF BatchesAreReleased
    <3>2. batchCount'[n] = OutDegree(sub, n)  BY <2>1, <2>3, <1>6
    <3> QED BY <3>1, <3>2, <2>2 DEF OutDegree
  <2>4. CASE n \notin batch
    <3>1. {e \in batchEdges' : e[1] = n /\ e[2] \notin Settled'}
            = {e \in batchEdges : e[1] = n /\ e[2] \notin Settled'}
      BY <2>4, <1>3
    <3>2. batchCount'[n] = batchCount[n] - Multiplicity(batchEdges, n, v)
      BY <2>1, <2>4, <1>6
    <3>3. Cardinality({e \in batchEdges : e[1] = n /\ e[2] \notin Settled'})
            = Cardinality(Waiting(batchEdges, n)) - Multiplicity(batchEdges, n, v)
      BY <1>1, <1>2, WaitingAfterSettling
    <3> QED BY <3>1, <3>2, <3>3, <2>2, <1>9
  <2> QED BY <2>3, <2>4
<1>14. ScheduledOnce'
  <2> SUFFICES ASSUME NEW n \in Vertices
               PROVE  queued'[n] = IF /\ n \in graph.nodes /\ work'[n] = "none"
                                      /\ count'[n] = 0 /\ batchCount'[n] = 0
                                   THEN 1 ELSE 0
    BY <1>1 DEF ScheduledOnce
  <2>0. queued[n] = IF /\ n \in graph.nodes /\ work[n] = "none"
                       /\ count[n] = 0 /\ batchCount[n] = 0 THEN 1 ELSE 0
    BY DEF ScheduledOnce
  <2>1. CASE n = v
    BY <2>1, <1>3, <1>10, <1>11
  <2>2. CASE n # v /\ n \in batch
    <3>1. batchCount'[n] = OutDegree(sub, n)  BY <2>2, <1>6
    <3> QED BY <3>1, <2>2, <1>3, <1>10, <1>11
  <2>3. CASE n # v /\ n \in released
    BY <2>3, <1>3, <1>11
  <2>4. CASE n # v /\ n \notin batch /\ n \notin released
    BY <2>0, <2>4, <1>3, <1>12
  <2> QED BY <2>1, <2>2, <2>3, <2>4
<1>15. WorkIsReleased'
  <2> SUFFICES ASSUME NEW n \in Vertices, work'[n] # "none"
               PROVE  n \in graph.nodes /\ count'[n] = 0 /\ batchCount'[n] = 0
    BY <1>1 DEF WorkIsReleased
  <2>1. n \in graph.nodes /\ count[n] = 0 /\ batchCount[n] = 0
    BY DEF WorkIsReleased
  <2>2. n \notin batch /\ n \notin released  BY <1>10, <1>11
  <2> QED BY <2>1, <2>2, <1>12
<1>16. BatchesAreReleased'
  <2> SUFFICES ASSUME NEW e \in batchEdges'
               PROVE  /\ e[1] \in graph.nodes /\ e[2] \in graph.nodes
                      /\ count'[e[1]] = 0 /\ count'[e[2]] = 0
    BY <1>1 DEF BatchesAreReleased
  <2>1. CASE e \in sub  BY <2>1, <1>3, <1>10
  <2>2. CASE e \in batchEdges
    <3>1. /\ e[1] \in graph.nodes /\ e[2] \in graph.nodes
          /\ count[e[1]] = 0 /\ count[e[2]] = 0
      BY <2>2 DEF BatchesAreReleased
    <3>2. ASSUME NEW n \in graph.nodes, count[n] = 0  PROVE count'[n] = 0
      <4>1. \A d \in graph.edges : d[1] = n => d[2] \in Settled
        BY <3>2, <1>9, <1>1, WaitingZero
      <4>2. Multiplicity(graph.edges, n, v) = 0
        BY <4>1, <1>1, <1>5, MultiplicityPositive
      <4> QED BY <3>2, <4>2, <1>1, <1>6
    <3> QED BY <3>1, <3>2
  <2> QED BY <2>1, <2>2, <1>3
<1>17. \A e \in batchEdges' : e \in batchEdges \/ work'[e[1]] = "none"
  BY <1>3, <1>10
<1> QED BY <1>7, <1>8, <1>13, <1>14, <1>15, <1>16, <1>17

-----------------------------------------------------------------------------
(* The inductive invariant.                                                *)

\* Publishing, whatever made v settle, keeps the invariant.
LEMMA PublishKeepsInvariant ==
    ASSUME IInv, started, NEW v \in graph.nodes, v \notin Settled,
           count[v] = 0, batchCount[v] = 0,
           NEW bag \in [Vertices -> Nat],
           bag[v] = 0, \A u \in Vertices \ {v} : bag[u] = queued[u],
           NEW s \in {"returned", "threw", "skipped"},
           work' = [work EXCEPT ![v] = s],
           firstError' \in Vertices \cup {NoError},
           ErrorMatchesWork',
           s \in {"returned", "threw"} => work[v] = "running",
           Publish(v, firstError', bag)
    PROVE  IInv'
<1>1. v \in Vertices /\ graph \in Graphs /\ work \in [Vertices -> WorkStates]
  BY GraphFacts DEF IInv, TypeOK
<1>2. /\ work' \in [Vertices -> WorkStates] /\ work'[v] = s
      /\ \A u \in Vertices \ {v} : work'[u] = work[u]
  BY <1>1 DEF WorkStates
<1>3. /\ count' \in [Vertices -> Int] /\ batchCount' \in [Vertices -> Int]
      /\ queued' \in [Vertices -> Nat]
      /\ batchEdges' \subseteq Edges /\ IsFiniteSet(batchEdges')
      /\ CountsExact' /\ ScheduledOnce' /\ WorkIsReleased' /\ BatchesAreReleased'
      /\ \A e \in batchEdges' : e \in batchEdges \/ work'[e[1]] = "none"
  BY <1>2, PublishStep
<1>4. /\ graph' = graph /\ started' = started /\ numLeft' = numLeft - 1
      /\ outcome' = IF numLeft' > 0 \/ outcome # "pending" THEN outcome
                    ELSE IF firstError' = NoError THEN "resolved" ELSE "rejected"
  BY DEF Publish
<1>5. TypeOK'
  <2>1. numLeft' \in Int  BY <1>4 DEF IInv, TypeOK
  <2>2. outcome' \in {"pending", "resolved", "rejected"}  BY <1>4 DEF IInv, TypeOK
  <2> QED BY <1>1, <1>2, <1>3, <1>4, <2>1, <2>2 DEF IInv, TypeOK
<1>6. NothingBeforeStart'  BY <1>4 DEF NothingBeforeStart
<1>7. RunsOnReturned'
  <2> SUFFICES ASSUME NEW e \in graph.edges \cup batchEdges',
                      work'[e[1]] \in {"running", "returned", "threw"}
               PROVE  work'[e[2]] = "returned"
    BY <1>4 DEF RunsOnReturned
  <2>1. e \in graph.edges \cup batchEdges  BY <1>3
  <2>2. e[1] \in Vertices /\ e[2] \in Vertices
    BY <2>1, GraphFacts, <1>1 DEF IInv, TypeOK, Edges
  <2>3. work[e[1]] \in {"running", "returned", "threw"}  BY <1>2, <2>2
  <2>4. work[e[2]] = "returned"  BY <2>1, <2>3 DEF IInv, RunsOnReturned
  <2>5. e[2] # v  BY <2>4, <2>2 DEF Settled
  <2> QED BY <2>2, <2>4, <2>5, <1>2
<1>8. Settled' = Settled \cup {v}  BY <1>1, <1>2 DEF Settled
<1>9. Settled \subseteq graph.nodes /\ Settled' \subseteq graph.nodes
  <2>1. Settled \subseteq graph.nodes  BY DEF IInv, WorkIsReleased, Settled
  <2> QED BY <2>1, <1>8
<1>10. NumLeftExact'
  <2>1. IsFiniteSet(graph.nodes)  BY GraphFacts, <1>1, VerticesAssumption, FS_Subset
  <2>2. IsFiniteSet(graph.nodes \ Settled)  BY <2>1, FS_Difference
  <2>3. Cardinality((graph.nodes \ Settled) \ {v}) = Cardinality(graph.nodes \ Settled) - 1
    BY <2>2, FS_RemoveElement
  <2>4. graph.nodes \ Settled' = (graph.nodes \ Settled) \ {v}  BY <1>8
  <2> QED BY <2>3, <2>4, <1>4 DEF IInv, NumLeftExact
<1>11. OutcomeMatchesWork'
  <2>1. outcome = "pending"
    BY DEF IInv, OutcomeMatchesWork
  <2>2. SUFFICES ASSUME outcome' # "pending"
                 PROVE  /\ Settled' = graph.nodes
                        /\ \A u \in Vertices : queued'[u] = 0
                        /\ (outcome' = "rejected") <=> (\E u \in Vertices : work'[u] = "threw")
    BY <1>4 DEF OutcomeMatchesWork
  <2>3. ~(numLeft' > 0)  BY <2>1, <2>2, <1>4
  <2>4. numLeft' = Cardinality(graph.nodes \ Settled')  BY <1>4, <1>10 DEF NumLeftExact
  <2>5. /\ Cardinality(graph.nodes \ Settled') \in Nat
        /\ Cardinality(graph.nodes \ Settled') = 0 <=> Settled' = graph.nodes
    <3>1. IsFiniteSet(graph.nodes)  BY GraphFacts, <1>1, VerticesAssumption, FS_Subset
    <3>2. IsFiniteSet(graph.nodes \ Settled')  BY <3>1, FS_Difference
    <3>3. graph.nodes \ Settled' = {} <=> Settled' = graph.nodes  BY <1>9
    <3> QED BY <3>2, <3>3, FS_EmptySet, FS_CardinalityType
  <2>6. Settled' = graph.nodes  BY <2>3, <2>4, <2>5
  <2>7. \A u \in Vertices : queued'[u] = 0
    <3>1. \A u \in Settled' : work'[u] # "none"  BY DEF Settled
    <3> QED BY <1>3, <1>4, <2>6, <3>1 DEF ScheduledOnce
  <2>8. (outcome' = "rejected") <=> firstError' # NoError  BY <2>1, <2>3, <1>4
  <2> QED BY <2>6, <2>7, <2>8 DEF ErrorMatchesWork
<1> QED BY <1>3, <1>5, <1>6, <1>7, <1>10, <1>11 DEF IInv

\* The state after construction satisfies the invariant.
LEMMA InitInvariant == Init => IInv
<1> SUFFICES ASSUME Init PROVE IInv  OBVIOUS
<1> USE DEF Init
<1>1. graph \in Graphs /\ graph.nodes \subseteq Vertices /\ graph.nodes # {}
  BY GraphFacts, GraphsAssumption
<1>2. Settled = {}  BY DEF Settled
<1>3. IsFiniteSet(graph.nodes)  BY <1>1, VerticesAssumption, FS_Subset
<1>4. Cardinality(graph.nodes) \in Nat  BY <1>3, FS_CardinalityType
<1>5. TypeOK /\ IsFiniteSet(batchEdges)
  <2>1. numLeft \in Int  BY <1>4
  <2>2. started \in BOOLEAN  OBVIOUS
  <2>3. /\ count \in [Vertices -> Int] /\ batchCount \in [Vertices -> Int]
        /\ queued \in [Vertices -> Nat] /\ work \in [Vertices -> WorkStates]
    BY DEF WorkStates
  <2>4. batchEdges \subseteq Edges  OBVIOUS
  <2> HIDE DEF Init
  <2>5. firstError \in Vertices \cup {NoError} /\ outcome \in {"pending", "resolved", "rejected"}
    BY DEF Init
  <2> QED BY <1>1, <2>1, <2>2, <2>3, <2>4, <2>5, FS_EmptySet DEF TypeOK, Init
<1>6. NumLeftExact  BY <1>2 DEF NumLeftExact
<1>7. /\ NothingBeforeStart /\ CountsExact /\ ScheduledOnce
  BY DEF NothingBeforeStart, CountsExact, ScheduledOnce
<1>10. WorkIsReleased /\ BatchesAreReleased /\ OutcomeMatchesWork
  BY DEF WorkIsReleased, BatchesAreReleased, OutcomeMatchesWork
<1>8. ErrorMatchesWork  BY DEF ErrorMatchesWork
<1>9. RunsOnReturned
  <2> SUFFICES ASSUME NEW e \in graph.edges \cup batchEdges
               PROVE  work[e[1]] \notin {"running", "returned", "threw"}
    BY DEF RunsOnReturned
  <2> QED BY <1>1, GraphFacts
<1> QED BY <1>5, <1>6, <1>7, <1>8, <1>9, <1>10 DEF IInv

\* execute() counts the neighbours and schedules the vertices without any.
LEMMA StartKeepsInvariant == IInv /\ Start => IInv'
<1> SUFFICES ASSUME IInv, Start PROVE IInv'  OBVIOUS
<1> DEFINE batch == {n \in graph.nodes : OutDegree(graph.edges, n) = 0}
<1>1. /\ graph \in Graphs /\ graph' = graph /\ work' = work /\ ~started /\ started'
      /\ numLeft' = numLeft /\ firstError' = firstError /\ outcome' = outcome
      /\ batchEdges = {} /\ firstError = NoError
      /\ \A n \in Vertices : work[n] = "none" /\ queued[n] = 0 /\ batchCount[n] = 0
  BY DEF Start, IInv, TypeOK, NothingBeforeStart
<1>2. /\ graph.nodes \subseteq Vertices /\ IsFiniteSet(graph.edges)
      /\ \A e \in graph.edges : /\ e[1] \in graph.nodes /\ e[2] \in graph.nodes
                                /\ e[1] \in Vertices /\ e[2] \in Vertices
  BY <1>1, GraphFacts
<1>3. Settled = {} /\ Settled' = {}  BY <1>1 DEF Settled
<1>4. PICK sub \in BatchGraphs :
        /\ \A e \in sub : e[1] \in batch /\ e[2] \in batch
        /\ batchEdges' = batchEdges \cup sub
        /\ batchCount' = [n \in Vertices |->
              IF n \in batch THEN OutDegree(sub, n) ELSE batchCount[n]]
        /\ queued' = [n \in Vertices |->
              IF n \in {} \/ (n \in batch /\ OutDegree(sub, n) = 0)
              THEN queued[n] + 1 ELSE queued[n]]
  BY DEF Start, ScheduleBatch
<1>5. sub \subseteq Edges /\ IsFiniteSet(sub) /\ batchEdges' = sub
  BY <1>1, <1>4, BatchGraphsAssumption
<1>6. \A n \in Vertices : OutDegree(graph.edges, n) \in Nat /\ OutDegree(sub, n) \in Nat
  BY <1>2, <1>5, CountsAreNat
<1>7. count' = [n \in Vertices |->
                  IF n \in graph.nodes THEN OutDegree(graph.edges, n) ELSE 0]
  BY DEF Start
<1>8. TypeOK' /\ IsFiniteSet(batchEdges')
  <2>1. count' \in [Vertices -> Int]  BY <1>6, <1>7
  <2>2. batchCount' \in [Vertices -> Int]  BY <1>1, <1>4, <1>6
  <2>3. queued' \in [Vertices -> Nat]  BY <1>1, <1>4
  <2> QED BY <1>1, <1>5, <2>1, <2>2, <2>3 DEF IInv, TypeOK
<1>9. CountsExact'
  <2> SUFFICES ASSUME NEW n \in graph.nodes
               PROVE  /\ count'[n] = Cardinality({e \in graph.edges :
                                        e[1] = n /\ e[2] \notin Settled'})
                      /\ batchCount'[n] = Cardinality({e \in batchEdges' :
                                        e[1] = n /\ e[2] \notin Settled'})
    BY <1>1 DEF CountsExact
  <2>1. {e \in graph.edges : e[1] = n /\ e[2] \notin Settled'} = {e \in graph.edges : e[1] = n}
    BY <1>3
  <2>2. count'[n] = OutDegree(graph.edges, n)  BY <1>2, <1>7
  <2>3. {e \in batchEdges' : e[1] = n /\ e[2] \notin Settled'} = {e \in sub : e[1] = n}
    BY <1>3, <1>5
  <2>4. batchCount'[n] = OutDegree(sub, n)
    <3>1. CASE n \in batch  BY <3>1, <1>2, <1>4
    <3>2. CASE n \notin batch
      <4>1. {e \in sub : e[1] = n} = {}  BY <3>2, <1>4
      <4>2. OutDegree(sub, n) = 0  BY <4>1, FS_EmptySet DEF OutDegree
      <4> QED BY <3>2, <4>2, <1>1, <1>2, <1>4
    <3> QED BY <3>1, <3>2
  <2> QED BY <2>1, <2>2, <2>3, <2>4 DEF OutDegree
<1>10. ScheduledOnce'
  <2> SUFFICES ASSUME NEW n \in Vertices
               PROVE  queued'[n] = IF /\ n \in graph.nodes /\ work'[n] = "none"
                                      /\ count'[n] = 0 /\ batchCount'[n] = 0
                                   THEN 1 ELSE 0
    BY <1>1 DEF ScheduledOnce
  <2>1. CASE n \in batch
    <3>1. batchCount'[n] = OutDegree(sub, n)  BY <2>1, <1>4
    <3> QED BY <2>1, <3>1, <1>1, <1>4, <1>7
  <2>2. CASE n \notin batch
    BY <2>2, <1>1, <1>4, <1>7
  <2> QED BY <2>1, <2>2
<1>11. WorkIsReleased' /\ NothingBeforeStart'
  BY <1>1 DEF WorkIsReleased, NothingBeforeStart
<1>12. BatchesAreReleased'
  BY <1>1, <1>2, <1>4, <1>5, <1>7 DEF BatchesAreReleased
<1>13. ErrorMatchesWork'  BY <1>1 DEF ErrorMatchesWork
<1>14. RunsOnReturned'
  <2> SUFFICES ASSUME NEW e \in graph.edges \cup batchEdges'
               PROVE  work[e[1]] = "none"
    BY <1>1 DEF RunsOnReturned
  <2>1. e[1] \in Vertices  BY <1>2, <1>5 DEF Edges
  <2> QED BY <2>1, <1>1
<1>15. NumLeftExact'  BY <1>1, <1>3 DEF IInv, NumLeftExact
<1>16. OutcomeMatchesWork'
  <2>1. Settled # graph.nodes  BY <1>1, <1>3, GraphsAssumption
  <2> QED BY <2>1, <1>1 DEF IInv, OutcomeMatchesWork
<1> QED BY <1>8, <1>9, <1>10, <1>11, <1>12, <1>13, <1>14, <1>15, <1>16 DEF IInv

\* A waiting task is a vertex that has not been processed and waits for nothing.
LEMMA DequeuableFacts ==
    ASSUME IInv, NEW v \in Vertices, queued[v] > 0
    PROVE  /\ started /\ v \in graph.nodes /\ work[v] = "none" /\ v \notin Settled
           /\ count[v] = 0 /\ batchCount[v] = 0 /\ queued[v] = 1
           /\ \A e \in graph.edges \cup batchEdges : e[1] = v => e[2] \in Settled
<1>1. started  BY DEF IInv, NothingBeforeStart
<1>2. /\ v \in graph.nodes /\ work[v] = "none" /\ queued[v] = 1
      /\ count[v] = 0 /\ batchCount[v] = 0
  BY <1>1 DEF IInv, ScheduledOnce
<1>3. /\ Cardinality(Waiting(graph.edges, v)) = 0
      /\ Cardinality(Waiting(batchEdges, v)) = 0
  BY <1>1, <1>2 DEF IInv, CountsExact, Waiting
<1>4. IsFiniteSet(graph.edges) /\ IsFiniteSet(batchEdges)
  BY GraphFacts DEF IInv, TypeOK
<1>5. \A e \in graph.edges \cup batchEdges : e[1] = v => e[2] \in Settled
  BY <1>3, <1>4, WaitingZero
<1> QED BY <1>1, <1>2, <1>5 DEF Settled

\* Work starts while no error is set, so what it depends on has returned.
LEMMA StartWorkKeepsInvariant ==
    ASSUME IInv, NEW v \in Vertices, StartWork(v)
    PROVE  IInv'
<1>1. /\ queued[v] > 0 /\ firstError = NoError
      /\ queued' = [queued EXCEPT ![v] = queued[v] - 1]
      /\ work' = [work EXCEPT ![v] = "running"]
      /\ UNCHANGED <<graph, started, count, batchEdges, batchCount, numLeft,
                     firstError, outcome>>
  BY DEF StartWork, Dequeuable, Dequeued
<1>2. /\ started /\ v \in graph.nodes /\ work[v] = "none" /\ v \notin Settled
      /\ count[v] = 0 /\ batchCount[v] = 0 /\ queued[v] = 1
      /\ \A e \in graph.edges \cup batchEdges : e[1] = v => e[2] \in Settled
  BY <1>1, DequeuableFacts
<1>3. work \in [Vertices -> WorkStates] /\ queued \in [Vertices -> Nat] /\ graph \in Graphs
  BY DEF IInv, TypeOK
<1>4. /\ queued'[v] = 0 /\ work'[v] = "running"
      /\ \A u \in Vertices \ {v} : queued'[u] = queued[u] /\ work'[u] = work[u]
      /\ work' \in [Vertices -> WorkStates] /\ queued' \in [Vertices -> Nat]
  BY <1>1, <1>2, <1>3 DEF WorkStates
<1>5. Settled' = Settled  BY <1>2, <1>3, <1>4 DEF Settled
<1>6. TypeOK' /\ IsFiniteSet(batchEdges')  BY <1>1, <1>4 DEF IInv, TypeOK
<1>7. NothingBeforeStart'  BY <1>1, <1>2 DEF NothingBeforeStart
<1>8. CountsExact'  BY <1>1, <1>5 DEF IInv, CountsExact
<1>9. ScheduledOnce'
  BY <1>1, <1>2, <1>4 DEF IInv, ScheduledOnce
<1>10. WorkIsReleased' /\ BatchesAreReleased'
  BY <1>1, <1>2, <1>4 DEF IInv, WorkIsReleased, BatchesAreReleased
<1>11. ErrorMatchesWork'
  BY <1>1, <1>2, <1>4 DEF IInv, ErrorMatchesWork
<1>12. RunsOnReturned'
  <2> SUFFICES ASSUME NEW e \in graph.edges \cup batchEdges,
                      work'[e[1]] \in {"running", "returned", "threw"}
               PROVE  work'[e[2]] = "returned"
    BY <1>1 DEF RunsOnReturned
  <2>1. e[1] \in Vertices /\ e[2] \in Vertices
    BY <1>3, GraphFacts DEF IInv, TypeOK, Edges
  <2>2. work[e[2]] = "returned"
    <3>1. CASE e[1] = v
      <4>1. e[2] \in Settled  BY <3>1, <1>2
      <4> QED BY <4>1, <1>1 DEF IInv, ErrorMatchesWork, Settled
    <3>2. CASE e[1] # v
      BY <3>2, <2>1, <1>4 DEF IInv, RunsOnReturned
    <3> QED BY <3>1, <3>2
  <2>3. e[2] # v  BY <2>2, <1>2
  <2> QED BY <2>1, <2>2, <2>3, <1>4
<1>13. NumLeftExact'  BY <1>1, <1>5 DEF IInv, NumLeftExact
<1>14. OutcomeMatchesWork'
  <2>1. Settled # graph.nodes  BY <1>2
  <2> QED BY <2>1, <1>1 DEF IInv, OutcomeMatchesWork
<1> QED BY <1>6, <1>7, <1>8, <1>9, <1>10, <1>11, <1>12, <1>13, <1>14 DEF IInv

\* A task that is skipped publishes the error it was skipped for.
LEMMA SkipWorkKeepsInvariant ==
    ASSUME IInv, NEW v \in Vertices, SkipWork(v)
    PROVE  IInv'
<1>1. /\ queued[v] > 0 /\ firstError # NoError /\ firstError' = firstError
      /\ work' = [work EXCEPT ![v] = "skipped"]
      /\ Publish(v, firstError', Dequeued(v))
  BY DEF SkipWork, Dequeuable
<1>2. /\ started /\ v \in graph.nodes /\ v \notin Settled /\ queued[v] = 1
      /\ count[v] = 0 /\ batchCount[v] = 0 /\ work[v] = "none"
  BY <1>1, DequeuableFacts
<1>3. /\ Dequeued(v) \in [Vertices -> Nat] /\ Dequeued(v)[v] = 0
      /\ \A u \in Vertices \ {v} : Dequeued(v)[u] = queued[u]
  BY <1>2 DEF IInv, TypeOK, Dequeued
<1>4. firstError' \in Vertices \cup {NoError}  BY <1>1 DEF IInv, TypeOK
<1>5. ErrorMatchesWork'
  BY <1>1, <1>2 DEF IInv, TypeOK, ErrorMatchesWork
<1> QED BY <1>1, <1>2, <1>3, <1>4, <1>5, PublishKeepsInvariant

\* What runs was released, and has no entry in the queue any more.
LEMMA RunningFacts ==
    ASSUME IInv, NEW v \in Vertices, work[v] = "running"
    PROVE  /\ started /\ v \in graph.nodes /\ v \notin Settled
           /\ count[v] = 0 /\ batchCount[v] = 0
           /\ queued \in [Vertices -> Nat] /\ queued[v] = 0
<1>1. started  BY DEF IInv, NothingBeforeStart
<1>2. v \in graph.nodes /\ count[v] = 0 /\ batchCount[v] = 0  BY DEF IInv, WorkIsReleased
<1>3. queued \in [Vertices -> Nat] /\ queued[v] = 0
  BY <1>1 DEF IInv, TypeOK, ScheduledOnce
<1> QED BY <1>1, <1>2, <1>3 DEF Settled

\* Work that returns sets no error and settles its vertex.
LEMMA WorkReturnsKeepsInvariant ==
    ASSUME IInv, NEW v \in Vertices, WorkReturns(v)
    PROVE  IInv'
<1>1. /\ work[v] = "running" /\ firstError' = firstError
      /\ work' = [work EXCEPT ![v] = "returned"]
      /\ Publish(v, firstError', queued)
  BY DEF WorkReturns
<1>2. /\ started /\ v \in graph.nodes /\ v \notin Settled
      /\ count[v] = 0 /\ batchCount[v] = 0
      /\ queued \in [Vertices -> Nat] /\ queued[v] = 0
  BY <1>1, RunningFacts
<1>3. firstError' \in Vertices \cup {NoError}  BY <1>1 DEF IInv, TypeOK
<1>4. ErrorMatchesWork'
  BY <1>1 DEF IInv, TypeOK, ErrorMatchesWork
<1> QED BY <1>1, <1>2, <1>3, <1>4, PublishKeepsInvariant

\* Work that throws sets the error if it is the first to do so.
LEMMA WorkThrowsKeepsInvariant ==
    ASSUME IInv, NoError \notin Vertices, NEW v \in Vertices, WorkThrows(v)
    PROVE  IInv'
<1>1. /\ work[v] = "running"
      /\ firstError' = IF firstError = NoError THEN v ELSE firstError
      /\ work' = [work EXCEPT ![v] = "threw"]
      /\ Publish(v, firstError', queued)
  BY DEF WorkThrows
<1>2. /\ started /\ v \in graph.nodes /\ v \notin Settled
      /\ count[v] = 0 /\ batchCount[v] = 0
      /\ queued \in [Vertices -> Nat] /\ queued[v] = 0
  BY <1>1, RunningFacts
<1>3. firstError' \in Vertices \cup {NoError} /\ firstError' # NoError
  BY <1>1 DEF IInv, TypeOK
<1>4. ErrorMatchesWork'
  BY <1>1, <1>3 DEF IInv, TypeOK, ErrorMatchesWork
<1> QED BY <1>1, <1>2, <1>3, <1>4, PublishKeepsInvariant

\* Every step, or none, keeps the invariant.
LEMMA NextKeepsInvariant == IInv /\ [Next]_vars => IInv'
<1> SUFFICES ASSUME IInv, [Next]_vars PROVE IInv'  OBVIOUS
<1>1. CASE Start  BY <1>1, StartKeepsInvariant
<1>2. ASSUME NEW v \in Vertices,
             StartWork(v) \/ SkipWork(v) \/ WorkReturns(v) \/ WorkThrows(v)
      PROVE  IInv'
  BY <1>2, StartWorkKeepsInvariant, SkipWorkKeepsInvariant, NoErrorAssumption,
     WorkReturnsKeepsInvariant, WorkThrowsKeepsInvariant
<1>3. CASE UNCHANGED vars
  <2> USE <1>3 DEF vars, IInv
  <2>1. Settled' = Settled  BY DEF Settled
  <2>2. TypeOK' /\ IsFiniteSet(batchEdges') /\ NothingBeforeStart' /\ ScheduledOnce'
    BY DEF TypeOK, NothingBeforeStart, ScheduledOnce
  <2>3. CountsExact' /\ NumLeftExact' /\ OutcomeMatchesWork'
    BY <2>1 DEF CountsExact, NumLeftExact, OutcomeMatchesWork
  <2>4. WorkIsReleased' /\ BatchesAreReleased' /\ ErrorMatchesWork' /\ RunsOnReturned'
    BY DEF WorkIsReleased, BatchesAreReleased, ErrorMatchesWork, RunsOnReturned
  <2> QED BY <2>2, <2>3, <2>4
<1> QED BY <1>1, <1>2, <1>3 DEF Next, Done

-----------------------------------------------------------------------------
(* The theorems.                                                           *)

\* Every reachable state satisfies the inductive invariant.
THEOREM Invariant == Spec => []IInv
<1> QED BY InitInvariant, NextKeepsInvariant, PTL DEF Spec

\* The state keeps its type, for every graph, batchScheduler and concurrency.
THEOREM TypeCorrect == Spec => []TypeOK
<1>1. IInv => TypeOK  BY DEF IInv
<1> QED BY <1>1, Invariant, PTL

\* The counters of the GraphExecutor and of its sub-executors are always exact.
THEOREM CountersAreExact == Spec => []CountsExact
<1>1. IInv => CountsExact  BY DEF IInv
<1> QED BY <1>1, Invariant, PTL

\* A vertex is scheduled once, at the moment it has nothing to wait for.
THEOREM EveryVertexScheduledOnce == Spec => []ScheduledOnce
<1>1. IInv => ScheduledOnce  BY DEF IInv
<1> QED BY <1>1, Invariant, PTL

\* No task is scheduled, run or skipped before all it depends on has settled.
THEOREM DependencyOrder == Spec => []DependenciesSettleFirst
<1>1. IInv => DependenciesSettleFirst
  <2> SUFFICES ASSUME IInv, NEW e \in graph.edges \cup batchEdges,
                      work[e[1]] # "none" \/ queued[e[1]] > 0
               PROVE  e[2] \in Settled
    BY DEF DependenciesSettleFirst
  <2>1. e[1] \in Vertices  BY GraphFacts DEF IInv, TypeOK, Edges
  <2>2. CASE queued[e[1]] > 0  BY <2>1, <2>2, DequeuableFacts
  <2>3. CASE work[e[1]] # "none"
    <3>1. started  BY <2>1, <2>3 DEF IInv, NothingBeforeStart
    <3>2. e[1] \in graph.nodes /\ count[e[1]] = 0 /\ batchCount[e[1]] = 0
      BY <2>1, <2>3 DEF IInv, WorkIsReleased
    <3>3. /\ Cardinality(Waiting(graph.edges, e[1])) = 0
          /\ Cardinality(Waiting(batchEdges, e[1])) = 0
      BY <3>1, <3>2 DEF IInv, CountsExact, Waiting
    <3>4. IsFiniteSet(graph.edges) /\ IsFiniteSet(batchEdges)
      BY GraphFacts DEF IInv, TypeOK
    <3> QED BY <3>3, <3>4, WaitingZero
  <2> QED BY <2>2, <2>3
<1> QED BY <1>1, Invariant, PTL

\* Nothing that depends on a failed or skipped task is ever run.
THEOREM FailFast == Spec => []FailureStopsDependents
<1>1. IInv => FailureStopsDependents
  <2> SUFFICES ASSUME IInv, NEW e \in graph.edges \cup batchEdges,
                      work[e[2]] \in {"threw", "skipped"}
               PROVE  work[e[1]] \in {"none", "skipped"}
    BY DEF FailureStopsDependents
  <2>1. e[1] \in Vertices  BY GraphFacts DEF IInv, TypeOK, Edges
  <2>2. work[e[1]] \in WorkStates  BY <2>1 DEF IInv, TypeOK
  <2> QED BY <2>2 DEF IInv, RunsOnReturned, WorkStates
<1> QED BY <1>1, Invariant, PTL

\* The promise of execute() tells the truth about the work.
THEOREM OutcomeIsTruthful == Spec => []OutcomeMatchesWork
<1>1. IInv => OutcomeMatchesWork  BY DEF IInv
<1> QED BY <1>1, Invariant, PTL

\* The first error stays the error of the execution, and no work starts once it
\* is set.
THEOREM FirstErrorStays == Spec => FirstErrorKept
<1> DEFINE Kept == /\ firstError # NoError => firstError' = firstError
                   /\ \A v \in Vertices :
                        (work[v] # "running" /\ work'[v] = "running") => firstError' = NoError
<1>1. ASSUME TypeOK, [Next]_vars PROVE [Kept]_vars
  <2> SUFFICES ASSUME Next PROVE Kept  BY <1>1
  <2>0. work \in [Vertices -> WorkStates]  BY <1>1 DEF TypeOK
  <2>1. CASE Start \/ Done  BY <2>1 DEF Start, Done, vars
  <2>2. ASSUME NEW v \in Vertices, StartWork(v) PROVE Kept
    BY <2>2 DEF StartWork
  <2>3. ASSUME NEW v \in Vertices, SkipWork(v) PROVE Kept
    BY <2>0, <2>3 DEF SkipWork, WorkStates
  <2>4. ASSUME NEW v \in Vertices, WorkReturns(v) PROVE Kept
    BY <2>0, <2>4 DEF WorkReturns, WorkStates
  <2>5. ASSUME NEW v \in Vertices, WorkThrows(v) PROVE Kept
    BY <2>0, <2>5, NoErrorAssumption DEF WorkThrows, WorkStates
  <2> QED BY <2>1, <2>2, <2>3, <2>4, <2>5 DEF Next
<1> QED BY <1>1, TypeCorrect, PTL DEF Spec, FirstErrorKept

=============================================================================
