--------------------------- MODULE GraphExecution ---------------------------
(***************************************************************************)
(* Execution of a dependency graph: the GraphExecutor, the fail-fast       *)
(* Executor underneath it and the progressMade events between them         *)
(* (modules/misc: internal/graph-executor.ts, executor.ts, graph.ts).      *)
(*                                                                         *)
(* A vertex is scheduled when the last of its neighbours (the vertices it  *)
(* depends on) has settled.  The PQueue is external: a bag of waiting      *)
(* tasks and a limit on how many are in progress; its FIFO order is        *)
(* abstracted to any order.                                                *)
(***************************************************************************)
EXTENDS DependencyGraph

CONSTANTS
    Graphs,       \* the graphs an execution may be given
    BatchGraphs,  \* what a batchScheduler may return: edges over the batch;
                  \* {} stands for "undefined", the scheduler the engine passes
    Concurrency   \* the concurrency limit of the PQueue

ASSUME ConcurrencyAssumption == Concurrency \in Nat \ {0}

\* The constructor refuses a cyclic graph, scheduleBatch() a cyclic sub-graph.
\* On an empty graph execute() never settles: the engine never passes one.
ASSUME GraphsAssumption ==
    \A g \in Graphs :
        /\ g.nodes \subseteq Vertices /\ g.nodes # {}
        /\ g.edges \subseteq Edges /\ IsFiniteSet(g.edges)
        /\ \A e \in g.edges : e[1] \in g.nodes /\ e[2] \in g.nodes
        /\ Acyclic(g.edges)

ASSUME BatchGraphsAssumption ==
    /\ {} \in BatchGraphs
    /\ \A s \in BatchGraphs : s \subseteq Edges /\ IsFiniteSet(s) /\ Acyclic(s)

VARIABLES
    graph,       \* the graph being executed (never changes)
    started,     \* GraphExecutor.started
    count,       \* GraphExecutor.map: neighbours each vertex still waits for
    batchEdges,  \* edges of the sub-graphs the batchScheduler returned
    batchCount,  \* the maps of the sub-executors
    queued,      \* the bag of tasks waiting in the PQueue
    work,        \* how far the Executor is with each vertex
    numLeft,     \* GraphExecutor.numLeft
    firstError,  \* Executor.firstError: NoError, or the vertex whose work threw it
    outcome      \* the promise execute() returned

NoError == "no error"

\* An error is told apart from no error: nothing falsy is thrown.
ASSUME NoErrorAssumption == NoError \notin Vertices

vars == <<graph, started, count, batchEdges, batchCount, queued, work,
          numLeft, firstError, outcome>>

WorkStates == {"none", "running", "returned", "threw", "skipped"}

Settled == {v \in Vertices : work[v] \in {"returned", "threw", "skipped"}}
Running == {v \in Vertices : work[v] = "running"}

-----------------------------------------------------------------------------

Init ==
    /\ graph \in Graphs
    /\ started = FALSE
    /\ count = [v \in Vertices |-> 0]
    /\ batchEdges = {}
    /\ batchCount = [v \in Vertices |-> 0]
    /\ queued = [v \in Vertices |-> 0]
    /\ work = [v \in Vertices |-> "none"]
    /\ numLeft = Cardinality(graph.nodes)
    /\ firstError = NoError
    /\ outcome = "pending"

\* Adds a batch to the queue `bag`.  A sub-graph over the batch holds back the
\* vertices that depend on others of the batch; `released` are vertices that
\* an earlier sub-graph held back and that the same event lets go.
ScheduleBatch(batch, released, waiting, bag) ==
    \E sub \in BatchGraphs :
        /\ \A e \in sub : e[1] \in batch /\ e[2] \in batch
        /\ batchEdges' = batchEdges \cup sub
        /\ batchCount' = [v \in Vertices |->
                            IF v \in batch THEN OutDegree(sub, v) ELSE waiting[v]]
        /\ queued' = [v \in Vertices |->
                        IF v \in released \/ (v \in batch /\ OutDegree(sub, v) = 0)
                        THEN bag[v] + 1 ELSE bag[v]]

\* execute(): subscribes, counts the neighbours and schedules the vertices
\* that have none.
Start ==
    /\ ~started
    /\ started' = TRUE
    /\ count' = [v \in Vertices |->
                    IF v \in graph.nodes THEN OutDegree(graph.edges, v) ELSE 0]
    /\ ScheduleBatch({v \in graph.nodes : OutDegree(graph.edges, v) = 0},
                     {}, batchCount, queued)
    /\ UNCHANGED <<graph, work, numLeft, firstError, outcome>>

\* mutant: each neighbour counts once, however many edges lead to it
Decremented_once(counts, E, v) ==
    [n \in Vertices |-> counts[n] - (IF Multiplicity(E, n, v) > 0 THEN 1 ELSE 0)]

\* mapIncrement(map, n, -1) for every n in backNeighborsOf(v)
Decremented(counts, E, v) ==
    [n \in Vertices |-> counts[n] - Multiplicity(E, n, v)]

\* mutants: the counter is compared before all edges are counted down; the
\* counter is not compared
ReachZero_ofOne(counts, E, v) ==
    {n \in Vertices : Multiplicity(E, n, v) > 0 /\ counts[n] = 1}
ReachZero_any(counts, E, v) ==
    {n \in Vertices : Multiplicity(E, n, v) > 0}

\* the back-neighbours of v whose counter reaches zero
ReachZero(counts, E, v) ==
    {n \in Vertices : Multiplicity(E, n, v) > 0 /\ counts[n] = Multiplicity(E, n, v)}

\* mutant: the promise settles when one vertex is left
Publish_early(v, error, bag) ==
    /\ numLeft' = numLeft - 1
    /\ outcome' = IF numLeft' > 1 \/ outcome # "pending" THEN outcome
                  ELSE IF error = NoError THEN "resolved" ELSE "rejected"
    /\ count' = Decremented(count, graph.edges, v)
    /\ ScheduleBatch(ReachZero(count, graph.edges, v),
                     ReachZero(batchCount, batchEdges, v),
                     Decremented(batchCount, batchEdges, v), bag)
    /\ UNCHANGED <<graph, started>>

\* publish('progressMade', {lastSettled: v, error}): the subscribers run
\* synchronously in the order they subscribed: the one of execute(), the one
\* of the GraphExecutor, those of the sub-executors.  The PQueue frees v's
\* slot with it.
Publish(v, error, bag) ==
    /\ numLeft' = numLeft - 1
    /\ outcome' = IF numLeft' > 0 \/ outcome # "pending" THEN outcome
                  ELSE IF error = NoError THEN "resolved" ELSE "rejected"
    /\ count' = Decremented(count, graph.edges, v)
    /\ ScheduleBatch(ReachZero(count, graph.edges, v),
                     ReachZero(batchCount, batchEdges, v),
                     Decremented(batchCount, batchEdges, v), bag)
    /\ UNCHANGED <<graph, started>>

\* The PQueue has a free slot and a waiting entry for v, which it takes.
Dequeuable(v) == queued[v] > 0 /\ Cardinality(Running) < Concurrency
Dequeued(v)   == [queued EXCEPT ![v] = @ - 1]

\* mutant: process() does not look at firstError
StartWork_afterError(v) ==
    /\ Dequeuable(v)
    /\ queued' = Dequeued(v)
    /\ work' = [work EXCEPT ![v] = "running"]
    /\ UNCHANGED <<graph, started, count, batchEdges, batchCount, numLeft,
                   firstError, outcome>>

\* process(v): no task has failed so far, so workToDo(v) is called
StartWork(v) ==
    /\ Dequeuable(v)
    /\ firstError = NoError
    /\ queued' = Dequeued(v)
    /\ work' = [work EXCEPT ![v] = "running"]
    /\ UNCHANGED <<graph, started, count, batchEdges, batchCount, numLeft,
                   firstError, outcome>>

\* mutant: the no-op does not publish
SkipWork_silent(v) ==
    /\ Dequeuable(v)
    /\ firstError # NoError
    /\ work' = [work EXCEPT ![v] = "skipped"]
    /\ queued' = Dequeued(v)
    /\ UNCHANGED <<graph, started, count, batchEdges, batchCount, numLeft,
                   firstError, outcome>>

\* process(v) after a task failed: a no-op that still publishes the error
SkipWork(v) ==
    /\ Dequeuable(v)
    /\ firstError # NoError
    /\ work' = [work EXCEPT ![v] = "skipped"]
    /\ firstError' = firstError
    /\ Publish(v, firstError, Dequeued(v))

\* workToDo(v) returns
WorkReturns(v) ==
    /\ work[v] = "running"
    /\ work' = [work EXCEPT ![v] = "returned"]
    /\ firstError' = firstError
    /\ Publish(v, firstError, queued)

\* mutant: the last error is kept
WorkThrows_lastKept(v) ==
    /\ work[v] = "running"
    /\ work' = [work EXCEPT ![v] = "threw"]
    /\ firstError' = v
    /\ Publish(v, firstError', queued)

\* workToDo(v) throws: only the first error is kept
WorkThrows(v) ==
    /\ work[v] = "running"
    /\ work' = [work EXCEPT ![v] = "threw"]
    /\ firstError' = IF firstError = NoError THEN v ELSE firstError
    /\ Publish(v, firstError', queued)

\* The promise has settled: nothing is left to run.
Done == outcome # "pending" /\ UNCHANGED vars

Next ==
    \/ Start
    \/ \E v \in Vertices :
        StartWork(v) \/ SkipWork(v) \/ WorkReturns(v) \/ WorkThrows(v)
    \/ Done

Spec == Init /\ [][Next]_vars

\* The PQueue takes waiting tasks while it has free slots, and the work of a
\* task settles: it awaits only file operations, the storage client and child
\* processes.
Fairness ==
    /\ WF_vars(Start)
    /\ WF_vars(\E v \in Vertices : StartWork(v) \/ SkipWork(v))
    /\ \A v \in Vertices : WF_vars(WorkReturns(v) \/ WorkThrows(v))

FairSpec == Spec /\ Fairness

-----------------------------------------------------------------------------

TypeOK ==
    /\ graph \in Graphs
    /\ started \in BOOLEAN
    /\ count \in [Vertices -> Int]
    /\ batchEdges \subseteq Edges
    /\ batchCount \in [Vertices -> Int]
    /\ queued \in [Vertices -> Nat]
    /\ work \in [Vertices -> WorkStates]
    /\ numLeft \in Int
    /\ firstError \in Vertices \cup {NoError}
    /\ outcome \in {"pending", "resolved", "rejected"}

\* The counters are exact: a vertex waits for one count per edge to a vertex
\* that has not settled, in the graph and in the sub-graph of its batch.  An
\* edge counted once and decremented twice, or the reverse, would start a
\* task early or never.
CountsExact ==
    started =>
        \A v \in graph.nodes :
            /\ count[v] = Cardinality({e \in graph.edges :
                                        e[1] = v /\ e[2] \notin Settled})
            /\ batchCount[v] = Cardinality({e \in batchEdges :
                                        e[1] = v /\ e[2] \notin Settled})

\* A vertex waits in the queue or has been processed exactly when it has
\* nothing left to wait for, and it is scheduled once: however its last
\* neighbours settle, it is neither lost nor run twice.
ScheduledOnce ==
    started =>
        \A v \in Vertices :
            queued[v] = IF /\ v \in graph.nodes /\ work[v] = "none"
                           /\ count[v] = 0 /\ batchCount[v] = 0 THEN 1 ELSE 0

\* No task is processed before everything it depends on has settled.
DependenciesSettleFirst ==
    \A e \in graph.edges \cup batchEdges :
        (work[e[1]] # "none" \/ queued[e[1]] > 0) => e[2] \in Settled

\* Executor's doc: once a task is rejected no further task is executed.  Seen
\* from the graph: nothing that depends on a failed or skipped task, at any
\* distance, is ever run, whatever was running when the failure came.
FailureStopsDependents ==
    \A e \in graph.edges \cup batchEdges :
        work[e[2]] \in {"threw", "skipped"} => work[e[1]] \in {"none", "skipped"}

\* execute() settles only when every vertex has, nothing runs and nothing is
\* queued, and it is rejected exactly when some work threw.
OutcomeMatchesWork ==
    outcome # "pending" =>
        /\ Settled = graph.nodes
        /\ \A v \in Vertices : queued[v] = 0
        /\ (outcome = "rejected") <=> (\E v \in Vertices : work[v] = "threw")

\* The error of the rejection is the first one: a later failure never
\* replaces it, and work that was running when it came may still end.
FirstErrorKept ==
    [][/\ firstError # NoError => firstError' = firstError
       /\ \A v \in Vertices : (work[v] # "running" /\ work'[v] = "running")
                                => firstError' = NoError]_vars

\* Every execution settles, after failures too: no vertex waits for ever.
ExecutionSettles == <>(outcome # "pending")

=============================================================================
