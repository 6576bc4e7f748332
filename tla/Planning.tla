------------------------------- MODULE Planning -------------------------------
(***************************************************************************)
(* From the tasks a repo-protocol lists to the plan a build executes:      *)
(* validateTaskInfos(), Planner.computePlan() and ExecutionPlan.apply() as *)
(* Engine.run() calls them (modules/build-raptor-core/src: planner.ts,     *)
(* validate-task-infos.ts, updatable-task-output-registry.ts,              *)
(* execution-plan.ts, engine.ts).                                          *)
(*                                                                         *)
(* A path in the repo is the sequence of its names, the root is <<>>.      *)
(* PathInRepo compares paths as strings, so what matters of names is which *)
(* of them begin with which.                                               *)
(***************************************************************************)
EXTENDS TaskGraph, Sequences

CONSTANTS
    Names,        \* names of files and directories
    LongerNames,  \* <<n, m>> if m is n with something appended
    DotNames,     \* the names that begin with a dot
    Catalogs,     \* what getTasks() may return: sequences of task infos
    Selectors     \* what the user may ask for: [units, goals, labels]

\* A task info is [name, unit, labels, inputs, outputs, deps]; dependencies may
\* name tasks that do not exist.
ASSUME CatalogsAssumption ==
    \A infos \in Catalogs :
        /\ Len(infos) \in Nat /\ DOMAIN infos = 1 .. Len(infos)
        /\ \A i \in DOMAIN infos :
            /\ infos[i].name \in Vertices /\ infos[i].deps \subseteq Vertices
            /\ infos[i].inputs \cup infos[i].outputs \subseteq Seq(Names)
            /\ IsFiniteSet(infos[i].inputs)

\* What is asked for are units, labels and locations in the repo.
ASSUME SelectorsAssumption == \A s \in Selectors : s.goals \subseteq Seq(Names)

ASSUME NamesAssumption == LongerNames \subseteq Names \X Names /\ DotNames \subseteq Names

VARIABLES
    infos, selector,         \* the task list and the request
    stage,                   \* the next statement
    reg,                     \* the output registry: task by output location
    next,                    \* how many infos are registered, plus one
    taskGraph,
    errorPropagationGraph,   \* the copy made before tasks are dropped
    startingPoints

vars == <<infos, selector, stage, reg, next, taskGraph, errorPropagationGraph,
          startingPoints>>

NoTask == "no task"

Root == <<>>

\* PathInRepo.isPrefixOf(): q, as a string, starts with p.  The root is '.'.
IsPrefixOf(p, q) ==
    IF p = Root THEN q = Root \/ q[1] \in DotNames
    ELSE LET n == Len(p) IN
         /\ n <= Len(q)
         /\ \A i \in 1 .. (n - 1) : p[i] = q[i]
         /\ p[n] = q[n] \/ <<p[n], q[n]>> \in LongerNames

\* q is p, or lies in the directory p.
Encloses(p, q) == Len(p) <= Len(q) /\ SubSeq(q, 1, Len(p)) = p

\* mutant: the location itself only
Lookup_exact(r, p) == IF p \in DOMAIN r THEN r[p] ELSE NoTask

\* lookup(): the nearest of p and its parents that is an output; never the root.
Lookup(r, p) ==
    LET at == {i \in 1 .. Len(p) : SubSeq(p, 1, i) \in DOMAIN r}
    IN IF at = {} THEN NoTask
       ELSE r[SubSeq(p, 1, CHOOSE i \in at : \A j \in at : j <= i)]

WideLookup(r, p) ==
    IF Lookup(r, p) # NoTask THEN {Lookup(r, p)}
    ELSE {r[q] : q \in {x \in DOMAIN r : IsPrefixOf(p, x)}}

Init ==
    /\ infos \in Catalogs
    /\ selector \in Selectors
    /\ stage = "VALIDATE"
    /\ reg = [p \in {} |-> NoTask]
    /\ next = 1
    /\ taskGraph = EmptyGraph
    /\ errorPropagationGraph = EmptyGraph
    /\ startingPoints = {}

\* A BuildFailedError, or any other exception, ends the planning.
Fail(reason) == stage' = reason

Failures == {"NAME_COLLISION", "OUTPUT_COLLISION", "CYCLIC", "NO_TASK_FOR_GOAL",
             "MISSING_TASK", "NO_STARTING_POINT"}

-----------------------------------------------------------------------------
(* validateTaskInfos()                                                     *)

Locations == {<<i, p>> : i \in DOMAIN infos, p \in UNION {infos[j].outputs : j \in DOMAIN infos}}
Outputs == {l \in Locations : l[2] \in infos[l[1]].outputs}

NamesCollide == \E i, j \in DOMAIN infos : i # j /\ infos[i].name = infos[j].name

\* checkOutputCollisions()
OutputsCollide == \E a, b \in Outputs : a # b /\ IsPrefixOf(a[2], b[2])

ValidateTaskInfos ==
    /\ stage = "VALIDATE"
    /\ \/ NamesCollide /\ Fail("NAME_COLLISION") /\ UNCHANGED reg
       \/ ~NamesCollide /\ OutputsCollide /\ Fail("OUTPUT_COLLISION") /\ UNCHANGED reg
       \/ /\ ~NamesCollide /\ ~OutputsCollide
          /\ stage' = "REGISTER"
          /\ reg' = [p \in {l[2] : l \in Outputs} |->
                        infos[(CHOOSE l \in Outputs : l[2] = p)[1]].name]
    /\ UNCHANGED <<infos, selector, next, taskGraph, errorPropagationGraph, startingPoints>>

-----------------------------------------------------------------------------
(* Planner.computePlan()                                                   *)

\* An edge per input that some task produces, and an edge per declared dep.
WithInputs(g, info) ==
    AddEdges(g, info.name,
             [v \in Vertices |-> Cardinality({i \in info.inputs : Lookup(reg, i) = v})])
WithDeps(g, info) ==
    AddEdges(g, info.name, [v \in Vertices |-> IF v \in info.deps THEN 1 ELSE 0])

\* registerTask(), of the next info
RegisterTask ==
    /\ stage = "REGISTER" /\ next <= Len(infos)
    /\ LET info == infos[next] IN
        taskGraph' = WithDeps(WithInputs(AddVertex(taskGraph, info.name), info), info)
    /\ next' = next + 1
    /\ UNCHANGED <<infos, selector, stage, reg, errorPropagationGraph, startingPoints>>

\* the rest of computePlan(), and the constructor of ExecutionPlan
MakePlan ==
    /\ stage = "REGISTER" /\ next > Len(infos)
    /\ IF IsCyclic(taskGraph)
       THEN Fail("CYCLIC") /\ UNCHANGED errorPropagationGraph
       ELSE stage' = "APPLY" /\ errorPropagationGraph' = Copy(taskGraph)
    /\ UNCHANGED <<infos, selector, reg, next, taskGraph, startingPoints>>

-----------------------------------------------------------------------------
(* ExecutionPlan.apply()                                                   *)

TaskNames == {infos[i].name : i \in DOMAIN infos}
Info(t) == infos[CHOOSE i \in DOMAIN infos : infos[i].name = t]

MatchesUnit(t) ==
    IF selector.units = {} /\ selector.goals = {} THEN TRUE
    ELSE Info(t).unit \in selector.units
MatchesLabel(t) == selector.labels = {} \/ selector.labels \cap Info(t).labels # {}

GoalTasks == UNION {WideLookup(reg, g) : g \in selector.goals}

\* what computeStartingPoints() returns
Chosen ==
    {t \in GoalTasks : MatchesLabel(t)}
        \cup {t \in TaskNames : MatchesUnit(t) /\ MatchesLabel(t)}

\* tasks() fails on a vertex that is no task.
ComputeStartingPoints ==
    /\ stage = "APPLY"
    /\ \/ /\ \E g \in selector.goals : WideLookup(reg, g) = {}
          /\ Fail("NO_TASK_FOR_GOAL") /\ UNCHANGED startingPoints
       \/ /\ \A g \in selector.goals : WideLookup(reg, g) # {}
          /\ ~(taskGraph.vertices \subseteq TaskNames)
          /\ Fail("MISSING_TASK") /\ UNCHANGED startingPoints
       \/ /\ \A g \in selector.goals : WideLookup(reg, g) # {}
          /\ taskGraph.vertices \subseteq TaskNames
          /\ startingPoints' = Chosen /\ stage' = "DROP"
    /\ UNCHANGED <<infos, selector, reg, next, taskGraph, errorPropagationGraph>>

\* mutant: what depends on the starting points stays, too
InScope_both ==
    TraverseFrom(taskGraph.out, startingPoints) \cup TraverseFrom(taskGraph.in, startingPoints)

InScope == TraverseFrom(taskGraph.out, startingPoints)

\* dropOutOfScope(): one vertex that is not in scope.  The scope is computed once,
\* before the first is removed; no removal changes it.
DropVertex ==
    /\ stage = "DROP"
    /\ \E v \in taskGraph.vertices \ InScope : taskGraph' = RemoveVertex(taskGraph, v)
    /\ UNCHANGED <<infos, selector, stage, reg, next, errorPropagationGraph, startingPoints>>

\* back in Engine.run()
PlanPrepared ==
    /\ stage = "DROP" /\ taskGraph.vertices \subseteq InScope
    /\ IF startingPoints = {} THEN Fail("NO_STARTING_POINT") ELSE stage' = "PREPARED"
    /\ UNCHANGED <<infos, selector, reg, next, taskGraph, errorPropagationGraph, startingPoints>>

Next == ValidateTaskInfos \/ RegisterTask \/ MakePlan \/ ComputeStartingPoints
        \/ DropVertex \/ PlanPrepared

Spec == Init /\ [][Next]_vars
-----------------------------------------------------------------------------

Links == [Vertices -> [Vertices -> Nat]]

TypeOK ==
    /\ TaskNames \subseteq Vertices
    /\ stage \in {"VALIDATE", "REGISTER", "APPLY", "DROP", "PREPARED"} \cup Failures
    /\ DOMAIN reg \subseteq Seq(Names) /\ \A p \in DOMAIN reg : reg[p] \in TaskNames
    /\ next \in 1 .. Len(infos) + 1
    /\ \A g \in {taskGraph, errorPropagationGraph} :
        g.vertices \subseteq Vertices /\ g.out \in Links /\ g.in \in Links
    /\ startingPoints \subseteq TaskNames

\* The two lists of every edge agree and lead to vertices of the graph, also
\* while vertices are dropped one after another: no counter of a later traversal
\* or execution sees an edge that is gone, or misses one of several.
ListsAgree ==
    \A g \in {taskGraph, errorPropagationGraph} : \A u, v \in Vertices :
        /\ g.out[u][v] = g.in[v][u]
        /\ g.out[u][v] > 0 => {u, v} \subseteq g.vertices

\* isCyclic() is right about every graph of tasks, with several edges between
\* two tasks and tasks that depend on themselves: a plan is made exactly if some
\* order of the tasks respects all edges.
CyclesAreFound ==
    /\ stage = "CYCLIC" => ~Acyclic(EdgesOf(taskGraph))
    /\ stage = "APPLY" => Acyclic(EdgesOf(taskGraph))

\* A plan is the part of the task graph that the starting points need, all of it
\* and nothing else, with every edge as often as before.
PlanIsScope ==
    stage = "PREPARED" =>
        LET all == EdgesOf(errorPropagationGraph)
            needed == Forward(all, startingPoints) IN
        /\ taskGraph.vertices = needed
        /\ EdgesOf(taskGraph) = {e \in all : e[1] \in needed /\ e[2] \in needed}

\* An input that is an output of another task, or lies in one, is produced before
\* the task that reads it runs, in the same build.  An output that is the root of
\* the repo is an exception, because lookup() gives up before it looks there; and
\* an input directory with outputs of other tasks in it gives no edge to them.
InputsComeFirst ==
    stage = "PREPARED" =>
        \A t \in taskGraph.vertices, u \in TaskNames :
            (\E i \in Info(t).inputs, o \in Info(u).outputs \ {Root} : Encloses(o, i))
                => u \in taskGraph.vertices /\ <<t, u, 1>> \in EdgesOf(taskGraph)

=============================================================================
