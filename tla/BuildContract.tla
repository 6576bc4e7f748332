---------------------------- MODULE BuildContract ----------------------------
(***************************************************************************)
(* What a build promises about its tasks, without the queue, the counters, *)
(* the phases and the cache: a task is worked on once, after all it depends*)
(* on passed; it passes or fails; a failure blocks all that depends on it  *)
(* in the same instant; after a crash no task is taken up any more; and    *)
(* the build is over when nothing is worked on and every task in scope has *)
(* a result, or it crashed.                                                *)
(***************************************************************************)
EXTENDS DependencyGraph

CONSTANT Plans   \* records with fields nodes, edges and errorEdges

VARIABLES
    plan,     \* the plan of this build (never changes)
    result,   \* of each task
    crashed,  \* some task crashed
    over      \* how the build ended

contractVars == <<plan, result, crashed, over>>

Results == {"pending", "working", "passed", "failed", "blocked", "broken"}

ContractInit ==
    /\ plan \in Plans
    /\ result = [t \in Vertices |-> "pending"]
    /\ crashed = FALSE
    /\ over = "pending"

TakeUp(t) ==
    /\ t \in plan.nodes /\ result[t] = "pending" /\ ~crashed
    /\ \A e \in plan.edges : e[1] = t => result[e[2]] = "passed"
    /\ result' = [result EXCEPT ![t] = "working"]
    /\ UNCHANGED <<plan, crashed, over>>

Pass(t) ==
    /\ result[t] = "working"
    /\ result' = [result EXCEPT ![t] = "passed"]
    /\ UNCHANGED <<plan, crashed, over>>

Fail(t) ==
    /\ result[t] = "working"
    /\ \A u \in Backward(plan.errorEdges, {t}) \ {t} : result[u] \in {"pending", "blocked"}
    /\ result' = [u \in Vertices |->
                    IF u = t THEN "failed"
                    ELSE IF u \in Backward(plan.errorEdges, {t}) THEN "blocked"
                    ELSE result[u]]
    /\ UNCHANGED <<plan, crashed, over>>

\* The work of t breaks down: before it has a result, while the result is being
\* recorded, or when it is reported, be it that the task could not start.  A
\* result it has stands.  The build may end with it.
Crash(t) ==
    /\ result[t] \in {"working", "passed", "failed", "blocked"} /\ over = "pending"
    /\ result' = [result EXCEPT ![t] = IF @ = "working" THEN "broken" ELSE @]
    /\ crashed' = TRUE
    /\ over' \in {"pending", "rejected"}
    /\ over' = "rejected" => \A u \in Vertices : result'[u] # "working"
    /\ UNCHANGED plan

End ==
    /\ over = "pending"
    /\ \A t \in Vertices : result[t] # "working"
    /\ ~crashed => \A t \in plan.nodes : result[t] \in {"passed", "failed", "blocked"}
    /\ over' = IF crashed THEN "rejected" ELSE "resolved"
    /\ UNCHANGED <<plan, result, crashed>>

ContractNext ==
    \/ End
    \/ \E t \in Vertices : TakeUp(t) \/ Pass(t) \/ Fail(t) \/ Crash(t)

ContractSpec == ContractInit /\ [][ContractNext]_contractVars
=============================================================================
