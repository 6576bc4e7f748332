-------------------------- MODULE BuildEngine_proofs --------------------------
(***************************************************************************)
(* Proofs that a build of any plan, on any number of slots, whatever its   *)
(* tasks and the storage answer, runs tasks on passed dependencies only,   *)
(* propagates failures completely, keeps what it reported, and implements  *)
(* the contract of a build.                                                *)
(***************************************************************************)
EXTENDS BuildEngine, GraphExecution_proofs

-----------------------------------------------------------------------------
(* The inductive invariant.                                                *)

\* What a record may say.
Fresh(t)   == verdict[t] = "UNKNOWN" /\ execType[t] = "UNKNOWN"
Blocked(t) == verdict[t] = "FAIL" /\ execType[t] = "CANNOT_START"
Ran(t)     == verdict[t] \in {"OK", "FAIL"} /\ execType[t] = "EXECUTED"
Cached(t)  == verdict[t] = "OK" /\ execType[t] = "CACHED"

\* A task that was taken up, and not because it could not start.
Worked(t) == pc[t] # "IDLE" /\ ~Blocked(t)

\* The steps before a verdict, and those with a fingerprint.
Early   == {"RUNNING", "COMPUTE_FINGERPRINT", "POSSIBLY_RESTORE_OUTPUTS", "PURGE",
            "RESTORE", "RUN_IT", "VALIDATE"}
Printed == {"POSSIBLY_RESTORE_OUTPUTS", "PURGE", "RESTORE", "RUN_IT", "VALIDATE",
            "SKIP", "RECORD", "TERMINAL"}

\* The executor's place and the Executor's view of the task agree.
PcMatchesWork ==
    \A t \in Vertices :
        /\ pc[t] = "IDLE" <=> work[t] \in {"none", "skipped"}
        /\ pc[t] = "DONE" <=> work[t] \in {"returned", "threw"}

\* What the record says at each place.
RecordsMatchPc ==
    \A t \in Vertices :
        /\ pc[t] = "IDLE" => Fresh(t) \/ Blocked(t)
        /\ pc[t] = "EARLY_EXIT" => Blocked(t)
        /\ pc[t] \in Early => Fresh(t)
        /\ pc[t] = "SKIP" => Cached(t)
        /\ pc[t] = "RECORD" => Ran(t)
        /\ pc[t] = "TERMINAL" => Cached(t) \/ Ran(t)
        /\ pc[t] = "THREW" => Fresh(t) \/ Ran(t)
        /\ work[t] = "returned" => Blocked(t) \/ Cached(t) \/ Ran(t)
        /\ work[t] = "threw" => Fresh(t) \/ Blocked(t) \/ Cached(t) \/ Ran(t)

\* TASK_ENDED reports what stands in the record, then the crash of a task that
\* threw: alone, or after a report that broke down.
EndedMatchesWork ==
    \A t \in Vertices :
        /\ work[t] = "returned" => ended[t] = <<verdict[t]>>
        /\ work[t] = "threw" => ended[t] \in {<<"CRASH">>, <<verdict[t], "CRASH">>}
        /\ work[t] \notin {"returned", "threw"} => ended[t] = <<>>

\* A task that passed has its fingerprint.
PrintsAreSet ==
    \A t \in Vertices : pc[t] \in Printed \/ verdict[t] = "OK" => hasPrint[t]

\* Whatever was taken up depends on tasks that passed, in the larger graph too.
WorkedOnPassed ==
    \A e \in graph.errorEdges : Worked(e[1]) => verdict[e[2]] = "OK"

\* What the records, the steps and the fingerprints say of each other.
RecordsInv ==
    /\ EngineTypeOK
    /\ PcMatchesWork
    /\ RecordsMatchPc
    /\ EndedMatchesWork
    /\ PrintsAreSet
    /\ WorkedOnPassed
    /\ FailurePropagated
    /\ DependencyFingerprintsSet

EInv == IInv /\ RecordsInv

-----------------------------------------------------------------------------
(* Plans and graphs.                                                       *)

\* Backward() contains where it starts and is closed under dependents.
LEMMA BackwardClosed ==
    ASSUME NEW E, E \subseteq Edges, NEW S, NEW e \in E, e[2] \in Backward(E, S)
    PROVE  e[1] \in Backward(E, S)
<1>1. e[1] \in Vertices /\ e[2] \in Vertices  BY DEF Edges
<1>2. ASSUME NEW C \in SUBSET Vertices,
             S \subseteq C, \A f \in E : f[2] \in C => f[1] \in C
      PROVE  e[1] \in C
  <2>1. e[2] \in C  BY <1>2 DEF Backward
  <2> QED BY <2>1, <1>2
<1> QED BY <1>1, <1>2 DEF Backward

LEMMA BackwardContains ==
    ASSUME NEW E, NEW S, S \subseteq Vertices
    PROVE  S \subseteq Backward(E, S)
BY DEF Backward

\* Backward() lies in every closed set.
LEMMA BackwardLeast ==
    ASSUME NEW E, NEW S, NEW C \in SUBSET Vertices,
           S \subseteq C, \A f \in E : f[2] \in C => f[1] \in C
    PROVE  Backward(E, S) \subseteq C
BY DEF Backward

\* Forward() is closed under dependencies.
LEMMA ForwardClosed ==
    ASSUME NEW E, E \subseteq Edges, NEW S, NEW e \in E, e[1] \in Forward(E, S)
    PROVE  e[2] \in Forward(E, S)
<1>1. e[1] \in Vertices /\ e[2] \in Vertices  BY DEF Edges
<1>2. ASSUME NEW C \in SUBSET Vertices,
             S \subseteq C, \A f \in E : f[1] \in C => f[2] \in C
      PROVE  e[2] \in C
  <2>1. e[1] \in C  BY <1>2 DEF Forward
  <2> QED BY <2>1, <1>2
<1> QED BY <1>1, <1>2 DEF Forward

\* The plan keeps every dependency of the tasks in scope, and no other edge.
LEMMA PlanFacts ==
    ASSUME graph \in Graphs
    PROVE  /\ graph.errorEdges \subseteq Edges
           /\ graph.edges \subseteq graph.errorEdges
           /\ \A e \in graph.errorEdges :
                /\ e[1] \in Vertices /\ e[2] \in Vertices
                /\ e[1] \in graph.nodes => e \in graph.edges
           /\ \A t \in graph.nodes : \A d \in graph.fingerprintDeps[t] :
                \E e \in graph.errorEdges : e[1] = t /\ e[2] = d
<1> DEFINE E == graph.errorEdges
<1>1. E \subseteq Edges  BY PlansAssumption
<1>2. graph = ApplyPlan(E, graph.nodes, graph.fingerprintDeps, graph.cacheable)
  BY PlansAssumption
<1>3. /\ graph.nodes = Forward(E, graph.nodes)
      /\ graph.edges = {e \in E : e[1] \in graph.nodes /\ e[2] \in graph.nodes}
  BY <1>2 DEF ApplyPlan
<1>4. \A e \in E : e[1] \in Vertices /\ e[2] \in Vertices  BY <1>1 DEF Edges
<1>5. ASSUME NEW e \in E, e[1] \in graph.nodes PROVE e \in graph.edges
  BY <1>1, <1>3, <1>5, ForwardClosed
<1>6. \A t \in graph.nodes : \A d \in graph.fingerprintDeps[t] :
          \E e \in graph.edges : e[1] = t /\ e[2] = d
  BY PlansAssumption
<1> QED BY <1>1, <1>3, <1>4, <1>5, <1>6

-----------------------------------------------------------------------------
(* Dependencies and failures.                                              *)

\* FailurePropagated, read from the task that stops and from the one that is stopped.
LEMMA PropagationFacts ==
    ASSUME EInv, NEW x \in Vertices
    PROVE  /\ verdict[x] = "FAIL" /\ execType[x] = "EXECUTED" =>
                \A u \in Backward(graph.errorEdges, {x}) \ {x} :
                    execType[u] = "CANNOT_START"
           /\ execType[x] = "CANNOT_START" =>
                /\ rootCause[x] \in Vertices /\ rootCause[x] # x
                /\ x \in Backward(graph.errorEdges, {rootCause[x]})
                /\ verdict[rootCause[x]] = "FAIL" /\ execType[rootCause[x]] = "EXECUTED"
<1>1. FailurePropagated /\ EngineTypeOK  BY DEF EInv, RecordsInv
<1>2. rootCause[x] \in Vertices \cup {NoTask}  BY <1>1 DEF EngineTypeOK
<1> QED BY <1>1, <1>2 DEF FailurePropagated

\* When a task begins to run, whatever it depends on has passed: a dependency
\* that failed, or that could not start, would have stopped it.
LEMMA DependenciesPassed ==
    ASSUME EInv, NEW t \in Vertices, queued[t] > 0, firstError = NoError, Fresh(t),
           NEW e \in graph.errorEdges, e[1] = t
    PROVE  verdict[e[2]] = "OK"
<1> DEFINE d == e[2]
           E == graph.errorEdges
<1>1. graph \in Graphs  BY DEF EInv, IInv, TypeOK
<1>2. t \in graph.nodes /\ work[t] = "none" /\ d \in Settled
  BY <1>1, DequeuableFacts, PlanFacts DEF EInv
<1>3. d \in Vertices /\ E \subseteq Edges  BY <1>1, PlanFacts
<1>4. work[d] = "returned"
  BY <1>2, <1>3 DEF Settled, EInv, IInv, ErrorMatchesWork
<1>5. Blocked(d) \/ Cached(d) \/ Ran(d)
  BY <1>3, <1>4 DEF EInv, RecordsInv, RecordsMatchPc
<1>6. ASSUME NEW r \in Vertices, d \in Backward(E, {r}), verdict[r] = "FAIL",
             execType[r] = "EXECUTED"
      PROVE  FALSE
  <2>1. t \in Backward(E, {r}) \ {r}  BY <1>3, <1>6, BackwardClosed DEF Fresh
  <2>2. execType[t] = "CANNOT_START"
    BY <1>6, <2>1 DEF EInv, RecordsInv, FailurePropagated
  <2> QED BY <2>2 DEF Fresh
<1>7. CASE Blocked(d)
  <2>1. /\ rootCause[d] \in Vertices \cup {NoTask} /\ rootCause[d] # NoTask
        /\ d \in Backward(E, {rootCause[d]})
        /\ verdict[rootCause[d]] = "FAIL" /\ execType[rootCause[d]] = "EXECUTED"
    BY <1>3, <1>7 DEF EInv, RecordsInv, FailurePropagated, Blocked, EngineTypeOK
  <2> QED BY <2>1, <1>6
<1>8. CASE Ran(d) /\ verdict[d] = "FAIL"
  <2>1. d \in Backward(E, {d})  BY <1>3, BackwardContains
  <2> QED BY <1>3, <1>6, <1>8, <2>1 DEF Ran
<1> QED BY <1>5, <1>7, <1>8 DEF Cached, Ran

\* The failure of a task that is running overwrites no record of a task that was
\* taken up: all that depends on it waits, or could not start before.
LEMMA FailureMeetsWaiting ==
    ASSUME EInv, NEW t \in Vertices, pc[t] = "RUN_IT",
           NEW u \in Backward(graph.errorEdges, {t}) \ {t}
    PROVE  u \in Vertices /\ ~Worked(u)
<1> DEFINE E == graph.errorEdges
           C == {v \in Vertices : v = t \/ ~Worked(v)}
<1>1. graph \in Graphs  BY DEF EInv, IInv, TypeOK
<1>2. verdict[t] # "OK"  BY DEF EInv, RecordsInv, RecordsMatchPc, Early, Fresh
<1>3. \A v \in C : verdict[v] # "OK"
  BY <1>2 DEF EInv, RecordsInv, RecordsMatchPc, Worked, Fresh, Blocked
<1>4. ASSUME NEW f \in E, f[2] \in C PROVE f[1] \in C
  <2>1. f[1] \in Vertices  BY <1>1, PlanFacts
  <2>2. ~Worked(f[1])  BY <1>3, <1>4 DEF EInv, RecordsInv, WorkedOnPassed
  <2> QED BY <2>1, <2>2
<1>5. C \in SUBSET Vertices /\ {t} \subseteq C  OBVIOUS
<1> HIDE DEF C
<1>6. Backward(E, {t}) \subseteq C  BY <1>4, <1>5, BackwardLeast
<1> QED BY <1>6 DEF C

-----------------------------------------------------------------------------
(* The steps of the engine are steps of the execution.                     *)

LEMMA EngineStepIsStep == [EngineNext]_allVars => [Next]_vars
<1> SUFFICES ASSUME [EngineNext]_allVars PROVE [Next]_vars  OBVIOUS
<1>1. CASE UNCHANGED allVars  BY <1>1 DEF allVars
<1>2. CASE Scheduling  BY <1>2 DEF Scheduling, Next
<1>3. ASSUME NEW t \in Vertices, Begin(t) PROVE Next  BY <1>3 DEF Begin, Next
<1>4. ASSUME NEW t \in Vertices, EndTask(t) \/ EndTaskThrows(t) \/ EndCrashed(t)
      PROVE  Next
  BY <1>4 DEF EndTask, EndTaskThrows, EndCrashed, Next
<1>5. ASSUME NEW t \in Vertices, TaskStep(t),
             ~EndTask(t), ~EndTaskThrows(t), ~EndCrashed(t)
      PROVE  UNCHANGED vars
  BY <1>5 DEF TaskStep, ExecutorStep, ReadDependencyFingerprints, ComputeFingerprint,
              CheckVerdict, PurgeOutputs, RestoreOutputs, Skip, Execute, ValidateOutputs,
              RecordTask, StepThrows
<1> QED BY <1>1, <1>2, <1>3, <1>4, <1>5 DEF EngineNext

-----------------------------------------------------------------------------
(* The steps keep the invariant.                                           *)

\* A step of a task that is worked on, which leaves the records as they are.
LEMMA QuietStep ==
    ASSUME EInv, NEW t \in Vertices, pc[t] \notin {"IDLE", "EARLY_EXIT", "DONE"},
           UNCHANGED <<vars, ended, records, numRunning>>,
           pc' \in [Vertices -> Steps], \A u \in Vertices \ {t} : pc'[u] = pc[u],
           pc'[t] \notin {"IDLE", "EARLY_EXIT", "DONE"},
           pc'[t] \in Early => Fresh(t), pc'[t] = "SKIP" => Cached(t),
           pc'[t] = "RECORD" => Ran(t), pc'[t] = "TERMINAL" => Cached(t) \/ Ran(t),
           pc'[t] = "THREW" => Fresh(t) \/ Ran(t),
           hasPrint' \in [Vertices -> BOOLEAN], \A u \in Vertices : hasPrint[u] => hasPrint'[u],
           pc'[t] \in Printed => hasPrint'[t],
           earlier' \in [Vertices -> {"UNKNOWN", "OK", "FAIL", "FLAKY"}],
           threwAt' \in [Vertices -> {"none", "EARLY_EXIT", "TERMINAL"} \cup Throwing]
    PROVE  RecordsInv'
<1> USE DEF EInv, RecordsInv
<1>1. /\ graph' = graph /\ work' = work /\ verdict' = verdict /\ execType' = execType
      /\ rootCause' = rootCause /\ ended' = ended
  BY DEF vars, records
<1>2. EngineTypeOK'
  BY <1>1 DEF EngineTypeOK, TypeOK, vars, records
<1>3. PcMatchesWork'
  BY <1>1 DEF PcMatchesWork
<1>4. RecordsMatchPc'
  BY <1>1 DEF RecordsMatchPc, Fresh, Blocked, Ran, Cached, Early, PcMatchesWork
<1>5. EndedMatchesWork'
  BY <1>1 DEF EndedMatchesWork
<1>6. PrintsAreSet'
  BY <1>1 DEF PrintsAreSet
<1>7. WorkedOnPassed'
  <2>1. ~Blocked(t)
    BY DEF RecordsMatchPc, Early, Fresh, Cached, Ran, Blocked, EngineTypeOK, Steps
  <2>2. \A e \in graph.errorEdges : e[1] \in Vertices  BY PlanFacts DEF IInv, TypeOK
  <2>3. \A u \in Vertices : Worked(u)' => Worked(u)  BY <1>1, <2>1 DEF Worked, Blocked
  <2> QED BY <1>1, <2>2, <2>3 DEF WorkedOnPassed
<1>8. FailurePropagated'
  <2>1. FailurePropagated  OBVIOUS
  <2> QED BY ONLY <1>1, <2>1 DEF FailurePropagated
<1>9. DependencyFingerprintsSet'
  BY DEF DependencyFingerprintsSet, Throwing
<1> QED BY <1>2, <1>3, <1>4, <1>5, <1>6, <1>7, <1>8, <1>9

\* A task passes: its outputs are restored, or they are there after it ran.
LEMMA RegisterOkStep ==
    ASSUME EInv, NEW t \in Vertices, pc[t] \in {"RESTORE", "VALIDATE"},
           UNCHANGED <<vars, ended, hasPrint, earlier, threwAt, numRunning>>,
           \/ RegisterOk(t, "CACHED") /\ pc' = [pc EXCEPT ![t] = "SKIP"]
           \/ RegisterOk(t, "EXECUTED") /\ pc' = [pc EXCEPT ![t] = "RECORD"]
    PROVE  RecordsInv'
<1> USE DEF EInv, RecordsInv
<1>1. graph' = graph /\ work' = work /\ ended' = ended
  BY DEF vars
<1>2. /\ pc' \in [Vertices -> Steps] /\ pc'[t] \in {"SKIP", "RECORD"}
      /\ \A u \in Vertices \ {t} : pc'[u] = pc[u]
  BY DEF EngineTypeOK, Steps
<1>3. /\ execType'[t] \in {"CACHED", "EXECUTED"}
      /\ pc'[t] = "SKIP" => execType'[t] = "CACHED"
      /\ pc'[t] = "RECORD" => execType'[t] = "EXECUTED"
  BY DEF RegisterOk, EngineTypeOK
<1>4. /\ verdict'[t] = "OK"
      /\ \A u \in Vertices \ {t} : /\ verdict'[u] = verdict[u] /\ execType'[u] = execType[u]
                                   /\ rootCause'[u] = rootCause[u]
  BY DEF RegisterOk, EngineTypeOK
<1>5. Fresh(t) /\ hasPrint[t] /\ work[t] \notin {"returned", "threw"}
  BY DEF RecordsMatchPc, Early, PrintsAreSet, Printed, PcMatchesWork
<1>6. EngineTypeOK'
  BY <1>2 DEF EngineTypeOK, TypeOK, vars, RegisterOk, Verdicts
<1>7. PcMatchesWork'
  BY <1>1, <1>2, <1>5 DEF PcMatchesWork
<1>8. RecordsMatchPc'
  BY <1>1, <1>2, <1>3, <1>4, <1>5 DEF RecordsMatchPc, Fresh, Blocked, Ran, Cached, Early
<1>9. EndedMatchesWork'
  BY <1>1, <1>4, <1>5 DEF EndedMatchesWork, Fresh
<1>10. PrintsAreSet'
  BY <1>2, <1>4, <1>5 DEF PrintsAreSet
<1>11. WorkedOnPassed'
  <2>1. Worked(t)  BY <1>5 DEF Worked, Fresh, Blocked
  <2>2. graph \in Graphs  BY DEF IInv, TypeOK
  <2>3. ASSUME NEW e \in graph.errorEdges, Worked(e[1])' PROVE verdict'[e[2]] = "OK"
    <3>1. e[1] \in Vertices /\ e[2] \in Vertices  BY <2>2, PlanFacts
    <3>2. Worked(e[1])  BY <1>2, <1>4, <2>1, <2>3, <3>1 DEF Worked, Blocked
    <3> QED BY <1>4, <3>1, <3>2 DEF WorkedOnPassed
  <2> QED BY <1>1, <2>3 DEF WorkedOnPassed
<1>12. FailurePropagated'
  <2> DEFINE B(x) == Backward(graph.errorEdges, {x})
  <2>1. \A x \in Vertices : B(x) \subseteq Vertices  BY DEF Backward
  <2>2. ASSUME NEW x \in Vertices, verdict'[x] = "FAIL", execType'[x] = "EXECUTED",
               NEW u \in B(x) \ {x}
        PROVE  execType'[u] = "CANNOT_START"
    <3>1. x # t  BY <1>4, <2>2
    <3>0. verdict[x] = "FAIL" /\ execType[x] = "EXECUTED"  BY <1>4, <2>2, <3>1
    <3>2. execType[u] = "CANNOT_START"  BY ONLY EInv, <2>2, <3>0, PropagationFacts
    <3>3. u \in Vertices /\ u # t  BY <1>5, <2>1, <2>2, <3>2 DEF Fresh
    <3> QED BY <1>4, <3>2, <3>3
  <2>3. ASSUME NEW x \in Vertices, execType'[x] = "CANNOT_START"
        PROVE  LET r == rootCause'[x] IN
               /\ r # NoTask /\ r # x /\ x \in B(r)
               /\ verdict'[r] = "FAIL" /\ execType'[r] = "EXECUTED"
    <3> DEFINE r == rootCause[x]
    <3>1. x # t  BY <1>3, <2>3
    <3>2. execType[x] = "CANNOT_START" /\ rootCause'[x] = r  BY <1>4, <2>3, <3>1
    <3>3. /\ r \in Vertices /\ r # x /\ x \in B(r)
          /\ verdict[r] = "FAIL" /\ execType[r] = "EXECUTED"
      BY ONLY EInv, <2>3, <3>2, PropagationFacts
    <3>4. r # t  BY <1>5, <3>3 DEF Fresh
    <3> QED BY <1>4, <3>2, <3>3, <3>4, NoTaskAssumption
  <2> QED BY <1>1, <2>2, <2>3 DEF FailurePropagated
<1>13. DependencyFingerprintsSet'
  BY DEF DependencyFingerprintsSet
<1> QED BY <1>6, <1>7, <1>8, <1>9, <1>10, <1>11, <1>12, <1>13

\* A task that ran fails, and its failure is propagated.
LEMMA RegisterFailureStep ==
    ASSUME EInv, NEW t \in Vertices, pc[t] = "RUN_IT",
           UNCHANGED <<vars, ended, hasPrint, earlier, threwAt, numRunning>>,
           RegisterFailure(t), pc' = [pc EXCEPT ![t] = "RECORD"]
    PROVE  RecordsInv'
<1> USE DEF EInv, RecordsInv
<1> DEFINE B(x) == Backward(graph.errorEdges, {x})
           stopped == B(t) \ {t}
<1>1. graph' = graph /\ work' = work /\ ended' = ended
  BY DEF vars
<1>2. /\ pc' \in [Vertices -> Steps] /\ pc'[t] = "RECORD"
      /\ \A u \in Vertices \ {t} : pc'[u] = pc[u]
  BY DEF EngineTypeOK, Steps
<1>3. /\ verdict' = [u \in Vertices |-> IF u = t \/ u \in stopped THEN "FAIL" ELSE verdict[u]]
      /\ execType' = [u \in Vertices |-> IF u = t THEN "EXECUTED"
                        ELSE IF u \in stopped THEN "CANNOT_START" ELSE execType[u]]
      /\ rootCause' = [u \in Vertices |-> IF u = t THEN NoTask
                        ELSE IF u \in stopped THEN t ELSE rootCause[u]]
  BY DEF RegisterFailure, FailureStops
<1>4. \A u \in stopped : u \in Vertices /\ u # t /\ ~Worked(u)
  BY FailureMeetsWaiting
<1> HIDE DEF stopped
<1>5. /\ Ran(t)' /\ verdict'[t] = "FAIL" /\ \A u \in stopped : Blocked(u)'
      /\ \A u \in Vertices \ {t} : u \notin stopped =>
            /\ verdict'[u] = verdict[u] /\ execType'[u] = execType[u]
            /\ rootCause'[u] = rootCause[u]
  BY <1>3, <1>4 DEF Ran, Blocked
<1>6. Fresh(t) /\ work[t] \notin {"none", "skipped", "returned", "threw"}
  BY DEF RecordsMatchPc, Early, PcMatchesWork
<1>7. \A u \in stopped : /\ pc[u] = "IDLE" \/ Blocked(u)
                         /\ verdict[u] # "OK"
  BY <1>4 DEF Worked, RecordsMatchPc, Fresh, Blocked
<1>8. EngineTypeOK'
  BY <1>2, <1>3 DEF EngineTypeOK, TypeOK, vars, Verdicts
<1>9. PcMatchesWork'
  BY <1>1, <1>2, <1>6 DEF PcMatchesWork
<1>10. RecordsMatchPc'
  <2>1. ASSUME NEW u \in stopped
        PROVE  pc'[u] \in {"IDLE", "EARLY_EXIT", "DONE"} /\ Blocked(u)'
    <3>1. u \in Vertices \ {t} /\ Blocked(u)'  BY <1>4, <1>5
    <3>2. pc[u] \in {"IDLE", "EARLY_EXIT", "DONE"}
      BY <1>7, <3>1 DEF RecordsMatchPc, PcMatchesWork, EngineTypeOK, Steps, Early, Fresh, Ran,
                        Cached, Blocked
    <3> QED BY <1>1, <1>2, <3>1, <3>2
  <2>2. ASSUME NEW u \in Vertices \ {t}, u \notin stopped
        PROVE  /\ pc'[u] = pc[u] /\ work'[u] = work[u]
               /\ verdict'[u] = verdict[u] /\ execType'[u] = execType[u]
    BY <1>1, <1>2, <1>5, <2>2
  <2>3. pc'[t] = "RECORD" /\ work'[t] \notin {"returned", "threw"} /\ Ran(t)'
    BY <1>1, <1>2, <1>5, <1>6
  <2> QED BY <2>1, <2>2, <2>3 DEF RecordsMatchPc, Fresh, Blocked, Ran, Cached, Early
<1>11. EndedMatchesWork'
  <2>1. ASSUME NEW u \in stopped PROVE work[u] \in {"returned", "threw"} => verdict[u] = "FAIL"
    BY <1>4, <1>7, <2>1 DEF PcMatchesWork, Blocked
  <2> QED BY <1>1, <1>4, <1>5, <1>6, <2>1 DEF EndedMatchesWork, Blocked
<1>12. PrintsAreSet'
  <2>1. hasPrint[t]  BY DEF PrintsAreSet, Printed
  <2>2. \A u \in Vertices \ {t} : verdict'[u] = "OK" => verdict[u] = "OK"
    BY <1>5 DEF Blocked
  <2> QED BY <1>2, <2>1, <2>2 DEF PrintsAreSet
<1>13. WorkedOnPassed'
  <2>1. Worked(t)  BY <1>6 DEF Worked, Fresh, Blocked
  <2>2. graph \in Graphs  BY DEF IInv, TypeOK
  <2>3. ASSUME NEW e \in graph.errorEdges, Worked(e[1])' PROVE verdict'[e[2]] = "OK"
    <3>1. e[1] \in Vertices /\ e[2] \in Vertices  BY <2>2, PlanFacts
    <3>2. Worked(e[1])
      BY <1>2, <1>5, <2>1, <2>3, <3>1 DEF Worked, Blocked
    <3>3. verdict[e[2]] = "OK"  BY <3>2 DEF WorkedOnPassed
    <3>4. e[2] # t /\ e[2] \notin stopped  BY <1>6, <1>7, <3>3 DEF Fresh
    <3> QED BY <1>5, <3>1, <3>3, <3>4
  <2> QED BY <1>1, <2>3 DEF WorkedOnPassed
<1>14. FailurePropagated'
  <2>1. \A x \in Vertices : B(x) \subseteq Vertices  BY DEF Backward
  <2>2. ASSUME NEW x \in Vertices, verdict'[x] = "FAIL", execType'[x] = "EXECUTED",
               NEW u \in B(x) \ {x}
        PROVE  execType'[u] = "CANNOT_START"
    <3>1. CASE x = t  BY <1>5, <2>2, <3>1 DEF Blocked, stopped
    <3>2. CASE x # t
      <4>1. x \notin stopped  BY <1>5, <2>2 DEF Blocked
      <4>0. verdict[x] = "FAIL" /\ execType[x] = "EXECUTED"  BY <1>5, <2>2, <3>2, <4>1
      <4>2. execType[u] = "CANNOT_START"  BY ONLY EInv, <2>2, <4>0, PropagationFacts
      <4>3. u \in Vertices /\ u # t  BY <1>6, <2>1, <2>2, <4>2 DEF Fresh
      <4> QED BY <1>3, <4>2, <4>3
    <3> QED BY <3>1, <3>2
  <2>3. ASSUME NEW x \in Vertices, execType'[x] = "CANNOT_START"
        PROVE  LET r == rootCause'[x] IN
               /\ r # NoTask /\ r # x /\ x \in B(r)
               /\ verdict'[r] = "FAIL" /\ execType'[r] = "EXECUTED"
    <3>1. x # t  BY <1>5, <2>3 DEF Ran
    <3>2. CASE x \in stopped
      <4>1. rootCause'[x] = t  BY <1>3, <3>1, <3>2
      <4> QED BY <1>5, <3>1, <3>2, <4>1, NoTaskAssumption DEF Ran, stopped
    <3>3. CASE x \notin stopped
      <4> DEFINE r == rootCause[x]
      <4>0. execType[x] = "CANNOT_START" /\ rootCause'[x] = r  BY <1>5, <2>3, <3>1, <3>3
      <4>1. /\ r \in Vertices /\ r # x /\ x \in B(r)
            /\ verdict[r] = "FAIL" /\ execType[r] = "EXECUTED"
        BY ONLY EInv, <2>3, <4>0, PropagationFacts
      <4>2. r # t  BY <1>6, <4>1 DEF Fresh
      <4>3. r \notin stopped
        BY <1>7, <4>1, <4>2 DEF Blocked, RecordsMatchPc, Fresh
      <4> QED BY <1>5, <4>0, <4>1, <4>2, <4>3, NoTaskAssumption
    <3> QED BY <3>2, <3>3
  <2> QED BY <1>1, <2>2, <2>3 DEF FailurePropagated
<1>15. DependencyFingerprintsSet'
  BY DEF DependencyFingerprintsSet
<1> QED BY <1>8, <1>9, <1>10, <1>11, <1>12, <1>13, <1>14, <1>15

\* A step of the Executor that the work of the task takes no part in.
LEMMA StillStep ==
    ASSUME EInv, IInv', graph' = graph, work' = work, UNCHANGED engineVars
    PROVE  RecordsInv'
<1> USE DEF EInv, RecordsInv, engineVars, records
<1>1. EngineTypeOK'  BY DEF EngineTypeOK, IInv
<1>2. PcMatchesWork' /\ RecordsMatchPc' /\ EndedMatchesWork'
  BY DEF PcMatchesWork, RecordsMatchPc, EndedMatchesWork, Fresh, Blocked, Ran, Cached
<1>3. PrintsAreSet' /\ WorkedOnPassed' /\ FailurePropagated' /\ DependencyFingerprintsSet'
  BY DEF PrintsAreSet, WorkedOnPassed, Worked, Blocked, FailurePropagated,
         DependencyFingerprintsSet
<1> QED BY <1>1, <1>2, <1>3

\* The work of a task is skipped, begins or ends.
LEMMA WorkStep ==
    ASSUME EInv, IInv', graph' = graph, NEW t \in Vertices,
           UNCHANGED <<records, hasPrint, earlier>>, numRunning' \in Int,
           threwAt' \in [Vertices -> {"none", "EARLY_EXIT", "TERMINAL"} \cup Throwing],
           pc' \in [Vertices -> Steps], \A u \in Vertices \ {t} : pc'[u] = pc[u],
           \A u \in Vertices \ {t} : work'[u] = work[u],
           ended' \in [Vertices -> Reports],
           \A u \in Vertices \ {t} : ended'[u] = ended[u],
           \/ /\ pc[t] = "IDLE" /\ pc'[t] = "IDLE" /\ work'[t] = "skipped"
              /\ ended'[t] = <<>>
           \/ /\ pc'[t] = "EARLY_EXIT" /\ work'[t] = "running" /\ ended'[t] = <<>>
              /\ Blocked(t)
           \/ /\ pc'[t] = "RUNNING" /\ work'[t] = "running" /\ ended'[t] = <<>>
              /\ Fresh(t)
              /\ \A e \in graph.errorEdges : e[1] = t => verdict[e[2]] = "OK"
           \/ /\ pc[t] # "IDLE" /\ pc'[t] = "DONE" /\ work'[t] = "returned"
              /\ ended'[t] = <<verdict[t]>>
              /\ Blocked(t) \/ Cached(t) \/ Ran(t)
           \/ /\ pc[t] # "IDLE" /\ pc'[t] = "DONE" /\ work'[t] = "threw"
              /\ \/ ended'[t] = <<"CRASH">> /\ (Fresh(t) \/ Ran(t))
                 \/ /\ ended'[t] = <<verdict[t], "CRASH">>
                    /\ Blocked(t) \/ Cached(t) \/ Ran(t)
    PROVE  RecordsInv'
<1> USE DEF RecordsInv
<1>0. IInv /\ RecordsInv  BY DEF EInv
<1>1. /\ verdict' = verdict /\ execType' = execType /\ rootCause' = rootCause
      /\ hasPrint' = hasPrint /\ earlier' = earlier
  BY DEF records
<1>4. EngineTypeOK'
  BY <1>0, <1>1 DEF EngineTypeOK, IInv
<1>5. PcMatchesWork'
  BY <1>0 DEF PcMatchesWork
<1>6. RecordsMatchPc'
  BY <1>0, <1>1 DEF RecordsMatchPc, Fresh, Blocked, Ran, Cached, Early
<1>7. EndedMatchesWork'
  BY <1>0, <1>1 DEF EndedMatchesWork
<1>8. PrintsAreSet'
  BY <1>0, <1>1 DEF PrintsAreSet, Printed
<1>9. WorkedOnPassed'
  <2>1. ASSUME NEW e \in graph.errorEdges, Worked(e[1])' PROVE verdict[e[2]] = "OK"
    <3>1. e[1] \in Vertices  BY <1>0, PlanFacts DEF IInv, TypeOK
    <3>2. CASE e[1] # t
      BY <1>0, <1>1, <2>1, <3>1, <3>2 DEF WorkedOnPassed, Worked, Blocked
    <3>3. CASE e[1] = t /\ pc'[t] # "RUNNING"
      <4>1. Worked(t)  BY <1>1, <2>1, <3>3 DEF Worked, Blocked
      <4> QED BY <1>0, <3>3, <4>1 DEF WorkedOnPassed
    <3> QED BY <3>2, <3>3
  <2> QED BY <1>1, <2>1 DEF WorkedOnPassed
<1>10. FailurePropagated'
  <2>1. FailurePropagated /\ graph' = graph  BY <1>0
  <2> QED BY ONLY <1>1, <2>1 DEF FailurePropagated
<1>11. DependencyFingerprintsSet'
  BY DEF DependencyFingerprintsSet, Throwing
<1> QED BY <1>4, <1>5, <1>6, <1>7, <1>8, <1>9, <1>10, <1>11

\* Nothing ever threw for want of a fingerprint.
LEMMA ThrewAtType ==
    EInv => threwAt \in [Vertices -> {"none", "EARLY_EXIT", "TERMINAL"} \cup Throwing]
<1> SUFFICES ASSUME EInv
             PROVE  threwAt \in [Vertices -> {"none", "EARLY_EXIT", "TERMINAL"} \cup Throwing]
  OBVIOUS
<1>1. threwAt \in [Vertices -> {"none", "RUNNING", "EARLY_EXIT", "TERMINAL"} \cup Throwing]
  BY DEF EInv, RecordsInv, EngineTypeOK
<1>2. \A u \in Vertices : threwAt[u] # "RUNNING"
  BY DEF EInv, RecordsInv, DependencyFingerprintsSet
<1> QED BY <1>1, <1>2

\* A task is taken up: it could not start, or all it depends on has passed.
LEMMA BeginStep ==
    ASSUME EInv, IInv', NEW t \in Vertices, Begin(t)
    PROVE  RecordsInv'
<1>0. IInv /\ RecordsInv  BY DEF EInv
<1>1. /\ queued[t] > 0 /\ firstError = NoError /\ graph' = graph
      /\ work' = [work EXCEPT ![t] = "running"]
      /\ UNCHANGED <<records, hasPrint, earlier, threwAt>> /\ ended' = ended
      /\ threwAt' \in [Vertices -> {"none", "EARLY_EXIT", "TERMINAL"} \cup Throwing]
  BY ThrewAtType DEF Begin, StartWork, Dequeuable
<1>2. work[t] = "none"  BY <1>0, <1>1, DequeuableFacts
<1>3. /\ pc[t] = "IDLE" /\ (Fresh(t) \/ Blocked(t)) /\ ended'[t] = <<>>
      /\ ended' \in [Vertices -> Reports]
      /\ \A u \in Vertices \ {t} : ended'[u] = ended[u]
  BY <1>0, <1>1, <1>2
     DEF RecordsInv, PcMatchesWork, RecordsMatchPc, EndedMatchesWork, EngineTypeOK
<1>4. work'[t] = "running" /\ \A u \in Vertices \ {t} : work'[u] = work[u]
  BY <1>0, <1>1 DEF IInv, TypeOK
<1>5. pc \in [Vertices -> Steps] /\ numRunning \in Int
  BY <1>0 DEF RecordsInv, EngineTypeOK
<1>6. CASE Blocked(t)
  <2>1. pc' = [pc EXCEPT ![t] = "EARLY_EXIT"] /\ numRunning' = numRunning
    BY <1>6 DEF Begin, Goto, Blocked
  <2>2. /\ pc' \in [Vertices -> Steps] /\ pc'[t] = "EARLY_EXIT"
        /\ \A u \in Vertices \ {t} : pc'[u] = pc[u]
    BY <1>5, <2>1 DEF Steps
  <2>3. numRunning' \in Int  BY <1>5, <2>1
  <2> QED BY ONLY EInv, IInv', <1>1, <1>3, <1>4, <1>6, <2>2, <2>3, WorkStep
<1>7. CASE Fresh(t)
  <2>1. pc' = [pc EXCEPT ![t] = "RUNNING"] /\ numRunning' = numRunning + 1
    BY <1>7 DEF Begin, Goto, Fresh
  <2>2. /\ pc' \in [Vertices -> Steps] /\ pc'[t] = "RUNNING"
        /\ \A u \in Vertices \ {t} : pc'[u] = pc[u]
    BY <1>5, <2>1 DEF Steps
  <2>3. numRunning' \in Int  BY <1>5, <2>1
  <2>4. \A e \in graph.errorEdges : e[1] = t => verdict[e[2]] = "OK"
    BY <1>1, <1>7, DependenciesPassed
  <2> QED BY ONLY EInv, IInv', <1>1, <1>3, <1>4, <1>7, <2>2, <2>3, <2>4, WorkStep
<1> QED BY <1>3, <1>6, <1>7

\* A task ends, or what is queued after an error is skipped.
LEMMA EndStep ==
    ASSUME EInv, IInv', NEW t \in Vertices,
           \/ EndTask(t) \/ EndTaskThrows(t) \/ EndCrashed(t)
           \/ SkipWork(t) /\ UNCHANGED engineVars
    PROVE  RecordsInv'
<1>0. IInv /\ RecordsInv  BY DEF EInv
<1>1. /\ work \in [Vertices -> WorkStates] /\ pc \in [Vertices -> Steps]
      /\ ended \in [Vertices -> Reports]
      /\ verdict \in [Vertices -> Verdicts] /\ numRunning \in Int
      /\ threwAt \in [Vertices -> {"none", "EARLY_EXIT", "TERMINAL"} \cup Throwing]
  BY <1>0, ThrewAtType DEF RecordsInv, EngineTypeOK, TypeOK
<1>2. CASE EndTask(t)
  <2>1. /\ graph' = graph /\ work' = [work EXCEPT ![t] = "returned"]
        /\ pc' = [pc EXCEPT ![t] = "DONE"] /\ ended' = [ended EXCEPT ![t] = <<verdict[t]>>]
        /\ pc[t] \in {"EARLY_EXIT", "TERMINAL"} /\ numRunning' = numRunning - 1
        /\ UNCHANGED <<records, hasPrint, earlier, threwAt>>
    BY <1>2 DEF EndTask, Report, StatusDone, Goto, WorkReturns, Publish
  <2>2. /\ work'[t] = "returned" /\ \A u \in Vertices \ {t} : work'[u] = work[u]
        /\ pc' \in [Vertices -> Steps] /\ pc'[t] = "DONE"
        /\ \A u \in Vertices \ {t} : pc'[u] = pc[u]
    BY <1>1, <2>1 DEF Steps
  <2>3. /\ ended' \in [Vertices -> Reports]
        /\ ended'[t] = <<verdict[t]>> /\ \A u \in Vertices \ {t} : ended'[u] = ended[u]
        /\ numRunning' \in Int
    BY <1>1, <2>1 DEF Reports
  <2>4. pc[t] # "IDLE" /\ (Blocked(t) \/ Cached(t) \/ Ran(t))
    BY <1>0, <2>1 DEF RecordsInv, RecordsMatchPc
  <2> QED BY ONLY EInv, IInv', <1>1, <2>1, <2>2, <2>3, <2>4, WorkStep
<1>3. CASE EndTaskThrows(t) \/ EndCrashed(t)
  <2>1. /\ graph' = graph /\ work' = [work EXCEPT ![t] = "threw"]
        /\ pc' = [pc EXCEPT ![t] = "DONE"] /\ pc[t] \in {"EARLY_EXIT", "TERMINAL", "THREW"}
        /\ numRunning' = numRunning - 1
        /\ UNCHANGED <<records, hasPrint, earlier>>
        /\ threwAt' \in {threwAt, [threwAt EXCEPT ![t] = pc[t]]}
        /\ pc[t] = "THREW" => threwAt' = threwAt
    BY <1>3 DEF EndTaskThrows, EndCrashed, StatusDone, Goto, WorkThrows, Publish
  <2>2. /\ work'[t] = "threw" /\ \A u \in Vertices \ {t} : work'[u] = work[u]
        /\ pc' \in [Vertices -> Steps] /\ pc'[t] = "DONE"
        /\ \A u \in Vertices \ {t} : pc'[u] = pc[u]
        /\ numRunning' \in Int /\ pc[t] # "IDLE"
        /\ threwAt' \in [Vertices -> {"none", "EARLY_EXIT", "TERMINAL"} \cup Throwing]
    BY <1>1, <2>1 DEF Steps
  <2>3. \/ /\ ended' = [ended EXCEPT ![t] = <<"CRASH">>]
           /\ Fresh(t) \/ Ran(t)
        \/ /\ ended' = [ended EXCEPT ![t] = <<verdict[t], "CRASH">>]
           /\ Blocked(t) \/ Cached(t) \/ Ran(t)
    BY <1>0, <1>3 DEF EndTaskThrows, EndCrashed, Report, RecordsInv, RecordsMatchPc
  <2>4. /\ ended' \in [Vertices -> Reports]
        /\ \A u \in Vertices \ {t} : ended'[u] = ended[u]
        /\ \/ ended'[t] = <<"CRASH">> /\ (Fresh(t) \/ Ran(t))
           \/ ended'[t] = <<verdict[t], "CRASH">> /\ (Blocked(t) \/ Cached(t) \/ Ran(t))
    BY <1>1, <2>3 DEF Reports
  <2> QED BY ONLY EInv, IInv', <2>1, <2>2, <2>4, WorkStep
<1>4. CASE SkipWork(t) /\ UNCHANGED engineVars
  <2>1. /\ graph' = graph /\ work' = [work EXCEPT ![t] = "skipped"] /\ queued[t] > 0
        /\ UNCHANGED <<records, hasPrint, earlier, threwAt>>
        /\ pc' = pc /\ ended' = ended /\ numRunning' = numRunning
    BY <1>4 DEF SkipWork, Publish, Dequeuable, engineVars, records
  <2>2. work[t] = "none"  BY <1>0, <2>1, DequeuableFacts
  <2>3. /\ pc[t] = "IDLE" /\ pc'[t] = "IDLE" /\ ended'[t] = <<>>
        /\ pc' \in [Vertices -> Steps] /\ \A u \in Vertices \ {t} : pc'[u] = pc[u]
        /\ ended' \in [Vertices -> Reports]
        /\ \A u \in Vertices \ {t} : ended'[u] = ended[u]
        /\ numRunning' \in Int
    BY <1>0, <1>1, <2>1, <2>2 DEF RecordsInv, PcMatchesWork, EndedMatchesWork
  <2>4. work'[t] = "skipped" /\ \A u \in Vertices \ {t} : work'[u] = work[u]
    BY <1>1, <2>1
  <2> QED BY ONLY EInv, IInv', <1>1, <2>1, <2>3, <2>4, WorkStep
<1> QED BY <1>2, <1>3, <1>4

\* A step of a task that is worked on and does not end.
LEMMA InnerStep ==
    ASSUME EInv, NEW t \in Vertices, TaskStep(t),
           ~EndTask(t), ~EndTaskThrows(t), ~EndCrashed(t)
    PROVE  RecordsInv'
<1>0. IInv /\ RecordsInv  BY DEF EInv
<1>1. /\ graph \in Graphs /\ work \in [Vertices -> WorkStates] /\ pc \in [Vertices -> Steps]
      /\ hasPrint \in [Vertices -> BOOLEAN]
      /\ earlier \in [Vertices -> {"UNKNOWN", "OK", "FAIL", "FLAKY"}]
      /\ threwAt \in [Vertices -> {"none", "EARLY_EXIT", "TERMINAL"} \cup Throwing]
  BY <1>0, ThrewAtType DEF RecordsInv, EngineTypeOK, TypeOK
<1>2. /\ pc[t] \in Early => Fresh(t)
      /\ pc[t] = "SKIP" => Cached(t)
      /\ pc[t] = "RECORD" => Ran(t)
      /\ pc[t] \in Printed => hasPrint[t]
  BY <1>0 DEF RecordsInv, RecordsMatchPc, PrintsAreSet
<1>3. ASSUME NEW s \in Steps, pc' = [pc EXCEPT ![t] = s]
      PROVE  /\ pc' \in [Vertices -> Steps] /\ pc'[t] = s
             /\ \A u \in Vertices \ {t} : pc'[u] = pc[u]
  BY <1>1, <1>3
<1>4. CASE ReadDependencyFingerprints(t)
  <2>1. pc[t] = "RUNNING" /\ UNCHANGED <<vars, ended, records, hasPrint, earlier, numRunning>>
    BY <1>4 DEF ReadDependencyFingerprints, ExecutorStep
  <2>2. t \in graph.nodes
    BY <1>0, <1>1, <2>1 DEF RecordsInv, PcMatchesWork, IInv, WorkIsReleased
  <2>3. Worked(t)  BY <1>2, <2>1 DEF Worked, Early, Fresh, Blocked
  <2>4. ASSUME NEW d \in graph.fingerprintDeps[t] PROVE hasPrint[d]
    <3>1. PICK e \in graph.errorEdges : e[1] = t /\ e[2] = d  BY <1>1, <2>2, PlanFacts
    <3>2. d \in Vertices /\ verdict[d] = "OK"
      BY <1>0, <1>1, <2>3, <3>1, PlanFacts DEF RecordsInv, WorkedOnPassed
    <3> QED BY <1>0, <3>2 DEF RecordsInv, PrintsAreSet
  <2>5. pc' = [pc EXCEPT ![t] = "COMPUTE_FINGERPRINT"] /\ threwAt' = threwAt
    BY <1>4, <2>4 DEF ReadDependencyFingerprints, Goto
  <2>6. /\ pc' \in [Vertices -> Steps] /\ pc'[t] = "COMPUTE_FINGERPRINT"
        /\ \A u \in Vertices \ {t} : pc'[u] = pc[u]
    BY <1>3, <2>5 DEF Steps
  <2> QED BY <1>1, <1>2, <2>1, <2>5, <2>6, QuietStep DEF Early, Printed
<1>5. CASE ComputeFingerprint(t)
  <2>1. /\ pc[t] = "COMPUTE_FINGERPRINT" /\ UNCHANGED <<vars, ended, records, numRunning>>
        /\ pc' = [pc EXCEPT ![t] = "POSSIBLY_RESTORE_OUTPUTS"]
        /\ hasPrint' = [hasPrint EXCEPT ![t] = TRUE] /\ earlier' = earlier /\ threwAt' = threwAt
    BY <1>5 DEF ComputeFingerprint, ExecutorStep, Goto
  <2>2. /\ pc' \in [Vertices -> Steps] /\ pc'[t] = "POSSIBLY_RESTORE_OUTPUTS"
        /\ \A u \in Vertices \ {t} : pc'[u] = pc[u]
    BY <1>3, <2>1 DEF Steps
  <2>3. /\ hasPrint' \in [Vertices -> BOOLEAN] /\ hasPrint'[t]
        /\ \A u \in Vertices : hasPrint[u] => hasPrint'[u]
    BY <1>1, <2>1
  <2> QED BY <1>1, <1>2, <2>1, <2>2, <2>3, QuietStep DEF Early, Printed
<1>6. CASE CheckVerdict(t)
  <2>1. /\ pc[t] = "POSSIBLY_RESTORE_OUTPUTS"
        /\ UNCHANGED <<vars, ended, records, hasPrint, threwAt, numRunning>>
    BY <1>6 DEF CheckVerdict, ExecutorStep
  <2>2. PICK v \in {"UNKNOWN", "OK", "FAIL", "FLAKY"} :
            /\ earlier' = [earlier EXCEPT ![t] = v]
            /\ pc' \in {[pc EXCEPT ![t] = "PURGE"], [pc EXCEPT ![t] = "RESTORE"]}
    BY <1>6 DEF CheckVerdict, Goto
  <2>3. /\ pc' \in [Vertices -> Steps] /\ pc'[t] \in {"PURGE", "RESTORE"}
        /\ \A u \in Vertices \ {t} : pc'[u] = pc[u]
    BY <1>1, <2>2 DEF Steps
  <2>4. earlier' \in [Vertices -> {"UNKNOWN", "OK", "FAIL", "FLAKY"}]  BY <1>1, <2>2
  <2> QED BY <1>1, <1>2, <2>1, <2>3, <2>4, QuietStep DEF Early, Printed
<1>7. CASE PurgeOutputs(t) \/ (RestoreOutputs(t) /\ earlier[t] = "FAIL")
           \/ (Execute(t) /\ pc'[t] = "VALIDATE")
  <2>1. /\ pc[t] \in {"PURGE", "RESTORE", "RUN_IT"}
        /\ UNCHANGED <<vars, ended, hasPrint, earlier, numRunning>>
    BY <1>7 DEF PurgeOutputs, RestoreOutputs, Execute, ExecutorStep
  <2>2. /\ pc' \in {[pc EXCEPT ![t] = "RUN_IT"], [pc EXCEPT ![t] = "VALIDATE"]}
        /\ UNCHANGED <<records, threwAt>>
    BY <1>1, <1>7 DEF PurgeOutputs, RestoreOutputs, Execute, Goto
  <2>3. /\ pc' \in [Vertices -> Steps] /\ pc'[t] \in {"RUN_IT", "VALIDATE"}
        /\ \A u \in Vertices \ {t} : pc'[u] = pc[u]
    BY <1>1, <2>2 DEF Steps
  <2> QED BY <1>1, <1>2, <2>1, <2>2, <2>3, QuietStep DEF Early, Printed
<1>8. CASE Skip(t) \/ RecordTask(t)
  <2>1. /\ pc[t] \in {"SKIP", "RECORD"} /\ pc' = [pc EXCEPT ![t] = "TERMINAL"]
        /\ UNCHANGED <<vars, ended, records, hasPrint, earlier, threwAt, numRunning>>
    BY <1>8 DEF Skip, RecordTask, ExecutorStep, Goto
  <2>2. /\ pc' \in [Vertices -> Steps] /\ pc'[t] = "TERMINAL"
        /\ \A u \in Vertices \ {t} : pc'[u] = pc[u]
    BY <1>3, <2>1 DEF Steps
  <2> QED BY <1>1, <1>2, <2>1, <2>2, QuietStep DEF Early, Printed
<1>9. CASE StepThrows(t) \/ (Execute(t) /\ pc'[t] = "THREW")
  <2>1. /\ pc[t] \in Throwing /\ UNCHANGED <<vars, ended, hasPrint, earlier, numRunning>>
    BY <1>9 DEF StepThrows, Execute, ExecutorStep, Throwing
  <2>2. /\ pc' = [pc EXCEPT ![t] = "THREW"] /\ threwAt' = [threwAt EXCEPT ![t] = pc[t]]
        /\ UNCHANGED records
    BY <1>1, <1>9 DEF StepThrows, Execute, ExecutorStep, Goto
  <2>3. /\ pc' \in [Vertices -> Steps] /\ pc'[t] = "THREW"
        /\ \A u \in Vertices \ {t} : pc'[u] = pc[u]
    BY <1>3, <2>2 DEF Steps
  <2>4. threwAt' \in [Vertices -> {"none", "EARLY_EXIT", "TERMINAL"} \cup Throwing]
    BY <1>1, <2>1, <2>2
  <2>5. /\ pc[t] \notin {"IDLE", "EARLY_EXIT", "DONE"}
        /\ pc[t] \in Early \/ pc[t] = "RECORD"
    BY <2>1 DEF Throwing, Early
  <2> QED BY <1>1, <1>2, <2>1, <2>2, <2>3, <2>4, <2>5, QuietStep DEF Early, Printed
<1>10. CASE RestoreOutputs(t) /\ earlier[t] # "FAIL"
  BY <1>10, RegisterOkStep DEF RestoreOutputs, ExecutorStep, Goto
<1>11. CASE ValidateOutputs(t)
  BY <1>11, RegisterOkStep DEF ValidateOutputs, ExecutorStep, Goto
<1>12. CASE Execute(t) /\ pc'[t] \notin {"VALIDATE", "THREW"}
  BY <1>1, <1>12, RegisterFailureStep DEF Execute, ExecutorStep, Goto
<1> QED BY <1>4, <1>5, <1>6, <1>7, <1>8, <1>9, <1>10, <1>11, <1>12 DEF TaskStep

\* Every step keeps the records, the steps and the fingerprints consistent.
LEMMA EngineNextKeepsInvariant == EInv /\ [EngineNext]_allVars => EInv'
<1> SUFFICES ASSUME EInv, [EngineNext]_allVars PROVE EInv'  OBVIOUS
<1>1. IInv'  BY EngineStepIsStep, NextKeepsInvariant DEF EInv
<1>2. ASSUME Scheduling PROVE RecordsInv'
  <2>1. UNCHANGED engineVars  BY <1>2 DEF Scheduling
  <2>2. ASSUME NEW t \in Vertices, SkipWork(t) PROVE RecordsInv'
    BY <1>1, <2>1, <2>2, EndStep
  <2>3. CASE Start \/ Done
    <3>1. graph' = graph /\ work' = work  BY <2>3 DEF Start, Done, vars
    <3> QED BY ONLY EInv, <1>1, <2>1, <3>1, StillStep
  <2> QED BY <1>2, <2>2, <2>3 DEF Scheduling
<1>3. ASSUME UNCHANGED allVars PROVE RecordsInv'
  <2>1. graph' = graph /\ work' = work /\ UNCHANGED engineVars
    BY <1>3 DEF allVars, vars
  <2> QED BY ONLY EInv, <1>1, <2>1, StillStep
<1>4. ASSUME NEW t \in Vertices, Begin(t) PROVE RecordsInv'
  BY <1>1, <1>4, BeginStep
<1>5. ASSUME NEW t \in Vertices, TaskStep(t) PROVE RecordsInv'
  BY <1>1, <1>5, InnerStep, EndStep
<1> QED BY <1>1, <1>2, <1>3, <1>4, <1>5 DEF EngineNext, EInv

LEMMA EngineInitInvariant == EngineInit => EInv
<1> SUFFICES ASSUME EngineInit PROVE EInv  OBVIOUS
<1>1. IInv  BY InitInvariant DEF EngineInit
<1>2. EngineTypeOK  BY <1>1 DEF EngineInit, EngineTypeOK, IInv, Verdicts, Steps, Reports
<1>3. PcMatchesWork /\ RecordsMatchPc /\ EndedMatchesWork /\ PrintsAreSet
  BY DEF EngineInit, Init, PcMatchesWork, RecordsMatchPc, EndedMatchesWork, PrintsAreSet,
         Fresh, Blocked, Ran, Cached, Early, Printed
<1>4. WorkedOnPassed
  <2>1. graph \in Graphs  BY DEF EngineInit, Init
  <2> QED BY <2>1, PlanFacts DEF EngineInit, WorkedOnPassed, Worked
<1>5. FailurePropagated /\ DependencyFingerprintsSet
  BY DEF EngineInit, FailurePropagated, DependencyFingerprintsSet
<1> QED BY <1>1, <1>2, <1>3, <1>4, <1>5 DEF EInv, RecordsInv

-----------------------------------------------------------------------------
(* The theorems.                                                           *)

\* In every reachable state of every build the records, the places of the
\* executors and the fingerprints agree.
THEOREM EngineInvariant == EngineSpec => []EInv
<1> QED BY EngineInitInvariant, EngineNextKeepsInvariant, PTL DEF EngineSpec

\* No task is worked on before everything it depends on has passed.
THEOREM RunsOnPassed == EngineSpec => []RunsOnlyOnPassedDependencies
<1>1. EInv => RunsOnlyOnPassedDependencies
  <2> SUFFICES ASSUME EInv, NEW e \in graph.edges, InProgress(e[1])
               PROVE  verdict[e[2]] = "OK"
    BY DEF RunsOnlyOnPassedDependencies
  <2>1. graph \in Graphs  BY DEF EInv, IInv, TypeOK
  <2>2. e[1] \in Vertices /\ e \in graph.errorEdges  BY <2>1, PlanFacts
  <2>3. pc[e[1]] \in Steps  BY <2>2 DEF EInv, RecordsInv, EngineTypeOK
  <2>4. ~Blocked(e[1])
    BY <2>2, <2>3 DEF EInv, RecordsInv, RecordsMatchPc, InProgress, Steps, Early, Fresh,
                      Cached, Ran, Blocked
  <2> QED BY <2>2, <2>4 DEF EInv, RecordsInv, WorkedOnPassed, Worked, InProgress
<1> QED BY <1>1, EngineInvariant, PTL

\* A task that reads the fingerprints of its dependencies finds all of them.
THEOREM FingerprintsAreThere == EngineSpec => []DependencyFingerprintsSet
<1>1. EInv => DependencyFingerprintsSet  BY DEF EInv, RecordsInv
<1> QED BY <1>1, EngineInvariant, PTL

\* A failure stops all that depends on it, and a task that could not start names
\* a failure it depends on.
THEOREM FailuresPropagate == EngineSpec => []FailurePropagated
<1>1. EInv => FailurePropagated  BY DEF EInv, RecordsInv
<1> QED BY <1>1, EngineInvariant, PTL

\* What TASK_ENDED reported stands, and a build that did not crash reported a
\* verdict for every task in scope.
THEOREM ReportedStands == EngineSpec => []ReportedVerdictStands
<1>1. EInv => ReportedVerdictStands
  <2> SUFFICES ASSUME EInv PROVE ReportedVerdictStands  OBVIOUS
  <2>1. ASSUME NEW t \in Vertices, NEW i \in DOMAIN ended[t], ended[t][i] # "CRASH"
        PROVE  ended[t][i] = verdict[t]
    <3>1. ended[t] \in {<<>>, <<verdict[t]>>, <<"CRASH">>, <<verdict[t], "CRASH">>}
      BY DEF EInv, RecordsInv, EndedMatchesWork
    <3>2. CASE ended[t] = <<verdict[t], "CRASH">>
      <4>1. i \in {1, 2} /\ ended[t][1] = verdict[t] /\ ended[t][2] = "CRASH"  BY <3>2
      <4> QED BY <2>1, <4>1
    <3> QED BY <2>1, <3>1, <3>2
  <2>2. ASSUME outcome = "resolved", NEW t \in graph.nodes
        PROVE  ended[t] \in {<<"OK">>, <<"FAIL">>}
    <3>1. t \in Vertices  BY GraphFacts DEF EInv, IInv, TypeOK
    <3>2. t \in Settled /\ firstError = NoError /\ \A v \in Vertices : work[v] # "threw"
      BY <2>2 DEF EInv, IInv, OutcomeMatchesWork, ErrorMatchesWork
    <3>3. work[t] = "returned"
      BY <3>1, <3>2 DEF EInv, IInv, ErrorMatchesWork, Settled
    <3>4. ended[t] = <<verdict[t]>> /\ (Blocked(t) \/ Cached(t) \/ Ran(t))
      BY <3>1, <3>3 DEF EInv, RecordsInv, EndedMatchesWork, RecordsMatchPc
    <3> QED BY <3>4 DEF Blocked, Cached, Ran
  <2> QED BY <2>1, <2>2 DEF ReportedVerdictStands
<1> QED BY <1>1, EngineInvariant, PTL

-----------------------------------------------------------------------------
(* The refinement of BuildContract.                                        *)

\* The dependents of the contract are those of the engine.
LEMMA SameBackward ==
    ASSUME NEW E, NEW S PROVE Contract!Backward(E, S) = Backward(E, S)
BY DEF Contract!Backward, Backward

\* The result of a task, by what its record says.
LEMMA ResultFacts ==
    ASSUME NEW t \in Vertices
    PROVE  /\ verdict[t] = "OK" => ResultOf(t) = "passed"
           /\ verdict[t] = "FAIL" /\ execType[t] = "EXECUTED" => ResultOf(t) = "failed"
           /\ Blocked(t) => ResultOf(t) = "blocked"
           /\ Fresh(t) => ResultOf(t) = IF work[t] = "threw" THEN "broken"
                                        ELSE IF work[t] = "running" THEN "working"
                                        ELSE "pending"
BY DEF ResultOf, Blocked, Fresh

\* Every record says one of four things.
LEMMA RecordCases ==
    EInv => \A t \in Vertices : \/ Fresh(t) \/ Blocked(t) \/ verdict[t] = "OK"
                                \/ verdict[t] = "FAIL" /\ execType[t] = "EXECUTED"
<1> SUFFICES ASSUME EInv, NEW t \in Vertices
             PROVE  \/ Fresh(t) \/ Blocked(t) \/ verdict[t] = "OK"
                    \/ verdict[t] = "FAIL" /\ execType[t] = "EXECUTED"
  OBVIOUS
<1>1. pc[t] \in Steps  BY DEF EInv, RecordsInv, EngineTypeOK
<1>2. Fresh(t) \/ Blocked(t) \/ Cached(t) \/ Ran(t)
  BY <1>1 DEF EInv, RecordsInv, RecordsMatchPc, PcMatchesWork, Steps, Early
<1> QED BY <1>2 DEF Cached, Ran

\* When the promise has settled nothing is worked on, and without a crash every
\* task in scope has a result.
SettledResults ==
    outcome # "pending" =>
        /\ \A t \in Vertices : ResultOf(t) # "working"
        /\ firstError = NoError =>
             \A t \in graph.nodes : ResultOf(t) \in {"passed", "failed", "blocked"}

LEMMA SettledHaveResults == EInv => SettledResults
<1> SUFFICES ASSUME EInv, outcome # "pending"
             PROVE  /\ \A t \in Vertices : ResultOf(t) # "working"
                    /\ firstError = NoError =>
                         \A t \in graph.nodes : ResultOf(t) \in {"passed", "failed", "blocked"}
  BY DEF SettledResults
<1>1. graph.nodes = Settled  BY DEF EInv, IInv, OutcomeMatchesWork
<1>2. ASSUME NEW t \in Vertices PROVE ResultOf(t) # "working"
  <2>1. work[t] # "running"
    BY <1>1 DEF EInv, IInv, WorkIsReleased, Settled
  <2> QED BY <2>1, RecordCases, ResultFacts
<1>3. ASSUME firstError = NoError, NEW t \in graph.nodes
      PROVE  ResultOf(t) \in {"passed", "failed", "blocked"}
  <2>1. t \in Vertices /\ work[t] = "returned"
    BY <1>1, <1>3 DEF EInv, IInv, ErrorMatchesWork, Settled
  <2>2. Blocked(t) \/ Cached(t) \/ Ran(t)
    BY <2>1 DEF EInv, RecordsInv, RecordsMatchPc
  <2> QED BY <2>1, <2>2, ResultFacts DEF Cached, Ran
<1> QED BY <1>2, <1>3

\* A step that changes no result may still end the build.
LEMMA StutterOrEnd ==
    ASSUME EInv', graph' = graph, firstError' = firstError,
           \A u \in Vertices : ResultOf(u)' = ResultOf(u),
           \/ outcome' = outcome
           \/ /\ outcome = "pending"
              /\ outcome' = IF firstError = NoError THEN "resolved" ELSE "rejected"
    PROVE  [Contract!ContractNext]_(Contract!contractVars)
<1>1. CASE outcome' = outcome  BY <1>1 DEF Contract!contractVars
<1>2. CASE outcome' # outcome
  <2>0. EInv' => SettledResults'  BY SettledHaveResults, PTL
  <2>1. SettledResults'  BY <2>0
  <2>2. outcome' # "pending" /\ outcome = "pending"  BY <1>2
  <2>3. \A t \in Vertices : ResultOf(t) # "working"  BY <2>1, <2>2 DEF SettledResults
  <2>4. graph.nodes \subseteq Vertices  BY GraphFacts DEF EInv, IInv, TypeOK
  <2>5. firstError = NoError =>
            \A t \in graph.nodes : ResultOf(t) \in {"passed", "failed", "blocked"}
    BY <2>1, <2>2, <2>4 DEF SettledResults
  <2>6. Contract!End  BY <1>2, <2>2, <2>3, <2>4, <2>5 DEF Contract!End
  <2> QED BY <2>6 DEF Contract!ContractNext
<1> QED BY <1>1, <1>2

\* A task keeps its result when its record stays, and its work too while the
\* record says nothing.
LEMMA ResultKept ==
    ASSUME NEW u \in Vertices, verdict'[u] = verdict[u], execType'[u] = execType[u],
           \/ work'[u] = work[u] \/ verdict[u] \in {"OK", "FAIL"}
           \/ work[u] = "none" /\ work'[u] = "skipped"
    PROVE  ResultOf(u)' = ResultOf(u)
BY DEF ResultOf

\* The promise settles with the last vertex, and not before.
LEMMA PublishSettles ==
    ASSUME NEW v, NEW error, NEW bag, Publish(v, error, bag)
    PROVE  /\ graph' = graph
           /\ \/ outcome' = outcome
              \/ /\ outcome = "pending"
                 /\ outcome' = IF error = NoError THEN "resolved" ELSE "rejected"
BY DEF Publish

\* What the Executor does by itself changes no result; it may end the build.
LEMMA SchedulingRefines ==
    ASSUME EInv, EInv', Scheduling
    PROVE  [Contract!ContractNext]_(Contract!contractVars)
<1>1. verdict' = verdict /\ execType' = execType  BY DEF Scheduling, engineVars
<1>2. CASE Start \/ Done
  <2>1. /\ graph' = graph /\ work' = work /\ firstError' = firstError
        /\ outcome' = outcome
    BY <1>2 DEF Start, Done, vars
  <2>2. \A u \in Vertices : ResultOf(u)' = ResultOf(u)  BY <1>1, <2>1, ResultKept
  <2> QED BY ONLY EInv', <2>1, <2>2, StutterOrEnd
<1>3. ASSUME NEW t \in Vertices, SkipWork(t)
      PROVE  [Contract!ContractNext]_(Contract!contractVars)
  <2>1. /\ queued[t] > 0 /\ work' = [work EXCEPT ![t] = "skipped"]
        /\ firstError' = firstError /\ Publish(t, firstError, Dequeued(t))
    BY <1>3 DEF SkipWork, Dequeuable
  <2>2. work[t] = "none" /\ work \in [Vertices -> WorkStates]
    BY <2>1, DequeuableFacts DEF EInv, IInv, TypeOK
  <2>3. \A u \in Vertices : ResultOf(u)' = ResultOf(u)
    BY <1>1, <2>1, <2>2, ResultKept
  <2>4. /\ graph' = graph
        /\ \/ outcome' = outcome
           \/ /\ outcome = "pending"
              /\ outcome' = IF firstError = NoError THEN "resolved" ELSE "rejected"
    BY ONLY <2>1, PublishSettles
  <2> QED BY ONLY EInv', <2>1, <2>3, <2>4, StutterOrEnd
<1> QED BY <1>2, <1>3 DEF Scheduling

\* A task that begins is taken up by the contract, unless it could not start.
LEMMA BeginRefines ==
    ASSUME EInv, EInv', NEW t \in Vertices, Begin(t)
    PROVE  [Contract!ContractNext]_(Contract!contractVars)
<1>1. /\ queued[t] > 0 /\ firstError = NoError /\ work' = [work EXCEPT ![t] = "running"]
      /\ graph' = graph /\ firstError' = firstError /\ outcome' = outcome
      /\ verdict' = verdict /\ execType' = execType
  BY DEF Begin, StartWork, Dequeuable, records
<1>2. work[t] = "none" /\ t \in graph.nodes /\ graph \in Graphs
      /\ work \in [Vertices -> WorkStates]
  BY <1>1, DequeuableFacts DEF EInv, IInv, TypeOK
<1>3. Fresh(t) \/ Blocked(t)
  BY <1>2 DEF EInv, RecordsInv, PcMatchesWork, RecordsMatchPc
<1>4. \A u \in Vertices \ {t} : ResultOf(u)' = ResultOf(u)  BY <1>1, <1>2, ResultKept
<1>5. CASE Blocked(t)
  <2>1. ResultOf(t)' = ResultOf(t)  BY <1>1, <1>5, ResultKept DEF Blocked
  <2>2. \A u \in Vertices : ResultOf(u)' = ResultOf(u)  BY <1>4, <2>1
  <2> QED BY ONLY EInv', <1>1, <2>2, StutterOrEnd
<1>6. CASE Fresh(t)
  <2>1. ResultOf(t) = "pending"  BY <1>2, <1>6, ResultFacts
  <2>2. ResultOf(t)' = "working"
    BY <1>1, <1>2, <1>6 DEF ResultOf, Fresh
  <2>3. ASSUME NEW e \in graph.edges, e[1] = t
        PROVE  e[2] \in Vertices /\ ResultOf(e[2]) = "passed"
    <3>1. e \in graph.errorEdges /\ e[2] \in Vertices  BY <1>2, PlanFacts
    <3>2. verdict[e[2]] = "OK"  BY <1>1, <1>6, <2>3, <3>1, DependenciesPassed
    <3> QED BY <3>1, <3>2, ResultFacts
  <2>4. [u \in Vertices |-> ResultOf(u)]'
          = [[u \in Vertices |-> ResultOf(u)] EXCEPT ![t] = "working"]
    BY <1>4, <2>2
  <2>5. Contract!TakeUp(t)
    BY <1>1, <1>2, <2>1, <2>3, <2>4 DEF Contract!TakeUp
  <2> QED BY <2>5 DEF Contract!ContractNext
<1> QED BY <1>3, <1>5, <1>6

\* A task that ends has its result; one that crashes breaks, or keeps it.
LEMMA EndRefines ==
    ASSUME EInv, EInv', NEW t \in Vertices,
           EndTask(t) \/ EndTaskThrows(t) \/ EndCrashed(t)
    PROVE  [Contract!ContractNext]_(Contract!contractVars)
<1>0. verdict' = verdict /\ execType' = execType
  BY DEF EndTask, EndTaskThrows, EndCrashed, StatusDone, records
<1>1. CASE EndTask(t)
  <2>1. /\ work' = [work EXCEPT ![t] = "returned"] /\ pc[t] \in {"EARLY_EXIT", "TERMINAL"}
        /\ firstError' = firstError /\ Publish(t, firstError, queued)
    BY <1>1 DEF EndTask, WorkReturns
  <2>2. verdict[t] \in {"OK", "FAIL"} /\ work \in [Vertices -> WorkStates]
    BY <2>1 DEF EInv, IInv, TypeOK, RecordsInv, RecordsMatchPc, Blocked, Cached, Ran
  <2>3. \A u \in Vertices : ResultOf(u)' = ResultOf(u)
    BY <1>0, <2>1, <2>2, ResultKept
  <2>4. /\ graph' = graph
        /\ \/ outcome' = outcome
           \/ /\ outcome = "pending"
              /\ outcome' = IF firstError = NoError THEN "resolved" ELSE "rejected"
    BY ONLY <2>1, PublishSettles
  <2> QED BY ONLY EInv', <2>1, <2>3, <2>4, StutterOrEnd
<1>2. CASE EndTaskThrows(t) \/ EndCrashed(t)
  <2>1. /\ work[t] = "running" /\ work' = [work EXCEPT ![t] = "threw"]
        /\ pc[t] \in {"EARLY_EXIT", "TERMINAL", "THREW"}
        /\ firstError' = IF firstError = NoError THEN t ELSE firstError
        /\ Publish(t, firstError', queued)
    BY <1>2 DEF EndTaskThrows, EndCrashed, WorkThrows
  <2>2. work \in [Vertices -> WorkStates] /\ t \in graph.nodes
    BY <2>1 DEF EInv, IInv, TypeOK, WorkIsReleased
  <2>3. Fresh(t) \/ Blocked(t) \/ Cached(t) \/ Ran(t)
    BY <2>1 DEF EInv, RecordsInv, RecordsMatchPc
  <2>4. outcome = "pending"
    BY <2>1, <2>2 DEF EInv, IInv, OutcomeMatchesWork, Settled
  <2>5. firstError' # NoError  BY <2>1, NoErrorAssumption
  <2>6. graph' = graph /\ outcome' \in {"pending", "rejected"}
    BY <2>1, <2>4, <2>5, PublishSettles
  <2>7. \A u \in Vertices \ {t} : ResultOf(u)' = ResultOf(u)
    BY <1>0, <2>1, <2>2, ResultKept
  <2>8. /\ ResultOf(t) \in {"working", "passed", "failed", "blocked"}
        /\ ResultOf(t)' = IF ResultOf(t) = "working" THEN "broken" ELSE ResultOf(t)
    <3>1. CASE Fresh(t)
      BY <1>0, <2>1, <2>2, <3>1 DEF Fresh, ResultOf
    <3>2. CASE Blocked(t) \/ Cached(t) \/ Ran(t)
      <4>1. ResultOf(t)' = ResultOf(t)
        BY <1>0, <3>2, ResultKept DEF Blocked, Cached, Ran
      <4> QED BY <3>2, <4>1, ResultFacts DEF Cached, Ran
    <3> QED BY <2>3, <3>1, <3>2
  <2>9. [u \in Vertices |-> ResultOf(u)]'
          = [[u \in Vertices |-> ResultOf(u)] EXCEPT ![t] =
                IF @ = "working" THEN "broken" ELSE @]
    BY <2>7, <2>8
  <2>10. EInv' => SettledResults'  BY SettledHaveResults, PTL
  <2>11. outcome' = "rejected" => \A u \in Vertices : ResultOf(u)' # "working"
    BY <2>10 DEF SettledResults
  <2>12. Contract!Crash(t)
    BY <2>4, <2>5, <2>6, <2>8, <2>9, <2>11 DEF Contract!Crash
  <2> QED BY <2>12 DEF Contract!ContractNext
<1> QED BY <1>1, <1>2

\* A task that registers OK passes, one that registers FAIL fails, and the other
\* steps of an executor change no result.
LEMMA InnerRefines ==
    ASSUME EInv, EInv', NEW t \in Vertices, TaskStep(t),
           ~EndTask(t), ~EndTaskThrows(t), ~EndCrashed(t)
    PROVE  [Contract!ContractNext]_(Contract!contractVars)
<1>0. UNCHANGED vars
  BY DEF TaskStep, ExecutorStep, ReadDependencyFingerprints, ComputeFingerprint,
         CheckVerdict, PurgeOutputs, RestoreOutputs, Skip, Execute, ValidateOutputs,
         RecordTask, StepThrows
<1>1. graph' = graph /\ work' = work /\ firstError' = firstError /\ outcome' = outcome
  BY <1>0 DEF vars
<1>2. /\ verdict \in [Vertices -> Verdicts] /\ pc[t] \in Steps
      /\ execType \in [Vertices -> {"UNKNOWN", "EXECUTED", "CACHED", "CANNOT_START"}]
      /\ work[t] \in WorkStates /\ graph \in Graphs
  BY DEF EInv, IInv, TypeOK, RecordsInv, EngineTypeOK
<1>3. ASSUME pc[t] \in {"RESTORE", "VALIDATE", "RUN_IT"}
      PROVE  ResultOf(t) = "working"
  <2>1. work[t] = "running" /\ Fresh(t)
    BY <1>2, <1>3 DEF EInv, RecordsInv, PcMatchesWork, RecordsMatchPc, Early, WorkStates
  <2> QED BY <2>1, ResultFacts
<1>4. CASE UNCHANGED records
  <2>1. \A u \in Vertices : ResultOf(u)' = ResultOf(u)
    BY <1>1, <1>4, ResultKept DEF records
  <2> QED BY ONLY EInv', <1>1, <2>1, StutterOrEnd
<1>5. ASSUME NEW type, RegisterOk(t, type), pc[t] \in {"RESTORE", "VALIDATE"}
      PROVE  [Contract!ContractNext]_(Contract!contractVars)
  <2>1. /\ verdict'[t] = "OK"
        /\ \A u \in Vertices \ {t} : verdict'[u] = verdict[u] /\ execType'[u] = execType[u]
    BY <1>2, <1>5 DEF RegisterOk
  <2>2. ResultOf(t)' = "passed"  BY <2>1 DEF ResultOf
  <2>3. \A u \in Vertices \ {t} : ResultOf(u)' = ResultOf(u)  BY <1>1, <2>1, ResultKept
  <2>4. [u \in Vertices |-> ResultOf(u)]'
          = [[u \in Vertices |-> ResultOf(u)] EXCEPT ![t] = "passed"]
    BY <2>2, <2>3
  <2>5. Contract!Pass(t)  BY <1>1, <1>3, <1>5, <2>4 DEF Contract!Pass
  <2> QED BY <2>5 DEF Contract!ContractNext
<1>6. CASE RegisterFailure(t) /\ pc[t] = "RUN_IT"
  <2> DEFINE stopped == Backward(graph.errorEdges, {t}) \ {t}
  <2>1. \A u \in stopped : u \in Vertices /\ ~Worked(u)  BY <1>6, FailureMeetsWaiting
  <2>2. \A u \in Vertices :
          /\ verdict'[u] = IF u = t \/ u \in stopped THEN "FAIL" ELSE verdict[u]
          /\ execType'[u] = IF u = t THEN "EXECUTED"
                            ELSE IF u \in stopped THEN "CANNOT_START" ELSE execType[u]
    BY <1>6 DEF RegisterFailure, FailureStops
  <2>3. ASSUME NEW u \in stopped PROVE ResultOf(u) \in {"pending", "blocked"}
    <3>1. CASE Blocked(u)  BY <2>1, <2>3, <3>1, ResultFacts
    <3>2. CASE pc[u] = "IDLE" /\ ~Blocked(u)
      <4>1. Fresh(u) /\ work[u] \in {"none", "skipped"}
        BY <2>1, <2>3, <3>2 DEF EInv, RecordsInv, PcMatchesWork, RecordsMatchPc
      <4> QED BY <2>1, <2>3, <4>1, ResultFacts
    <3> QED BY <2>1, <2>3, <3>1, <3>2 DEF Worked
  <2> HIDE DEF stopped
  <2>4. ResultOf(t)' = "failed"  BY <2>2 DEF ResultOf
  <2>5. ASSUME NEW u \in stopped, u # t PROVE ResultOf(u)' = "blocked"
    BY <2>1, <2>2, <2>5 DEF ResultOf
  <2>6. ASSUME NEW u \in Vertices \ {t}, u \notin stopped PROVE ResultOf(u)' = ResultOf(u)
    BY <1>1, <2>2, <2>6, ResultKept
  <2>7. [u \in Vertices |-> ResultOf(u)]'
          = [u \in Vertices |-> IF u = t THEN "failed"
               ELSE IF u \in Contract!Backward(graph.errorEdges, {t}) THEN "blocked"
               ELSE ResultOf(u)]
    BY <2>4, <2>5, <2>6, SameBackward DEF stopped
  <2>8. \A u \in Contract!Backward(graph.errorEdges, {t}) \ {t} :
            u \in Vertices /\ ResultOf(u) \in {"pending", "blocked"}
    BY <2>1, <2>3, SameBackward DEF stopped
  <2>9. Contract!Fail(t)  BY <1>1, <1>3, <1>6, <2>7, <2>8 DEF Contract!Fail
  <2> QED BY <2>9 DEF Contract!ContractNext
<1>7. \/ UNCHANGED records
      \/ \E type : RegisterOk(t, type) /\ pc[t] \in {"RESTORE", "VALIDATE"}
      \/ RegisterFailure(t) /\ pc[t] = "RUN_IT"
  BY DEF TaskStep, ExecutorStep, ReadDependencyFingerprints, ComputeFingerprint,
         CheckVerdict, PurgeOutputs, RestoreOutputs, Skip, Execute, ValidateOutputs,
         RecordTask, StepThrows
<1> QED BY <1>4, <1>5, <1>6, <1>7

LEMMA InitRefines == EngineInit => Contract!ContractInit
<1> SUFFICES ASSUME EngineInit PROVE Contract!ContractInit  OBVIOUS
<1>1. graph \in Graphs /\ firstError = NoError /\ outcome = "pending"
  BY DEF EngineInit, Init
<1>2. \A u \in Vertices : ResultOf(u) = "pending"
  BY DEF EngineInit, Init, ResultOf
<1> QED BY <1>1, <1>2 DEF Contract!ContractInit

LEMMA StepRefines ==
    EInv /\ EInv' /\ [EngineNext]_allVars => [Contract!ContractNext]_(Contract!contractVars)
<1> SUFFICES ASSUME EInv, EInv', [EngineNext]_allVars
             PROVE  [Contract!ContractNext]_(Contract!contractVars)
  OBVIOUS
<1>1. CASE Scheduling  BY <1>1, SchedulingRefines
<1>2. ASSUME NEW t \in Vertices, Begin(t)
      PROVE  [Contract!ContractNext]_(Contract!contractVars)
  BY <1>2, BeginRefines
<1>3. ASSUME NEW t \in Vertices, TaskStep(t)
      PROVE  [Contract!ContractNext]_(Contract!contractVars)
  BY <1>3, InnerRefines, EndRefines
<1>4. CASE UNCHANGED allVars
  <2>1. /\ graph' = graph /\ work' = work /\ firstError' = firstError
        /\ outcome' = outcome /\ verdict' = verdict /\ execType' = execType
    BY <1>4 DEF allVars, vars, engineVars
  <2>2. \A u \in Vertices : ResultOf(u)' = ResultOf(u)  BY <2>1, ResultKept
  <2> QED BY ONLY EInv', <2>1, <2>2, StutterOrEnd
<1> QED BY <1>1, <1>2, <1>3, <1>4 DEF EngineNext

\* Whatever an engine does to its records, queue and promise is what the contract
\* of a build allows: every initial state is one of the contract, and every step
\* is a step of the contract or changes nothing it speaks of.
THEOREM EngineRefinesContract == EngineSpec => EngineImplementsContract
<1> QED
  BY InitRefines, StepRefines, EngineInvariant, PTL
     DEF EngineSpec, EngineImplementsContract, Contract!ContractSpec
=============================================================================
