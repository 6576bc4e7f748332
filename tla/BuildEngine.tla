----------------------------- MODULE BuildEngine -----------------------------
(***************************************************************************)
(* One build: Engine.executePlan() runs the task graph of an ExecutionPlan *)
(* through GraphExecution; the work of a vertex is the workFunction, which *)
(* drives the phases of a SingleTaskExecutor and reports to the            *)
(* TaskTracker (modules/build-raptor-core: engine.ts, task-executor.ts,    *)
(* task-tracker.ts, task.ts, execution-plan.ts).                           *)
(*                                                                         *)
(* Every await of a task's executor ends a step: the steps of the tasks in *)
(* progress interleave.  What the storage, the file system and the         *)
(* repo-protocol answer is left open; any of their calls may throw.        *)
(***************************************************************************)
EXTENDS GraphExecution

(***************************************************************************)
(* A plan is a graph of GraphExecution with more fields:                   *)
(*   nodes, edges     taskGraph, after apply() dropped what is out of scope*)
(*   errorEdges       errorPropagationGraph, copied before that            *)
(*   fingerprintDeps  the tasks whose fingerprints go into a task's own:   *)
(*                    its neighbours, or taskInfo.deps (tightFingerprints) *)
(*   cacheable        tasks whose recorded verdict may be used instead of  *)
(*                    running: useCaching, and testCaching for a test      *)
(***************************************************************************)

\* ExecutionPlan: copies the task graph, then drops what is out of scope.
ApplyPlan(E, startingPoints, fingerprintDeps, cacheable) ==
    LET inScope == Forward(E, startingPoints)
    IN [nodes |-> inScope,
        edges |-> {e \in E : e[1] \in inScope /\ e[2] \in inScope},
        errorEdges |-> E,
        fingerprintDeps |-> fingerprintDeps,
        cacheable |-> cacheable]

\* A plan apply() can produce, and no task left out of it when it is tight.
ASSUME PlansAssumption ==
    \A p \in Graphs :
        /\ p.errorEdges \subseteq Edges
        /\ p = ApplyPlan(p.errorEdges, p.nodes, p.fingerprintDeps, p.cacheable)
        /\ \A t \in p.nodes :
            \A d \in p.fingerprintDeps[t] : \E e \in p.edges : e[1] = t /\ e[2] = d

VARIABLES
    verdict,     \* ExecutionRecord.verdict
    execType,    \* ExecutionRecord.executionType
    rootCause,   \* ExecutionRecord.rootCause, or NoTask
    hasPrint,    \* Task.fingerprint is set
    pc,          \* where the task's executor stands
    earlier,     \* the earlierVerdict read in POSSIBLY_RESTORE_OUTPUTS
    threwAt,     \* the step whose call threw
    ended,       \* the verdicts of the task's TASK_ENDED steps, in their order
    numRunning   \* TaskTracker.numRunning, which usedConcurrencyLevles samples

records == <<verdict, execType, rootCause>>
engineVars == <<verdict, execType, rootCause, hasPrint, pc, earlier, threwAt,
                ended, numRunning>>
allVars == <<vars, engineVars>>

NoTask == "no task"

\* undefined is told apart from the name of a task.
ASSUME NoTaskAssumption == NoTask \notin Vertices

Verdicts == {"UNKNOWN", "OK", "FAIL"}

\* Where an executor may stand: idle; in a phase or between two awaits of it;
\* about to return without running (EARLY_EXIT); propagating an exception.
Steps == {"IDLE", "RUNNING", "COMPUTE_FINGERPRINT", "POSSIBLY_RESTORE_OUTPUTS",
          "PURGE", "RESTORE", "SKIP", "RUN_IT", "VALIDATE", "RECORD",
          "TERMINAL", "EARLY_EXIT", "THREW", "DONE"}

\* steps that await a call which may throw
Throwing == {"COMPUTE_FINGERPRINT", "POSSIBLY_RESTORE_OUTPUTS", "PURGE",
             "RESTORE", "RUN_IT", "VALIDATE", "RECORD"}

EngineInit ==
    /\ Init
    /\ verdict = [t \in Vertices |-> "UNKNOWN"]
    /\ execType = [t \in Vertices |-> "UNKNOWN"]
    /\ rootCause = [t \in Vertices |-> NoTask]
    /\ hasPrint = [t \in Vertices |-> FALSE]
    /\ pc = [t \in Vertices |-> "IDLE"]
    /\ earlier = [t \in Vertices |-> "UNKNOWN"]
    /\ threwAt = [t \in Vertices |-> "none"]
    /\ ended = [t \in Vertices |-> <<>>]
    /\ numRunning = 0

Goto(t, step) == pc' = [pc EXCEPT ![t] = step]

-----------------------------------------------------------------------------
(* The tracker.                                                            *)

\* registerVerdict(t, "OK") and registerCachedVerdict(t, OK or FLAKY)
RegisterOk(t, type) ==
    /\ verdict' = [verdict EXCEPT ![t] = "OK"]
    /\ execType' = [execType EXCEPT ![t] = type]
    /\ rootCause' = [rootCause EXCEPT ![t] = NoTask]

\* the records when the failure of t stops the tasks in cannotStart
FailureStops(t, cannotStart) ==
    /\ verdict' = [u \in Vertices |->
                    IF u = t \/ u \in cannotStart THEN "FAIL" ELSE verdict[u]]
    /\ execType' = [u \in Vertices |->
                    IF u = t THEN "EXECUTED"
                    ELSE IF u \in cannotStart THEN "CANNOT_START" ELSE execType[u]]
    /\ rootCause' = [u \in Vertices |->
                    IF u = t THEN NoTask
                    ELSE IF u \in cannotStart THEN t ELSE rootCause[u]]

\* mutant: only the direct dependents
RegisterFailure_direct(t) ==
    FailureStops(t, {u \in Vertices : \E e \in graph.errorEdges : e[1] = u /\ e[2] = t})

\* registerVerdict(t, "FAIL") and propagateFailure(t): whatever the record of a
\* dependent says is overwritten
RegisterFailure(t) == FailureStops(t, Backward(graph.errorEdges, {t}) \ {t})

-----------------------------------------------------------------------------
(* The executor of a task, one action per await.                           *)

ExecutorStep(t, step) == pc[t] = step /\ UNCHANGED <<vars, ended>>

\* mutant: a verdict the task has already is not looked at
Begin_anyVerdict(t) ==
    /\ StartWork(t)
    /\ Goto(t, "RUNNING")
    /\ numRunning' = numRunning + 1
    /\ UNCHANGED <<records, hasPrint, earlier, threwAt, ended>>

\* The workFunction is called: executeTask() returns at once when the task has
\* a verdict already, else the first phase begins.
Begin(t) ==
    /\ StartWork(t)
    /\ IF verdict[t] # "UNKNOWN"
       THEN Goto(t, "EARLY_EXIT") /\ UNCHANGED numRunning
       ELSE /\ Goto(t, "RUNNING")
            /\ numRunning' = numRunning + 1
    /\ UNCHANGED <<records, hasPrint, earlier, threwAt, ended>>

\* computeFingerprint() reads the fingerprints of the dependencies at once, and
\* fails if one is not set; then it awaits the scan of the inputs.
ReadDependencyFingerprints(t) ==
    /\ ExecutorStep(t, "RUNNING")
    /\ IF \A d \in graph.fingerprintDeps[t] : hasPrint[d]
       THEN Goto(t, "COMPUTE_FINGERPRINT") /\ UNCHANGED threwAt
       ELSE Goto(t, "THREW") /\ threwAt' = [threwAt EXCEPT ![t] = "RUNNING"]
    /\ UNCHANGED <<records, hasPrint, earlier, numRunning>>

\* mutant: the fingerprint is not kept
ComputeFingerprint_lost(t) ==
    /\ ExecutorStep(t, "COMPUTE_FINGERPRINT")
    /\ Goto(t, "POSSIBLY_RESTORE_OUTPUTS")
    /\ UNCHANGED <<records, hasPrint, earlier, threwAt, numRunning>>

ComputeFingerprint(t) ==
    /\ ExecutorStep(t, "COMPUTE_FINGERPRINT")
    /\ hasPrint' = [hasPrint EXCEPT ![t] = TRUE]
    /\ Goto(t, "POSSIBLY_RESTORE_OUTPUTS")
    /\ UNCHANGED <<records, earlier, threwAt, numRunning>>

\* checkVerdict() answers.
CheckVerdict(t) ==
    /\ ExecutorStep(t, "POSSIBLY_RESTORE_OUTPUTS")
    /\ \E v \in {"UNKNOWN", "OK", "FAIL", "FLAKY"} :
        /\ earlier' = [earlier EXCEPT ![t] = v]
        /\ IF v = "UNKNOWN" \/ t \notin graph.cacheable
           THEN Goto(t, "PURGE") ELSE Goto(t, "RESTORE")
    /\ UNCHANGED <<records, hasPrint, threwAt, numRunning>>

\* purgeOutputs(false) returns.
PurgeOutputs(t) ==
    /\ ExecutorStep(t, "PURGE")
    /\ Goto(t, "RUN_IT")
    /\ UNCHANGED <<records, hasPrint, earlier, threwAt, numRunning>>

\* mutant: a flaky task is skipped without a verdict
RestoreOutputs_flakyUnregistered(t) ==
    /\ ExecutorStep(t, "RESTORE")
    /\ IF earlier[t] = "FAIL"
       THEN Goto(t, "RUN_IT") /\ UNCHANGED records
       ELSE /\ Goto(t, "SKIP")
            /\ IF earlier[t] = "OK" THEN RegisterOk(t, "CACHED") ELSE UNCHANGED records
    /\ UNCHANGED <<hasPrint, earlier, threwAt, numRunning>>

\* restoreOutputs() returns: a failed task is run again on top of what it left
\* behind, a passed or flaky one takes its verdict from the cache.
RestoreOutputs(t) ==
    /\ ExecutorStep(t, "RESTORE")
    /\ IF earlier[t] = "FAIL"
       THEN Goto(t, "RUN_IT") /\ UNCHANGED records
       ELSE Goto(t, "SKIP") /\ RegisterOk(t, "CACHED")
    /\ UNCHANGED <<hasPrint, earlier, threwAt, numRunning>>

Skip(t) ==
    /\ ExecutorStep(t, "SKIP")
    /\ Goto(t, "TERMINAL")
    /\ UNCHANGED <<records, hasPrint, earlier, threwAt, numRunning>>

\* runIt(): repoProtocol.execute() returns a status.  CRASH registers nothing.
Execute(t) ==
    /\ ExecutorStep(t, "RUN_IT")
    /\ \/ Goto(t, "VALIDATE") /\ UNCHANGED <<records, threwAt>>            \* OK
       \/ Goto(t, "RECORD") /\ RegisterFailure(t) /\ UNCHANGED threwAt     \* FAIL
       \/ /\ Goto(t, "THREW") /\ UNCHANGED records                         \* CRASH
          /\ threwAt' = [threwAt EXCEPT ![t] = "RUN_IT"]
    /\ UNCHANGED <<hasPrint, earlier, numRunning>>

\* validateOutputs() found every output.
ValidateOutputs(t) ==
    /\ ExecutorStep(t, "VALIDATE")
    /\ RegisterOk(t, "EXECUTED")
    /\ Goto(t, "RECORD")
    /\ UNCHANGED <<hasPrint, earlier, threwAt, numRunning>>

\* recordTask() returns.
RecordTask(t) ==
    /\ ExecutorStep(t, "RECORD")
    /\ Goto(t, "TERMINAL")
    /\ UNCHANGED <<records, hasPrint, earlier, threwAt, numRunning>>

\* The call a task awaits throws: a scan, a storage request, the purge, the
\* execution, a missing output.
StepThrows(t) ==
    /\ pc[t] \in Throwing /\ UNCHANGED <<vars, ended>>
    /\ threwAt' = [threwAt EXCEPT ![t] = pc[t]]
    /\ Goto(t, "THREW")
    /\ UNCHANGED <<records, hasPrint, earlier, numRunning>>

\* changeStatus(t, "DONE"), in the finally block of the workFunction
StatusDone(t) ==
    /\ numRunning' = numRunning - 1
    /\ Goto(t, "DONE")
    /\ UNCHANGED <<records, hasPrint, earlier>>

\* the TASK_ENDED steps of t, with these verdicts
Report(t, verdicts) == ended' = [ended EXCEPT ![t] = verdicts]

\* The workFunction returns, after the TASK_ENDED step.
EndTask(t) ==
    /\ pc[t] \in {"EARLY_EXIT", "TERMINAL"}
    /\ Report(t, <<verdict[t]>>)
    /\ StatusDone(t)
    /\ UNCHANGED threwAt
    /\ WorkReturns(t)

\* mutant: the exception is swallowed
EndCrashed_swallowed(t) ==
    /\ pc[t] = "THREW"
    /\ Report(t, <<"CRASH">>)
    /\ StatusDone(t)
    /\ UNCHANGED threwAt
    /\ WorkReturns(t)

\* The workFunction reports a crash and throws.  Where this report throws too,
\* its exception takes the place of the first; the step has been kept.
EndCrashed(t) ==
    /\ pc[t] = "THREW"
    /\ Report(t, <<"CRASH">>)
    /\ StatusDone(t)
    /\ UNCHANGED threwAt
    /\ WorkThrows(t)

\* transmit() keeps the TASK_ENDED step and calls the processors at once; one
\* throws.  The catch block reports the same task a second time, as a crash,
\* and the work throws, whatever became of the task.
EndTaskThrows(t) ==
    /\ pc[t] \in {"EARLY_EXIT", "TERMINAL"}
    /\ Report(t, <<verdict[t], "CRASH">>)
    /\ threwAt' = [threwAt EXCEPT ![t] = pc[t]]
    /\ StatusDone(t)
    /\ WorkThrows(t)

\* What the PQueue and the GraphExecutor do by themselves.
Scheduling ==
    /\ Start \/ (\E t \in Vertices : SkipWork(t)) \/ Done
    /\ UNCHANGED engineVars

TaskStep(t) ==
    \/ ReadDependencyFingerprints(t) \/ ComputeFingerprint(t)
    \/ CheckVerdict(t) \/ PurgeOutputs(t) \/ RestoreOutputs(t) \/ Skip(t)
    \/ Execute(t) \/ ValidateOutputs(t) \/ RecordTask(t) \/ StepThrows(t)
    \/ EndTask(t) \/ EndTaskThrows(t) \/ EndCrashed(t)

EngineNext == Scheduling \/ \E t \in Vertices : Begin(t) \/ TaskStep(t)

EngineSpec == EngineInit /\ [][EngineNext]_allVars

\* The event loop runs whatever can go on, and every awaited call ends: file
\* operations, storage requests and the child processes of a task do.
EngineFairness ==
    /\ WF_allVars(Scheduling \/ \E t \in Vertices : Begin(t))
    /\ \A t \in Vertices : WF_allVars(TaskStep(t))

FairEngineSpec == EngineSpec /\ EngineFairness

-----------------------------------------------------------------------------

\* what the TASK_ENDED steps of a task may say
Reports == {<<>>, <<"CRASH">>} \cup {<<v>> : v \in Verdicts}
             \cup {<<v, "CRASH">> : v \in Verdicts}

EngineTypeOK ==
    /\ TypeOK
    /\ verdict \in [Vertices -> Verdicts]
    /\ execType \in [Vertices -> {"UNKNOWN", "EXECUTED", "CACHED", "CANNOT_START"}]
    /\ rootCause \in [Vertices -> Vertices \cup {NoTask}]
    /\ hasPrint \in [Vertices -> BOOLEAN]
    /\ pc \in [Vertices -> Steps]
    /\ earlier \in [Vertices -> {"UNKNOWN", "OK", "FAIL", "FLAKY"}]
    /\ threwAt \in [Vertices -> {"none", "RUNNING", "EARLY_EXIT", "TERMINAL"} \cup Throwing]
    /\ ended \in [Vertices -> Reports]
    /\ numRunning \in Int

InProgress(t) == pc[t] \notin {"IDLE", "EARLY_EXIT", "DONE"}

\* A task is worked on only when every task it depends on passed (or was
\* restored as passed): no task runs on missing or failed outputs, whatever
\* ran at the same time.
RunsOnlyOnPassedDependencies ==
    \A e \in graph.edges : InProgress(e[1]) => verdict[e[2]] = "OK"

\* Whenever a task reads the fingerprints of its dependencies they are set, so
\* this read never crashes the build.
DependencyFingerprintsSet ==
    \A t \in Vertices : threwAt[t] # "RUNNING"

\* Propagation is complete and sound: a task that ran and failed stops all that
\* depends on it, in scope or not, and a task that could not start names as its
\* root cause a task it depends on that did run and fail.
FailurePropagated ==
    \A t \in Vertices :
        /\ (verdict[t] = "FAIL" /\ execType[t] = "EXECUTED") =>
            \A u \in Backward(graph.errorEdges, {t}) \ {t} :
                execType[u] = "CANNOT_START"
        /\ execType[t] = "CANNOT_START" =>
            LET r == rootCause[t] IN
            /\ r # NoTask /\ r # t
            /\ t \in Backward(graph.errorEdges, {r})
            /\ verdict[r] = "FAIL" /\ execType[r] = "EXECUTED"

\* A verdict that any TASK_ENDED step of a task reported still stands when the
\* build ends, also where a crash was reported after it; and a build that did
\* not crash reported each task in scope exactly once, as OK or FAIL.
ReportedVerdictStands ==
    /\ \A t \in Vertices : \A i \in DOMAIN ended[t] :
            ended[t][i] # "CRASH" => ended[t][i] = verdict[t]
    /\ outcome = "resolved" => \A t \in graph.nodes : ended[t] \in {<<"OK">>, <<"FAIL">>}

\* Every build ends, whatever fails.
BuildEnds == <>(outcome # "pending")

-----------------------------------------------------------------------------

\* What the records, the Executor and the promise say of a task, in the terms
\* of the contract.
ResultOf(t) ==
    CASE verdict[t] = "OK" -> "passed"
      [] verdict[t] = "FAIL" /\ execType[t] = "EXECUTED" -> "failed"
      [] verdict[t] = "FAIL" /\ execType[t] # "EXECUTED" -> "blocked"
      [] verdict[t] = "UNKNOWN" /\ work[t] = "threw" -> "broken"
      [] verdict[t] = "UNKNOWN" /\ work[t] = "running" -> "working"
      [] OTHER -> "pending"

Contract == INSTANCE BuildContract WITH
    Plans <- Graphs,
    plan <- graph,
    result <- [t \in Vertices |-> ResultOf(t)],
    crashed <- firstError # NoError,
    over <- outcome

\* The engine implements the contract of a build.
EngineImplementsContract == Contract!ContractSpec

=============================================================================
