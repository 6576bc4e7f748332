------------------------------- MODULE BuildRun -------------------------------
(***************************************************************************)
(* Runs of the command line tool in one work space, one after the other or *)
(* at the same time: makeBootstrapper() and run()                          *)
(* (modules/build-raptor/src/build-raptor-cli.ts), the runner of           *)
(* EngineBootstrapper, Engine.run(), the step-by-step transmitter, the     *)
(* fingerprint ledger (modules/build-raptor-core/src) and the console      *)
(* visualizer.                                                             *)
(*                                                                         *)
(* The runs share the files in .build-raptor.  A run may be killed at any  *)
(* point, leaving them as they are.  What happens inside a task is in      *)
(* BuildEngine; here a task starts, reports and ends.  A step-by-step      *)
(* processor given on the command line may throw or return a promise that  *)
(* rejects.                                                                *)
(***************************************************************************)
EXTENDS Naturals, Sequences, FiniteSets, SequencesExt

CONSTANTS
    Runs,        \* invocations of build-raptor
    Commands,    \* what the runs are asked: functions from runs to commands
    Needs,       \* the tasks a task depends on
    LabelsOf,    \* the labels of a task
    Program,     \* the task that makes the program of `run`
    Retried,     \* tasks that may have failed before on the same inputs
    TestTasks,   \* tasks that publish testEnded
    AssetTasks,  \* tasks that publish assetPublished
    Moods,       \* of each run's processor: subsets of {"fine", "throws", "rejects"}
    Configs,     \* the config files there may be at first: sets of file names
    MaxTogether, \* the tasks in the plans of runs at the same time; a bound
    Killable,    \* runs that may be killed; a bound
    Ledger,      \* the fingerprint ledger is on
    Limit,       \* the length above which the ledger is discarded
    Torn         \* content of a file that was cut while it was written

ASSUME RunsAssumption ==
    /\ "none" \notin Runs /\ IsFiniteSet(Runs)
    /\ Commands \subseteq [Runs -> {"build", "test", "pack", "publish-assets", "run", "init-config",
                                   "generate-tsconfig"}]
    /\ IsFiniteSet(DOMAIN Needs) /\ "run" \notin DOMAIN Needs   \* a task's name has a colon
    /\ \A t \in DOMAIN Needs : Needs[t] \subseteq DOMAIN Needs \ {t}
    /\ Limit \in Nat

VARIABLES
    command,    \* what each run is asked
    plan,       \* the tasks of its plan
    pc,         \* the next statement of each run
    mood,       \* how its processor behaves
    outcome,    \* "OK", "FAIL" or "CRASH" once it is known: what the runner makes of it
    exitCode,   \* of the process; 9 if it was killed
    task,       \* per run and task: "waiting", "executing", "reported", "ended"
    verdict,    \* per run and task, of the tracker
    steps,      \* the steps each run transmitted
    rejected,   \* a promise of the processor was rejected and nobody awaits it
    viz,        \* the counters of the visualizer
    items,      \* ledger items in memory
    base,       \* what close() read from the ledger
    closing,    \* what Promise.all still waits for: subset of {"ledger", "steps"}
    runId,      \* file build-run-id
    stepsFile,  \* file step-by-step.json
    ledger,     \* file fingerprint-ledger.json: a sequence, or Torn
    allTests,   \* file all-tests: what is told of tests and tasks
    outputs,    \* directory tasks
    configs,    \* config files in the root directory
    together    \* two runs have been alive at the same time

engineVars == <<task, verdict, viz>>
fileVars == <<runId, stepsFile, ledger, allTests, outputs, configs>>
vars == <<command, plan, pc, mood, outcome, exitCode, task, verdict, steps, rejected, viz, items, base, closing,
          fileVars, together>>

NoRun == "none"
NoExit == 10
AllTasks == DOMAIN Needs

Builds == {"build", "test", "pack", "publish-assets", "run"}

\* The labels a command selects tasks by.
Labels(c) == IF c = "publish-assets" THEN {"publish-assets", "test"} ELSE {c}

\* The plan: the tasks selected, by label or as producers of a goal, and what they need (see Planning).
PlanOf(c) ==
    LET selected == {t \in AllTasks : LabelsOf[t] \cap Labels(c) # {} \/ (c = "run" /\ t = Program)}
    IN IF c \in Builds THEN selected \cup UNION {Needs[t] : t \in selected} ELSE {}

Counters == {"all", "started", "ended", "blocked", "failed", "succeeded", "executed", "cached"}

Init ==
    /\ command \in Commands
    /\ plan = [r \in Runs |-> PlanOf(command[r])]
    /\ pc = [r \in Runs |-> "none"]
    /\ mood \in {f \in [Runs -> {"fine", "throws", "rejects"}] : \A r \in Runs : f[r] \in Moods[r]}
    /\ outcome = [r \in Runs |-> NoRun] /\ exitCode = [r \in Runs |-> NoExit]
    /\ task = [r \in Runs |-> [t \in plan[r] |-> "waiting"]]
    /\ verdict = [r \in Runs |-> [t \in plan[r] |-> "UNKNOWN"]]
    /\ steps = [r \in Runs |-> <<>>] /\ rejected = [r \in Runs |-> FALSE]
    /\ viz = [r \in Runs |-> [c \in Counters |-> 0]]
    /\ items = [r \in Runs |-> <<>>] /\ base = [r \in Runs |-> <<>>]
    /\ closing = [r \in Runs |-> {}]
    /\ runId = NoRun /\ stepsFile = <<>> /\ ledger = <<>> /\ allTests = <<>> /\ outputs = {}
    /\ configs \in Configs
    /\ together = FALSE

Goto(r, s) == pc' = [pc EXCEPT ![r] = s]

\* The run ends with this outcome; what is in flight comes to its end first.
Ends(r, o) == Goto(r, "returning") /\ outcome' = [outcome EXCEPT ![r] = o]

\* Each set of counters goes up by one.
Bump(r, css) ==
    viz' = [viz EXCEPT ![r] =
               [c \in Counters |-> @[c] + Cardinality({i \in DOMAIN css : c \in css[i]})]]

Step(name) == [step |-> name]
TaskStep(name, t) == [step |-> name, task |-> t]
Ended(t, type, v) == [step |-> "TASK_ENDED", task |-> t, type |-> type, verdict |-> v]

\* transmit(): the steps are kept, then each processor is called: the console's,
\* then that of the command line.  What it throws nobody sees if the event that
\* leads to the step is not awaited.
Transmit(r, news, throws, awaited) ==
    /\ throws => mood[r] = "throws"
    /\ steps' = [steps EXCEPT ![r] = @ \o news]
    /\ rejected' = [rejected EXCEPT ![r] = @ \/ (news # <<>> /\ mood[r] = "rejects") \/ (throws /\ ~awaited)]

-----------------------------------------------------------------------------
(* Before the build                                                        *)

Alive(r) == pc[r] \notin {"none", "gone"}

\* mutant: the file of all outputs is appended to
Wiped_not(file) == file

Wiped(file) == <<>>

\* makeBootstrapper(): what earlier runs left is removed.  Without a repo, or
\* with incomplete git variables, the tool exits.
MakeBootstrapper(r) ==
    /\ pc[r] = "none"
    /\ \A q \in Runs : Alive(q) => Cardinality(plan[r] \cup plan[q]) <= MaxTogether
    /\ together' = (together \/ \E q \in Runs : Alive(q))
    /\ \/ /\ Goto(r, "gone") /\ exitCode' = [exitCode EXCEPT ![r] = 1]
          /\ UNCHANGED <<allTests, outputs>>
       \/ /\ Goto(r, command[r])
          /\ outputs' = {} /\ allTests' = Wiped(allTests)
          /\ UNCHANGED exitCode
    /\ UNCHANGED <<command, plan, mood, outcome, engineVars, steps, rejected, items, base, closing,
                   runId, stepsFile,
                   ledger, configs>>

\* init-config: the file it writes must not be there.
InitConfig(r) ==
    /\ pc[r] = "init-config"
    /\ Goto(r, "gone")
    /\ exitCode' = [exitCode EXCEPT ![r] = IF ".build-raptor.jsonc" \in configs THEN 1 ELSE 0]
    /\ configs' = configs \cup {".build-raptor.jsonc"}
    /\ UNCHANGED <<command, plan, mood, outcome, engineVars, steps, rejected, items, base, closing,
                   runId, stepsFile,
                   ledger, allTests, outputs, together>>

GenerateTsConfig(r) ==
    /\ pc[r] = "generate-tsconfig"
    /\ Goto(r, "gone")
    /\ \E code \in {0, 1} : exitCode' = [exitCode EXCEPT ![r] = code]
    /\ UNCHANGED <<command, plan, mood, outcome, engineVars, steps, rejected, items, base, closing,
                   fileVars, together>>

\* makeEngine(): competing or malformed config files and a processor that cannot
\* be loaded end the tool with an error.
MakeEngine(r) ==
    /\ pc[r] \in Builds
    /\ \/ Cardinality(configs) < 2 /\ Goto(r, "started") /\ UNCHANGED exitCode
       \/ /\ Cardinality(configs) = 2 \/ configs # {} \/ mood[r] # "fine"
          /\ Goto(r, "gone") /\ exitCode' = [exitCode EXCEPT ![r] = 1]
    /\ UNCHANGED <<command, plan, mood, outcome, engineVars, steps, rejected, items, base, closing,
                   fileVars, together>>

-----------------------------------------------------------------------------
(* Engine.run() up to the execution                                        *)

\* An exception that is no BuildFailedError is a CRASH.
RunStarted(r) ==
    /\ pc[r] = "started"
    /\ \E throws \in BOOLEAN :
        /\ Transmit(r, <<Step("BUILD_RUN_STARTED")>>, throws, TRUE)
        /\ IF throws THEN Ends(r, "CRASH") /\ UNCHANGED runId
           ELSE Goto(r, "ledger") /\ runId' = r /\ UNCHANGED outcome
    /\ UNCHANGED <<command, plan, mood, exitCode, engineVars, items, base, closing, stepsFile, ledger,
                   allTests,
                   outputs, configs, together>>

\* updateRun(): the ledger must be readable.
UpdateRun(r) ==
    /\ pc[r] = "ledger"
    /\ IF Ledger /\ ledger = Torn THEN Ends(r, "CRASH") /\ UNCHANGED items
       ELSE /\ Goto(r, "initialize") /\ UNCHANGED outcome
            /\ items' = [items EXCEPT ![r] = IF Ledger THEN <<<<r, "run">>>> ELSE <<>>]
    /\ UNCHANGED <<command, plan, mood, exitCode, engineVars, steps, rejected, base, closing, fileVars,
                   together>>

\* initialize(), loadModel() and the planning: each may end the build, and a plan
\* without tasks does.
Prepare(r) ==
    /\ pc[r] = "initialize"
    /\ \/ Ends(r, "CRASH") \/ Ends(r, "FAIL")
       \/ plan[r] # {} /\ Goto(r, "plan") /\ UNCHANGED outcome
    /\ UNCHANGED <<command, plan, mood, exitCode, engineVars, steps, rejected, items, base, closing,
                   fileVars, together>>

PlanPrepared(r) ==
    /\ pc[r] = "plan"
    /\ \E throws \in BOOLEAN :
        /\ Transmit(r, <<Step("PLAN_PREPARED")>>, throws, TRUE)
        /\ IF throws THEN Ends(r, "CRASH") ELSE Goto(r, "execute") /\ UNCHANGED outcome
    /\ viz' = [viz EXCEPT ![r].all = Cardinality(plan[r])]
    /\ UNCHANGED <<command, plan, mood, exitCode, task, verdict, items, base, closing, fileVars, together>>

-----------------------------------------------------------------------------
(* The execution of the plan                                               *)

\* mutant: what could not start counts as ended
VisualizerEnded_all(type, v) ==
    (IF type = "CANNOT_START" THEN {"blocked", "ended"} ELSE {"ended"})
    \cup (IF type = "CACHED" THEN {"cached"} ELSE IF type = "EXECUTED" THEN {"executed"} ELSE {})
    \cup (IF v = "OK" THEN {"succeeded"} ELSE {"failed"})

\* TaskExecutionVisualizer.ended(): the counters that go up.
VisualizerEnded(type, v) ==
    IF type \in {"CANNOT_START", "UNKNOWN"} THEN {"blocked"}
    ELSE {"ended"} \cup (IF type = "CACHED" THEN {"cached"} ELSE {"executed"})
                   \cup (IF v = "OK" THEN {"succeeded"} ELSE {"failed"})

\* What the listener of the task store's events makes of them.
StoreStep(opcode, t) == TaskStep(IF opcode = "RECORDED" THEN "TASK_STORE_PUT" ELSE "TASK_STORE_GET", t)

Fingerprinted(r, t) == items' = [items EXCEPT ![r] = IF Ledger THEN Append(@, <<r, t>>) ELSE @]

\* The work of a task throws: the first error is what the build is rejected with,
\* the others are dropped.
Fails(r, o) ==
    /\ Goto(r, "returning")
    /\ outcome' = [outcome EXCEPT ![r] = IF pc[r] = "execute" THEN o ELSE @]

\* The work function ends: TASK_ENDED is transmitted, and if the processor throws
\* then, the catch clause transmits it again and the build crashes.
TaskEnded(r, t, before, type, v) ==
    \E throws \in BOOLEAN :
        LET again == IF throws THEN <<"CRASH">> ELSE <<>>
            verdicts == <<v>> \o again IN
        /\ task' = [task EXCEPT ![r][t] = "ended"] /\ verdict' = [verdict EXCEPT ![r][t] = v]
        /\ Transmit(r, before \o [i \in DOMAIN verdicts |-> Ended(t, type, verdicts[i])], throws, TRUE)
        /\ Bump(r, [i \in DOMAIN verdicts |-> VisualizerEnded(type, verdicts[i])])
        /\ IF throws THEN Fails(r, "CRASH") ELSE UNCHANGED <<pc, outcome>>

\* A task whose dependencies have ended gets its turn: it cannot start, is a
\* cache hit, or is executed, after a restore of what it left when it failed.
TaskBegins(r, t) ==
    /\ pc[r] = "execute" /\ t \in plan[r] /\ task[r][t] = "waiting"
    /\ \A n \in Needs[t] \cap plan[r] : task[r][n] = "ended"
    /\ IF \E n \in Needs[t] \cap plan[r] : verdict[r][n] # "OK"
       THEN TaskEnded(r, t, <<>>, "CANNOT_START", "FAIL") /\ UNCHANGED items
       ELSE /\ Fingerprinted(r, t)
            /\ \/ TaskEnded(r, t, <<StoreStep("RESTORED", t)>>, "CACHED", "OK")
               \/ /\ task' = [task EXCEPT ![r][t] = "executing"]
                  /\ Bump(r, <<{"started"}>>)
                  /\ \E failed \in {FALSE, (t \in Retried)} :
                        Transmit(r, IF failed THEN <<StoreStep("RESTORED", t)>> ELSE <<>>, FALSE, TRUE)
                  /\ UNCHANGED <<pc, outcome, verdict>>
    /\ UNCHANGED <<command, plan, mood, exitCode, base, closing, fileVars, together>>

\* mutant: a crash drops what is in flight
InFlight_executing(r, t, s) == pc[r] = "execute" /\ t \in plan[r] /\ task[r][t] = s

\* In flight: also after another task has crashed.
InFlight(r, t, s) == pc[r] \in {"execute", "returning"} /\ t \in plan[r] /\ task[r][t] = s

Published(t) ==
    (IF t \in TestTasks THEN <<TaskStep("TEST_ENDED", t)>> ELSE <<>>)
    \o (IF t \in AssetTasks THEN <<TaskStep("ASSET_PUBLISHED", t)>> ELSE <<>>)

\* What is added to the file all-tests: the report of the tests, then the output.
Reported(r, t) ==
    (IF t \in TestTasks THEN <<<<r, t, "tests">>>> ELSE <<>>) \o <<<<r, t, "output">>>>

\* Events the task publishes, and does not await, while it executes, and executionEnded, whose
\* listener copies the task's output before the verdict is registered.
TaskReports(r, t) ==
    /\ InFlight(r, t, "executing")
    /\ task' = [task EXCEPT ![r][t] = "reported"]
    /\ \E throws \in {FALSE} \cup {Published(t) # <<>>} : Transmit(r, Published(t), throws, FALSE)
    /\ outputs' = outputs \cup {<<r, t>>}
    /\ allTests' = allTests \o Reported(r, t)
    /\ UNCHANGED <<command, plan, mood, pc, outcome, exitCode, verdict, viz, items, base, closing, runId,
                   stepsFile, ledger,
                   configs, together>>

\* The verdict is registered and the outputs are recorded.
TaskEnds(r, t) ==
    /\ InFlight(r, t, "reported")
    /\ \E v \in {"OK", "FAIL"} : TaskEnded(r, t, <<StoreStep("RECORDED", t)>>, "EXECUTED", v)
    /\ UNCHANGED <<command, plan, mood, exitCode, items, base, closing, fileVars, together>>

\* What the runner makes of an exception in a task: a BuildFailedError (an output
\* that is missing, a bundle of what is no bundle, a bad manifest) is a FAIL.
CrashOutcomes == {"CRASH", "FAIL"}

\* An exception in the task itself, or once its verdict is registered.  TASK_ENDED
\* says CRASH of every one.
TaskCrashes(r, t) ==
    /\ task' = [task EXCEPT ![r][t] = "ended"]
    /\ \E type \in {"UNKNOWN", "EXECUTED"} :
        /\ IF type = "UNKNOWN"
           THEN (\E s \in {"executing", "reported"} : InFlight(r, t, s)) /\ UNCHANGED verdict
           ELSE InFlight(r, t, "reported") /\ \E v \in {"OK", "FAIL"} : verdict' = [verdict EXCEPT ![r][t] = v]
        /\ Transmit(r, <<Ended(t, type, "CRASH")>>, FALSE, TRUE)
        /\ Bump(r, <<VisualizerEnded(type, "CRASH")>>)
    /\ \E o \in CrashOutcomes : Fails(r, o)
    /\ UNCHANGED <<command, plan, mood, exitCode, items, base, closing, fileVars, together>>

-----------------------------------------------------------------------------
(* The end of the build                                                    *)

\* mutant: the first task that ends ends the build
AllEnded_some(r) == \E t \in plan[r] : task[r][t] = "ended"

AllEnded(r) == \A t \in plan[r] : task[r][t] = "ended"

RunEnded(r) ==
    /\ pc[r] = "execute" /\ AllEnded(r)
    /\ \E throws \in BOOLEAN :
        /\ Transmit(r, <<Step("BUILD_RUN_ENDED")>>, throws, TRUE)
        /\ IF throws THEN Ends(r, "CRASH") /\ UNCHANGED closing
           ELSE /\ Goto(r, "close") /\ UNCHANGED outcome
                /\ closing' = [closing EXCEPT ![r] = IF Ledger THEN {"ledger", "steps"} ELSE {"steps"}]
    /\ UNCHANGED <<command, plan, mood, exitCode, engineVars, items, base, fileVars, together>>

\* mutant: the file is written over
ReadLedger_nothing == <<>>

\* read(): a ledger over the limit is discarded.
ReadLedger == IF Len(ledger) > Limit THEN <<>> ELSE ledger

\* PersistedFingerprintLedger.close(): read, append, write; the write truncates
\* the file first.
LedgerReads(r) ==
    /\ "ledger" \in closing[r]
    /\ IF ledger = Torn THEN Ends(r, "CRASH") /\ UNCHANGED base
       ELSE base' = [base EXCEPT ![r] = ReadLedger] /\ UNCHANGED <<pc, outcome>>
    /\ closing' = [closing EXCEPT ![r] = (@ \ {"ledger"}) \cup (IF ledger = Torn THEN {} ELSE {"write"})]
    /\ UNCHANGED <<command, plan, mood, exitCode, engineVars, steps, rejected, items, fileVars, together>>

LedgerTruncates(r) ==
    /\ "write" \in closing[r]
    /\ ledger' = Torn
    /\ closing' = [closing EXCEPT ![r] = (@ \ {"write"}) \cup {"writing"}]
    /\ UNCHANGED <<command, plan, mood, pc, outcome, exitCode, engineVars, steps, rejected, items, base,
                   runId, stepsFile,
                   allTests, outputs, configs, together>>

LedgerWrites(r) ==
    /\ "writing" \in closing[r]
    /\ ledger' = base[r] \o items[r] /\ base' = [base EXCEPT ![r] = <<>>]
    /\ closing' = [closing EXCEPT ![r] = @ \ {"writing"}]
    /\ UNCHANGED <<command, plan, mood, pc, outcome, exitCode, engineVars, steps, rejected, items, runId,
                   stepsFile,
                   allTests, outputs, configs, together>>

\* StepByStepTransmitter.close(): the processors' promises, then the file.
StepsClose(r) ==
    /\ "steps" \in closing[r]
    /\ closing' = [closing EXCEPT ![r] = @ \ {"steps"}]
    /\ IF rejected[r] THEN Ends(r, "CRASH") /\ UNCHANGED stepsFile
       ELSE stepsFile' = steps[r] /\ UNCHANGED <<pc, outcome>>
    /\ rejected' = [rejected EXCEPT ![r] = FALSE]
    /\ UNCHANGED <<command, plan, mood, exitCode, engineVars, steps, items, base, runId, ledger,
                   allTests, outputs,
                   configs, together>>

\* mutant: no look at the verdicts
Successful_always(r) == TRUE

\* TaskTracker.successful
Successful(r) == \A t \in plan[r] : verdict[r][t] = "OK"

\* The runner: a program runs only after a successful build.
Finish(r) ==
    /\ pc[r] = "close" /\ closing[r] = {}
    /\ \/ ~Successful(r) /\ Ends(r, "FAIL")
       \/ Successful(r) /\ Ends(r, "OK")
       \/ Successful(r) /\ command[r] = "run" /\ Ends(r, "FAIL")   \* the program fails
    /\ UNCHANGED <<command, plan, mood, exitCode, engineVars, steps, rejected, items, base, closing,
                   fileVars, together>>

\* The process is gone, and what it had in memory with it.
Dies(r, code) ==
    /\ Goto(r, "gone") /\ exitCode' = [exitCode EXCEPT ![r] = code]
    /\ closing' = [closing EXCEPT ![r] = {}] /\ rejected' = [rejected EXCEPT ![r] = FALSE]
    /\ task' = [task EXCEPT ![r] = [t \in plan[r] |-> "waiting"]]
    /\ verdict' = [verdict EXCEPT ![r] = [t \in plan[r] |-> "UNKNOWN"]]
    /\ viz' = [viz EXCEPT ![r] = [c \in Counters |-> 0]]
    /\ steps' = [steps EXCEPT ![r] = <<>>] /\ items' = [items EXCEPT ![r] = <<>>]
    /\ base' = [base EXCEPT ![r] = <<>>]
    /\ UNCHANGED <<command, plan, mood, outcome, fileVars, together>>

\* Breakdown.exitCode, set when the runner returns; the process goes when nothing
\* is in flight.  The properties look at what it had in memory unless it crashed.
ExitCode(o) == IF o = "OK" THEN 0 ELSE IF o = "CRASH" THEN 1 ELSE 2

Exit(r) ==
    /\ pc[r] = "returning" /\ closing[r] = {}
    /\ \A t \in plan[r] : task[r][t] \notin {"executing", "reported"}
    /\ IF outcome[r] = "CRASH" THEN Dies(r, ExitCode("CRASH"))
       ELSE /\ Goto(r, "gone") /\ exitCode' = [exitCode EXCEPT ![r] = ExitCode(outcome[r])]
            /\ UNCHANGED <<command, plan, mood, outcome, engineVars, steps, rejected, items, base, closing,
                           fileVars, together>>

\* Node ends a process in which a promise is rejected while nobody awaits it.
UnhandledRejection(r) == Alive(r) /\ rejected[r] /\ "steps" \notin closing[r] /\ Dies(r, 1)

Kill(r) == r \in Killable /\ Alive(r) /\ Dies(r, 9)

-----------------------------------------------------------------------------
\* What a run does by itself once it is started.
Progress(r) ==
    \/ InitConfig(r) \/ GenerateTsConfig(r) \/ MakeEngine(r)
    \/ RunStarted(r) \/ UpdateRun(r) \/ Prepare(r) \/ PlanPrepared(r)
    \/ \E t \in AllTasks : TaskBegins(r, t) \/ TaskReports(r, t) \/ TaskEnds(r, t) \/ TaskCrashes(r, t)
    \/ RunEnded(r) \/ LedgerReads(r) \/ LedgerTruncates(r) \/ LedgerWrites(r) \/ StepsClose(r)
    \/ Finish(r) \/ Exit(r) \/ UnhandledRejection(r)

Next == \E r \in Runs : MakeBootstrapper(r) \/ Progress(r) \/ Kill(r)

Spec == Init /\ [][Next]_vars /\ \A r \in Runs : WF_vars(Progress(r))
-----------------------------------------------------------------------------
(* Properties                                                              *)

StepNames == {"BUILD_RUN_STARTED", "PLAN_PREPARED", "TASK_STORE_GET", "TASK_STORE_PUT", "TEST_ENDED",
              "ASSET_PUBLISHED", "TASK_ENDED", "BUILD_RUN_ENDED"}

TypeOK ==
    /\ \A r \in Runs :
        /\ pc[r] \in Builds \cup
                 {"none", "init-config", "generate-tsconfig", "started", "ledger",
                      "initialize", "plan", "execute", "close", "returning", "gone"}
        /\ outcome[r] \in {NoRun, "OK", "FAIL", "CRASH"} /\ exitCode[r] \in {0, 1, 2, 9, NoExit}
        /\ task[r] \in [plan[r] -> {"waiting", "executing", "reported", "ended"}]
        /\ verdict[r] \in [plan[r] -> {"UNKNOWN", "OK", "FAIL"}]
        /\ \A i \in DOMAIN steps[r] : steps[r][i].step \in StepNames
        /\ viz[r] \in [Counters -> 0 .. 2 * Cardinality(plan[r])]
        /\ closing[r] \subseteq {"ledger", "write", "writing", "steps"}
    /\ runId \in Runs \cup {NoRun} /\ configs \subseteq {".build-raptor.jsonc", ".build-raptor.json"}
    /\ outputs \subseteq Runs \X AllTasks /\ Range(allTests) \subseteq Runs \X AllTasks \X {"tests", "output"}

Over(r) == steps[r] # <<>> /\ Last(steps[r]).step = "BUILD_RUN_ENDED"
At(s, name) == {i \in DOMAIN s : s[i].step = name}
Of(s, t) == {i \in DOMAIN s : s[i].step \notin {"BUILD_RUN_STARTED", "PLAN_PREPARED", "BUILD_RUN_ENDED"}
                              /\ s[i].task = t}

\* The account of a build over these tasks: begun, planned, ended, and in between
\* one TASK_ENDED for each task, after all else that is told of the task.
Account(s, tasks) ==
    /\ At(s, "BUILD_RUN_STARTED") = {1} /\ At(s, "PLAN_PREPARED") = {2}
    /\ At(s, "BUILD_RUN_ENDED") = {Len(s)}
    /\ \A t \in tasks : \E i \in Of(s, t) :
        At(s, "TASK_ENDED") \cap Of(s, t) = {i} /\ \A j \in Of(s, t) : j <= i

\* The file step-by-step.json, which the code writes in close() and not before, is
\* at all times the whole account of one build, however tasks overlap and whichever
\* builds crashed or were killed; and after a build that ended with exit code 0 it
\* is the account of that build.
StepsTellTheRun ==
    /\ stepsFile # <<>> => \E r \in Runs : Account(stepsFile, plan[r])
    /\ \A r \in Runs : runId = r /\ exitCode[r] = 0 /\ ~together => stepsFile = steps[r]

\* Some TASK_ENDED step of the run says CRASH.
ToldOfCrash(r) == \E i \in At(steps[r], "TASK_ENDED") : steps[r][i].verdict = "CRASH"

\* The exit code tells the truth.  0: the build went through to its end and every
\* task passed.  2 from a build that went to its end: no task crashed, and one did
\* not pass unless it is the program that failed.  2 from one that did not: it
\* stopped before there was a plan, or at a task that broke down and was reported
\* as a crash.
ExitCodeTruthful ==
    \A r \in Runs : command[r] \in Builds =>
        /\ exitCode[r] = 0 => Over(r) /\ ~rejected[r] /\ \A t \in plan[r] : verdict[r][t] = "OK"
        /\ exitCode[r] = 2 =>
              IF Over(r) THEN /\ ~ToldOfCrash(r)
                              /\ command[r] = "run" \/ \E t \in plan[r] : verdict[r][t] # "OK"
              ELSE ToldOfCrash(r) \/ At(steps[r], "PLAN_PREPARED") = {}

\* The numbers of the console's summary add up when it is printed.
SummaryAddsUp ==
    \A r \in Runs : Over(r) =>
        /\ viz[r]["ended"] + viz[r]["blocked"] = viz[r]["all"]
        /\ viz[r]["succeeded"] + viz[r]["failed"] = viz[r]["ended"]
        /\ viz[r]["executed"] + viz[r]["cached"] = viz[r]["ended"]
        /\ viz[r]["started"] = viz[r]["executed"]

\* What a run has put into the ledger or still may; for one that crashed or was killed, all it could have.
PutBy(r) == IF exitCode[r] \in {1, 9} THEN {r} \X ({"run"} \cup plan[r]) ELSE Range(items[r])

\* Builds that do not overlap all leave what they put in the ledger, in one piece,
\* as long as all that was ever put in it is within the limit.
LedgerKeepsRuns ==
    ~together /\ ledger # Torn /\ Cardinality(UNION {PutBy(r) : r \in Runs}) <= Limit =>
        \A r \in Runs : Over(r) /\ exitCode[r] \in {0, 2} =>
            \E i \in 0 .. Len(ledger) : i + Len(items[r]) <= Len(ledger)
                                     /\ SubSeq(ledger, i + 1, i + Len(items[r])) = items[r]

\* When a build that had the work space to itself is over, the file all-tests and
\* the directory tasks hold the output of each task it executed, once, and of no
\* other.
OutputsAreThisBuilds ==
    \A r \in Runs : Over(r) /\ pc[r] \in {"close", "returning"} /\ ~together =>
        LET executed == {<<r, steps[r][i].task>> :
                            i \in {j \in At(steps[r], "TASK_ENDED") : steps[r][j].type = "EXECUTED"}} IN
        /\ outputs = executed
        /\ \E order \in SetToSeqs(executed) : allTests = FlattenSeq([i \in DOMAIN order |-> Reported(r, order[i][2])])

\* CORE_SUBSYSTEMS_GUIDE.md, Event Ordering Guarantees: "No events lost on crash
\* (write-through)".  What a build transmitted until it came to its outcome, be it
\* a crash, is in the file.  The code writes the file in close(), which a build
\* that crashed does not reach.
NoStepsLostOnCrash ==
    \A r \in Runs : runId = r /\ ~together /\ pc[r] = "returning" /\ closing[r] = {} =>
        stepsFile = steps[r]

\* A run that is started and left alone comes to its end.
RunsEnd == \A r \in Runs : Alive(r) ~> pc[r] = "gone"
=============================================================================
