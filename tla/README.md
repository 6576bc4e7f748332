# Build Raptor: specification and verification

Build Raptor is a build tool for monorepos. It asks a *repo-protocol* for the
tasks of a repo, plans them as a graph, runs what is in scope with bounded
concurrency, and keeps the outputs of every task in a storage that all builds
share, keyed by the task and a fingerprint of its inputs.

This directory holds TLA+ models of the parts of the program that are hard to
test, the TLC configurations that check them on small instances, and proofs
that hold for every size. Paths below are relative to `modules/`.

## 1. Inventory

| component | state | operations | interacts with |
|---|---|---|---|
| Graph (`misc/src/graph.ts`) | vertices with neighbour and back-neighbour lists | `edge`, `remove`, `copy`, `neighborsOf`, `traverseFrom`, `isCyclic`, `execute` | planner, plan, executor |
| GraphExecutor (`misc/src/internal/graph-executor.ts`) | `map` (counter per vertex), `numLeft`, `started` | `start`, `scheduleBatch`, `vertexExecuted`, `execute` | subscribes to the Executor's events |
| Executor (`misc/src/executor.ts`) | `firstError`, PQueue | `schedule`, `subscribe`, `process` | calls the work function, publishes `progressMade` |
| Engine (`build-raptor-core/src/engine.ts`) | tracker, steps, ledger | `run`, `executePlan`, `executeProgram` | everything below |
| TaskExecutor (`task-executor.ts`) | phase, fingerprint | one phase per step: fingerprint, restore or purge, run, skip | tracker, task store, repo-protocol, purger |
| TaskTracker, Task (`task-tracker.ts`, `task.ts`) | verdict, execution type, root cause, phases, `numRunning` | `changeStatus`, `registerVerdict`, `registerCachedVerdict`, `propagateFailure` | error propagation graph of the plan |
| Planner, registry, plan (`planner.ts`, `updatable-task-output-registry.ts`, `execution-plan.ts`) | task graph, map of outputs | `computePlan`, `lookup`, `apply`, `dropOutOfScope` | engine |
| TaskStore and storage clients (`task-store.ts`, `misc/src/file-system-storage-client.ts`, `s3-storage-client`) | blobs, public files, verdict objects | `checkVerdict`, `restoreTask`, `recordTask`; `putObject`, `getObject`, `objectExists`; `cleanDirectory` | shared by several builds |
| Fingerprints (`fingerprinter.ts`, `hasher.ts`, `model.ts`, `misc/src/directory-scanner.ts`) | none but the hashers of one scan | `computeFingerprint`, `scan`, `update`, `close`, `isValid` | task executor, ledger |
| Life cycle (`engine-bootstrapper.ts`, `breakdown.ts`, `step-by-step-transmitter.ts`) | steps, promises of the processors, exit status; the file step-by-step.json | `makeRunner`, `transmit`, `close` | engine, CLI, processors |
| Ledger (`fingerprint-ledger.ts`) | items of this build; a JSON file of those of earlier builds | `updateRun`, `updateTask`, `close` | several builds |
| Yarn repo-protocol (`yarn-repo-protocol`) | the promise of the uber build; files in the work space: tsconfig.json, dist, jest-output.json, pack, prepared-assets | `initialize`, `getTasks`, `execute` by kind of task | tsc, jest, yarn, run scripts; storage of assets |
| CLI (`build-raptor/src/build-raptor-cli.ts`), visualizer (`task-execution-visualizer.ts`) | counters; the files `all-tests`, `tasks` and `build-run-id` of a work space | commands, `makeBootstrapper`, `run`, `ended` | life cycle, events of tasks |
| Purger, tar stream (`purger.ts`, `tar-stream.ts`) | the work space | `purgeOutputsOfTask`; `toBuffer`, `extract` | task executor, task store |
| Promises, publisher, logger, test kits | - | helpers, printing | - |

What is hard in it, and what makes each part correct:

* *Executor and GraphExecutor.* Tasks end in any order, several subscribers
  react to one event, an error must stop everything that has not started and
  still let the promise settle. Correct means: exact counters, each vertex
  scheduled once and after its dependencies, nothing run on a failure, a
  truthful outcome.
* *Engine, task executor, tracker.* The phases of all tasks in progress
  interleave at every `await`, every call may throw, and a failure is written
  into the records of other tasks while they may be starting. Correct means:
  tasks run only on passed dependencies, verdicts that were earned are final,
  propagation is complete and names a true root cause, reports stay true.
* *Task store.* Builds in several processes use one storage without locks; the
  verdict is put without being awaited, and is read twice; files are written in
  place, processes are killed, a clean-up deletes objects. Correct means: a
  verdict never stands in front of missing outputs, a hit restores what a
  passing execution of that very task and fingerprint produced.
* *Planner and plan.* Edges come from outputs, inputs and declared deps; what
  is out of scope is dropped after the propagation graph was copied.
* *Fingerprints and files.* Names are not hashed and empty hashers are skipped;
  inputs may be edited while a task runs; leftovers lie where outputs go; a
  bundle holds links of every kind. Correct means: equal fingerprints mean equal
  contents (the texts of digests left aside), a restore gives back what was recorded and nothing else.
* *Yarn repo-protocol.* All build tasks share one compilation, which never
  deletes a file; a failed test task runs again on a list it left behind;
  builds are killed half-way. Correct means: the compiler runs once and dist
  stays put under the readers, dist matches the sources, a test passes only on
  code on which each of its cases has passed, packages are complete and closed.
* *Life cycle, ledger, CLI.* Steps go to processors that may throw or reject;
  files are written at the end only; two builds share a work space. Correct
  means: the step file is one whole account, the exit code and the summary tell
  the truth, the ledger loses no build, every run ends.

`PROJECT.json` lists the hazards line by line.

## 2. Modules

```
DependencyGraph <- GraphExecution <- BuildEngine <- MCBuildEngine
                        ^     ^           |
                        |     |           +-- INSTANCE BuildContract
                        |     +-- GraphExecution_proofs <- BuildEngine_proofs
                        +-- MCGraphExecution
DependencyGraph <- TaskGraph <- Planning <- MCPlanning, Planning_proofs
TaskStore <- MCTaskStore, TaskStore_proofs
YarnCatalog <- YarnTasks <- MCYarnTasks, YarnTasks_proofs
FileTrees <- RestoredFiles <- MCRestoredFiles, RestoredFiles_proofs
BuildRun <- MCBuildRun, BuildRun_proofs
Recursion <- Planning_proofs, BuildRun_proofs, RestoredFiles_proofs
```

(`<-` is EXTENDS.)

**DependencyGraph** - graphs as sets of edges `<<from, to, copy>>`. The copy
number is there because `Graph.edge()` keeps parallel edges, which the counters
see. `Forward` and `Backward` are what `traverseFrom` returns (least closed
sets), `Acyclic` what `isCyclic` decides.

**GraphExecution** - `count`, `numLeft`, `started` are the fields of the same
names (`count` is `map`); `batchEdges`, `batchCount` are the sub-executors a
batch scheduler leads to; `queued` is the PQueue; `firstError` the field of the
Executor; `work` how far `process()` is with each vertex; `outcome` the promise.
`Start`, `StartWork`, `SkipWork`, `WorkReturns`, `WorkThrows` are `start()` and
the four ways through `process()`. `Publish` is a whole `progressMade` event:
the subscribers run synchronously, in the order they subscribed, so it is one
step. Abstractions: the PQueue takes waiting tasks in any order instead of FIFO,
and frees the slot with the event instead of a few microtasks later; a
batch scheduler that returns a cyclic graph or one over other vertices (an
exception inside an event handler) is left out, and so is an empty graph, for
which `execute()` never settles and which `Engine.run()` does not execute.

**BuildEngine** - GraphExecution with the work of a vertex opened up. `pc` is the
phase of the task's executor, one value per `await`; `verdict`, `execType`,
`rootCause` are the ExecutionRecord; `hasPrint` is `Task.fingerprint`;
`earlier` the local `earlierVerdict`; `ended` the verdicts of the TASK_ENDED steps;
`numRunning` the field of the tracker. `threwAt` is a history variable, the step
whose call threw. Every action is one stretch of code between two awaits.
What the storage answers, what a task's execution returns and which call throws
is open. The report of a task may be such a call: `transmit()` keeps the step and
calls the processors at once, and where one throws, the catch clause reports the
task a second time, as a crash, and its work throws although it may have passed
(`EndTaskThrows`; the verdict stands). A plan is a record of the task graph, the error propagation graph, the
fingerprint dependencies and the cacheable tasks, as `ApplyPlan` makes it.

**BuildContract** - what a build promises, without queue, counters, phases or
cache: six results per task, `TakeUp`, `Pass`, `Fail` (which blocks all
dependents at once), `Crash` (before a task has its result, or while the result is
recorded or reported; a result that is there stands), `End`.

**TaskStore** - two or more clients (an executor in some build) and one storage.
Every request is a step, and the two verdict objects are read by independent
`objectExists`/`getObject` pairs, as `Promise.all` does. `blob`, `cas`,
`verdictOf` are the three kinds of objects; `writes` the verdict puts that
nobody awaits; `outputs` what the client's output locations hold; `produced` the
history of executions. The storage clients are told apart by constants:
`InPlace` (files are emptied, then filled: a reader or a kill sees them empty or
cut), `Cleaning` (`cleanDirectory`, any object may go), `ExistsFails`
(`objectExists` of S3 answers false for an error). A content stands for a bundle
and its hash: hashes do not collide.

**TaskGraph** - the adjacency lists behind a Graph and the algorithms on them:
`edge` and `remove`, which keep two lists per edge in step, `copy`, `isCyclic`
(peeling with counters) and `traverseFrom` (depth-first). A list is kept as how
often each vertex occurs in it, since every read sorts it.

**Planning** - from the task list to the plan. `reg` is the map of the output
registry, `taskGraph` the planner's graph, `errorPropagationGraph` its copy in
the ExecutionPlan. The steps are `validateTaskInfos`, one `registerTask` per task,
the rest of `computePlan`, `computeStartingPoints`, one removal of
`dropOutOfScope` at a time. A path is a sequence of names; `isPrefixOf` compares
strings, which is modelled by the relation of names that begin alike. A task comes
after the producers of what it reads as far as `lookup()` finds them: the output is
the input, or holds it (InputsComeFirst). An input that is a directory around outputs
of other tasks gets no edge (`planner.ts:42`), nor does one below the root as an output. The plan
it ends with is what BuildEngine's `PlansAssumption` asks for (PlanIsScope).

**YarnCatalog** - what the protocol makes of a monorepo before any task runs.
`repo` is a record of what `yarn workspaces info`, the package.json files and the
configuration say (which unit needs which, versions, run scripts, test commands,
custom tasks); it never changes. `Initialize` is `initialize()` with its three
errors; `ResolveBuildTasks` is one file of the chain that leads to the
definition of custom tasks, so that a cycle in it is a behaviour, not an
assumption. `Info` gives each task's inputs, outputs, caching and purge policy as
`getTasks()` does, and `Needs` the edges the planner derives from them.

**YarnTasks** - `execute()` on that catalog in a sequence of builds. `uber` is the
promise of the uber build; `dist`, `rerun`, `summary`, `packed`, `prepared` what lies
in the output directories of each unit; `store` the recorded verdicts and
outputs by task and fingerprint; `passed` and `made` are history variables. Sources
are edited between builds, and `NextBuild` may come at any point, which is a
kill. The engine is reduced to what a task sees of it (BuildEngine and
TaskStore have the rest), and a fingerprint is the content of the inputs, as
with `tightFingerprints`. `tsc --build` compiles a unit when those it refers to are
done and never deletes; jest, run scripts and yarn end with any status: these
are external, as execute() relies on them. A unit's src and tests
directories are one here, and so are the halves of its dist directory. DistMatchesSources,
TestsPassedOnThisCode, DistStaysPut and PackIsComplete are stated for `Undisturbed` histories:
if a compiler is stopped half-way while caching of build tasks is on, the failed
task's incomplete dist is recorded and given back by the next build, possibly after
the uber build is done with the unit, and stays in use until the sources change;
a test that passes on it is followed by a compiler that completes the directory.
The monorepos are ones that get as far as a plan (`PlanType`): no cycle among the
units, and the builds of the units a task reads from are in the plan.

**BuildRun** - invocations of the tool in one work space, in sequence or at once.
`pc` walks through `makeBootstrapper`, `makeEngine`, `Engine.run`, `close` and the
runner; `task` and `verdict` are all that is left of the tasks; `steps`, `rejected` are the
transmitter, `viz` the visualizer's counters, `items`, `base`, `closing` the ledger and the
`Promise.all` that closes both; `runId`, `stepsFile`, `ledger`, `allTests`, `outputs` the shared
files. A processor from the command line may throw, in the step that transmits,
or reject, later; node ends a process with an unhandled rejection. A task may break
down with any error: TASK_ENDED says CRASH of all, but the runner makes exit code 2 of a
`BuildFailedError` (an output that is missing, what cannot be bundled) and 1 of any other
(`CrashOutcomes`); of several errors the first counts (`Fails`). Steps are
kept in memory and written by `close()`, so that a run that crashes leaves none. A kill leaves
the files as they are, a file that was being written as `Torn`. The ledger is
`NopFingerprintLedger` unless `EngineOptions.fingerprintLedger` is set, which the
command line does not do; the run sets it, as the programs that embed the
engine may. PUBLIC_FILES steps are left out; the reports of a task to the
outside are one step.

**FileTrees, RestoredFiles** - one cacheable task and its files. A path is a
sequence of numbers, a tree maps paths to nodes (directory, file, link). For a
digest stands the sequence of what was hashed between 100 and 101, so that two digests
are equal only if that is; whatever the code does not hash (names, empty hashers) is not
in it. `hasher.ts` puts nothing around a digest it is given, so a file may hold that same text:
bytes of files are any of 0 to 101, and the run files has such a file. Then a
directory and a file share a fingerprint, which is why ContentsAreSeen speaks of inputs
that hold no digest (`HoldNoDigest`); without this hypothesis TLC finds it violated.
`Scan` is the recursion of the fingerprinter, `Bundle` and `Extract` the tar stream,
links after files, `Unbundle` what surrounds it. RestoredFiles runs the task over
several builds: fingerprint, purge or restore, run, record; files are edited
between these steps, and leftovers of other builds lie about. `purge` is what the task says of
its output location: what is `"NEVER"` purged (dist, prepared-assets and node_modules of the yarn
repo-protocol) keeps what lies there when the task is run (`Purged`), and OutputsAreMade makes
no claim about it (`IsKept`); a public output is always purged, in every protocol there is. `prints` and `wrote` are
history variables; `touched` marks an edit of the inputs between the fingerprint
and the end of a run, after which the outputs are recorded under the fingerprint
of the old contents: OutputsAreMade holds only without it. A bundle with a link to
another link, or to a file outside it, cannot be restored, because the time of
a link is set on its target: HitsAreRestored says these are the only cases,
beside a public file whose directory is not there. What leads to nothing, to the root of the
repo or, by a relative path, out of it is not bundled at all (`CanBundle`).

Trees and the entries of a bundle are functions, so what is recorded is equal if
its files are. The modules' named assumptions say what is left out.
`LocationsAssumption`: no location is the root; outputs do not lie in each other, nor an input in an output
(the planner rejects both, the second as a cycle), and no output lies in an input. That
the planner accepts; the fingerprint would then take in what earlier builds left.
`SourcesAssumption`: inputs hold files and directories, no links. `ProductsAssumption`:
neither the program nor a leftover puts a file or link where a directory has to be, and
a public output is no link, because `recordTask` reads through the link and a hit brings a
file back.

**MC modules** give the constants of the runs their values. Operators whose name
ends in a suffix (`ReachZero_any`, `BlobRead_okOnly`, ...) and whose comment
starts with "mutant" are deliberately wrong variants of the definition below
them. They are used by no specification; replacing a definition by its variant
makes TLC report the property named in PROJECT.json, which shows that the
property notices this bug.

## 3. Runs

| run | cfg | bounds | shows |
|---|---|---|---|
| graph | MCGraphExecution_graphs | every DAG over 4 vertices, every DAG over 2-3 vertices with up to 2 parallel edges, 5 batch sub-graphs, 2 slots; 10,717 states | CountsExact, ScheduledOnce, DependenciesSettleFirst, FailureStopsDependents, OutcomeMatchesWork, FirstErrorKept, ExecutionSettles |
| engine | MCBuildEngine_plans | 8 plans of 3-4 tasks, 2 slots; 122,474 states | RunsOnlyOnPassedDependencies, DependencyFingerprintsSet, FailurePropagated, ReportedVerdictStands, BuildEnds, and the refinement EngineImplementsContract |
| store | MCTaskStore_memory | 2 clients, 2 tasks, 2 bundles, at most 2 verdict puts under way when a task begins; objects replaced at once; 867,480 states up to symmetry | VerdictIsBacked, CacheHitRestoresOutputs, RerunsOnOwnOutputs |
| store_files | MCTaskStore_files | the same with writes in place, kills and clean-up, 1 verdict put; 846,546 states | NeverForeignOutputs |
| planning | MCPlanning_catalogs | 2593 catalogs of three tasks, 6 requests; 70,515 states | ListsAgree, CyclesAreFound, PlanIsScope, InputsComeFirst |
| yarn | MCYarnTasks_builds | 15 monorepos of up to 3 units in a chain, sources of one or two files with one edit, 2 builds with a kill in between at any point; 90,070 states | OneCompiler, DistMatchesSources, TestsPassedOnThisCode, PublishedIsMade, PackIsComplete, PackIsClosed, DistStaysPut, BuildEnds |
| build_run | MCBuildRun_runs | 2 runs, 4 pairs of commands, 3 tasks, one task in the plans of runs that overlap, the first run may be killed and has a processor that throws or rejects, tasks break down with either kind of error; 422,242 states | StepsTellTheRun, ExitCodeTruthful, SummaryAddsUp, LedgerKeepsRuns, OutputsAreThisBuilds, RunsEnd |
| files | MCRestoredFiles_builds | 8 contents of the inputs, one with the text of a digest, 2 leftovers, 7 products of the task with links of every kind, purge ALWAYS and NEVER, 2 builds, 2 edits; 903,207 states | CheckoutsAgree, ContentsAreSeen, RestoredIsRecorded, OutputsAreMade, HitsAreRestored |

Four vertices are enough for everything that can go wrong with counters: a
vertex with three dependencies that settle in any order, diamonds, two
independent branches, work running while another fails. Two slots give every
pairwise interleaving of phases; more slots add states, not orders, because a
task's steps touch only its own record and those of its dependents. Two clients
and two tasks give every pairwise race on a storage; both tasks share a bundle.
The catalogs have every way two paths can relate (equal, inside, beside with a
longer name, hidden), parallel edges, cycles of one to three tasks, and a
dependency that does not exist.
`MaxWrites` only limits how many unfinished puts a model state may hold.
Two builds are enough for files that outlive a build: what a second build finds
is what one build, ended or killed, left behind; the initial states of
RestoredFiles add leftovers of builds before. The monorepos of the run yarn each
exercise a part of the protocol (with and without the uber build and caching, a
custom test command, a validate script, packing with a dependency over two hops,
publishing, custom tasks whose definition is found, missing or circular,
installation on and dormant, three errors of `initialize`). `MaxTogether` keeps
overlapping runs to one task, so that what is compared is the order of their
file operations; properties about the content of shared files are stated for
runs that had the work space to themselves (`~together`), since two builds at once do
overwrite each other's step file, ledger and outputs.

Each module with a state has a type invariant, which documents what its
variables hold. They were checked with TLC in the same configurations; the runs
leave them out, and list what could be wrong instead.

Four more runs check a sentence of the documentation that the code does not
keep; TLC finds the violation:

| run | what the documentation says | what happens |
|---|---|---|
| store_s3 | ARCHITECTURE_OVERVIEW.md: a cache hit restores the outputs | an error of the second existence check restores nothing, and the task counts as passed (a clean-up between the two reads does the same on files) |
| store_killed | ARCHITECTURE_OVERVIEW.md: cache entries are verified by checksum | a cut public file is restored as it is |
| yarn_rerun | high-definition-rerun.spec.ts: a second run "reruns just the tests that did not pass" | a spec file that did not load has no case, so the list another failing file leaves behind lacks it, and it is not run: a test that did not pass, and that the spec expects to run again (lines 38-39) |
| build_run_crash | CORE_SUBSYSTEMS_GUIDE.md: no events are lost on a crash, each step is written through | the file is written in `close()`, which a build that crashes does not reach |

Three more sentences differ from the code, which the models show without a run of
their own:

* ARCHITECTURE_OVERVIEW.md says the build stops on the first failure. It stops on the
  first *crash*; after a failed task whatever does not depend on it goes on
  (FailurePropagated says exactly what stops).
* CORE_SUBSYSTEMS_GUIDE.md:509 says a failed cache write does not fail the build.
  `recordTask()` is awaited unguarded (`task-executor.ts:334`): `StepThrows` in RECORD,
  then `EndCrashed`, rejects the build although the task has passed.
* ARCHITECTURE_OVERVIEW.md:224 says a fingerprint uniquely identifies the outputs of a
  task. Inputs that are edited while the program runs put its outputs under the
  fingerprint of the old contents, and a hit gives them back when these return:
  OutputsAreMade without `~touched` is violated.

**Fairness.** `FairSpec` and `FairEngineSpec` assume weak fairness only: of the
scheduler (the event loop runs whatever is ready, PQueue starts a waiting entry
when a slot is free) and, per task, of its next step (an awaited file operation,
storage request or child process ends, well or badly). No result is assumed
fair: a task may fail for ever. YarnTasks assumes weak fairness of the catalog's
steps, of the compiler, and of the tasks taken together: programs that are
started end, and the engine keeps going. It is not assumed that a build is
followed by another one. BuildRun assumes it of each run's own steps, but not of
a run being started or killed. TaskStore has no liveness property: requests
may be retried by nobody and fail each time.

## 4. Proofs

Eight modules hold proofs that TLAPS checks for every value of the constants: any
graphs, any number of slots, clients, tasks, bundles and runs, any catalog, monorepo
and sources, any files, edits and programs.

**GraphExecution_proofs** rests on the named assumptions of the modules:
vertices are a finite non-empty set and `Concurrency` a positive number, the
edges of a graph run between different vertices and form no cycle
(`Engine.executePlan` is called with the graph of a plan, whose cycles the
planner rejects), batch schedulers return acyclic graphs over their batch, and
`NoError` is no vertex. Proved: `TypeOK`, `CountsExact`, `ScheduledOnce`,
`DependenciesSettleFirst`, `FailureStopsDependents`, `OutcomeMatchesWork`,
`FirstErrorKept`.

None of these is inductive alone. That a vertex is scheduled once needs the
counters to be exact (a counter reaches zero only once), which needs `Publish` to
be sent once per vertex, which needs `work` and `queued` to agree; the outcome
needs `numLeft` to be the number of unsettled vertices. The invariant proved is
the conjunction of `TypeOK`, `CountsExact` and `ScheduledOnce` with
`NothingBeforeStart`, `WorkIsReleased` and `BatchesAreReleased` (what has begun had
all its dependencies settled, in the graph and in its batch), `ErrorMatchesWork`
(an error is kept exactly when some work threw), `RunsOnReturned`, `NumLeftExact`
and `OutcomeMatchesWork`. Every action is one step of the proof, every conjunct
it can disturb a step below. The lemmas on cardinality, and on how a counter
drops with an event, stand before them.

**BuildEngine_proofs** stands on the invariant of GraphExecution_proofs
(`EngineStepIsStep`: a step of the engine is a step of the execution) and on two more
assumptions: the plans are ones `ExecutionPlan.apply()` makes, with no fingerprint
dependency left out (`PlansAssumption`), and `NoTask` is no task. Proved:
`RunsOnlyOnPassedDependencies`, `DependencyFingerprintsSet`, `FailurePropagated`,
`ReportedVerdictStands`, and `EngineRefinesContract`: EngineSpec implements
BuildContract.

The inductive part, `RecordsInv`, says what the record of a task may hold at each
place of its executor (`RecordsMatchPc`), that place and Executor agree
(`PcMatchesWork`), what the TASK_ENDED steps reported, once or twice (`EndedMatchesWork`), and
`WorkedOnPassed`: whatever was taken up, and could start, depends on tasks that
passed, along the edges of the *error* graph. That last conjunct carries the
argument in both directions. A task that begins finds its dependencies settled
and none skipped, so each has returned; one that failed or was blocked would, by
`FailurePropagated`, have blocked the task itself (`DependenciesPassed`). And a task
that fails has not passed, so nothing that depends on it, at any distance, can have
been taken up: the records `propagateFailure` overwrites are those of tasks that
wait, or were blocked before (`FailureMeetsWaiting`). For the refinement each action
is mapped to one step of the contract or to a stutter, and the step that settles the
promise to `End` as well.

**TaskStore_proofs** - three layers, each an invariant of its own:

1. On every storage, `TypeOK` and *Origins*: every verdict that is stored, under
   way or read, and every bundle that is recorded or restored, comes from an
   execution of that task; output locations are untouched until the bundle is
   there. Hence `NeverForeignOutputs`, with no assumption on the storage.
2. If objects are replaced at once and never deleted (`~InPlace`, `~Cleaning`:
   S3, in memory), *Backed*: no object is half written, `recordTask` writes the
   public file, the blob and the verdict in this order, and whatever a verdict
   names is stored. Hence `VerdictIsBacked`, even if existence checks fail.
3. If existence checks tell the truth as well (`~ExistsFails`), *AllInformed*:
   what a client read of a verdict stays true until it acts on it, so the second
   reading in `restoreTask` finds what the first one found. Hence
   `CacheHitRestoresOutputs` and `RerunsOnOwnOutputs`.

The assumptions of layers 2 and 3 are needed: the runs store_s3 and store_killed
are counterexamples without them.

**YarnTasks_proofs** - the assumptions are what a monorepo is that gets as far as a
plan (`ReposAssumption`: no cycle among units, the builds a task reads from are
in the plan, yarn lists every dependency on a unit, matched or not), that no unit is
called package.json, that sources are functions, and what outcomes a spec file has.
Proved: `OneCompiler`, `DistMatchesSources`, `DistStaysPut`, `TestsPassedOnThisCode`,
`PublishedIsMade`, `PackIsComplete`, `PackIsClosed`.

The core is `SourceInv`, about two kinds of memory at once. Of a directory: whatever the
compiler is done with, or a build task passed on, is the compilation of the
present sources. Of a record: one of a pass holds the compilation of the
sources in its fingerprint, and so does one of a *failure* on sources that
compile. The second half is what makes it inductive, since a failed task gets its
outputs back and may find the uber build already done with its unit. It holds
because a compiler that failed on its own is done with every unit whose needs all
compile (`FailedWithoutMe`, by the absence of cycles), and it is what `Undisturbed`
is for: a compiler that is stopped half-way breaks it. A task that reads dist
directories depends on their builds since the planner finds the directories among its
inputs (`NeedsBuilds`), so they are settled while it runs (`BuiltStandsStill`). Tests and
packages then only need their own records: `TestInv` says that what a running test leaves
out has passed on this code, and what a recorded failure does not list has passed on the
recorded code; `PackInv` that a package is put together in an empty directory.
`TestsOfThisCode` has the hypothesis `"broken" \notin Outcomes`, that every spec file
loads: without it the run yarn_rerun is the start of a counterexample.

**BuildRun_proofs** - any number of runs in one work space, at once or one after the
other, killed at any point, with processors that throw or reject. The assumptions
(`RunsAssumption`): runs and tasks are finitely many, no task needs itself or is
called `run` (a task's name has a colon; `run` stands for the item that begins a
build in the ledger), no run is called `none`, which stands for a file build-run-id
nobody wrote, and the commands are the tool's. Proved: `ExitCodeTruthful`,
`SummaryAddsUp`, `StepsTellTheRun`, `OutputsAreThisBuilds`, `LedgerKeepsRuns`.

The invariant has three parts. `TypeInv` is the types. `Local` says of each run by itself
how far its account has got at each statement: `Told` (two steps, then for each task that
is done its chatter and one end), `Account` once the last step is there; `Counts` (each counter
of the visualizer is the number of tasks in hand or done in that way); `Passed` (what the
outcome OK means, down to the processors' promises). `Shared` says of the files that the step file is a whole account of some run, and, as
long as no two runs overlapped, that it is the account of the run whose id the work
space bears. Each action is one run's, so `OfRun` and `LocalKept` carry `Local` of the
others over; what is left to do is the run that moves. The exit code needs the whole
chain: 2 comes from a task that did not pass at the end, from an error in front of a plan, or
from a task whose last step says CRASH; 0 comes from the outcome, the outcome from verdicts counted when the last
task had settled, and after that only a rejection, which is not waited for, may
still change it.

Two more invariants stand on that one. `OutputsInv`: while no two runs overlapped, the
directory tasks holds the outputs of the tasks whose end was transmitted as executed
and of those that have reported and not ended yet, and all-tests is what these reported, in
some order (`Collected`; a report is appended, so the order grows at its end). `ItemsInv`
and `LedgerInv` are about the ledger. An item is a run's own, is there once and not before
its task's turn; `close()` is at one of its steps at a time. While runs did not
overlap, the ledger, unless a kill tore it, is `Good`: each of its items is one that
some run put there (`PutBy`), none is there twice, none is of a run that has still to
write, and each build that closed its ledger has its list there in one piece; what a run
has read equals the file until it cuts the file, and is itself `Good` until it is written
back. From the first two parts a ledger is never longer than the number of all items,
so that the limit, at which `close()` throws the oldest items away, is not reached.
`PutBy` counts all that a run that crashed or was killed could have put there: such a run may have
written before it went, and its items take up room, though nobody asks for them.

**Recursion** - well-founded induction in the form the proofs need, for sets given as values
(`LeastNat`, `MeasureInduction`, `InductionOnNat`, `InductionOnSubsets`), the
iterates of a step, and `RecursiveFunction`: a function defined by recursion along a measure
exists. The recursive definitions of TaskGraph are functions over a set given in
advance, so their defining equations follow from it, and what they compute can
be proved by induction along the same measure. `CountedRecursion` is the case of a
function of a number made from the one before; `FlattenIs` and `FlattenGrows` say
that the concatenation of a sequence of sequences exists and grows with its last.

**Planning_proofs** - for any catalog (`CatalogsAssumption`: names are
vertices, paths are sequences of names, the inputs of a task are finitely many), any
request (`SelectorsAssumption`: goals are paths) and any set of tasks that is
dropped, in any order. Proved: `TypeOK`, `ListsAgree`, `CyclesAreFound`, `PlanIsScope`,
`InputsComeFirst`.

First the graph. `Agrees` says that the two lists of a graph name each other equally often and
only vertices; each operation of TaskGraph keeps it. That `remove` does is the point: it
splices one occurrence at a time, once for every occurrence of a neighbour in
either list, and parallel edges are gone only because there are at least as many
of those as there are edges (the mutant `RemoveVertex_once` splices once).
`traverseFrom` returns the least set that holds the starting points and is closed under the
edges: what it has yet to visit is reachable, what it has visited is followed up (`EndsWith`,
along `VisitsLeft`). `isCyclic` peels; as long as it does, a counter is the number of edges from
vertices not peeled yet, and the peeled ones are in an order that respects the edges
(`PeelInv`, `Ranked`). When it stops with vertices left, each of them has an edge to
another one left, so they hold a cycle (`Settles`); when none is left, the order shows that there is none.

Then the planning. `StageInv` is what each statement leaves to the next: the registry holds
each output once (`Registered`); a task that is registered has an edge to the producer
`lookup` finds for each of its inputs (`Linked`); while tasks are dropped, the graph is the
propagation graph without those that are gone, and none that is needed is (`IsPart`). At
the end what is left is in scope, hence what the starting points need. `InputsComeFirst` adds that
`lookup` finds the right producer: outputs do not lie in each other, so that at most
one location is or holds the input, and going up from the input meets it. The root of the
repo as an output is the exception the property makes, as `lookup` gives up before
it gets there (`updatable-task-output-registry.ts:21`).

**RestoredFiles_proofs** - for any inputs, outputs, sources, leftovers and
products of the assumptions above, any number of builds and edits. Proved: `TypeOK`,
`CheckoutsAgree`, `ContentsAreSeen`, `RestoredIsRecorded`, `HitsAreRestored`,
`OutputsAreMade`.

Paths first. The order of paths is total, so a finite set of them is one list
(`PathOrderIs`, `OneList`), in which what lies below a directory stands together
(`OrderBelow`, `OrderJoin`). A tree stays one when something is put over it or a place
is removed, and the work space is three parts that do not touch: inputs, outputs and
the directories that lead to them (`PlacesAreApart`), so that each step leaves all but one alone.

*Fingerprints.* `CheckoutsAgree`: what a hasher is given depends on tracked files only, since
a directory whose hasher was given anything has a tracked file below it
(`DirectoriesCount`); then `SameFilesSameScan` by induction on how much lies below a
directory of the input. `ContentsAreSeen` is the converse, and the harder one: the digests of entries are
hashed one after the other, and it has to be shown that this can be read in one way
only. `IsCode` says of a set of pairs <<what was hashed, contents>> that each is
empty or a shorter one of the set followed by one digest, of a file or of something that
is in the set. In such a set what was hashed decides the contents (`CodesAreRead`): the last
digest is where its brackets close (`DigestEnds`), what is before it is shorter, what is in it
too. The scans of all directories of a tree, with each of their beginnings, are
such a set (`CodesAre`), and so are those of two trees together (`CodesTogether`), as long as
no file in them holds a digest. A file in the place of an input is hashed as it is, and by
the same hypothesis is not taken for a directory (`OneMeaning`).

*Bundles.* `Laid` is what has become of the work space when some entries are extracted:
these, the directories that lead to them, and what was there. Files come before links, so a
link of a closed bundle finds what it leads to (`LinksAreGood`), whatever the order of the
links. What `Unbundle` leaves, if it succeeds, gives the same bundle again (`UnbundleIs`,
`IsRestored`); if it stops half-way the work space is a tree still.

*Builds.* The invariant `IInv` adds to the properties: every print is one of a work space
(`PrintsAre`); the storage holds bundles, under prints that were made (`StoreIs`); between
fingerprint and end of a run the print stands for what the inputs hold, unless they were
touched, and what lies at the outputs was written for it (`BusyIs`); each recorded bundle was
written by the program for contents its print stands for (`MadeIs`). The last part is
where fingerprints and bundles meet: on a hit the bundle was written for *some* inputs with
this print, and only `ContentsAreSeen` makes these the contents the inputs hold now, which is why
`OutputsAreMade` asks that no input ever held a digest (`NoDigests`).

Model-checked only: liveness (`ExecutionSettles`, `BuildEnds` of the engine and of the
yarn builds, `RunsEnd`). Fairness is out of the prover's reach. The four runs that expect
a violation are counterexamples, which need no proof.

## 5. Not claimed, not modelled, and why

Behaviours the models have, and that no property rules out, because nothing in the
code or its documents does:

* Two builds at once in one work space: the second wipes the outputs of the first,
  and of two ledgers that are closed at the same time one is lost. `StepsTellTheRun` holds
  of such builds in part, the other properties of shared files do not speak of them.
* A ledger cut by a kill, after which each build fails to read it.
* A blob cut by a kill, which is never put again and which no hit can restore.
* Objects deleted by a clean-up between the reads of a hit: the task passes with
  nothing restored, as in store_s3.
* A compiler stopped half-way with build tasks cached (`Undisturbed`).
* An input directory around outputs of other tasks, which gives no edge.
* A file with the text of a digest among the inputs (`HoldNoDigest`).
* What an output location of purge NEVER holds beside what the program wrote.

Not modelled:


* Data: names, paths, formats, log lines, timestamps, the text of tsconfig.json
  and package.json files, the layout of test reports and of bundles on disk.
* The order in which graph operations return vertices.
* An empty plan and a batch scheduler that returns a cyclic graph (an exception
  inside an event handler, after which the counters mean nothing).
* Several executors for one task: `executePlan` starts one per task, so the wait
  for the rights is never entered.
* Whether `numRunning` is accurate: it is counted down for tasks that were never
  counted up, but only the printed maximum of the concurrency depends on it.
* The size limit of the in-memory client, which counts the length of strings and
  the size of buffers alike (`in-memory-storage-client.ts:16`): tests use it only.
* `promises().reify()`, which bounds how many file operations run at once: nothing
  else depends on the bound.
* How `cleanDirectory` chooses the objects to delete: any object may go.
* What goals mean for outputs beside one that begins with the same characters
  (`core-types.ts:47` compares strings): Planning computes it as the code does, and
  states no property of it.
* Inputs that are no inputs: `tsconfig-base.json` is in the list of no build task, so
  that a change of compiler options alone leaves it cached. And with installation
  `dormant` the install task passes without installing. Both are modelled as
  they are; no document says what is promised.
* Links, special and unreadable files in inputs; the audit records of hashers.
* Option parsing, config file examples, loading of processors, test kits, the
  performance report, generated declarations: input, output and wording.

## 6. Plan

| order | module | models | properties, theorems |
|---|---|---|---|
| 1 | DependencyGraph, GraphExecution | done | proved |
| 2 | BuildEngine, BuildContract | done | proved, the refinement too |
| 3 | TaskStore | done | proved |
| 4 | TaskGraph, Planning | done | proved |
| 5 | YarnCatalog, YarnTasks | done | proved |
| 6 | BuildRun | done | proved but for liveness |
| 7 | FileTrees, RestoredFiles | done | proved |

Abstract specifications worth stating: BuildContract (done); a cache that
answers at once, which TaskStore implements on a whole storage; one compilation
per build, which YarnTasks implements. Theorems worth proving next: the first of
these refinements, and what no step may do to a recorded object.
