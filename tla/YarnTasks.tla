------------------------------ MODULE YarnTasks ------------------------------
(***************************************************************************)
(* The tasks of the yarn repo-protocol in a sequence of builds: execute()  *)
(* and what it calls (modules/yarn-repo-protocol/src:                      *)
(* yarn-repo-protocol.ts, generate-test-run-summary.ts), on the catalog of *)
(* YarnCatalog.                                                            *)
(*                                                                         *)
(* The engine is reduced to what the tasks see of it: a task starts when   *)
(* those it needs have passed, its fingerprint is the content of its       *)
(* inputs, and its verdict and outputs are recorded and restored by        *)
(* fingerprint (BuildEngine and TaskStore have the details).  Sources are  *)
(* edited between builds, and a build may be killed at any point.          *)
(*                                                                         *)
(* External programs are what execute() relies on: tsc --build compiles a  *)
(* unit after the units its tsconfig.json refers to and never deletes a    *)
(* file; jest runs the spec files it is given and its reporter lists the   *)
(* cases that ran; run scripts end with any status.                        *)
(***************************************************************************)
EXTENDS YarnCatalog

CONSTANTS
    Sources,   \* what a source directory may hold: functions from files to contents
    FirstSource,
    Bad,       \* contents the compiler rejects
    Specs,     \* the spec files of each unit, one test case in each
    Outcomes,  \* of a spec file that runs: "passed", "failed" or "broken" (does not load)
    Assets,    \* files that prepare-assets may write
    MaxBuilds

ASSUME SourcesAssumption ==
    FirstSource \in Sources /\ \A s \in Sources : s = [f \in DOMAIN s |-> s[f]]
ASSUME OutcomesAssumption == Outcomes \subseteq {"passed", "failed", "broken"}

VARIABLES
    build,      \* builds started
    src,        \* sources of each unit
    phase,      \* of each task: "idle", "running" or how it ended
    fp,         \* fingerprint of each task
    uber,       \* the promise of the uber build: "none", "running" or its status
    compiled,   \* units the compiler is done with
    compilers,  \* compilers started by this build
    stopped,    \* a compiler was once stopped before it was done
    dist,       \* each unit's dist directory
    toRun,      \* the spec files a running test task gave to jest
    rerun,      \* each unit's jest-output.json: the cases to run again, or NoFile
    summary,    \* each unit's test-runs.json: verdict by case, or NoFile
    packed,     \* each unit's pack directory
    prepared,   \* each unit's prepared-assets directory
    published,  \* assets published by this build
    made,       \* assets written by scripts of this build
    modules,    \* node_modules holds what yarn.lock says
    store,      \* <<task, fingerprint>> to the recorded verdict and outputs
    passed      \* <<unit, spec file, code it ran on>> of every test that passed

buildVars == <<build, src, phase, fp>>
compilerVars == <<uber, compiled, compilers, stopped>>
testVars == <<toRun, rerun, summary, passed>>
assetVars == <<prepared, published, made>>
vars == <<catalogVars, buildVars, compilerVars, dist, testVars, packed, assetVars, modules, store>>

Ended == {"OK", "FAIL", "CRASH", "CANNOT_START"}
Nothing == [x \in {} |-> x]

\* Files, or records, over others.
Over(f, g) == [x \in DOMAIN f \cup DOMAIN g |-> IF x \in DOMAIN f THEN f[x] ELSE g[x]]

Tasks == Catalog \cap repo.wanted
\* How task t stands in this build, if it is in the plan.
Phase(t) == IF t \in DOMAIN phase THEN phase[t] ELSE "not in plan"
Started == stage = "RUN" /\ \A t \in Tasks : phase[t] # "CRASH"

Init ==
    /\ repo \in Repos /\ stage = "INIT"
    /\ pointer = [where |-> NoFile, seen |-> {}]
    /\ tsconfig = [u \in Units |-> {}]
    /\ build = 1
    /\ src = [u \in Units |-> FirstSource]
    /\ phase = [t \in Tasks |-> "idle"] /\ fp = [t \in Tasks |-> Nothing]
    /\ uber = "none" /\ compiled = {} /\ compilers = 0 /\ stopped = FALSE
    /\ dist = [u \in Units |-> Nothing]
    /\ toRun = [u \in Units |-> {}] /\ passed = {}
    /\ rerun = [u \in Units |-> NoFile] /\ summary = [u \in Units |-> NoFile]
    /\ packed = [u \in Units |-> Nothing]
    /\ prepared = [u \in Units |-> {}] /\ published = {} /\ made = {}
    /\ modules = FALSE /\ store = Nothing

\* The next build in the same work space, after this one or instead of it; at
\* most one unit is edited in between.
NextBuild ==
    /\ build < MaxBuilds
    /\ stage = "RUN"
    /\ build' = build + 1
    /\ \E u \in Units, s \in Sources : src' = [src EXCEPT ![u] = s]
    /\ stage' = "INIT"
    /\ phase' = [t \in Tasks |-> "idle"] /\ fp' = [t \in Tasks |-> Nothing]
    /\ uber' = "none" /\ compiled' = {} /\ compilers' = 0
    /\ toRun' = [u \in Units |-> {}]
    /\ published' = {} /\ made' = {}
    /\ UNCHANGED <<repo, pointer, tsconfig, stopped, dist, rerun, summary, passed, packed,
                   prepared, modules, store>>

-----------------------------------------------------------------------------
(* The engine around a task                                                *)

\* What an input holds.
Content(i) ==
    CASE i[2] = "src" -> src[i[1]]
      [] i[2] = "dist" -> dist[i[1]]
      [] i[2] = "build-run-id" -> [id |-> build]
      [] OTHER -> Nothing

Fingerprint(t) == [i \in Info(t).inputs |-> Content(i)]

Outputs(t) ==
    LET u == t[2] IN
    CASE t[1] = "build" -> [dist |-> dist'[u]]
      [] t[1] = "test" -> [rerun |-> rerun'[u], summary |-> summary'[u]]
      [] t[1] = "pack" -> [packed |-> packed'[u]]
      [] t[1] = "publish-assets" -> [prepared |-> prepared'[u]]
      [] OTHER -> Nothing

\* The task ends: OK and FAIL are recorded, a CRASH is not.
End(t, status) ==
    /\ phase' = [phase EXCEPT ![t] = status]
    /\ store' = IF status = "CRASH" THEN store
                ELSE Over([k \in {<<t, fp[t]>>} |-> [verdict |-> status, outputs |-> Outputs(t)]], store)
    /\ UNCHANGED <<catalogVars, build, src, fp>>

\* mutant: nothing is removed before a task runs
Purged_never(t) == FALSE

\* purgeOutputs() before a task runs without an earlier verdict.
Purged(t) == Info(t).purge = "ALWAYS"

\* What a task finds where its outputs go: those of its last run if it failed
\* on the same inputs, else what earlier builds left and nobody purged.
Left(t, rec) ==
    LET u == t[2]
        keep(old, none, name) == IF rec.verdict = "FAIL" THEN rec.outputs[name]
                                 ELSE IF Purged(t) THEN none ELSE old
    IN [dist |-> IF t[1] = "build" THEN keep(dist[u], Nothing, "dist") ELSE dist[u],
        rerun |-> IF t[1] = "test" THEN keep(rerun[u], NoFile, "rerun") ELSE rerun[u],
        summary |-> IF t[1] = "test" THEN keep(summary[u], NoFile, "summary") ELSE summary[u],
        packed |-> IF t[1] = "pack" THEN keep(packed[u], Nothing, "packed") ELSE packed[u]]

NoRecord == [verdict |-> "UNKNOWN"]
Recorded(t) ==
    LET key == <<t, Fingerprint(t)>> IN
    IF Info(t).caching /\ key \in DOMAIN store THEN store[key] ELSE NoRecord

Ready(t) ==
    /\ Started /\ t \in Tasks /\ phase[t] = "idle"
    /\ \A n \in Needs(t) \cap Tasks : phase[n] \in Ended

NeedsPassed(t) == \A n \in Needs(t) \cap Tasks : phase[n] = "OK"

CannotStart(t) ==
    /\ Ready(t) /\ ~NeedsPassed(t)
    /\ phase' = [phase EXCEPT ![t] = "CANNOT_START"]
    /\ UNCHANGED <<catalogVars, build, src, fp, compilerVars, dist, testVars, packed, assetVars,
                   modules, store>>

\* A cache hit: the outputs are replaced by the recorded ones.
Hit(t) ==
    LET u == t[2] rec == Recorded(t) IN
    /\ Ready(t) /\ NeedsPassed(t) /\ rec.verdict = "OK"
    /\ phase' = [phase EXCEPT ![t] = "OK"] /\ fp' = [fp EXCEPT ![t] = Fingerprint(t)]
    /\ dist' = IF t[1] = "build" THEN [dist EXCEPT ![u] = rec.outputs.dist] ELSE dist
    /\ rerun' = IF t[1] = "test" THEN [rerun EXCEPT ![u] = rec.outputs.rerun] ELSE rerun
    /\ summary' = IF t[1] = "test" THEN [summary EXCEPT ![u] = rec.outputs.summary] ELSE summary
    /\ packed' = IF t[1] = "pack" THEN [packed EXCEPT ![u] = rec.outputs.packed] ELSE packed
    /\ prepared' = IF t[1] = "publish-assets" THEN [prepared EXCEPT ![u] = rec.outputs.prepared]
                   ELSE prepared
    /\ UNCHANGED <<catalogVars, build, src, compilerVars, toRun, passed, published, made, modules, store>>

\* The task is to run: execute() is called.
Begin(kind, t) ==
    /\ t[1] = kind /\ Ready(t) /\ NeedsPassed(t) /\ Recorded(t).verdict # "OK"
    /\ phase' = [phase EXCEPT ![t] = "running"] /\ fp' = [fp EXCEPT ![t] = Fingerprint(t)]
    /\ UNCHANGED <<catalogVars, build, src, store>>

Running(kind, t) == t[1] = kind /\ stage = "RUN" /\ phase[t] = "running"

-----------------------------------------------------------------------------
(* Compilation                                                             *)

\* mutant: the promise is looked at only when it has settled
UberStarts_settled == uber \in {"none", "running"}

\* runUberBuild(): the first build task starts the compiler, the others wait.
UberStarts == uber = "none"

BuildBegins(t) ==
    LET starts == repo.config.uber /\ UberStarts IN
    /\ Begin("build", t)
    /\ dist' = [dist EXCEPT ![t[2]] = Left(t, Recorded(t)).dist]
    /\ uber' = IF starts THEN "running" ELSE uber
    /\ compilers' = IF starts THEN compilers + 1 ELSE compilers
    /\ UNCHANGED <<compiled, stopped, testVars, packed, assetVars, modules>>

Compiles(u) == \A f \in DOMAIN src[u] : src[u][f] \notin Bad
Compilable(u) == u \notin compiled /\ tsconfig[u] \subseteq compiled /\ Compiles(u)

\* tsc --build gets to unit u, whoever waits for it.
CompileUnit(u) ==
    /\ uber = "running" /\ Compilable(u)
    /\ dist' = [dist EXCEPT ![u] = Over(src[u], dist[u])]
    /\ compiled' = compiled \cup {u}
    /\ UNCHANGED <<catalogVars, buildVars, uber, compilers, stopped, testVars, packed, assetVars,
                   modules, store>>

\* run(): the exit code is OK or FAIL; a compiler that cannot be started is a CRASH.
CompilerExits ==
    /\ uber = "running"
    /\ \/ (\A u \in Units : ~Compilable(u)) /\ uber' = (IF compiled = Units THEN "OK" ELSE "FAIL")
          /\ UNCHANGED stopped
       \/ compiled = {} /\ uber' = "CRASH" /\ UNCHANGED stopped
       \/ uber' = "FAIL" /\ stopped' = TRUE   \* out of memory, a signal
    /\ UNCHANGED <<catalogVars, buildVars, compiled, compilers, dist, testVars, packed, assetVars,
                   modules, store>>

\* mutant: every file of dist stays
Matched_all(u, d) == d

\* checkBuiltFiles(): files of dist whose source is gone are deleted.
Matched(u, d) == [f \in DOMAIN d \cap DOMAIN src[u] |-> d[f]]

\* The compiler's status is known to the task: the rest of a build task.  A
\* build:post script may fail.
BuildSettles(t, status) ==
    LET u == t[2] own == Over(src[u], dist[u]) IN
    /\ Running("build", t)
    /\ IF repo.config.uber THEN uber = status
       ELSE status \in {"OK", "FAIL"} /\ (status = "OK") = Compiles(u)
    /\ dist' = IF status # "OK" THEN dist
               ELSE [dist EXCEPT ![u] = Matched(u, IF repo.config.uber THEN dist[u] ELSE own)]
    /\ \E post \in {"OK"} \cup (IF HasRunScript(u, "build:post") THEN {"FAIL"} ELSE {}) :
           End(t, IF status = "OK" THEN post ELSE status)
    /\ UNCHANGED <<compilerVars, testVars, packed, assetVars, modules>>

-----------------------------------------------------------------------------
(* Tests                                                                   *)

\* The code a test of u runs.
Code(u) == [v \in Reach(repo.deps, u) |-> dist[v]]

\* mutant: the rerun list of whatever run came before, or nothing at all
ComputeTestsToRun_trusting(u, list) == IF list = NoFile THEN Specs[u] ELSE list

\* computeTestsToRun(): the cases of jest-output.json; all of them if there are none.
ComputeTestsToRun(u, list) == IF list \in {NoFile, {}} THEN Specs[u] ELSE list

\* A unit without spec files runs neither jest nor its own command.
CustomRunner(u) == HasTestCommand(u) /\ Specs[u] # {}

\* The summary file is there from the start; a unit without spec files is not run.
TestBegins(t) ==
    LET u == t[2] left == Left(t, Recorded(t)) IN
    /\ Begin("test", t)
    /\ summary' = [summary EXCEPT ![u] = Nothing]
    /\ rerun' = [rerun EXCEPT ![u] = left.rerun]
    /\ toRun' = [toRun EXCEPT ![u] = IF CustomRunner(u) THEN {} ELSE ComputeTestsToRun(u, left.rerun)]
    /\ UNCHANGED <<compilerVars, dist, passed, packed, assetVars, modules>>

\* runValidate(), beside the tests.
Validations(u) == IF HasRunScript(u, "validate") THEN {"OK", "FAIL"} ELSE {"OK"}

TestStatus(ret, validate) == IF ret = "OK" THEN validate ELSE ret

TestFrame == UNCHANGED <<toRun, compilerVars, dist, packed, assetVars, modules>>

RerunList(cases) == {s \in DOMAIN cases : cases[s] = "failed"}

\* runJest(): the reporter has a case for each spec file that loads.
JestReports(t) ==
    LET u == t[2] IN
    /\ Running("test", t) /\ ~CustomRunner(u)
    /\ \E o \in [toRun[u] -> Outcomes], validate \in Validations(u) :
        LET cases == [s \in {x \in toRun[u] : o[x] # "broken"} |-> o[s]]
            ret == IF \A s \in toRun[u] : o[s] = "passed" THEN "OK" ELSE "FAIL" IN
        /\ passed' = passed \cup {<<u, s, Code(u)>> : s \in {x \in toRun[u] : o[x] = "passed"}}
        /\ summary' = [summary EXCEPT ![u] = cases]
        /\ rerun' = [rerun EXCEPT ![u] = RerunList(cases)]
        /\ End(t, TestStatus(ret, validate))
    /\ TestFrame

\* Jest ends before its reporter writes: with output of its own the task fails
\* and has an empty rerun list, without any it crashes.
JestSilent(t) ==
    LET u == t[2] IN
    /\ Running("test", t) /\ ~CustomRunner(u) /\ Specs[u] # {}
    /\ UNCHANGED <<summary, passed>>
    /\ \/ rerun' = [rerun EXCEPT ![u] = {}] /\ End(t, "FAIL")
       \/ UNCHANGED rerun /\ End(t, "CRASH")
    /\ TestFrame

\* runCustomTest(): the command may write the rerun list.
CustomTest(t) ==
    LET u == t[2] IN
    /\ Running("test", t) /\ CustomRunner(u)
    /\ UNCHANGED summary
    /\ \E ret \in {"OK", "FAIL"}, wrote \in {NoFile} \cup SUBSET Specs[u], validate \in Validations(u) :
        /\ rerun' = [rerun EXCEPT ![u] = IF wrote # NoFile THEN wrote ELSE IF @ = NoFile THEN {} ELSE @]
        /\ passed' = IF ret = "OK" THEN passed \cup {<<u, s, Code(u)>> : s \in Specs[u]} ELSE passed
        /\ End(t, TestStatus(ret, validate))
    /\ TestFrame

-----------------------------------------------------------------------------
(* Packing, publishing, custom tasks, installation                         *)

PackBegins(t) ==
    /\ Begin("pack", t)
    /\ packed' = [packed EXCEPT ![t[2]] = Left(t, Recorded(t)).packed]
    /\ UNCHANGED <<compilerVars, dist, testVars, assetVars, modules>>

\* pack(): dist is copied over what the pack directory holds, then the dist of
\* the units it needs and the package.json.
Pack(t) ==
    LET u == t[2]
        over(v) == IF v \in DOMAIN packed[u] THEN Over(dist[v], packed[u][v]) ELSE dist[v]
        requires == [p \in PackedDependencies(u) |-> p]
        copied == [v \in {u} \cup DepUnits(u) |-> over(v)] IN
    /\ Running("pack", t)
    /\ packed' = [packed EXCEPT ![u] = Over([p \in {"package.json"} |-> requires], Over(copied, @))]
    /\ End(t, "OK")
    /\ UNCHANGED <<compilerVars, dist, testVars, assetVars, modules>>

\* mutant: the directory is not emptied
Emptied_not(u) == prepared[u]

\* prepared-assets is removed and created again before the script runs.
Emptied(u) == {}

PublishBegins(t) ==
    /\ Begin("publish-assets", t)
    /\ prepared' = [prepared EXCEPT ![t[2]] = Emptied(t[2])]
    /\ UNCHANGED <<compilerVars, dist, testVars, packed, published, made, modules>>

\* The script ends with any status; what the directory holds then is published.
\* A script that removes the directory fails the build.
Publish(t) ==
    LET u == t[2] IN
    /\ Running("publish-assets", t)
    /\ \/ \E files \in SUBSET Assets, ret \in {"OK", "FAIL"} :
            /\ prepared' = [prepared EXCEPT ![u] = @ \cup files]
            /\ made' = made \cup {<<u, f>> : f \in files}
            /\ published' = published \cup {<<u, f>> : f \in prepared'[u]}
            /\ End(t, ret)
       \/ End(t, "CRASH") /\ UNCHANGED assetVars
    /\ UNCHANGED <<compilerVars, dist, testVars, packed, modules>>

ScriptBegins(t) ==
    /\ t[1] \in {"gen", "install"} /\ Begin(t[1], t)
    /\ UNCHANGED <<compilerVars, dist, testVars, packed, assetVars, modules>>

\* A custom task that passes without its outputs fails the build.
Gen(t) ==
    /\ Running("gen", t)
    /\ \E status \in {"OK", "FAIL", "CRASH"} : End(t, status)
    /\ UNCHANGED <<compilerVars, dist, testVars, packed, assetVars, modules>>

\* Dormant installs nothing.
Install(t) ==
    /\ Running("install", t)
    /\ \E status \in {"OK", "FAIL"} :
        /\ repo.config.install = "dormant" => status = "OK"
        /\ modules' = (modules \/ (repo.config.install = "on" /\ status = "OK"))
        /\ End(t, status)
    /\ UNCHANGED <<compilerVars, dist, testVars, packed, assetVars>>

-----------------------------------------------------------------------------
CatalogStep ==
    /\ Initialize \/ ResolveBuildTasks \/ NothingToResolve
    /\ UNCHANGED <<buildVars, compilerVars, dist, testVars, packed, assetVars, modules, store>>

Step(t) ==
    \/ CannotStart(t) \/ Hit(t)
    \/ BuildBegins(t) \/ \E status \in {"OK", "FAIL", "CRASH"} : BuildSettles(t, status)
    \/ TestBegins(t) \/ JestReports(t) \/ JestSilent(t) \/ CustomTest(t)
    \/ PackBegins(t) \/ Pack(t) \/ PublishBegins(t) \/ Publish(t)
    \/ ScriptBegins(t) \/ Gen(t) \/ Install(t)

Compiler == CompilerExits \/ \E u \in Units : CompileUnit(u)

Next == NextBuild \/ CatalogStep \/ Compiler \/ \E t \in Tasks : Step(t)

\* Programs that are started end; the engine keeps its tasks going.
Fairness ==
    /\ WF_vars(CatalogStep) /\ WF_vars(Compiler)
    /\ WF_vars(\E t \in Tasks : Step(t))

Spec == Init /\ [][Next]_vars /\ Fairness
-----------------------------------------------------------------------------
(* Properties                                                              *)

Contents == UNION {{s[f] : f \in DOMAIN s} : s \in Sources}

TypeOK ==
    /\ repo \in Repos
    /\ stage \in {"INIT", "RESOLVE", "RUN", "CIRCULAR_DEFINITION", "NO_DEFINITION", "NO_RUN_SCRIPT",
                  "BAD_CONFIG", "INCONSISTENT_VERSION", "VERSION_MISMATCH"}
    /\ build \in 1 .. MaxBuilds /\ compilers \in Nat /\ compiled \subseteq Units
    /\ phase \in [Tasks -> {"idle", "running"} \cup Ended]
    /\ uber \in {"none", "running", "OK", "FAIL", "CRASH"}
    /\ \A u \in Units :
        /\ src[u] \in Sources /\ \A f \in DOMAIN dist[u] : dist[u][f] \in Contents \ Bad
        /\ toRun[u] \subseteq Specs[u] /\ prepared[u] \subseteq Assets
        /\ rerun[u] = NoFile \/ rerun[u] \subseteq Specs[u]
        /\ summary[u] = NoFile \/ (\A s \in DOMAIN summary[u] : s \in Specs[u] /\ summary[u][s] \in Outcomes)
        /\ tsconfig[u] = NoFile \/ tsconfig[u] \subseteq Units
    /\ published \subseteq Units \X Assets /\ modules \in BOOLEAN /\ stopped \in BOOLEAN

\* However many build tasks run at a time, a build starts one uber build, and no
\* build task waits for an uber build that nobody started (runUberBuild).
OneCompiler ==
    repo.config.uber =>
        /\ compilers <= 1
        /\ \A u \in Units : Phase(<<"build", u>>) = "running" => uber # "none"

\* No compiler was stopped half-way, or compilation outputs are not cached: a
\* failed task would be given the incomplete dist directory back.
Undisturbed == stopped => ~repo.config.cache

\* In an undisturbed history, a build task that passed, executed or restored, leaves
\* a dist directory that is what the compiler makes of the unit's sources: nothing
\* missing, stale or of a deleted source, whatever failed builds left there, and
\* killed ones too where compilation outputs are not cached.
DistMatchesSources ==
    \A u \in Units : Phase(<<"build", u>>) = "OK" /\ Undisturbed => dist[u] = src[u]

\* In an undisturbed history, a test task passes, executed or restored, only if each
\* of its test cases has passed on exactly the code that is now in its dist directory and in those of
\* the units it needs, be it in several runs that each ran a part of them.
TestsPassedOnThisCode ==
    \A u \in Units : Phase(<<"test", u>>) = "OK" /\ Undisturbed =>
        \A s \in Specs[u] : <<u, s, Code(u)>> \in passed

\* In an undisturbed history, while a task that reads dist directories runs, none of
\* them changes, although the compiler works on all units on behalf of any build task.
DistStaysPut ==
    [][\A u, v \in Units, k \in {"test", "pack", "publish-assets"} :
        LET t == <<k, u>> IN
        Phase(t) = "running" /\ Phase(t)' = "running" /\ v \in Reach(repo.deps, u) /\ Undisturbed
            => dist'[v] = dist[v]]_vars

\* What a build publishes its scripts have made in that build, not an earlier one.
PublishedIsMade == published \subseteq made

\* In an undisturbed history, a package holds the code of the unit and of every unit
\* it needs, and nothing that earlier packages held.
PackIsComplete ==
    \A u \in Units : Phase(<<"pack", u>>) = "OK" /\ Undisturbed =>
        \A v \in Units : IF v \in Reach(repo.deps, u)
                          THEN v \in DOMAIN packed[u] /\ packed[u][v] = src[v]
                          ELSE v \notin DOMAIN packed[u]

\* A package can be installed on its own: what its production code requires is in
\* it or among the dependencies of its package.json.
PackIsClosed ==
    \A u \in Units : Phase(<<"pack", u>>) = "OK" =>
        \E us \in SUBSET Units :
            /\ u \in us /\ us \subseteq DOMAIN packed[u]
            /\ \A v \in us : \A d \in repo.prod[v] :
                d[1] \in us \/ d \in DOMAIN packed[u]["package.json"]

BuildOver ==
    \/ stage \notin {"INIT", "RESOLVE", "RUN"}
    \/ stage = "RUN" /\ \E t \in Tasks : phase[t] = "CRASH"
    \/ stage = "RUN" /\ \A t \in Tasks : phase[t] \in Ended

\* A build that is not killed comes to an end: definitions that point to each
\* other are found out, and nobody waits for the uber build for ever.
BuildEnds == <>[]BuildOver
-----------------------------------------------------------------------------
(* What documents say and the code does not do.                            *)

\* "reruns just the tests that did not pass", and expects that one which passed is
\* not run and that one which did not is
\* (yarn-repo-protocol/tests/high-definition-rerun.spec.ts:15, 38-39): a test that
\* has not passed on this code is among those that run.
RerunsWhatDidNotPass ==
    \A u \in Units : Phase(<<"test", u>>) = "running" /\ ~CustomRunner(u) =>
        \A s \in Specs[u] : s \in toRun[u] \/ <<u, s, Code(u)>> \in passed
=============================================================================
