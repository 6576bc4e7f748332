--------------------------- MODULE YarnTasks_proofs ---------------------------
(***************************************************************************)
(* Proofs about the tasks of the yarn repo-protocol, for any monorepo, any *)
(* sources, any number of units and builds, and compilers, tests and       *)
(* scripts that end in any way, in any order.                              *)
(***************************************************************************)
EXTENDS YarnTasks, TLAPS

-----------------------------------------------------------------------------
(* Graphs, tasks and their inputs.                                         *)

\* What a unit needs is closed under dependencies.
LEMMA ReachFacts ==
    ASSUME NEW edges \in [Units -> SUBSET Units], NEW u \in Units
    PROVE  /\ u \in Reach(edges, u) /\ Reach(edges, u) \subseteq Units
           /\ \A v \in Reach(edges, u) : edges[v] \subseteq Reach(edges, u)
           /\ \A v \in Reach(edges, u) : Reach(edges, v) \subseteq Reach(edges, u)
<1>1. u \in Reach(edges, u) /\ Reach(edges, u) \subseteq Units
    BY DEF Reach
<1>2. ASSUME NEW v \in Reach(edges, u), NEW w \in edges[v] PROVE w \in Reach(edges, u)
    BY <1>2 DEF Reach
<1>3. ASSUME NEW v \in Reach(edges, u), NEW w \in Reach(edges, v) PROVE w \in Reach(edges, u)
    <2>1. \A x \in Reach(edges, u) : edges[x] \subseteq Reach(edges, u)
        BY <1>2
    <2> QED
        BY <1>1, <1>3, <2>1 DEF Reach
<1> QED
    BY <1>1, <1>2, <1>3

\* What is assumed of a monorepo that gets as far as a plan.
LEMMA RepoFacts ==
    ASSUME repo \in Repos
    PROVE  /\ repo.deps \in [Units -> SUBSET Units]
           /\ repo.config.uber \in BOOLEAN /\ repo.config.cache \in BOOLEAN
           /\ \A C \in SUBSET Units : C # {} => \E u \in C : repo.deps[u] \cap C = {}
           /\ \A t \in Tasks : t[1] \in {"build", "test", "pack", "publish-assets"} =>
                \A v \in Reach(repo.deps, t[2]) : <<"build", v>> \in repo.wanted
    BY ReposAssumption DEF RepoType, PlanType, Tasks

\* The tasks in the plan.
LEMMA TaskForm ==
    ASSUME NEW t \in Tasks
    PROVE  /\ t = <<t[1], t[2]>>
           /\ (t[1] \in Kinds /\ t[2] \in Units) \/ t = InstallTask
    BY DEF Tasks, Catalog, InstallTask

\* The kinds of tasks.
LEMMA InfoFacts ==
    ASSUME NEW u
    PROVE  /\ Info(<<"build", u>>) = BuildTask(u) /\ Info(<<"test", u>>) = TestTask(u)
           /\ Info(<<"pack", u>>) = PackTask(u) /\ Info(<<"publish-assets", u>>) = PublishTask(u)
    BY DEF Info

\* What the protocol declares of a build task.
LEMMA BuildInfo ==
    ASSUME NEW u
    PROVE  /\ Info(<<"build", u>>).outputs = {<<u, "dist">>}
           /\ Info(<<"build", u>>).caching = repo.config.cache
           /\ Info(<<"build", u>>).purge = "NEVER"
           /\ <<u, "src">> \in Info(<<"build", u>>).inputs
           /\ DistSources(DepUnits(u)) \subseteq Info(<<"build", u>>).inputs
<1>1. Info(<<"build", u>>) = BuildTask(u)
    BY InfoFacts
<1> QED
    BY <1>1 DEF BuildTask

\* What it declares of a test task.
LEMMA TestInfo ==
    ASSUME NEW u
    PROVE  /\ Info(<<"test", u>>).caching = TRUE
           /\ Info(<<"test", u>>).purge = "ALWAYS"
           /\ <<u, "dist", "src">> \in Info(<<"test", u>>).inputs
           /\ DistSources(DepUnits(u)) \subseteq Info(<<"test", u>>).inputs
<1>1. Info(<<"test", u>>) = TestTask(u)
    BY InfoFacts
<1> QED
    BY <1>1 DEF TestTask

\* What it declares of a pack task.
LEMMA PackInfo ==
    ASSUME NEW u
    PROVE  /\ Info(<<"pack", u>>).caching = TRUE
           /\ Info(<<"pack", u>>).purge = "ALWAYS"
           /\ DistSources({u} \cup DepUnits(u)) \subseteq Info(<<"pack", u>>).inputs
<1>1. Info(<<"pack", u>>) = PackTask(u)
    BY InfoFacts
<1> QED
    BY <1>1 DEF PackTask

\* What it declares of a publish-assets task.
LEMMA PublishInfo ==
    ASSUME NEW u
    PROVE  <<u, "dist", "src">> \in Info(<<"publish-assets", u>>).inputs
<1>1. Info(<<"publish-assets", u>>) = PublishTask(u)
    BY InfoFacts
<1> QED
    BY <1>1 DEF PublishTask

\* The units whose dist directories a task of this kind reads.
Reads(k, u) == IF k = "build" THEN Reach(repo.deps, u) \ {u}
               ELSE IF k = "publish-assets" THEN {u} ELSE Reach(repo.deps, u)

Readers == {"test", "pack", "publish-assets"}

\* A task depends on the build of each unit whose dist directory it reads: the
\* planner finds the directory among its inputs.
LEMMA NeedsBuilds ==
    ASSUME repo \in Repos, NEW u \in Units, NEW k \in {"build"} \cup Readers, <<k, u>> \in Tasks,
           NEW v \in Reads(k, u)
    PROVE  <<"build", v>> \in Needs(<<k, u>>) \cap Tasks
<1>1. v \in Units /\ v \in Reach(repo.deps, u)
    BY ReachFacts, RepoFacts DEF Reads
<1>2. <<"build", v>> \in Catalog
    <2>1. Exists("build", v)
        BY Zenon DEF Exists
    <2> QED
        BY <1>1, <2>1 DEF Catalog, Kinds
<1>3. <<"build", v>> \in repo.wanted
    BY <1>1, RepoFacts DEF Readers
<1>4. <<v, "dist">> \in Info(<<"build", v>>).outputs
    BY BuildInfo
<1>5. <<v, "dist", "src">> \in Info(<<k, u>>).inputs
    <2>1. CASE k = "build"
        BY <1>1, <2>1, BuildInfo DEF DistSources, DepUnits, Reads
    <2>2. CASE k = "test"
        BY <1>1, <2>2, TestInfo DEF DistSources, DepUnits
    <2>3. CASE k = "pack"
        BY <1>1, <2>3, PackInfo DEF DistSources, DepUnits
    <2>4. CASE k = "publish-assets"
        BY <2>4, PublishInfo DEF Reads
    <2> QED
        BY <2>1, <2>2, <2>3, <2>4 DEF Readers
<1>6. /\ Len(<<v, "dist">>) <= Len(<<v, "dist", "src">>)
      /\ \A n \in 1 .. Len(<<v, "dist">>) : <<v, "dist">>[n] = <<v, "dist", "src">>[n]
    OBVIOUS
<1> QED
    BY <1>2, <1>3, <1>4, <1>5, <1>6 DEF Needs, Tasks

-----------------------------------------------------------------------------
(* The inductive invariant.                                                *)

\* The build task of u has passed.
BuildOK(u) == Phase(<<"build", u>>) = "OK"

\* The ranges of the variables as far as steps depend on them.
Shape ==
    /\ repo \in Repos
    /\ phase \in [Tasks -> {"idle", "running"} \cup Ended]
    /\ fp = [t \in Tasks |-> fp[t]]
    /\ src \in [Units -> Sources]
    /\ dist = [u \in Units |-> dist[u]]
    /\ toRun = [u \in Units |-> toRun[u]]
    /\ rerun = [u \in Units |-> rerun[u]]
    /\ packed = [u \in Units |-> packed[u]]
    /\ prepared = [u \in Units |-> prepared[u]]
    /\ stage \in {"RESOLVE", "RUN"} => tsconfig = repo.deps
    /\ stage # "RUN" => (\A t \in Tasks : phase[t] = "idle") /\ uber = "none"

\* What is known of the uber build.  One that failed on its own is done with all
\* units it could compile.
CompilerInv ==
    /\ uber \in {"none", "running", "OK", "FAIL", "CRASH"} /\ compiled \subseteq Units
    /\ compilers = (IF uber = "none" THEN 0 ELSE 1)
    /\ ~repo.config.uber => uber = "none"
    /\ uber = "none" => compiled = {}
    /\ uber = "OK" => compiled = Units
    /\ uber = "FAIL" /\ ~stopped => \A u \in Units : ~Compilable(u)
    /\ repo.config.uber =>
        \A u \in Units : Phase(<<"build", u>>) = "running" => uber # "none"

\* One step of task t.
Moves(t) ==
    /\ stage = "RUN" /\ UNCHANGED <<repo, stage, tsconfig, build, src>>
    /\ phase' = [phase EXCEPT ![t] = phase'[t]]
    /\ \/ phase[t] = "idle" /\ phase'[t] = "CANNOT_START" /\ UNCHANGED <<fp, store>>
       \/ /\ phase[t] = "idle" /\ phase'[t] \in {"running", "OK"} /\ NeedsPassed(t)
          /\ fp' = [fp EXCEPT ![t] = Fingerprint(t)] /\ UNCHANGED store
       \/ /\ phase[t] = "running" /\ phase'[t] \in {"OK", "FAIL", "CRASH"} /\ UNCHANGED fp
          /\ store' = IF phase'[t] = "CRASH" THEN store
                      ELSE Over([k \in {<<t, fp[t]>>} |-> [verdict |-> phase'[t], outputs |-> Outputs(t)]],
                                store)

\* A task that ends.
LEMMA EndMoves ==
    ASSUME Shape, NEW t \in Tasks, NEW kind, Running(kind, t),
           NEW status \in {"OK", "FAIL", "CRASH"}, End(t, status)
    PROVE  Moves(t)
BY DEF Shape, Running, End, Moves, catalogVars

\* A task that begins.
LEMMA BeginMoves ==
    ASSUME Shape, NEW t \in Tasks, NEW kind, Begin(kind, t)
    PROVE  Moves(t)
BY DEF Shape, Begin, Moves, Ready, Started, catalogVars

\* Every step of a task moves its phase, and it alone, forward.
LEMMA StepMoves ==
    ASSUME Shape, NEW t \in Tasks, Step(t)
    PROVE  Moves(t)
<1>1. CASE CannotStart(t)
    BY <1>1 DEF CannotStart, Ready, Started, Shape, Moves, catalogVars
<1>2. CASE Hit(t)
    BY <1>2 DEF Hit, Ready, Started, Shape, Moves, catalogVars
<1>3. CASE BuildBegins(t) \/ TestBegins(t) \/ PackBegins(t) \/ PublishBegins(t) \/ ScriptBegins(t)
    BY <1>3, BeginMoves DEF BuildBegins, TestBegins, PackBegins, PublishBegins, ScriptBegins
<1>4. ASSUME NEW status \in {"OK", "FAIL", "CRASH"}, BuildSettles(t, status) PROVE Moves(t)
    BY <1>4, EndMoves DEF BuildSettles
<1>5. CASE JestReports(t)
    <2>1. \A ret \in {"OK", "FAIL"}, v \in Validations(t[2]) : TestStatus(ret, v) \in {"OK", "FAIL", "CRASH"}
        BY DEF Validations, TestStatus
    <2> QED
        BY <1>5, <2>1, EndMoves DEF JestReports
<1>6. CASE JestSilent(t)
    BY <1>6, EndMoves DEF JestSilent
<1>7. CASE CustomTest(t)
    <2>1. \A ret \in {"OK", "FAIL"}, v \in Validations(t[2]) : TestStatus(ret, v) \in {"OK", "FAIL", "CRASH"}
        BY DEF Validations, TestStatus
    <2> QED
        BY <1>7, <2>1, EndMoves DEF CustomTest
<1>8. CASE Pack(t) \/ Publish(t) \/ Gen(t) \/ Install(t)
    BY <1>8, EndMoves DEF Pack, Publish, Gen, Install
<1> QED
    BY <1>1, <1>2, <1>3, <1>4, <1>5, <1>6, <1>7, <1>8 DEF Step

\* What a step leaves alone.
LEMMA StepLeaves ==
    ASSUME NEW t \in Tasks, Step(t)
    PROVE  /\ t[1] # "build" => UNCHANGED <<uber, compiled, compilers, stopped, dist>>
           /\ t[1] # "test" => UNCHANGED <<toRun, rerun, passed>>
           /\ t[1] # "pack" => UNCHANGED packed
           /\ t[1] # "publish-assets" => UNCHANGED prepared
BY DEF Step, CannotStart, Hit, BuildBegins, BuildSettles, TestBegins, JestReports, JestSilent, CustomTest,
       PackBegins, Pack, PublishBegins, Publish, ScriptBegins, Gen, Install, Begin, Running, TestFrame,
       compilerVars, testVars, assetVars

\* No task stops a compiler.
LEMMA StepsDoNotStop ==
    ASSUME NEW t \in Tasks, Step(t)
    PROVE  stopped' = stopped
BY DEF Step, CannotStart, Hit, BuildBegins, BuildSettles, TestBegins, JestReports, JestSilent, CustomTest,
   PackBegins, Pack, PublishBegins, Publish, ScriptBegins, Gen, Install, TestFrame, compilerVars

\* The first build.
LEMMA InitShape == Init => Shape /\ CompilerInv
<1> SUFFICES ASSUME Init PROVE Shape /\ CompilerInv
    OBVIOUS
<1>1. FirstSource \in Sources
    BY SourcesAssumption
<1>2. Shape
    BY <1>1 DEF Init, Shape, Ended
<1>3. CompilerInv
    BY DEF Init, CompilerInv, Phase
<1> QED
    BY <1>2, <1>3

\* The next build starts with idle tasks and no compiler.
LEMMA NextBuildShape ==
    ASSUME Shape, NextBuild
    PROVE  Shape' /\ CompilerInv'
<1>1. Tasks' = Tasks /\ repo' = repo
    BY DEF NextBuild, Tasks, Catalog, Exists, HasRunScript
<1>2. Shape'
    BY <1>1 DEF NextBuild, Shape, Ended
<1>3. CompilerInv'
    BY <1>1 DEF NextBuild, CompilerInv, Phase
<1> QED
    BY <1>2, <1>3

\* A build that gets to run has written each tsconfig.json.
LEMMA CatalogShape ==
    ASSUME Shape, CompilerInv, CatalogStep
    PROVE  Shape' /\ CompilerInv'
<1>1. repo' = repo /\ UNCHANGED <<buildVars, compilerVars, dist, testVars, packed, assetVars>>
    BY DEF CatalogStep, Initialize, ResolveBuildTasks, NothingToResolve
<1>2. Tasks' = Tasks
    BY <1>1 DEF Tasks, Catalog, Exists, HasRunScript
<1>3. stage' = "INIT" => stage = "INIT"
    BY DEF CatalogStep, Initialize, ResolveBuildTasks, NothingToResolve, InitializeFailure
<1>4. stage # "RUN" /\ (stage' \in {"RESOLVE", "RUN"} => tsconfig' = repo.deps)
    <2>1. [u \in Units |-> repo.deps[u]] = repo.deps
        BY RepoFacts DEF Shape
    <2> QED
        BY <2>1 DEF CatalogStep, Initialize, ResolveBuildTasks, NothingToResolve, InitializeFailure, TsConfigs, Shape
<1>5. Shape'
    BY <1>1, <1>2, <1>4 DEF Shape, buildVars, compilerVars, testVars, assetVars
<1>6. CompilerInv'
    BY <1>1, <1>2, <1>4 DEF Shape, CompilerInv, Phase, buildVars, compilerVars
<1> QED
    BY <1>5, <1>6

\* The compiler gets to a unit or ends.
LEMMA CompilerShape ==
    ASSUME Shape, CompilerInv, Compiler
    PROVE  Shape' /\ CompilerInv'
<1>1. UNCHANGED <<catalogVars, buildVars, compilers, testVars, packed, assetVars, store>>
    BY DEF Compiler, CompilerExits, CompileUnit
<1>2. Tasks' = Tasks /\ stage = "RUN"
    BY <1>1 DEF Tasks, Catalog, Exists, HasRunScript, catalogVars, Compiler, CompilerExits, CompileUnit, Shape
<1>3. dist' = [u \in Units |-> dist'[u]]
    BY DEF Compiler, CompilerExits, CompileUnit, Shape
<1>4. Shape'
    BY <1>1, <1>2, <1>3 DEF Shape, catalogVars, buildVars, testVars, assetVars
<1>5. ASSUME CompilerExits PROVE CompilerInv'
    BY <1>1, <1>2, <1>5 DEF CompilerExits, CompilerInv, Phase, Compilable, Compiles, catalogVars, buildVars
<1>6. ASSUME NEW u \in Units, CompileUnit(u) PROVE CompilerInv'
    BY <1>1, <1>2, <1>6 DEF CompileUnit, CompilerInv, Phase, catalogVars, buildVars
<1> QED
    BY <1>4, <1>5, <1>6 DEF Compiler

\* Steps of tasks: a build task that begins finds or starts the uber build.
LEMMA StepShape ==
    ASSUME Shape, CompilerInv, NEW t \in Tasks, Step(t)
    PROVE  Shape' /\ CompilerInv'
<1>1. Moves(t) /\ Tasks' = Tasks
    BY StepMoves DEF Moves, Tasks, Catalog, Exists, HasRunScript
<1>2. /\ dist' = [u \in Units |-> dist'[u]] /\ packed' = [u \in Units |-> packed'[u]]
      /\ toRun' = [u \in Units |-> toRun'[u]] /\ rerun' = [u \in Units |-> rerun'[u]]
      /\ prepared' = [u \in Units |-> prepared'[u]]
    BY DEF Shape, Step, CannotStart, Hit, BuildBegins, BuildSettles, TestBegins, JestReports, JestSilent, CustomTest,
       PackBegins, Pack, PublishBegins, Publish, ScriptBegins, Gen, Install, Begin, Running, TestFrame,
       compilerVars, testVars, assetVars
<1>3. Shape'
    <2>1. phase' \in [Tasks -> {"idle", "running"} \cup Ended] /\ fp' = [s \in Tasks |-> fp'[s]]
        BY <1>1 DEF Moves, Shape, Ended
    <2> QED
        BY <1>1, <1>2, <2>1 DEF Moves, Shape
<1>4. CASE BuildBegins(t)
    <2>1. UNCHANGED <<compiled, stopped, tsconfig, src, repo>>
        BY <1>1, <1>4 DEF BuildBegins, Moves
    <2>2. /\ uber' = (IF repo.config.uber /\ uber = "none" THEN "running" ELSE uber)
          /\ compilers' = IF repo.config.uber /\ uber = "none" THEN compilers + 1 ELSE compilers
        BY <1>4 DEF BuildBegins, UberStarts
    <2> QED
        BY <1>3, <2>1, <2>2, RepoFacts DEF CompilerInv, Phase, Compilable, Compiles, Shape
<1>5. CASE ~BuildBegins(t)
    <2>1. UNCHANGED <<uber, compiled, compilers, stopped, tsconfig, src, repo>>
        BY <1>1, <1>5 DEF Moves, Step, CannotStart, Hit, BuildSettles, TestBegins, JestReports, JestSilent, CustomTest,
           PackBegins, Pack, PublishBegins, Publish, ScriptBegins, Gen, Install, Begin, Running, TestFrame,
           compilerVars, testVars, assetVars
    <2>2. \A s \in Tasks : s[1] = "build" /\ phase'[s] = "running" => phase[s] = "running"
        BY <1>1, <1>5 DEF Moves, Shape, Step, CannotStart, Hit, BuildSettles, TestBegins, JestReports, JestSilent, CustomTest,
           PackBegins, Pack, PublishBegins, Publish, ScriptBegins, Gen, Install, Begin, Running
    <2> QED
        BY <1>1, <1>3, <2>1, <2>2 DEF CompilerInv, Phase, Compilable, Compiles, Shape
<1> QED
    BY <1>3, <1>4, <1>5

\* All steps keep the shape of the state and what is known of the compiler.
LEMMA NextShape ==
    ASSUME Shape, CompilerInv, [Next]_vars
    PROVE  Shape' /\ CompilerInv'
<1>1. CASE UNCHANGED vars
    <2>1. Tasks' = Tasks
        BY <1>1 DEF vars, catalogVars, Tasks, Catalog, Exists, HasRunScript
    <2> QED
        BY <1>1, <2>1 DEF vars, catalogVars, buildVars, compilerVars, testVars, assetVars, Shape, CompilerInv,
                     Phase, Compilable, Compiles
<1> QED
    BY <1>1, NextBuildShape, CatalogShape, CompilerShape, StepShape DEF Next

\* However many build tasks run at a time, a build starts one uber build, and no
\* build task waits for one that nobody started.
THEOREM CompilesOnce == Spec => []OneCompiler
<1>1. Init => Shape /\ CompilerInv
    BY InitShape
<1>2. Shape /\ CompilerInv /\ [Next]_vars => (Shape /\ CompilerInv)'
    BY NextShape
<1>3. Shape /\ CompilerInv => OneCompiler
    BY DEF CompilerInv, OneCompiler
<1> QED
    BY <1>1, <1>2, <1>3, PTL DEF Spec

-----------------------------------------------------------------------------
(* Compilation.                                                            *)

\* The compiler accepts these sources; a dist directory holds them.
Passable(s) == \A f \in DOMAIN s : s[f] \notin Bad
Covers(d, s) == \A f \in DOMAIN s : f \in DOMAIN d /\ d[f] = s[f]

\* The compiler is done with units that compile, and their dist directory is there.
CompiledCovers ==
    \A u \in compiled : Compiles(u) /\ (Undisturbed => Covers(dist[u], src[u]))

\* So is that of units whose build task passed.
BuiltMatches ==
    \A u \in Units : BuildOK(u) => Compiles(u) /\ (Undisturbed => dist[u] = src[u])

\* The fingerprint of a build task that runs is that of the sources.
PrintsHold ==
    \A u \in Units : Phase(<<"build", u>>) = "running" => fp[<<"build", u>>][<<u, "src">>] = src[u]

\* What a task reads is built.
ReadsBuilt ==
    \A k \in {"build"} \cup Readers, u \in Units :
        Phase(<<k, u>>) \in {"running", "OK"} => \A v \in Reads(k, u) : BuildOK(v)

\* The record of a build that passed holds what its sources compile to; that of one
\* that failed on sources that compile (a script did, or another unit) holds it too.
BuildRecord(u, p, r) ==
    /\ r.verdict = "OK" =>
        Passable(p[<<u, "src">>]) /\ (Undisturbed => r.outputs.dist = p[<<u, "src">>])
    /\ r.verdict = "FAIL" /\ Undisturbed /\ repo.config.cache /\ Passable(p[<<u, "src">>]) =>
        Covers(r.outputs.dist, p[<<u, "src">>])

BuildRecords ==
    \A u \in Units, k \in DOMAIN store : k[1] = <<"build", u>> => BuildRecord(u, k[2], store[k])

SourceInv == CompiledCovers /\ BuiltMatches /\ PrintsHold /\ ReadsBuilt /\ BuildRecords

\* What the inputs hold that the proofs are about.
LEMMA ContentFacts ==
    ASSUME NEW u
    PROVE  Content(<<u, "src">>) = src[u] /\ Content(<<u, "dist", "src">>) = dist[u]
<1>1. Content(<<u, "src">>) = src[u]
    BY DEF Content
<1>2. Content(<<u, "dist", "src">>) = dist[u]
    BY DEF Content
<1> QED
    BY <1>1, <1>2

\* What is recorded of a task.
LEMMA OutputsFacts ==
    ASSUME NEW u
    PROVE  /\ Outputs(<<"build", u>>) = [dist |-> dist'[u]]
           /\ Outputs(<<"test", u>>) = [rerun |-> rerun'[u], summary |-> summary'[u]]
           /\ Outputs(<<"pack", u>>) = [packed |-> packed'[u]]
BY DEF Outputs

\* What a step of t records is its verdict with its outputs.
LEMMA StoreMoves ==
    ASSUME NEW t, Moves(t), NEW k \in DOMAIN store'
    PROVE  \/ k \in DOMAIN store /\ store'[k] = store[k]
           \/ /\ phase[t] = "running" /\ k = <<t, fp[t]>>
              /\ store'[k] = [verdict |-> phase'[t], outputs |-> Outputs(t)]
<1> DEFINE new == [i \in {<<t, fp[t]>>} |-> [verdict |-> phase'[t], outputs |-> Outputs(t)]]
<1>1. CASE store' = store
    BY <1>1
<1>2. CASE phase[t] = "running" /\ store' = Over(new, store)
    <2>1. store' = [x \in DOMAIN new \cup DOMAIN store |-> IF x \in DOMAIN new THEN new[x] ELSE store[x]]
        BY <1>2 DEF Over
    <2>2. CASE k \in DOMAIN new
        <3>1. store'[k] = new[k] /\ k = <<t, fp[t]>>
            BY <2>1, <2>2
        <3> QED
            BY <1>2, <2>2, <3>1
    <2>3. CASE k \notin DOMAIN new
        BY <2>1, <2>3
    <2> QED
        BY <2>2, <2>3
<1> QED
    BY <1>1, <1>2 DEF Moves

\* What the fingerprints of tasks hold.
LEMMA PrintFacts ==
    ASSUME Shape, NEW u \in Units
    PROVE  /\ Fingerprint(<<"build", u>>)[<<u, "src">>] = src[u]
           /\ \A k \in {"test", "pack"}, v \in Reach(repo.deps, u) :
                Fingerprint(<<k, u>>)[<<v, "dist", "src">>] = dist[v]
<1>1. Fingerprint(<<"build", u>>)[<<u, "src">>] = src[u]
    BY BuildInfo, ContentFacts DEF Fingerprint
<1>2. ASSUME NEW v \in Reach(repo.deps, u)
      PROVE  /\ <<v, "dist", "src">> \in Info(<<"test", u>>).inputs
             /\ <<v, "dist", "src">> \in Info(<<"pack", u>>).inputs
    BY TestInfo, PackInfo DEF DistSources, DepUnits
<1>3. ASSUME NEW v \in Reach(repo.deps, u), NEW k \in {"test", "pack"}
      PROVE  Fingerprint(<<k, u>>)[<<v, "dist", "src">>] = dist[v]
    BY <1>2, ContentFacts DEF Fingerprint
<1> QED
    BY <1>1, <1>3

\* What a record found for a task is.
LEMMA RecordFound ==
    ASSUME NEW t, Recorded(t).verdict # "UNKNOWN"
    PROVE  /\ Info(t).caching /\ <<t, Fingerprint(t)>> \in DOMAIN store
           /\ Recorded(t) = store[<<t, Fingerprint(t)>>]
BY DEF Recorded, NoRecord

\* What a task that passed leaves passed.
LEMMA BuiltStays ==
    ASSUME Shape, NEW t \in Tasks, Moves(t), NEW u \in Units, BuildOK(u)
    PROVE  BuildOK(u)'
BY DEF Shape, Moves, BuildOK, Phase

\* A task that begins finds the units it reads built.
LEMMA NeedsBuilt ==
    ASSUME Shape, NEW k \in {"build"} \cup Readers, NEW u \in Units, <<k, u>> \in Tasks,
           NeedsPassed(<<k, u>>), NEW v \in Reads(k, u)
    PROVE  BuildOK(v)
BY NeedsBuilds DEF Shape, NeedsPassed, BuildOK, Phase

\* And they stay built while it runs, and after.
LEMMA ReadsStep ==
    ASSUME Shape, ReadsBuilt, NEW t \in Tasks, Moves(t)
    PROVE  ReadsBuilt'
<1>1. repo' = repo /\ Tasks' = Tasks
    BY DEF Moves, Tasks, Catalog, Exists, HasRunScript
<1> SUFFICES ASSUME NEW k \in {"build"} \cup Readers, NEW u \in Units,
                    Phase(<<k, u>>)' \in {"running", "OK"}, NEW v \in Reads(k, u)
             PROVE  BuildOK(v)'
    BY <1>1 DEF ReadsBuilt, Reads
<1>2. <<k, u>> \in Tasks /\ v \in Units
    BY <1>1, ReachFacts, RepoFacts DEF Shape, Moves, Phase, Ended, Reads
<1>3. CASE Phase(<<k, u>>) \in {"running", "OK"}
    BY <1>2, <1>3, BuiltStays DEF ReadsBuilt
<1>4. CASE Phase(<<k, u>>) \notin {"running", "OK"}
    <2>1. t = <<k, u>> /\ NeedsPassed(t)
        BY <1>2, <1>4 DEF Shape, Moves, Phase
    <2> QED
        BY <1>2, <2>1, NeedsBuilt, BuiltStays
<1> QED
    BY <1>3, <1>4

\* If nobody stopped it, a compiler that failed is done with each unit that
\* compiles and needs units only that compile.
LEMMA FailedWithoutMe ==
    ASSUME Shape, CompilerInv, BuiltMatches, stage = "RUN", uber = "FAIL", ~stopped, NEW u \in Units,
           Compiles(u), \A v \in Reads("build", u) : BuildOK(v)
    PROVE  u \in compiled
<1> DEFINE C == {v \in Reach(repo.deps, u) : v \notin compiled}
<1>1. repo.deps \in [Units -> SUBSET Units] /\ u \in Reach(repo.deps, u) /\ Reach(repo.deps, u) \subseteq Units
    BY RepoFacts, ReachFacts DEF Shape
<1>2. \A v \in Reach(repo.deps, u) : Compiles(v)
    BY <1>1 DEF Reads, BuiltMatches
<1>3. ASSUME C # {} PROVE FALSE
    <2>1. PICK w \in C : repo.deps[w] \cap C = {}
        BY <1>1, <1>3, RepoFacts DEF Shape
    <2>2. repo.deps[w] \subseteq compiled
        BY <1>1, <2>1, ReachFacts
    <2> QED
        BY <1>1, <1>2, <2>1, <2>2 DEF CompilerInv, Compilable, Shape
<1> QED
    BY <1>1, <1>3

\* A step of a task other than a build task.
LEMMA SourceKept ==
    ASSUME Shape, SourceInv, NEW t \in Tasks, Step(t), t[1] # "build"
    PROVE  SourceInv'
<1>1. Moves(t) /\ UNCHANGED <<uber, compiled, compilers, stopped, dist>>
    BY StepMoves, StepLeaves
<1>2. UNCHANGED <<repo, src>> /\ Tasks' = Tasks
    BY <1>1 DEF Moves, Tasks, Catalog, Exists, HasRunScript
<1>3. /\ DOMAIN phase' = DOMAIN phase
      /\ \A s \in DOMAIN phase : s[1] = "build" => phase'[s] = phase[s] /\ fp'[s] = fp[s]
    BY <1>1, <1>2 DEF Moves, Shape
<1>4. ReadsBuilt'
    BY <1>1, ReadsStep DEF SourceInv
<1>5. CompiledCovers' /\ BuiltMatches' /\ PrintsHold'
    <2>1. CompiledCovers'
        BY <1>1, <1>2 DEF SourceInv, CompiledCovers, Compiles, Undisturbed
    <2>2. BuiltMatches'
        BY <1>1, <1>2, <1>3 DEF SourceInv, BuiltMatches, Compiles, Undisturbed, BuildOK, Phase
    <2>3. PrintsHold'
        BY <1>1, <1>2, <1>3 DEF SourceInv, PrintsHold, Phase
    <2> QED
        BY <2>1, <2>2, <2>3
<1>6. BuildRecords'
    <2>1. \A k \in DOMAIN store' : k[1][1] = "build" => k \in DOMAIN store /\ store'[k] = store[k]
        BY <1>1 DEF Moves, Over
    <2> QED
        BY <1>1, <1>2, <2>1 DEF SourceInv, BuildRecords, BuildRecord, Undisturbed
<1> QED
    BY <1>4, <1>5, <1>6 DEF SourceInv

\* A step of a build task: what is left to show of its unit.
LEMMA SourceMoved ==
    ASSUME Shape, CompilerInv, SourceInv, NEW t \in Tasks, NEW u \in Units, t = <<"build", u>>, Moves(t),
           UNCHANGED <<compiled, stopped>>, \A v \in Units \ {u} : dist'[v] = dist[v],
           u \in compiled /\ Undisturbed => Covers(dist'[u], src[u]),
           BuildOK(u)' => Compiles(u) /\ (Undisturbed => dist'[u] = src[u]),
           phase[t] = "running" => BuildRecord(u, fp[t], [verdict |-> phase'[t], outputs |-> [dist |-> dist'[u]]])
    PROVE  SourceInv'
<1>1. UNCHANGED <<repo, src>> /\ Tasks' = Tasks /\ Undisturbed' = Undisturbed
    BY DEF Moves, Tasks, Catalog, Exists, HasRunScript, Undisturbed
<1>2. /\ DOMAIN phase' = DOMAIN phase
      /\ \A s \in DOMAIN phase : s # t => phase'[s] = phase[s] /\ fp'[s] = fp[s]
    BY <1>1 DEF Moves, Shape
<1>3. ReadsBuilt'
    BY ReadsStep DEF SourceInv
<1>4. CompiledCovers'
    BY <1>1 DEF SourceInv, CompiledCovers, Compiles, Shape, CompilerInv
<1>5. BuiltMatches'
    <2>1. \A v \in Units \ {u} : BuildOK(v)' = BuildOK(v)
        BY <1>2 DEF BuildOK, Phase
    <2>2. \A v \in Units : Compiles(v)' = Compiles(v)
        BY <1>1 DEF Compiles
    <2>3. \A v \in Units \ {u} : BuildOK(v)' => Compiles(v)' /\ (Undisturbed' => dist'[v] = src'[v])
        BY <1>1, <2>1, <2>2 DEF SourceInv, BuiltMatches
    <2>4. BuildOK(u)' => Compiles(u)' /\ (Undisturbed' => dist'[u] = src'[u])
        BY <1>1, <2>2
    <2> QED
        BY <2>3, <2>4 DEF BuiltMatches
<1>6. PrintsHold'
    <2>1. Phase(t)' = "running" => fp'[t][<<u, "src">>] = src[u]
        <3>1. Fingerprint(t)[<<u, "src">>] = src[u]
            BY PrintFacts
        <3>2. phase[t] = Phase(t) /\ phase'[t] = Phase(t)'
            BY <1>1 DEF Moves, Phase, Shape
        <3> QED
            BY <3>1, <3>2 DEF Moves, Shape
    <2> QED
        BY <1>1, <1>2, <2>1 DEF SourceInv, PrintsHold, Phase
<1>7. BuildRecords'
    <2>1. \A k \in DOMAIN store' :
            \/ k \in DOMAIN store /\ store'[k] = store[k]
            \/ /\ phase[t] = "running" /\ k = <<t, fp[t]>>
               /\ store'[k] = [verdict |-> phase'[t], outputs |-> [dist |-> dist'[u]]]
        BY StoreMoves, OutputsFacts
    <2>2. ASSUME NEW v \in Units, NEW k \in DOMAIN store', k[1] = <<"build", v>>
          PROVE  BuildRecord(v, k[2], store'[k])
        BY <2>1, <2>2 DEF SourceInv, BuildRecords
    <2> QED
        BY <1>1, <2>2 DEF BuildRecords, BuildRecord
<1> QED
    BY <1>3, <1>4, <1>5, <1>6, <1>7 DEF SourceInv

\* A step of a build task.
LEMMA BuildStep ==
    ASSUME Shape, CompilerInv, SourceInv, NEW t \in Tasks, NEW u \in Units, t = <<"build", u>>, Step(t)
    PROVE  SourceInv'
<1>1. Moves(t) /\ stage = "RUN"
    BY StepMoves DEF Moves
<1>2. /\ u \in compiled => Compiles(u) /\ (Undisturbed => Covers(dist[u], src[u]))
      /\ BuildOK(u) => Compiles(u) /\ (Undisturbed => dist[u] = src[u])
      /\ Phase(t) = "running" => fp[t][<<u, "src">>] = src[u] /\ \A v \in Reads("build", u) : BuildOK(v)
      /\ \A k \in DOMAIN store : k[1] = <<"build", u>> => BuildRecord(u, k[2], store[k])
    BY DEF SourceInv, CompiledCovers, BuiltMatches, PrintsHold, ReadsBuilt, BuildRecords
<1>3. Fingerprint(t)[<<u, "src">>] = src[u]
    BY PrintFacts
<1>4. src[u] \in Sources /\ src[u] = [f \in DOMAIN src[u] |-> src[u][f]]
    BY SourcesAssumption DEF Shape
<1>5. phase[t] = Phase(t) /\ phase'[t] = Phase(t)'
    <2>1. Tasks' = Tasks
        BY <1>1 DEF Moves, Tasks, Catalog, Exists, HasRunScript
    <2> QED
        BY <1>1, <2>1 DEF Shape, Phase, Moves
<1>6. CASE CannotStart(t)
    <2>1. UNCHANGED <<compiled, stopped, dist>> /\ phase[t] = "idle" /\ phase'[t] = "CANNOT_START"
        BY <1>1, <1>6 DEF CannotStart, Ready, compilerVars, Shape, Moves
    <2> QED
        BY ONLY <1>1, <1>2, <1>5, <2>1, SourceMoved, Shape, CompilerInv, SourceInv, t \in Tasks, u \in Units,
                t = <<"build", u>> DEF BuildOK
<1>7. CASE Hit(t)
    <2>1. /\ UNCHANGED <<compiled, stopped>> /\ phase[t] = "idle" /\ phase'[t] = "OK"
          /\ Recorded(t).verdict = "OK"
          /\ dist' = [dist EXCEPT ![u] = Recorded(t).outputs.dist]
        BY <1>1, <1>7 DEF Hit, Ready, compilerVars, Shape, Moves
    <2>2. Passable(src[u]) /\ (Undisturbed => Recorded(t).outputs.dist = src[u])
        <3>1. <<t, Fingerprint(t)>> \in DOMAIN store /\ Recorded(t) = store[<<t, Fingerprint(t)>>]
            BY <2>1, RecordFound
        <3>2. BuildRecord(u, Fingerprint(t), Recorded(t))
            BY <1>2, <3>1
        <3> QED
            BY <1>3, <2>1, <3>2 DEF BuildRecord
    <2>3. dist'[u] = Recorded(t).outputs.dist /\ \A v \in Units \ {u} : dist'[v] = dist[v]
        BY <2>1 DEF Shape
    <2>4. Compiles(u) /\ (Undisturbed => dist'[u] = src[u] /\ Covers(dist'[u], src[u]))
        BY <2>2, <2>3 DEF Passable, Compiles, Covers
    <2> QED
        BY <1>1, <2>1, <2>3, <2>4, SourceMoved
<1>8. CASE BuildBegins(t)
    <2>1. /\ UNCHANGED <<compiled, stopped>> /\ phase[t] = "idle" /\ phase'[t] = "running"
          /\ Recorded(t).verdict # "OK"
          /\ dist' = [dist EXCEPT ![u] = Left(t, Recorded(t)).dist]
        BY <1>1, <1>8 DEF BuildBegins, Begin, Ready, Shape, Moves
    <2>2. dist'[u] = Left(t, Recorded(t)).dist /\ \A v \in Units \ {u} : dist'[v] = dist[v]
        BY <2>1 DEF Shape
    <2>3. Left(t, Recorded(t)).dist = IF Recorded(t).verdict = "FAIL" THEN Recorded(t).outputs.dist ELSE dist[u]
        BY BuildInfo DEF Left, Purged
    <2>4. Recorded(t).verdict = "FAIL" /\ Undisturbed /\ Compiles(u) => Covers(Recorded(t).outputs.dist, src[u])
        BY <1>2, <1>3, RecordFound, BuildInfo DEF BuildRecord, Passable, Compiles
    <2> QED
        BY <1>1, <1>2, <1>5, <2>1, <2>2, <2>3, <2>4, SourceMoved DEF BuildOK
<1>9. ASSUME NEW status \in {"OK", "FAIL", "CRASH"}, BuildSettles(t, status)
      PROVE  SourceInv'
    <2>1. /\ UNCHANGED <<compiled, stopped>> /\ phase[t] = "running"
          /\ phase'[t] = status \/ (status = "OK" /\ phase'[t] = "FAIL")
        BY <1>1, <1>9 DEF BuildSettles, Running, End, compilerVars, Shape, Moves
    <2>2. /\ IF repo.config.uber THEN uber = status
             ELSE status \in {"OK", "FAIL"} /\ (status = "OK") = Compiles(u)
          /\ dist' = IF status # "OK" THEN dist
                     ELSE [dist EXCEPT ![u] = Matched(u, IF repo.config.uber THEN dist[u]
                                                          ELSE Over(src[u], dist[u]))]
        BY <1>9 DEF BuildSettles
    <2>3. CASE status = "OK"
        <3>1. dist'[u] = Matched(u, IF repo.config.uber THEN dist[u] ELSE Over(src[u], dist[u]))
              /\ \A v \in Units \ {u} : dist'[v] = dist[v]
            BY <2>2, <2>3 DEF Shape
        <3>2. Compiles(u) /\ (Undisturbed => dist'[u] = src[u])
            <4>1. CASE repo.config.uber
                <5>1. u \in compiled
                    BY <2>2, <2>3, <4>1 DEF CompilerInv
                <5> QED
                    BY <1>2, <1>4, <3>1, <4>1, <5>1 DEF Covers, Matched
            <4>2. CASE ~repo.config.uber
                BY <1>4, <2>2, <2>3, <3>1, <4>2 DEF Over, Matched
            <4> QED
                BY <4>1, <4>2
        <3>3. Undisturbed => Covers(dist'[u], src[u])
            BY <3>2 DEF Covers
        <3>4. BuildRecord(u, fp[t], [verdict |-> phase'[t], outputs |-> [dist |-> dist'[u]]])
            BY <1>2, <1>5, <2>1, <3>2, <3>3 DEF BuildRecord, Passable, Compiles
        <3> QED
            BY <1>1, <2>1, <3>1, <3>2, <3>3, <3>4, SourceMoved
    <2>4. CASE status # "OK"
        <3>1. dist' = dist /\ phase'[t] \in {"FAIL", "CRASH"}
            BY <2>1, <2>2, <2>4
        <3>2. ASSUME phase'[t] = "FAIL", Undisturbed, repo.config.cache, Passable(src[u])
              PROVE  Covers(dist[u], src[u])
            <4>1. Compiles(u) /\ ~stopped
                BY <3>2 DEF Passable, Compiles, Undisturbed
            <4>2. repo.config.uber /\ uber = "FAIL"
                BY <2>1, <2>2, <2>4, <3>2, <4>1
            <4>3. u \in compiled
                BY <1>1, <1>2, <1>5, <2>1, <4>1, <4>2, FailedWithoutMe DEF SourceInv
            <4> QED
                BY <1>2, <3>2, <4>3
        <3>3. BuildRecord(u, fp[t], [verdict |-> phase'[t], outputs |-> [dist |-> dist'[u]]])
            BY <1>2, <1>5, <2>1, <3>1, <3>2 DEF BuildRecord
        <3> QED
            BY <1>1, <1>2, <1>5, <2>1, <3>1, <3>3, SourceMoved DEF BuildOK
    <2> QED
        BY <2>3, <2>4
<1> QED
    BY <1>6, <1>7, <1>8, <1>9 DEF Step, TestBegins, JestReports, JestSilent, CustomTest, PackBegins, Pack,
       PublishBegins, Publish, ScriptBegins, Gen, Install, Begin, Running

\* The first build.
LEMMA InitSource == Init => SourceInv
<1> SUFFICES ASSUME Init PROVE SourceInv
    OBVIOUS
<1>1. \A s : Phase(s) \in {"idle", "not in plan"}
    BY DEF Init, Phase
<1>2. CompiledCovers /\ BuiltMatches
    BY <1>1 DEF Init, CompiledCovers, BuiltMatches, BuildOK
<1>3. PrintsHold /\ ReadsBuilt
    BY <1>1 DEF PrintsHold, ReadsBuilt
<1>4. BuildRecords
    BY DEF Init, BuildRecords, Nothing
<1> QED
    BY <1>2, <1>3, <1>4 DEF SourceInv

\* In the next build nothing is compiled and no task has begun.
LEMMA NextBuildSource ==
    ASSUME Shape, SourceInv, NextBuild
    PROVE  SourceInv'
<1>1. UNCHANGED <<repo, stopped, store>> /\ compiled' = {} /\ phase' = [t \in Tasks |-> "idle"]
    BY DEF NextBuild
<1>2. \A s : Phase(s)' \in {"idle", "not in plan"}
    BY <1>1 DEF Phase
<1>3. CompiledCovers' /\ BuiltMatches'
    BY <1>1, <1>2 DEF CompiledCovers, BuiltMatches, BuildOK
<1>4. PrintsHold' /\ ReadsBuilt'
    BY <1>2 DEF PrintsHold, ReadsBuilt
<1>5. BuildRecords'
    BY <1>1 DEF SourceInv, BuildRecords, BuildRecord, Undisturbed
<1> QED
    BY <1>3, <1>4, <1>5 DEF SourceInv

\* Steps that change neither phases nor records, and let dist directories be.
LEMMA SourceUndisturbed ==
    ASSUME Shape, SourceInv, UNCHANGED <<repo, src, phase, fp, store, dist, compiled>>, stopped => stopped'
    PROVE  SourceInv'
<1>1. Undisturbed' => Undisturbed
    BY DEF Undisturbed
<1>2. CompiledCovers' /\ BuiltMatches'
    BY <1>1 DEF SourceInv, CompiledCovers, BuiltMatches, BuildOK, Phase, Compiles
<1>3. PrintsHold' /\ ReadsBuilt'
    BY DEF SourceInv, PrintsHold, ReadsBuilt, BuildOK, Phase, Reads
<1>4. BuildRecords'
    BY <1>1 DEF SourceInv, BuildRecords, BuildRecord
<1> QED
    BY <1>2, <1>3, <1>4 DEF SourceInv

\* The compiler completes the dist directory of a unit; one that is complete
\* stays as it is.
LEMMA CompileUnitSource ==
    ASSUME Shape, SourceInv, NEW u \in Units, CompileUnit(u)
    PROVE  SourceInv'
<1>1. /\ UNCHANGED <<repo, src, phase, fp, store, stopped>> /\ compiled' = compiled \cup {u} /\ Compiles(u)
      /\ dist' = [dist EXCEPT ![u] = Over(src[u], dist[u])]
    BY DEF CompileUnit, Compilable, catalogVars, buildVars, compilerVars
<1>2. dist'[u] = Over(src[u], dist[u]) /\ \A v \in Units \ {u} : dist'[v] = dist[v]
    BY <1>1 DEF Shape
<1>3. src[u] = [f \in DOMAIN src[u] |-> src[u][f]]
    BY SourcesAssumption DEF Shape
<1>4. Covers(dist'[u], src[u]) /\ (dist[u] = src[u] => dist'[u] = src[u])
    BY <1>2, <1>3 DEF Over, Covers
<1>5. CompiledCovers'
    <2>1. \A v \in compiled : v # u => dist'[v] = dist[v]
        BY <1>1
    <2> QED
        BY <1>1, <1>4, <2>1 DEF SourceInv, CompiledCovers, Compiles, Undisturbed
<1>6. BuiltMatches'
    BY <1>1, <1>2, <1>4 DEF SourceInv, BuiltMatches, BuildOK, Phase, Compiles, Undisturbed
<1>7. PrintsHold' /\ ReadsBuilt'
    BY <1>1 DEF SourceInv, PrintsHold, ReadsBuilt, BuildOK, Phase, Reads
<1>8. BuildRecords'
    BY <1>1 DEF SourceInv, BuildRecords, BuildRecord, Undisturbed
<1> QED
    BY <1>5, <1>6, <1>7, <1>8 DEF SourceInv

\* All steps keep what is known of the dist directories.
LEMMA NextSource ==
    ASSUME Shape, CompilerInv, SourceInv, [Next]_vars
    PROVE  SourceInv'
<1>1. CASE UNCHANGED vars
    <2>1. UNCHANGED <<repo, src, phase, fp, store, dist, compiled, stopped>>
        BY <1>1 DEF vars, catalogVars, buildVars, compilerVars
    <2> QED
        BY <2>1, SourceUndisturbed
<1>2. CASE CatalogStep
    <2>1. UNCHANGED <<repo, src, phase, fp, store, dist, compiled, stopped>>
        BY <1>2 DEF CatalogStep, Initialize, ResolveBuildTasks, NothingToResolve, buildVars, compilerVars
    <2> QED
        BY <2>1, SourceUndisturbed
<1>3. CASE CompilerExits
    <2>1. UNCHANGED <<repo, src, phase, fp, store, dist, compiled>> /\ (stopped => stopped')
        BY <1>3 DEF CompilerExits, catalogVars, buildVars
    <2> QED
        BY <2>1, SourceUndisturbed
<1>4. ASSUME NEW t \in Tasks, Step(t) PROVE SourceInv'
    <2>1. CASE t[1] = "build"
        <3>1. t[2] \in Units /\ t = <<"build", t[2]>>
            BY <2>1, TaskForm DEF InstallTask
        <3> QED
            BY <1>4, <3>1, BuildStep
    <2> QED
        BY <1>4, <2>1, SourceKept
<1> QED
    BY <1>1, <1>2, <1>3, <1>4, NextBuildSource, CompileUnitSource DEF Next, Compiler

\* The inductive invariant.
SafeInv == Shape /\ CompilerInv /\ SourceInv

\* The invariant that the theorems on dist directories rest on.
LEMMA SafeInvariant == Spec => []SafeInv
<1>1. Init => SafeInv
    BY InitShape, InitSource DEF SafeInv
<1>2. SafeInv /\ [Next]_vars => SafeInv'
    BY NextShape, NextSource DEF SafeInv
<1> QED
    BY <1>1, <1>2, PTL DEF Spec

\* As long as no compiler was stopped half-way, or compilation outputs are not cached,
\* a build task that passed, executed or restored, leaves a dist directory that is what
\* the compiler makes of its sources.
THEOREM PassedBuildsMatch == Spec => []DistMatchesSources
<1>1. SafeInv => DistMatchesSources
    BY DEF SafeInv, SourceInv, BuiltMatches, BuildOK, DistMatchesSources
<1> QED
    BY <1>1, SafeInvariant, PTL

\* Where the units a task reads are built, a step of the build changes no dist directory.
LEMMA BuiltStandsStill ==
    ASSUME SafeInv, SafeInv', [Next]_vars, ~NextBuild, Undisturbed, NEW u \in Units, BuildOK(u)
    PROVE  BuildOK(u)' /\ dist'[u] = dist[u] /\ src' = src /\ dist[u] = src[u] /\ repo' = repo
<1>1. UNCHANGED <<repo, src>> /\ (stopped => stopped')
    <2>1. ASSUME NEW t \in Tasks, Step(t) PROVE UNCHANGED <<repo, src>> /\ (stopped => stopped')
        <3>1. Moves(t)
            BY <2>1, StepMoves DEF SafeInv
        <3>2. stopped' = stopped
            BY <2>1, StepsDoNotStop
        <3> QED
            BY <3>1, <3>2 DEF Moves
    <2>2. CatalogStep \/ Compiler \/ UNCHANGED vars => UNCHANGED <<repo, src>> /\ (stopped => stopped')
        BY DEF CatalogStep, Initialize, ResolveBuildTasks, NothingToResolve, Compiler, CompilerExits, CompileUnit,
           vars, catalogVars, buildVars, compilerVars
    <2> QED
        BY <2>1, <2>2 DEF Next
<1>2. BuildOK(u)'
    <2>1. CatalogStep \/ Compiler \/ UNCHANGED vars => UNCHANGED phase
        BY DEF CatalogStep, Compiler, CompilerExits, CompileUnit, vars, buildVars
    <2>2. UNCHANGED phase => BuildOK(u)'
        BY DEF BuildOK, Phase
    <2> QED
        BY <2>1, <2>2, StepMoves, BuiltStays DEF Next, SafeInv
<1>3. dist[u] = src[u]
    BY DEF SafeInv, SourceInv, BuiltMatches
<1>4. dist'[u] = dist[u]
    <2>1. CASE Undisturbed'
        BY <1>1, <1>2, <1>3, <2>1 DEF SafeInv, SourceInv, BuiltMatches
    <2>2. CASE ~Undisturbed'
        <3>1. stopped' # stopped
            BY <1>1, <2>2 DEF Undisturbed
        <3>2. CompilerExits
            BY <3>1 DEF Next, CatalogStep, Compiler, CompileUnit, vars, compilerVars, Step, CannotStart, Hit, BuildBegins,
               BuildSettles, TestBegins, JestReports, JestSilent, CustomTest, PackBegins, Pack, PublishBegins, Publish,
               ScriptBegins, Gen, Install, TestFrame
        <3> QED
            BY <3>2 DEF CompilerExits
    <2> QED
        BY <2>1, <2>2
<1> QED
    BY <1>1, <1>2, <1>3, <1>4

\* A task that reads dist directories finds all units it needs built.
LEMMA ReadersBuilt ==
    ASSUME SafeInv, NEW k \in Readers, NEW u \in Units, Phase(<<k, u>>) \in {"running", "OK"},
           NEW v \in Reach(repo.deps, u)
    PROVE  v \in Units /\ BuildOK(v)
<1>1. v \in Units
    BY ReachFacts, RepoFacts DEF SafeInv, Shape
<1>2. CASE k # "publish-assets"
    BY <1>1, <1>2 DEF SafeInv, SourceInv, ReadsBuilt, Reads, Readers
<1>3. CASE k = "publish-assets"
    <2>1. BuildOK(u)
        BY <1>3 DEF SafeInv, SourceInv, ReadsBuilt, Reads, Readers
    <2> QED
        BY <1>1, <2>1 DEF SafeInv, SourceInv, ReadsBuilt, Reads, BuildOK
<1> QED
    BY <1>2, <1>3

\* The step that DistStaysPut is about.
DistStays ==
    \A u, v \in Units, k \in {"test", "pack", "publish-assets"} :
        LET t == <<k, u>> IN
        Phase(t) = "running" /\ Phase(t)' = "running" /\ v \in Reach(repo.deps, u) /\ Undisturbed
            => dist'[v] = dist[v]

\* As long as no compiler was stopped half-way, or compilation outputs are not cached,
\* none of the dist directories changes while a task that reads them runs.
THEOREM DistStandsStill == Spec => DistStaysPut
<1>1. ASSUME SafeInv, SafeInv', [Next]_vars PROVE DistStays
    <2> SUFFICES ASSUME NEW u \in Units, NEW v \in Units, NEW k \in Readers, Phase(<<k, u>>) = "running",
                        Phase(<<k, u>>)' = "running", v \in Reach(repo.deps, u), Undisturbed
                 PROVE  dist'[v] = dist[v]
        BY DEF Readers, DistStays
    <2>1. ~NextBuild
        BY DEF NextBuild, Phase
    <2>2. BuildOK(v)
        BY <1>1, ReadersBuilt
    <2> QED
        BY <1>1, <2>1, <2>2, BuiltStandsStill
<1>2. SafeInv /\ SafeInv' /\ [Next]_vars => [DistStays]_vars
    BY <1>1
<1> QED
    BY <1>2, SafeInvariant, PTL DEF Spec, DistStaysPut, DistStays

-----------------------------------------------------------------------------
(* Tests.                                                                  *)

\* The code a test of u ran on, by its fingerprint.
CodeOf(u, p) == [v \in Reach(repo.deps, u) |-> p[<<v, "dist", "src">>]]

HasPassed(u, specs, code) == \A s \in specs : <<u, s, code>> \in passed

\* The fingerprint of a test that runs is that of the code.
TestPrints ==
    \A u \in Units : Phase(<<"test", u>>) = "running" /\ Undisturbed => CodeOf(u, fp[<<"test", u>>]) = Code(u)

\* What a running test leaves out has passed on this code.
RestPassed ==
    \A u \in Units : Phase(<<"test", u>>) = "running" /\ Undisturbed /\ ~CustomRunner(u) =>
        HasPassed(u, Specs[u] \ toRun[u], Code(u))

\* A recorded pass is one of all cases on the recorded code; the cases that a
\* recorded failure does not list passed on it.
TestRecord(u, p, r) ==
    Undisturbed =>
        /\ r.verdict = "OK" => HasPassed(u, Specs[u], CodeOf(u, p))
        /\ r.verdict = "FAIL" /\ ~CustomRunner(u) /\ r.outputs.rerun \notin {NoFile, {}} =>
            HasPassed(u, Specs[u] \ r.outputs.rerun, CodeOf(u, p))

TestRecords ==
    \A u \in Units, k \in DOMAIN store : k[1] = <<"test", u>> => TestRecord(u, k[2], store[k])

TestInv == TestPrints /\ RestPassed /\ TestsPassedOnThisCode /\ TestRecords

\* The code of a test or a package that has begun stays as it is.
LEMMA CodeStays ==
    ASSUME SafeInv, SafeInv', [Next]_vars, ~NextBuild, Undisturbed, NEW u \in Units,
           NEW k \in {"test", "pack"}, Phase(<<k, u>>) \in {"running", "OK"}
    PROVE  Code(u)' = Code(u)
<1>1. \A v \in Reach(repo.deps, u) : dist'[v] = dist[v]
    BY ReadersBuilt, BuiltStandsStill DEF Readers
<1>2. repo' = repo
    <2>1. u \in Reach(repo.deps, u)
        BY ReachFacts, RepoFacts DEF SafeInv, Shape
    <2> QED
        BY <2>1, ReadersBuilt, BuiltStandsStill DEF Readers
<1> QED
    BY <1>1, <1>2 DEF Code

\* Steps other than those of a test task.
LEMMA TestKept ==
    ASSUME SafeInv, SafeInv', TestInv, [Next]_vars, ~NextBuild, UNCHANGED <<repo, passed, toRun>>,
           stopped => stopped', DOMAIN phase' = DOMAIN phase,
           \A s \in DOMAIN phase : s[1] = "test" => phase'[s] = phase[s] /\ fp'[s] = fp[s],
           \A k \in DOMAIN store' : k[1][1] = "test" => k \in DOMAIN store /\ store'[k] = store[k]
    PROVE  TestInv'
<1>1. Undisturbed' => Undisturbed
    BY DEF Undisturbed
<1>2. \A u : CustomRunner(u)' = CustomRunner(u)
    BY DEF CustomRunner, HasTestCommand
<1>3. \A u \in Units : Undisturbed /\ Phase(<<"test", u>>) \in {"running", "OK"} => Code(u)' = Code(u)
    BY CodeStays
<1>4. \A u, p : CodeOf(u, p)' = CodeOf(u, p)
    BY DEF CodeOf
<1>5. TestPrints'
    BY <1>1, <1>3, <1>4 DEF TestInv, TestPrints, Phase, CodeOf
<1>6. RestPassed'
    BY <1>1, <1>2, <1>3 DEF TestInv, RestPassed, HasPassed, Phase
<1>7. TestsPassedOnThisCode'
    BY <1>1, <1>3 DEF TestInv, TestsPassedOnThisCode, Phase
<1>8. TestRecords'
    BY <1>1, <1>2 DEF TestInv, TestRecords, TestRecord, HasPassed, CodeOf
<1> QED
    BY <1>5, <1>6, <1>7, <1>8 DEF TestInv

\* A step of a test task: what is left to show of its unit.
LEMMA TestMoved ==
    ASSUME SafeInv, TestInv, NEW t \in Tasks, NEW u \in Units, t = <<"test", u>>, Moves(t),
           UNCHANGED <<dist, stopped>>, passed \subseteq passed', \A v \in Units \ {u} : toRun'[v] = toRun[v],
           phase'[t] = "running" /\ Undisturbed /\ ~CustomRunner(u) =>
                HasPassed(u, Specs[u] \ toRun'[u], Code(u)),
           phase'[t] = "OK" /\ Undisturbed => \A s \in Specs[u] : <<u, s, Code(u)>> \in passed',
           phase'[t] = "FAIL" /\ Undisturbed /\ ~CustomRunner(u) /\ rerun'[u] \notin {NoFile, {}} =>
                \A s \in Specs[u] \ rerun'[u] : <<u, s, Code(u)>> \in passed'
    PROVE  TestInv'
<1>1. UNCHANGED <<repo, src>> /\ Tasks' = Tasks /\ Undisturbed' = Undisturbed
    BY DEF Moves, Tasks, Catalog, Exists, HasRunScript, Undisturbed
<1>2. /\ DOMAIN phase' = DOMAIN phase /\ t \in DOMAIN phase
      /\ \A s \in DOMAIN phase : s # t => phase'[s] = phase[s] /\ fp'[s] = fp[s]
    BY <1>1 DEF Moves, SafeInv, Shape
<1>3. \A v : CustomRunner(v)' = CustomRunner(v)
    BY <1>1 DEF CustomRunner, HasTestCommand
<1>4. \A v : Code(v)' = Code(v)
    BY <1>1 DEF Code
<1>5. TestPrints'
    <2>1. CodeOf(u, Fingerprint(t)) = Code(u)
        BY PrintFacts DEF SafeInv, CodeOf, Code
    <2>2. phase'[t] = "running" => fp'[t] = Fingerprint(t)
        BY DEF Moves, SafeInv, Shape
    <2> QED
        BY <1>1, <1>2, <1>4, <2>1, <2>2 DEF TestInv, TestPrints, Phase, CodeOf
<1>6. RestPassed'
    <2>1. \A v \in Units \ {u} : Phase(<<"test", v>>)' = "running" => Phase(<<"test", v>>) = "running"
        BY <1>2 DEF Phase
    <2>2. Phase(t)' = phase'[t]
        BY <1>2 DEF Phase
    <2> QED
        BY <1>1, <1>3, <1>4, <2>1, <2>2 DEF TestInv, RestPassed, HasPassed
<1>7. TestsPassedOnThisCode'
    <2>1. \A v \in Units \ {u} : Phase(<<"test", v>>)' = "OK" => Phase(<<"test", v>>) = "OK"
        BY <1>2 DEF Phase
    <2>2. Phase(t)' = phase'[t]
        BY <1>2 DEF Phase
    <2> QED
        BY <1>1, <1>4, <2>1, <2>2 DEF TestInv, TestsPassedOnThisCode
<1>8. TestRecords'
    <2>1. \A k \in DOMAIN store' :
            \/ k \in DOMAIN store /\ store'[k] = store[k]
            \/ /\ phase[t] = "running" /\ k = <<t, fp[t]>> /\ store'[k].verdict = phase'[t]
               /\ store'[k].outputs.rerun = rerun'[u]
        <3>1. \A k \in DOMAIN store' :
                \/ k \in DOMAIN store /\ store'[k] = store[k]
                \/ /\ phase[t] = "running" /\ k = <<t, fp[t]>>
                   /\ store'[k] = [verdict |-> phase'[t], outputs |-> [rerun |-> rerun'[u], summary |-> summary'[u]]]
            BY StoreMoves, OutputsFacts
        <3> QED
            BY <3>1
    <2>2. phase[t] = "running" /\ Undisturbed => CodeOf(u, fp[t]) = Code(u)
        BY <1>2 DEF TestInv, TestPrints, Phase
    <2>3. ASSUME NEW v \in Units, NEW k \in DOMAIN store', k[1] = <<"test", v>>
          PROVE  TestRecord(v, k[2], store[k])'
        <3>1. CASE k \in DOMAIN store /\ store'[k] = store[k]
            <4>1. TestRecord(v, k[2], store[k])
                BY <2>3, <3>1 DEF TestInv, TestRecords
            <4> QED
                BY <1>1, <1>3, <3>1, <4>1 DEF TestRecord, HasPassed, CodeOf
        <3>2. CASE /\ phase[t] = "running" /\ k = <<t, fp[t]>> /\ store'[k].verdict = phase'[t]
                   /\ store'[k].outputs.rerun = rerun'[u]
            <4>1. v = u /\ k[2] = fp[t]
                BY <2>3, <3>2
            <4> QED
                BY <1>1, <1>3, <2>2, <3>2, <4>1 DEF TestRecord, HasPassed, CodeOf
        <3> QED
            BY <2>1, <3>1, <3>2
    <2> QED
        BY <2>3 DEF TestRecords
<1> QED
    BY <1>5, <1>6, <1>7, <1>8 DEF TestInv

\* A step of a test task, if each spec file it is given loads.
LEMMA TestStep ==
    ASSUME "broken" \notin Outcomes, SafeInv, TestInv, NEW t \in Tasks, NEW u \in Units, t = <<"test", u>>, Step(t)
    PROVE  TestInv'
<1>1. Moves(t) /\ UNCHANGED <<dist, stopped>>
    BY StepMoves, StepLeaves DEF SafeInv
<1>2. toRun = [v \in Units |-> toRun[v]] /\ rerun = [v \in Units |-> rerun[v]] /\ phase[t] = Phase(t)
    BY DEF SafeInv, Shape, Phase
<1>3. CodeOf(u, Fingerprint(t)) = Code(u)
    BY PrintFacts DEF SafeInv, CodeOf, Code
<1>4. \A k \in DOMAIN store : k[1] = <<"test", u>> => TestRecord(u, k[2], store[k])
    BY DEF TestInv, TestRecords
<1>5. Phase(t) = "running" /\ Undisturbed /\ ~CustomRunner(u) => HasPassed(u, Specs[u] \ toRun[u], Code(u))
    BY DEF TestInv, RestPassed
<1>6. CASE CannotStart(t)
    <2>1. UNCHANGED <<passed, toRun>> /\ phase'[t] = "CANNOT_START"
        BY <1>1, <1>6 DEF CannotStart, testVars, SafeInv, Shape, Moves
    <2> QED
        BY <1>1, <2>1, TestMoved
<1>7. CASE Hit(t)
    <2>1. UNCHANGED <<passed, toRun>> /\ phase'[t] = "OK" /\ Recorded(t).verdict = "OK"
        BY <1>7 DEF Hit, SafeInv, Shape
    <2>2. <<t, Fingerprint(t)>> \in DOMAIN store /\ Recorded(t) = store[<<t, Fingerprint(t)>>]
        BY <2>1, RecordFound
    <2>3. Undisturbed => HasPassed(u, Specs[u], Code(u))
        BY <1>3, <1>4, <2>1, <2>2 DEF TestRecord
    <2> QED
        BY <1>1, <2>1, <2>3, TestMoved DEF HasPassed
<1>8. CASE TestBegins(t)
    <2>1. /\ passed' = passed /\ phase'[t] = "running" /\ \A v \in Units \ {u} : toRun'[v] = toRun[v]
          /\ toRun'[u] = IF CustomRunner(u) THEN {} ELSE ComputeTestsToRun(u, Left(t, Recorded(t)).rerun)
          /\ Recorded(t).verdict # "OK"
        BY <1>2, <1>8 DEF TestBegins, Begin, SafeInv, Shape
    <2>2. Left(t, Recorded(t)).rerun = IF Recorded(t).verdict = "FAIL" THEN Recorded(t).outputs.rerun ELSE NoFile
        BY TestInfo DEF Left, Purged
    <2>3. ASSUME Undisturbed, ~CustomRunner(u) PROVE HasPassed(u, Specs[u] \ toRun'[u], Code(u))
        <3>1. CASE Left(t, Recorded(t)).rerun \in {NoFile, {}}
            BY <2>1, <2>3, <3>1 DEF ComputeTestsToRun, HasPassed
        <3>2. CASE Left(t, Recorded(t)).rerun \notin {NoFile, {}}
            <4>1. Recorded(t).verdict = "FAIL" /\ toRun'[u] = Recorded(t).outputs.rerun
                BY <2>1, <2>2, <2>3, <3>2 DEF ComputeTestsToRun
            <4>2. TestRecord(u, Fingerprint(t), Recorded(t))
                BY <1>4, <4>1, RecordFound
            <4> QED
                BY <1>3, <2>2, <2>3, <3>2, <4>1, <4>2 DEF TestRecord
        <3> QED
            BY <3>1, <3>2
    <2> QED
        BY <1>1, <2>1, <2>3, TestMoved
<1>9. CASE JestReports(t)
    <2>1. PICK o \in [toRun[u] -> Outcomes], validate \in Validations(u) :
            LET cases == [s \in {x \in toRun[u] : o[x] # "broken"} |-> o[s]]
                ret == IF \A s \in toRun[u] : o[s] = "passed" THEN "OK" ELSE "FAIL" IN
            /\ passed' = passed \cup {<<u, s, Code(u)>> : s \in {x \in toRun[u] : o[x] = "passed"}}
            /\ rerun' = [rerun EXCEPT ![u] = RerunList(cases)]
            /\ End(t, TestStatus(ret, validate))
        BY <1>9 DEF JestReports
    <2>2. /\ toRun' = toRun /\ phase[t] = "running" /\ ~CustomRunner(u)
          /\ phase'[t] = TestStatus(IF \A s \in toRun[u] : o[s] = "passed" THEN "OK" ELSE "FAIL", validate)
        BY <1>9, <2>1 DEF JestReports, TestFrame, Running, End, SafeInv, Shape
    <2>3. \A s \in toRun[u] : o[s] \in {"passed", "failed"}
        BY OutcomesAssumption
    <2>4. rerun'[u] = {s \in toRun[u] : o[s] = "failed"}
        BY <1>2, <2>1, <2>3 DEF RerunList
    <2>5. phase'[t] = "OK" => \A s \in toRun[u] : o[s] = "passed"
        BY <2>2 DEF TestStatus
    <2>6. phase'[t] \in {"OK", "FAIL"}
        BY <2>2 DEF TestStatus, Validations
    <2>7. \A s \in toRun[u] : o[s] = "passed" => <<u, s, Code(u)>> \in passed'
        BY <2>1
    <2>8. Undisturbed => \A s \in Specs[u] \ toRun[u] : <<u, s, Code(u)>> \in passed'
        BY <1>2, <1>5, <2>1, <2>2 DEF HasPassed
    <2> QED
        BY <1>1, <2>1, <2>2, <2>3, <2>4, <2>5, <2>6, <2>7, <2>8, TestMoved
<1>10. CASE JestSilent(t)
    <2>1. /\ UNCHANGED <<passed, toRun>> /\ phase'[t] \in {"FAIL", "CRASH"}
          /\ phase'[t] = "FAIL" => rerun'[u] = {}
        BY <1>2, <1>10 DEF JestSilent, TestFrame, End, SafeInv, Shape
    <2> QED
        BY <1>1, <2>1, TestMoved
<1>11. CASE CustomTest(t)
    <2>1. PICK ret \in {"OK", "FAIL"}, validate \in Validations(u) :
            /\ passed' = IF ret = "OK" THEN passed \cup {<<u, s, Code(u)>> : s \in Specs[u]} ELSE passed
            /\ End(t, TestStatus(ret, validate))
        BY <1>11 DEF CustomTest
    <2>2. /\ toRun' = toRun /\ CustomRunner(u) /\ phase'[t] = TestStatus(ret, validate)
        BY <1>11, <2>1 DEF CustomTest, TestFrame, End, SafeInv, Shape
    <2>3. phase'[t] \in {"OK", "FAIL"} /\ (phase'[t] = "OK" => ret = "OK")
        BY <2>2 DEF TestStatus, Validations
    <2> QED
        BY <1>1, <2>1, <2>2, <2>3, TestMoved
<1> QED
    BY <1>6, <1>7, <1>8, <1>9, <1>10, <1>11 DEF Step, BuildBegins, BuildSettles, PackBegins, Pack,
       PublishBegins, Publish, ScriptBegins, Gen, Install, Begin, Running

\* What steps of a kind of task leave of the others.
LEMMA OthersStay ==
    ASSUME Shape, NEW t \in Tasks, Moves(t), NEW kind, t[1] # kind
    PROVE  /\ DOMAIN phase' = DOMAIN phase
           /\ \A s \in DOMAIN phase : s[1] = kind => phase'[s] = phase[s] /\ fp'[s] = fp[s]
           /\ \A k \in DOMAIN store' : k[1][1] = kind => k \in DOMAIN store /\ store'[k] = store[k]
BY DEF Shape, Moves, Over

\* What is neither a task's step nor the next build.
LEMMA QuietSteps ==
    ASSUME CatalogStep \/ Compiler \/ UNCHANGED vars
    PROVE  /\ UNCHANGED <<repo, phase, fp, store, passed, toRun, packed, prepared, made, published>>
           /\ stopped => stopped'
BY DEF CatalogStep, Initialize, ResolveBuildTasks, NothingToResolve, Compiler, CompilerExits, CompileUnit,
       vars, catalogVars, buildVars, compilerVars, testVars, assetVars

\* All steps keep what is known of the tests.
LEMMA NextTest ==
    ASSUME "broken" \notin Outcomes, SafeInv, SafeInv', TestInv, [Next]_vars
    PROVE  TestInv'
<1>1. CASE NextBuild
    <2>1. UNCHANGED <<repo, stopped, store, passed>> /\ phase' = [t \in Tasks |-> "idle"]
        BY <1>1 DEF NextBuild
    <2>2. \A s : Phase(s)' \in {"idle", "not in plan"}
        BY <2>1 DEF Phase
    <2>3. TestPrints' /\ RestPassed' /\ TestsPassedOnThisCode'
        BY <2>2 DEF TestPrints, RestPassed, TestsPassedOnThisCode
    <2>4. TestRecords'
        BY <2>1 DEF TestInv, TestRecords, TestRecord, HasPassed, CodeOf, Undisturbed, CustomRunner, HasTestCommand
    <2> QED
        BY <2>3, <2>4 DEF TestInv
<1>2. CASE ~NextBuild /\ (CatalogStep \/ Compiler \/ UNCHANGED vars)
    BY <1>2, QuietSteps, TestKept
<1>3. ASSUME ~NextBuild, NEW t \in Tasks, Step(t) PROVE TestInv'
    <2>1. Moves(t)
        BY <1>3, StepMoves DEF SafeInv
    <2>2. CASE t[1] = "test"
        <3>1. t[2] \in Units /\ t = <<"test", t[2]>>
            BY <2>2, TaskForm DEF InstallTask
        <3> QED
            BY <1>3, <3>1, TestStep
    <2>3. CASE t[1] # "test"
        <3>1. UNCHANGED <<passed, toRun>>
            BY <1>3, <2>3, StepLeaves
        <3>2. repo' = repo
            BY <2>1 DEF Moves
        <3>3. stopped' = stopped
            BY <1>3, StepsDoNotStop
        <3>4. /\ DOMAIN phase' = DOMAIN phase
              /\ \A s \in DOMAIN phase : s[1] = "test" => phase'[s] = phase[s] /\ fp'[s] = fp[s]
              /\ \A k \in DOMAIN store' : k[1][1] = "test" => k \in DOMAIN store /\ store'[k] = store[k]
            BY <2>1, <2>3, OthersStay DEF SafeInv
        <3> QED
            BY <1>3, <3>1, <3>2, <3>3, <3>4, TestKept
    <2> QED
        BY <2>2, <2>3
<1> QED
    BY <1>1, <1>2, <1>3 DEF Next

\* If each spec file loads, and in an undisturbed history, a test task passes, executed,
\* restored or run again in part, only if each of its cases passed on the code that is
\* there now.
THEOREM TestsOfThisCode ==
    ASSUME "broken" \notin Outcomes
    PROVE  Spec => []TestsPassedOnThisCode
<1>1. Init => TestInv
    <2> SUFFICES ASSUME Init PROVE TestInv
        OBVIOUS
    <2>1. \A s : Phase(s) \in {"idle", "not in plan"}
        BY DEF Init, Phase
    <2> QED
        BY <2>1 DEF Init, TestInv, TestPrints, RestPassed, TestsPassedOnThisCode, TestRecords, Nothing
<1>2. SafeInv /\ SafeInv' /\ TestInv /\ [Next]_vars => TestInv'
    BY NextTest
<1>3. TestInv => TestsPassedOnThisCode
    BY DEF TestInv
<1> QED
    BY <1>1, <1>2, <1>3, SafeInvariant, PTL DEF Spec

-----------------------------------------------------------------------------
(* Assets.                                                                 *)

\* What lies in prepared-assets while the script runs has been made in this build.
PublishInv ==
    /\ published \subseteq made
    /\ \A u \in Units : Phase(<<"publish-assets", u>>) = "running" => \A f \in prepared[u] : <<u, f>> \in made

\* A step of a task keeps published assets among those made.
LEMMA PublishStep ==
    ASSUME Shape, PublishInv, NEW t \in Tasks, Step(t)
    PROVE  PublishInv'
<1>1. Moves(t)
    BY StepMoves
<1>2. Tasks' = Tasks
    BY <1>1 DEF Moves, Tasks, Catalog, Exists, HasRunScript
<1>3. CASE t[1] # "publish-assets"
    <2>1. UNCHANGED <<prepared, made, published>>
        BY <1>3 DEF Step, CannotStart, Hit, BuildBegins, BuildSettles, TestBegins, JestReports, JestSilent, CustomTest,
           PackBegins, Pack, PublishBegins, Publish, ScriptBegins, Gen, Install, Begin, Running, TestFrame, assetVars
    <2>2. /\ DOMAIN phase' = DOMAIN phase
          /\ \A s \in DOMAIN phase : s[1] = "publish-assets" => phase'[s] = phase[s]
        BY <1>1, <1>3, OthersStay
    <2> QED
        BY <2>1, <2>2 DEF PublishInv, Phase
<1>4. CASE t[1] = "publish-assets"
    <2> DEFINE u == t[2]
    <2>1. u \in Units /\ t = <<"publish-assets", u>>
        BY <1>4, TaskForm DEF InstallTask
    <2>2. /\ DOMAIN phase' = DOMAIN phase /\ t \in DOMAIN phase
          /\ \A s \in DOMAIN phase : s # t => phase'[s] = phase[s]
        BY <1>1, <1>2 DEF Moves, Shape
    <2>3. \A v \in Units \ {u} : prepared'[v] = prepared[v]
        BY <1>4, <2>1 DEF Shape, Step, CannotStart, Hit, BuildBegins, BuildSettles, TestBegins, JestReports, JestSilent,
           CustomTest, PackBegins, Pack, PublishBegins, Publish, ScriptBegins, Gen, Install, Begin, Running, assetVars
    <2>4. /\ made \subseteq made' /\ published' \subseteq made'
          /\ phase'[t] = "running" => \A f \in prepared'[u] : <<u, f>> \in made'
        <3>1. CASE CannotStart(t) \/ Hit(t)
            BY <3>1, <2>1 DEF CannotStart, Hit, Shape, PublishInv, assetVars
        <3>2. CASE PublishBegins(t)
            BY <3>2, <2>1 DEF PublishBegins, Emptied, Shape, PublishInv
        <3>3. CASE Publish(t)
            <4>1. phase'[t] # "running" /\ Phase(t) = "running"
                BY <3>3, <2>1 DEF Publish, Running, End, Shape, Phase
            <4>2. CASE End(t, "CRASH") /\ UNCHANGED assetVars
                BY <4>1, <4>2 DEF assetVars, PublishInv
            <4>3. ASSUME NEW files \in SUBSET Assets, prepared' = [prepared EXCEPT ![u] = @ \cup files],
                         made' = made \cup {<<u, f>> : f \in files},
                         published' = published \cup {<<u, f>> : f \in prepared'[u]}
                  PROVE  made \subseteq made' /\ published' \subseteq made'
                BY <2>1, <4>1, <4>3 DEF Shape, PublishInv
            <4> QED
                BY <3>3, <4>1, <4>2, <4>3 DEF Publish
        <3> QED
            BY <1>4, <3>1, <3>2, <3>3 DEF Step, BuildBegins, BuildSettles, TestBegins, JestReports, JestSilent, CustomTest,
               PackBegins, Pack, ScriptBegins, Gen, Install, Begin, Running
    <2>5. \A v \in Units : Phase(<<"publish-assets", v>>)' = "running" => \A f \in prepared'[v] : <<v, f>> \in made'
        BY <2>1, <2>2, <2>3, <2>4 DEF PublishInv, Phase
    <2> QED
        BY <2>4, <2>5 DEF PublishInv
<1> QED
    BY <1>3, <1>4

\* What a build publishes its scripts have made in that build.
THEOREM PublishesOwn == Spec => []PublishedIsMade
<1>1. Init => PublishInv
    BY DEF Init, PublishInv, Phase
<1>2. SafeInv /\ PublishInv /\ [Next]_vars => PublishInv'
    <2> SUFFICES ASSUME SafeInv, PublishInv, [Next]_vars PROVE PublishInv'
        OBVIOUS
    <2>1. CASE NextBuild
        BY <2>1 DEF NextBuild, PublishInv, Phase
    <2>2. CASE CatalogStep \/ Compiler \/ UNCHANGED vars
        BY <2>2, QuietSteps DEF PublishInv, Phase
    <2> QED
        BY <2>1, <2>2, PublishStep DEF Next, SafeInv
<1>3. PublishInv => PublishedIsMade
    BY DEF PublishInv, PublishedIsMade
<1> QED
    BY <1>1, <1>2, <1>3, SafeInvariant, PTL DEF Spec

-----------------------------------------------------------------------------
(* Packages.                                                               *)

\* Mismatched versions end a build.
NoMismatch == stage \in {"RESOLVE", "RUN"} => \A u \in Units : repo.mismatched[u] = {}

\* A pack task starts in an empty directory.
PackFresh == \A u \in Units : Phase(<<"pack", u>>) = "running" => DOMAIN packed[u] = {}

PackPrints ==
    \A u \in Units : Phase(<<"pack", u>>) = "running" /\ Undisturbed => CodeOf(u, fp[<<"pack", u>>]) = Code(u)

\* Package d of u holds this code of all units u needs and nothing else.
Holds(u, d, code) ==
    /\ \A v \in Units : v \in DOMAIN d <=> v \in Reach(repo.deps, u)
    /\ "package.json" \in DOMAIN d /\ DOMAIN d["package.json"] = PackedDependencies(u)
    /\ Undisturbed => \A v \in Reach(repo.deps, u) : d[v] = code[v]

PackHolds == \A u \in Units : Phase(<<"pack", u>>) = "OK" => Holds(u, packed[u], Code(u))

\* A pack task never fails, and its record holds the recorded code.
PackRecords ==
    \A u \in Units, k \in DOMAIN store : k[1] = <<"pack", u>> =>
        store[k].verdict = "OK" /\ Holds(u, store[k].outputs.packed, CodeOf(u, k[2]))

PackInv == NoMismatch /\ PackFresh /\ PackPrints /\ PackHolds /\ PackRecords

\* What a package requires depends on the monorepo alone.
LEMMA SamePacked ==
    ASSUME UNCHANGED repo, NEW u
    PROVE  PackedDependencies(u)' = PackedDependencies(u)
BY DEF PackedDependencies, ProdUnits, InRepo, Reach

\* Steps other than those of a pack task.
LEMMA PackKept ==
    ASSUME SafeInv, SafeInv', PackInv, NoMismatch', [Next]_vars, ~NextBuild, UNCHANGED <<repo, packed>>,
           stopped => stopped', DOMAIN phase' = DOMAIN phase,
           \A s \in DOMAIN phase : s[1] = "pack" => phase'[s] = phase[s] /\ fp'[s] = fp[s],
           \A k \in DOMAIN store' : k[1][1] = "pack" => k \in DOMAIN store /\ store'[k] = store[k]
    PROVE  PackInv'
<1>1. Undisturbed' => Undisturbed
    BY DEF Undisturbed
<1>2. \A u \in Units : Undisturbed /\ Phase(<<"pack", u>>) \in {"running", "OK"} => Code(u)' = Code(u)
    BY CodeStays
<1>3. \A u : PackedDependencies(u)' = PackedDependencies(u)
    BY SamePacked
<1>4. PackFresh'
    BY DEF PackInv, PackFresh, Phase
<1>5. PackPrints'
    BY <1>1, <1>2 DEF PackInv, PackPrints, Phase, CodeOf
<1>6. PackHolds'
    BY <1>1, <1>2, <1>3 DEF PackInv, PackHolds, Holds, Phase
<1>7. PackRecords'
    BY <1>1, <1>3 DEF PackInv, PackRecords, Holds, CodeOf
<1> QED
    BY <1>4, <1>5, <1>6, <1>7 DEF PackInv

\* A step of a pack task: what is left to show of its unit.
LEMMA PackMoved ==
    ASSUME SafeInv, PackInv, NoMismatch', NEW t \in Tasks, NEW u \in Units, t = <<"pack", u>>, Moves(t),
           UNCHANGED <<dist, stopped>>, \A v \in Units \ {u} : packed'[v] = packed[v],
           phase'[t] = "running" => DOMAIN packed'[u] = {},
           phase'[t] = "OK" => Holds(u, packed'[u], Code(u)),
           phase[t] = "running" => phase'[t] = "OK"
    PROVE  PackInv'
<1>1. UNCHANGED <<repo, src>> /\ Tasks' = Tasks /\ Undisturbed' = Undisturbed
    BY DEF Moves, Tasks, Catalog, Exists, HasRunScript, Undisturbed
<1>2. /\ DOMAIN phase' = DOMAIN phase /\ t \in DOMAIN phase
      /\ \A s \in DOMAIN phase : s # t => phase'[s] = phase[s] /\ fp'[s] = fp[s]
    BY <1>1 DEF Moves, SafeInv, Shape
<1>3. \A v : PackedDependencies(v)' = PackedDependencies(v)
    BY <1>1, SamePacked
<1>4. \A v : Code(v)' = Code(v)
    BY <1>1 DEF Code
<1>5. PackFresh'
    BY <1>2 DEF PackInv, PackFresh, Phase
<1>6. PackPrints'
    <2>1. CodeOf(u, Fingerprint(t)) = Code(u)
        BY PrintFacts DEF SafeInv, CodeOf, Code
    <2>2. phase'[t] = "running" => fp'[t] = Fingerprint(t)
        BY DEF Moves, SafeInv, Shape
    <2> QED
        BY <1>1, <1>2, <1>4, <2>1, <2>2 DEF PackInv, PackPrints, Phase, CodeOf
<1>7. PackHolds'
    <2>1. \A v \in Units \ {u} : Phase(<<"pack", v>>)' = "OK" => Phase(<<"pack", v>>) = "OK"
        BY <1>2 DEF Phase
    <2>2. Phase(t)' = phase'[t]
        BY <1>2 DEF Phase
    <2> QED
        BY <1>1, <1>3, <1>4, <2>1, <2>2 DEF PackInv, PackHolds, Holds
<1>8. PackRecords'
    <2>1. \A k \in DOMAIN store' :
            \/ k \in DOMAIN store /\ store'[k] = store[k]
            \/ /\ phase[t] = "running" /\ k = <<t, fp[t]>>
               /\ store'[k] = [verdict |-> phase'[t], outputs |-> [packed |-> packed'[u]]]
        <3>1. Outputs(t) = [packed |-> packed'[u]]
            BY OutputsFacts
        <3>2. phase[t] = "running" => store' =
                Over([k \in {<<t, fp[t]>>} |-> [verdict |-> phase'[t], outputs |-> Outputs(t)]], store)
            BY DEF Moves
        <3>3. phase[t] # "running" => store' = store
            BY DEF Moves
        <3> QED
            BY <3>1, <3>2, <3>3 DEF Over
    <2>2. phase[t] = "running" /\ Undisturbed => CodeOf(u, fp[t]) = Code(u)
        BY <1>2 DEF PackInv, PackPrints, Phase
    <2>3. ASSUME NEW v \in Units, NEW k \in DOMAIN store', k[1] = <<"pack", v>>
          PROVE  (store[k].verdict = "OK" /\ Holds(v, store[k].outputs.packed, CodeOf(v, k[2])))'
        <3>1. CASE k \in DOMAIN store /\ store'[k] = store[k]
            <4>1. store[k].verdict = "OK" /\ Holds(v, store[k].outputs.packed, CodeOf(v, k[2]))
                BY <2>3, <3>1 DEF PackInv, PackRecords
            <4> QED
                BY <1>1, <1>3, <3>1, <4>1 DEF Holds, CodeOf
        <3>2. CASE /\ phase[t] = "running" /\ k = <<t, fp[t]>>
                   /\ store'[k] = [verdict |-> phase'[t], outputs |-> [packed |-> packed'[u]]]
            <4>1. v = u /\ k[2] = fp[t] /\ Holds(u, packed'[u], Code(u))
                BY <2>3, <3>2
            <4> QED
                BY <1>1, <1>3, <2>2, <3>2, <4>1 DEF Holds, CodeOf
        <3> QED
            BY <2>1, <3>1, <3>2
    <2> QED
        BY <2>3 DEF PackRecords
<1> QED
    BY <1>5, <1>6, <1>7, <1>8 DEF PackInv

\* A step of a pack task: the package is put together in an empty directory.
LEMMA PackStep ==
    ASSUME SafeInv, PackInv, NoMismatch', NEW t \in Tasks, NEW u \in Units, t = <<"pack", u>>, Step(t)
    PROVE  PackInv'
<1>1. Moves(t) /\ UNCHANGED <<dist, stopped>>
    BY StepMoves, StepLeaves DEF SafeInv
<1>2. packed = [v \in Units |-> packed[v]]
    BY DEF SafeInv, Shape
<1>3. CodeOf(u, Fingerprint(t)) = Code(u)
    BY PrintFacts DEF SafeInv, CodeOf, Code
<1>4. \A k \in DOMAIN store : k[1] = <<"pack", u>> =>
        store[k].verdict = "OK" /\ Holds(u, store[k].outputs.packed, CodeOf(u, k[2]))
    BY DEF PackInv, PackRecords
<1>5. CASE CannotStart(t)
    <2>1. packed' = packed /\ phase'[t] = "CANNOT_START" /\ phase[t] = "idle"
        BY <1>5 DEF CannotStart, Ready, SafeInv, Shape
    <2> QED
        BY <1>1, <2>1, PackMoved
<1>6. CASE Hit(t)
    <2>1. /\ phase'[t] = "OK" /\ phase[t] = "idle" /\ Recorded(t).verdict = "OK"
          /\ packed' = [packed EXCEPT ![u] = Recorded(t).outputs.packed]
        BY <1>6 DEF Hit, Ready, SafeInv, Shape
    <2>2. <<t, Fingerprint(t)>> \in DOMAIN store /\ Recorded(t) = store[<<t, Fingerprint(t)>>]
        BY <2>1, RecordFound
    <2>3. Holds(u, Recorded(t).outputs.packed, Code(u))
        BY <1>3, <1>4, <2>2
    <2>4. packed'[u] = Recorded(t).outputs.packed /\ \A v \in Units \ {u} : packed'[v] = packed[v]
        BY <1>2, <2>1
    <2> QED
        BY <1>1, <2>1, <2>3, <2>4, PackMoved
<1>7. CASE PackBegins(t)
    <2>1. /\ phase'[t] = "running" /\ phase[t] = "idle" /\ Recorded(t).verdict # "OK"
          /\ packed' = [packed EXCEPT ![u] = Left(t, Recorded(t)).packed]
        BY <1>7 DEF PackBegins, Begin, Ready, SafeInv, Shape
    <2>2. Recorded(t).verdict # "FAIL"
        BY <1>4, RecordFound
    <2>3. Left(t, Recorded(t)).packed = Nothing
        BY <2>2, PackInfo DEF Left, Purged
    <2>4. DOMAIN packed'[u] = {} /\ \A v \in Units \ {u} : packed'[v] = packed[v]
        BY <1>2, <2>1, <2>3 DEF Nothing
    <2> QED
        BY <1>1, <2>1, <2>4, PackMoved
<1>8. CASE Pack(t)
    <2> DEFINE requires == [p \in PackedDependencies(u) |-> p]
               over(v) == IF v \in DOMAIN packed[u] THEN Over(dist[v], packed[u][v]) ELSE dist[v]
               copied == [v \in {u} \cup DepUnits(u) |-> over(v)]
    <2>1. /\ phase'[t] = "OK" /\ phase[t] = "running"
          /\ packed' = [packed EXCEPT ![u] = Over([p \in {"package.json"} |-> requires], Over(copied, @))]
        BY <1>8 DEF Pack, Running, End, SafeInv, Shape
    <2>2. DOMAIN packed[u] = {}
        BY <2>1 DEF PackInv, PackFresh, Phase, SafeInv, Shape
    <2>3. {u} \cup DepUnits(u) = Reach(repo.deps, u) /\ Reach(repo.deps, u) \subseteq Units
        BY ReachFacts, RepoFacts DEF SafeInv, Shape, DepUnits
    <2>4. copied = [v \in Reach(repo.deps, u) |-> dist[v]]
        BY <2>2, <2>3
    <2>5. packed'[u] = Over([p \in {"package.json"} |-> requires], Over(copied, packed[u]))
          /\ \A v \in Units \ {u} : packed'[v] = packed[v]
        BY <1>2, <2>1
    <2> HIDE DEF copied
    <2>6. Over(copied, packed[u]) = [v \in Reach(repo.deps, u) |-> dist[v]]
        BY <2>2, <2>4 DEF Over
    <2>7. Holds(u, packed'[u], Code(u))
        BY <2>3, <2>5, <2>6, NamesAssumption DEF Holds, Over, Code
    <2> QED
        BY <1>1, <2>1, <2>5, <2>7, PackMoved
<1> QED
    BY <1>5, <1>6, <1>7, <1>8 DEF Step, BuildBegins, BuildSettles, TestBegins, JestReports, JestSilent, CustomTest,
       PublishBegins, Publish, ScriptBegins, Gen, Install, Begin, Running

\* A build with a mismatch of versions does not get to run.
LEMMA NextMismatch ==
    ASSUME NoMismatch, [Next]_vars
    PROVE  NoMismatch'
<1>1. CASE NextBuild
    BY <1>1 DEF NextBuild, NoMismatch
<1>2. CASE CatalogStep
    BY <1>2 DEF CatalogStep, Initialize, InitializeFailure, ResolveBuildTasks, NothingToResolve, NoMismatch
<1>3. CASE Compiler \/ UNCHANGED vars
    BY <1>3 DEF Compiler, CompilerExits, CompileUnit, vars, catalogVars, NoMismatch
<1>4. ASSUME NEW t \in Tasks, Step(t) PROVE NoMismatch'
    BY <1>4 DEF NoMismatch, Step, CannotStart, Hit, BuildBegins, BuildSettles, TestBegins, JestReports, JestSilent,
       CustomTest, PackBegins, Pack, PublishBegins, Publish, ScriptBegins, Gen, Install, Begin, End, catalogVars
<1> QED
    BY <1>1, <1>2, <1>3, <1>4 DEF Next

\* All steps keep what is known of the packages.
LEMMA NextPack ==
    ASSUME SafeInv, SafeInv', PackInv, [Next]_vars
    PROVE  PackInv'
<1> NoMismatch'
    BY NextMismatch DEF PackInv
<1>1. CASE NextBuild
    <2>1. UNCHANGED <<repo, stopped, store>> /\ phase' = [t \in Tasks |-> "idle"]
        BY <1>1 DEF NextBuild
    <2>2. \A s : Phase(s)' \in {"idle", "not in plan"}
        BY <2>1 DEF Phase
    <2>3. PackFresh' /\ PackPrints' /\ PackHolds'
        BY <2>2 DEF PackFresh, PackPrints, PackHolds
    <2>4. \A u : PackedDependencies(u)' = PackedDependencies(u)
        BY <2>1, SamePacked
    <2>5. PackRecords'
        BY <2>1, <2>4 DEF PackInv, PackRecords, Holds, CodeOf, Undisturbed
    <2> QED
        BY <2>3, <2>5 DEF PackInv
<1>2. CASE ~NextBuild /\ (CatalogStep \/ Compiler \/ UNCHANGED vars)
    BY <1>2, QuietSteps, PackKept
<1>3. ASSUME ~NextBuild, NEW t \in Tasks, Step(t) PROVE PackInv'
    <2>1. Moves(t)
        BY <1>3, StepMoves DEF SafeInv
    <2>2. CASE t[1] = "pack"
        <3>1. t[2] \in Units /\ t = <<"pack", t[2]>>
            BY <2>2, TaskForm DEF InstallTask
        <3> QED
            BY <1>3, <3>1, PackStep
    <2>3. CASE t[1] # "pack"
        <3>1. packed' = packed /\ stopped' = stopped
            BY <1>3, <2>3, StepLeaves, StepsDoNotStop
        <3>2. repo' = repo
            BY <2>1 DEF Moves
        <3>3. /\ DOMAIN phase' = DOMAIN phase
              /\ \A s \in DOMAIN phase : s[1] = "pack" => phase'[s] = phase[s] /\ fp'[s] = fp[s]
              /\ \A k \in DOMAIN store' : k[1][1] = "pack" => k \in DOMAIN store /\ store'[k] = store[k]
            BY <2>1, <2>3, OthersStay DEF SafeInv
        <3> QED
            BY <1>3, <3>1, <3>2, <3>3, PackKept
    <2> QED
        BY <2>2, <2>3
<1> QED
    BY <1>1, <1>2, <1>3 DEF Next

\* What is known of the packages holds throughout.
LEMMA PackInvariant == Spec => []PackInv
<1>1. Init => PackInv
    <2> SUFFICES ASSUME Init PROVE PackInv
        OBVIOUS
    <2>1. \A s : Phase(s) \in {"idle", "not in plan"}
        BY DEF Init, Phase
    <2> QED
        BY <2>1 DEF Init, PackInv, NoMismatch, PackFresh, PackPrints, PackHolds, PackRecords, Nothing
<1>2. SafeInv /\ SafeInv' /\ PackInv /\ [Next]_vars => PackInv'
    BY NextPack
<1> QED
    BY <1>1, <1>2, SafeInvariant, PTL DEF Spec

\* In an undisturbed history, a package holds the code of the unit and of each unit it
\* needs, and of no other.
THEOREM PackagesComplete == Spec => []PackIsComplete
<1>1. SafeInv /\ PackInv => PackIsComplete
    <2> SUFFICES ASSUME SafeInv, PackInv, NEW u \in Units, Phase(<<"pack", u>>) = "OK", Undisturbed, NEW v \in Units
                 PROVE  IF v \in Reach(repo.deps, u) THEN v \in DOMAIN packed[u] /\ packed[u][v] = src[v]
                        ELSE v \notin DOMAIN packed[u]
        BY DEF PackIsComplete
    <2>1. Holds(u, packed[u], Code(u))
        BY DEF PackInv, PackHolds
    <2>2. v \in Reach(repo.deps, u) => dist[v] = src[v]
        BY ReadersBuilt DEF Readers, SafeInv, SourceInv, BuiltMatches
    <2> QED
        BY <2>1, <2>2 DEF Holds, Code
<1> QED
    BY <1>1, SafeInvariant, PackInvariant, PTL

\* In a build that runs, a unit requires units of the repo only that it needs.
LEMMA ProdIsReached ==
    ASSUME SafeInv, NoMismatch, stage = "RUN", NEW u \in Units
    PROVE  ProdUnits(u) \subseteq Reach(repo.deps, u)
<1> DEFINE prod == [v \in Units |-> {w \in Units : \E d \in repo.prod[v] : d[1] = w}]
<1>1. \A v \in Units : prod[v] \subseteq repo.deps[v]
    BY ReposAssumption DEF PlanType, NoMismatch, SafeInv, Shape
<1>2. /\ u \in Reach(repo.deps, u) /\ Reach(repo.deps, u) \subseteq Units
      /\ \A v \in Reach(repo.deps, u) : repo.deps[v] \subseteq Reach(repo.deps, u)
    BY ReachFacts, RepoFacts DEF SafeInv, Shape
<1>3. \A v \in Reach(repo.deps, u) : prod[v] \subseteq Reach(repo.deps, u)
    BY <1>1, <1>2
<1> HIDE DEF prod
<1>4. Reach(prod, u) \subseteq Reach(repo.deps, u)
    BY <1>2, <1>3 DEF Reach
<1> QED
    BY <1>4 DEF ProdUnits, prod

\* What the code of a package requires is in it or among its dependencies.
THEOREM PackagesClosed == Spec => []PackIsClosed
<1>1. SafeInv /\ PackInv => PackIsClosed
    <2> SUFFICES ASSUME SafeInv, PackInv, NEW u \in Units, Phase(<<"pack", u>>) = "OK"
                 PROVE  \E us \in SUBSET Units :
                            /\ u \in us /\ us \subseteq DOMAIN packed[u]
                            /\ \A v \in us : \A d \in repo.prod[v] :
                                d[1] \in us \/ d \in DOMAIN packed[u]["package.json"]
        BY DEF PackIsClosed
    <2>1. Holds(u, packed[u], Code(u)) /\ stage = "RUN"
        BY DEF PackInv, PackHolds, SafeInv, Shape, Phase
    <2>2. ProdUnits(u) \subseteq Reach(repo.deps, u) /\ Reach(repo.deps, u) \subseteq Units
        BY <2>1, ProdIsReached, ReachFacts, RepoFacts DEF SafeInv, Shape, PackInv
    <2>3. ProdUnits(u) \subseteq DOMAIN packed[u]
        BY <2>1, <2>2 DEF Holds
    <2> DEFINE prod == [v \in Units |-> {w \in Units : \E d \in repo.prod[v] : d[1] = w}]
    <2>4. u \in ProdUnits(u) /\ \A v \in ProdUnits(u) : prod[v] \subseteq ProdUnits(u)
        <3>1. prod \in [Units -> SUBSET Units]
            OBVIOUS
        <3> HIDE DEF prod
        <3>2. u \in Reach(prod, u) /\ \A v \in Reach(prod, u) : prod[v] \subseteq Reach(prod, u)
            BY <3>1, ReachFacts
        <3> QED
            BY <3>2 DEF ProdUnits, prod
    <2>5. ASSUME NEW v \in ProdUnits(u), NEW d \in repo.prod[v]
          PROVE  d[1] \in ProdUnits(u) \/ d \in DOMAIN packed[u]["package.json"]
        <3>1. CASE d[1] \in Units
            BY <2>2, <2>4, <3>1
        <3>2. CASE d[1] \notin Units
            <4>1. d \in PackedDependencies(u)
                BY <3>2 DEF PackedDependencies, InRepo
            <4> QED
                BY <2>1, <4>1 DEF Holds
        <3> QED
            BY <3>1, <3>2
    <2> QED
        BY <2>2, <2>3, <2>4, <2>5
<1> QED
    BY <1>1, SafeInvariant, PackInvariant, PTL
=============================================================================
