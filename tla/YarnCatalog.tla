----------------------------- MODULE YarnCatalog -----------------------------
(***************************************************************************)
(* What the yarn repo-protocol makes of a monorepo before tasks run:       *)
(* initialize() and getTasks() (modules/yarn-repo-protocol/src:            *)
(* yarn-repo-protocol.ts).  A path is a sequence of names that starts with *)
(* the unit; what `yarn workspaces info` and the package.json files say is *)
(* the record repo.                                                        *)
(***************************************************************************)
EXTENDS Naturals, Sequences, FiniteSets

CONSTANTS
    Units,    \* the real units; the root unit has no tasks
    Repos,    \* monorepos, see RepoType
    NoFile    \* a file that does not exist

VARIABLES
    repo,       \* the monorepo
    stage,      \* of this build: "INIT", "RESOLVE", "RUN" or why it failed
    pointer,    \* resolveBuildTasks(): the file to read and those read
    tsconfig    \* the references of each unit's tsconfig.json, or NoFile

catalogVars == <<repo, stage, pointer, tsconfig>>

Toggles == {"off", "dormant", "on"}

\* A repo has: deps and mismatched (the workspace dependencies yarn lists),
\* prod (dependencies of package.json, <<name, version>>), dev (likewise),
\* version, scripts, testCommand, custom (units with a custom build task), def
\* (the first file its definition points to, or NoFile), files (where each file
\* points to, or "definition"), always (its inputs are _ALWAYS_), config, wanted
\* (the tasks in the plan).
RepoType(r) ==
    /\ r.deps \in [Units -> SUBSET Units] /\ r.mismatched \in [Units -> SUBSET Units]
    /\ r.config.uber \in BOOLEAN /\ r.config.cache \in BOOLEAN /\ r.config.install \in Toggles

\* buildDependencyGraph() and traverseFrom(): the units u needs, u among them.
Reach(edges, u) ==
    {v \in Units : \A C \in SUBSET Units :
        (u \in C /\ \A w \in C : edges[w] \subseteq C) => v \in C}

\* The planner rejects cycles, a plan holds the builds that its tasks read from
\* (see Planning), and yarn lists each dependency on a unit, matched or not.
PlanType(r) ==
    /\ \A C \in SUBSET Units : C # {} => \E u \in C : r.deps[u] \cap C = {}
    /\ \A t \in r.wanted : t[1] \in {"build", "test", "pack", "publish-assets"} =>
        \A v \in Reach(r.deps, t[2]) : <<"build", v>> \in r.wanted
    /\ \A u \in Units : \A d \in r.prod[u] : d[1] \in Units => d[1] \in r.deps[u] \cup r.mismatched[u]

ASSUME NamesAssumption == "package.json" \notin Units
ASSUME ReposAssumption == \A r \in Repos : RepoType(r) /\ PlanType(r)

-----------------------------------------------------------------------------
(* Graph and packages                                                      *)

DepUnits(u) == Reach(repo.deps, u) \ {u}

InRepo(d) == d \in Units

\* mutant: without a visit to the dependencies of dependencies
ProdUnits_direct(u) == {u} \cup {v \in Units : \E d \in repo.prod[u] : d[1] = v}

\* The scan of computePackingPackageJson(): along `dependencies` only.
ProdUnits(u) == Reach([v \in Units |-> {w \in Units : \E d \in repo.prod[v] : d[1] = w}], u)

\* What the packed package.json depends on: the packages from out of the repo.
PackedDependencies(u) == {d \in UNION {repo.prod[v] : v \in ProdUnits(u)} : ~InRepo(d[1])}

\* computeVersions(): every package asked for in one version.
Inconsistent ==
    LET asked == UNION {repo.prod[u] \cup repo.dev[u] : u \in Units}
    IN \E d, e \in asked : d[1] = e[1] /\ d[2] # e[2]

HasRunScript(u, script) == script \in repo.scripts[u]

\* getTestCommand()
HasTestCommand(u) == repo.config.customTests /\ u \in repo.testCommand

-----------------------------------------------------------------------------
(* initialize()                                                            *)

\* generateTsConfigFilesInternal(): a file that says the same is left alone.
TsConfigs == [u \in Units |-> repo.deps[u]]

InitializeFailure ==
    IF repo.config.malformed THEN "BAD_CONFIG"
    ELSE IF Inconsistent THEN "INCONSISTENT_VERSION"
    ELSE IF \E u \in Units : repo.mismatched[u] # {} THEN "VERSION_MISMATCH"
    ELSE "none"

Initialize ==
    /\ stage = "INIT"
    /\ stage' = IF InitializeFailure = "none" THEN "RESOLVE" ELSE InitializeFailure
    /\ tsconfig' = IF InitializeFailure = "none" THEN TsConfigs ELSE tsconfig
    /\ pointer' = [where |-> repo.def, seen |-> {}]
    /\ UNCHANGED repo

-----------------------------------------------------------------------------
(* getTasks()                                                              *)

\* mutant: a file is read again
CycleFound_never(where) == FALSE

CycleFound(where) == where \in pointer.seen

\* One file of the chain that leads to the definition of a custom build task.
ResolveBuildTasks ==
    /\ stage = "RESOLVE" /\ repo.def # NoFile
    /\ LET at == pointer.where IN
       \/ CycleFound(at) /\ stage' = "CIRCULAR_DEFINITION" /\ UNCHANGED pointer
       \/ ~CycleFound(at) /\ at \notin DOMAIN repo.files /\ stage' = "NO_DEFINITION" /\ UNCHANGED pointer
       \/ /\ ~CycleFound(at) /\ at \in DOMAIN repo.files
          /\ IF repo.files[at] # "definition"
             THEN /\ pointer' = [where |-> repo.files[at], seen |-> pointer.seen \cup {at}]
                  /\ UNCHANGED stage
             ELSE /\ stage' = IF \A u \in repo.custom : HasRunScript(u, "gen") THEN "RUN" ELSE "NO_RUN_SCRIPT"
                  /\ UNCHANGED pointer
    /\ UNCHANGED <<repo, tsconfig>>

NothingToResolve ==
    /\ stage = "RESOLVE" /\ repo.def = NoFile
    /\ stage' = IF \A u \in repo.custom : HasRunScript(u, "gen") THEN "RUN" ELSE "NO_RUN_SCRIPT"
    /\ UNCHANGED <<repo, pointer, tsconfig>>

InstallTask == <<"install", "root">>

\* depList()
DepList == IF repo.config.install = "off" THEN {} ELSE {InstallTask}

DistSources(us) == {<<v, "dist", "src">> : v \in us}

BuildTask(u) ==
    [labels |-> {"build"}, caching |-> repo.config.cache, purge |-> "NEVER",
     outputs |-> {<<u, "dist">>}, deps |-> DepList,
     inputs |-> {<<u, "src">>, <<u, "tests">>, <<u, "package.json">>} \cup DistSources(DepUnits(u))
                \cup (IF repo.config.install = "off" THEN {<<"root", "yarn.lock">>} ELSE {})]

TestTask(u) ==
    [labels |-> {"test"}, caching |-> TRUE, purge |-> "ALWAYS",
     outputs |-> {<<u, "jest-output.json">>, <<u, "out", "test-runs.json">>}, deps |-> DepList,
     inputs |-> {<<u, "dist", "src">>, <<u, "dist", "tests">>, <<u, "package.json">>}
                \cup DistSources(DepUnits(u))]

PackTask(u) ==
    [labels |-> {"pack"}, caching |-> TRUE, purge |-> "ALWAYS", outputs |-> {<<u, "pack">>}, deps |-> {},
     inputs |-> DistSources({u} \cup DepUnits(u))]

PublishTask(u) ==
    [labels |-> {"publish-assets"}, caching |-> TRUE, purge |-> "NEVER",
     outputs |-> {<<u, "prepared-assets">>}, deps |-> {},
     inputs |-> {<<u, "package.json">>, <<u, "dist", "src">>}]

\* customTasks(): here one task, "gen", that reads dist and writes "gen".
CustomTask(u) ==
    [labels |-> {"gen"}, caching |-> TRUE, purge |-> "ALWAYS", outputs |-> {<<u, "gen">>}, deps |-> {},
     inputs |-> IF repo.always THEN {<<"root", "build-run-id">>} ELSE {<<u, "package.json">>, <<u, "dist">>}]

InstallInfo ==
    [labels |-> {}, caching |-> TRUE, purge |-> "NEVER", outputs |-> {<<"root", "node_modules">>},
     deps |-> {}, inputs |-> {<<"root", "yarn.lock">>, <<"root", "package.json">>}]

Kinds == {"build", "test", "pack", "publish-assets", "gen"}

Exists(kind, u) ==
    CASE kind = "publish-assets" -> HasRunScript(u, "prepare-assets")
      [] kind = "gen" -> u \in repo.custom
      [] OTHER -> TRUE

\* The tasks getTasks() returns.
Catalog ==
    {t \in Kinds \X Units : Exists(t[1], t[2])}
    \cup (IF repo.config.install = "off" THEN {} ELSE {InstallTask})

Info(t) ==
    CASE t[1] = "build" -> BuildTask(t[2])
      [] t[1] = "test" -> TestTask(t[2])
      [] t[1] = "pack" -> PackTask(t[2])
      [] t[1] = "publish-assets" -> PublishTask(t[2])
      [] t[1] = "gen" -> CustomTask(t[2])
      [] OTHER -> InstallInfo

\* mutant: what the inputs imply is not looked up
Needs_declared(t) == Info(t).deps

\* The planner's edges: the tasks whose outputs t reads, and its dependencies.
Needs(t) ==
    Info(t).deps \cup
    {p \in Catalog : \E o \in Info(p).outputs, i \in Info(t).inputs :
                         Len(o) <= Len(i) /\ \A n \in 1 .. Len(o) : o[n] = i[n]}
=============================================================================
