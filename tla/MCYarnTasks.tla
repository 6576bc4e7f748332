----------------------------- MODULE MCYarnTasks -----------------------------
(***************************************************************************)
(* Bounds for TLC: three units a <- b <- c or less, sources of one or two  *)
(* files, two builds, and monorepos that each exercise a part of the       *)
(* protocol.                                                               *)
(***************************************************************************)
EXTENDS YarnTasks, TLC

CONSTANTS a, b, c

\* Two files, one of them deleted, and one the compiler rejects.
MCFirst == "x" :> 1 @@ "y" :> 1
MCSources == {MCFirst, "y" :> 1, "y" :> 9}
MCBad == {9}

MCSpecs == [u \in Units |-> IF u = c THEN {"s1", "s2"} ELSE IF u = b THEN {"s3"} ELSE {}]

Config(one, cached, toggle) ==
    [uber |-> one, cache |-> cached, install |-> toggle, customTests |-> TRUE,
     malformed |-> FALSE]

None == [u \in Units |-> {}]
Chain == [None EXCEPT ![b] = {a}, ![c] = {b}]
Builds == {"build"} \X Units

Repo(deps, config, tasks) ==
    [deps |-> deps, mismatched |-> None, prod |-> [u \in Units |-> {<<d, 1>> : d \in deps[u]}],
     dev |-> None, scripts |-> None, testCommand |-> {}, custom |-> {}, def |-> NoFile,
     files |-> Nothing, always |-> FALSE, config |-> config, wanted |-> tasks]

TestRepo(one, cached) == Repo(Chain, Config(one, cached, "off"), Builds \cup {<<"test", c>>})

\* The code that c packs needs a package that only a names.
PackRepo ==
    [Repo(Chain, Config(TRUE, FALSE, "off"), Builds \cup {<<"pack", c>>}) EXCEPT
        !.prod[a] = {<<"lib", 1>>}, !.dev[c] = {<<"lint", 1>>}]

\* Scripts, and an installation that comes first.
ScriptRepo(toggle, run) ==
    [Repo(None, Config(TRUE, TRUE, toggle), {<<"build", a>>, <<"publish-assets", a>>, <<"gen", a>>, InstallTask})
     EXCEPT !.scripts[a] = {"prepare-assets", "gen", "build:post"}, !.custom = {a}, !.always = run]

Pointing(files) == [ScriptRepo("off", FALSE) EXCEPT !.def = "f1", !.files = files]

MCRepos ==
    {TestRepo(TRUE, TRUE), TestRepo(TRUE, FALSE),
     [Repo([None EXCEPT ![c] = {a}], Config(FALSE, TRUE, "off"), {<<"build", a>>, <<"build", c>>, <<"test", c>>})
      EXCEPT !.scripts[c] = {"validate"}],
     [Repo(None, Config(FALSE, FALSE, "off"), {<<"build", c>>, <<"test", c>>}) EXCEPT !.testCommand = {c}],
     Repo(None, Config(TRUE, TRUE, "off"), {<<"build", a>>, <<"build", b>>, <<"test", b>>}), PackRepo,
     ScriptRepo("on", FALSE), ScriptRepo("dormant", TRUE),
     Pointing("f1" :> "f2" @@ "f2" :> "definition"), Pointing("f1" :> "f2"),
     Pointing("f1" :> "f2" @@ "f2" :> "f1"),
     [ScriptRepo("off", FALSE) EXCEPT !.scripts[a] = {}],
     [TestRepo(TRUE, TRUE) EXCEPT !.config.malformed = TRUE],
     [TestRepo(TRUE, TRUE) EXCEPT !.dev[a] = {<<b, 2>>}],
     [TestRepo(TRUE, TRUE) EXCEPT !.mismatched[b] = {a}]}

MCRerunRepos == {TestRepo(FALSE, TRUE)}
=============================================================================
