------------------------------ MODULE MCBuildRun ------------------------------
(***************************************************************************)
(* Bounds for TLC: a build of two tasks side by side and a test of a task  *)
(* that needs another one, in either order; two runs of the same program   *)
(* that overlap; and the other commands.                                   *)
(***************************************************************************)
EXTENDS BuildRun

CONSTANTS r1, r2, t1, t2, t3

MCNeeds == [t \in {t1, t2, t3} |-> IF t = t3 THEN {t1} ELSE {}]
MCLabels == [t \in {t1, t2, t3} |-> IF t = t3 THEN {"test"} ELSE {"build"}]
MCCommands == {[r \in Runs |-> IF r = r1 THEN c[1] ELSE c[2]] :
                  c \in {<<"build", "test">>, <<"run", "run">>, <<"run", "init-config">>,
                        <<"build", "generate-tsconfig">>}}
MCMoods == [r \in Runs |-> IF r = r1 THEN {"throws", "rejects"} ELSE {"fine"}]
=============================================================================
