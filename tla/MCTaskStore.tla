----------------------------- MODULE MCTaskStore -----------------------------
(***************************************************************************)
(* Bounds for TLC: two clients; one flaky task, or two tasks with a bundle *)
(* in common.                                                              *)
(***************************************************************************)
EXTENDS TaskStore, TLC

CONSTANTS c1, c2, k1, k2, x, y

Symmetry == Permutations({c1, c2})

\* two flaky tasks: the first passes with the bundle that the second passes with
\* too, or fails with another; the second has no outputs when it fails
FlakyTasks == {<<k1, "OK", y>>, <<k1, "FAIL", x>>, <<k2, "OK", y>>, <<k2, "FAIL", Nothing>>}

\* two tasks with a bundle each
TwoTasks == {<<k1, "OK", x>>, <<k2, "OK", y>>}
=============================================================================
