---------------------------- MODULE MCBuildEngine ----------------------------
(***************************************************************************)
(* Bounds for TLC: plans over up to four tasks.  The shapes have shared    *)
(* and transitive dependencies, independent branches, two edges between    *)
(* the same tasks, and tasks out of scope.                                 *)
(***************************************************************************)
EXTENDS BuildEngine

CONSTANTS a, b, c, d

NoBatching == {{}}

Neighbours(E) == [t \in Vertices |-> {u \in Vertices : \E e \in E : e[1] = t /\ e[2] = u}]
Loose(E, startingPoints, cacheable) ==
    ApplyPlan(E, startingPoints, Neighbours(E), cacheable)
\* tightFingerprints, for tasks that declare no deps of their own
Tight(E, startingPoints, cacheable) ==
    ApplyPlan(E, startingPoints, [t \in Vertices |-> {}], cacheable)

Chain   == {<<b, a, 1>>, <<c, b, 1>>}
Fork    == {<<b, a, 1>>, <<c, a, 1>>}
Join    == {<<c, a, 1>>, <<c, b, 1>>}
Doubled == {<<b, a, 1>>, <<b, a, 2>>}

SmallPlans ==
    {Loose(Chain, {c}, {a, b, c}), Loose(Join, {c}, {a, c}),
     Loose(Fork, {b}, {a}), Tight(Chain, {c}, {b}),
     Loose(Doubled, {b, c}, {a, b})}

Diamond == {<<b, a, 1>>, <<c, a, 1>>, <<d, b, 1>>, <<d, c, 1>>}
Side    == {<<c, a, 1>>, <<c, b, 1>>, <<d, b, 1>>}
Wide    == {<<c, a, 1>>, <<c, b, 1>>, <<d, c, 1>>}

LargePlans ==
    {Loose(Diamond, {d}, {a, b}), Loose(Side, {c}, {}), Loose(Wide, {d}, {a})}

Plans == SmallPlans \cup LargePlans
=============================================================================
