----------------------------- MODULE MCPlanning -----------------------------
(***************************************************************************)
(* Bounds for TLC: catalogs of three tasks.  Their outputs may be equal,   *)
(* nested, siblings whose names begin alike, or hidden; their inputs lie   *)
(* in outputs, beside them or above them; their declared dependencies may  *)
(* repeat what the inputs say, form cycles, or name no task.               *)
(***************************************************************************)
EXTENDS Planning

CONSTANTS t1, t2, t3, ghost

MCNames == {"dist", "dist2", "x", ".h"}
MCLonger == {<<"dist", "dist2">>}
MCDot == {".h"}

Dist == <<"dist">>
DistX == <<"dist", "x">>
Dist2 == <<"dist2">>

Task(t, u, l, in, out, deps) ==
    [name |-> t, unit |-> u, labels |-> l, inputs |-> in, outputs |-> out, deps |-> deps]

MCCatalogs ==
    {<<Task(t1, "u1", {"build"}, i1, o1, d1), Task(t2, "u2", {"build"}, i2, o2, d2),
       Task(t3, "u2", {"test"}, i3, {}, d3)>> :
        o1 \in {{Dist}, {DistX}, {DistX, Dist2}}, o2 \in {{Dist2}, {DistX}, {<<".h">>}, {<<"dist", "dist2">>}},
        i1 \in {{}, {Dist2}}, i2 \in {{}, {DistX}}, i3 \in {{DistX}, {Dist, Dist2}, {<<"dist2", "x">>}},
        d1 \in {{}, {t3}}, d2 \in {{}, {t1}, {t3}}, d3 \in {{}, {t1, t2}, {t2, ghost}}}
    \cup {<<Task(t1, "u1", {}, {}, {}, {}), Task(t1, "u2", {}, {}, {}, {})>>,
          <<Task(t1, "u1", {}, {}, {Root}, {}), Task(t2, "u2", {}, {Dist, DistX}, {Dist2}, {})>>}

Request(units, goals, labels) == [units |-> units, goals |-> goals, labels |-> labels]
MCSelectors ==
    {Request({}, {}, {}), Request({}, {Dist}, {}), Request({"u1"}, {DistX}, {"test"}),
     Request({"u2"}, {}, {"test"}), Request({}, {Root}, {}), Request({}, {<<"dist2", "x">>}, {"build"})}
=============================================================================
