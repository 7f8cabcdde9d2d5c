----------------------------- MODULE MCGeometry -----------------------------
(* A small instance of Geometry for TLC.                                   *)
EXTENDS Geometry, TLC

CONSTANTS v1, v2, v3

ThreeViews == {v1, v2, v3}
FiveNodes == 1..5
Null == 0

TwoAreas == {Box(0, 0, 200, 120), Box(0, 20, 30, 101)}
TwoSpots == {<<10, 30>>, <<90, 100>>}
Keys == {<<-200, 0>>}

\* No panel comes while the workspace is hidden: it would change the usable area
\* and no box, as if it came when the workspace is shown again.
ShownSpec ==
    GeometryInit /\ [][GeometryNext /\ (onShow \/ onShow' \/ usable' = usable)]_geometry

Symmetric == Permutations(Views)
=============================================================================
