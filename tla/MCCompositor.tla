---------------------------- MODULE MCCompositor ----------------------------
(* Small instances of Compositor for TLC.                                  *)
EXTENDS Compositor, TLC

CONSTANTS v1, v2, o1, o2

OneView == {v1}
TwoViews == {v1, v2}
OneOutput == {o1}
TwoOutputs == {o1, o2}
NoViews == {}

Box(x, y) == [x |-> x, y |-> y, w |-> 2, h |-> 1]

\* One output, and two side by side or one above the other.
Alone == {[o \in OneOutput |-> Box(0, 0)]}
SideBySide == {[o \in TwoOutputs |-> IF o = left THEN Box(0, 0) ELSE Box(2, 0)] :
                 left \in TwoOutputs}
Stacked == {[o \in TwoOutputs |-> IF o = above THEN Box(0, 0) ELSE Box(0, 1)] :
              above \in TwoOutputs}
Neighbours == SideBySide \cup Stacked

SecondView == {v2}

Rule(action) == [action |-> action, arg |-> 0]
ToWorkspace(w) == [action |-> "workspace", arg |-> w]

\* The rules that match a window, in the order of the configuration.
NoRules == {<<>>}
PlainRules ==
    {<<>>, <<Rule("float"), Rule("center")>>,
     <<Rule("float"), Rule("tile")>>, <<ToWorkspace(2)>>,
     <<Rule("fullscreen"), ToWorkspace(2)>>}
StickyRules ==
    {<<>>, <<Rule("float")>>, <<Rule("sticky")>>, <<ToWorkspace(2), Rule("sticky")>>}

\* Windows map in time, none is full screen, at most one floats, and only a
\* window that floats is dragged, which a move makes of a tiled one.
WindowedSpec ==
    Init /\ [][/\ Next /\ Timely
               /\ \A v \in Views : ~ view'[v].fullscreen
               /\ \A u, v \in Views : view'[u].floating /\ view'[v].floating => u = v
               /\ drag'.view # NoView => ~ view'[drag'.view].tiled]_vars

\* No window is mapped a second time.
MappedOnce ==
    \A v \in Views : view'[v].mapped => view[v].mapped \/ view[v] = Fresh

Symmetric == Permutations(Views) \cup Permutations(Outputs)
=============================================================================
