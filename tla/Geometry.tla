------------------------------ MODULE Geometry ------------------------------
(***************************************************************************)
(* The boxes of the dwindle layout (src/dwindle.c): how a tree of windows  *)
(* shares the usable area of an output, which window a directional key     *)
(* finds, and where a dropped window lands.  The tree itself, pointer by   *)
(* pointer, is Dwindle; here every node also has its box, its split and    *)
(* its ratio, and the searches that Dwindle leaves open are computed.      *)
(*                                                                         *)
(* One workspace of one output.  While it is on show, each of the          *)
(* compositor's operations ends in server_arrange, which lays the tree out *)
(* again; while it is hidden windows still come and go, and nothing does.  *)
(* Ratios are kept in hundredths.                                          *)
(***************************************************************************)
EXTENDS Dwindle, Integers, SequencesExt, FiniteSetsExt

CONSTANTS
    Areas,              \* the usable areas panels and output modes leave
    GapsIn, GapsOut,    \* of the configuration, after dwindle_set_gaps
    SmartGaps, Border,
    Spots,              \* where the pointer drops a window
    Deltas              \* pixels a resize key or a drag asks for: <<dx, dy>>

ASSUME GeometryAssumption ==
    /\ {GapsIn, GapsOut, Border} \subseteq Nat
    /\ SmartGaps \in BOOLEAN
    /\ \A a \in Areas : {a.x, a.y} \subseteq Nat /\ {a.w, a.h} \subseteq Nat \ {0}
    /\ Deltas \subseteq Int \X Int /\ Spots \subseteq Int \X Int
    /\ IsFiniteSet(Nodes)

VARIABLES
    split,      \* of the inner nodes: "across" is SPLIT_VERTICAL
    ratio,      \* the first child's share, in hundredths
    box,        \* x, y, width and height of every node; a leaf's is its window's
    usable,     \* the output's usable area
    onShow      \* the workspace is its output's active one

boxes == <<split, ratio, box, usable, onShow>>
geometry == <<vars, boxes>>

TheLeaf(v) == CHOOSE n \in LeafOf(v) : TRUE

Nothing == [x |-> 0, y |-> 0, w |-> 0, h |-> 0]
Box(x, y, w, h) == [x |-> x, y |-> y, w |-> w, h |-> h]

Empty(b) == b.w <= 0 \/ b.h <= 0
Holds(b, x, y) == x >= b.x /\ x < b.x + b.w /\ y >= b.y /\ y < b.y + b.h
-----------------------------------------------------------------------------
(* Laying a tree out                                                       *)

Clamp(r) == Min({90, Max({10, r})})

\* Mutant of Shares: a child may be left without any room.
SharesNone(room, r) ==
    LET gap == IF room - GapsIn <= 0 THEN 0 ELSE GapsIn
        a == ((room - gap) * Clamp(r)) \div 100
    IN  [a |-> a, gap |-> gap, b |-> room - gap - a]

\* What an inner node gives its children along its split: at least a pixel to
\* each, as long as there are two.
Shares(room, r) ==
    LET gap  == IF room - GapsIn <= 0 THEN 0 ELSE GapsIn
        free == room - gap
        a0   == Max({1, (free * Clamp(r)) \div 100})
        a    == IF free - a0 < 1 THEN free - 1 ELSE a0
    IN  [a |-> a, gap |-> gap, b |-> free - a]

\* The box of the first or the second child of a node.
Part(b, across, r, first) ==
    LET s == Shares(IF across THEN b.w ELSE b.h, r) IN
    CASE across /\ first   -> Box(b.x, b.y, s.a, b.h)
      [] across /\ ~ first -> Box(b.x + s.a + s.gap, b.y, s.b, b.h)
      [] ~ across /\ first -> Box(b.x, b.y, b.w, s.a)
      [] OTHER             -> Box(b.x, b.y + s.a + s.gap, b.w, s.b)

\* The root's box, given the outer gap.
Inner(out) ==
    LET gap == IF usable'.w - 2 * out <= 0 \/ usable'.h - 2 * out <= 0 THEN 0 ELSE out
    IN  Box(usable'.x + gap, usable'.y + gap, usable'.w - 2 * gap, usable'.h - 2 * gap)

\* server_arrange: a lone window may have gaps of its own.
OuterGap(windows) == IF SmartGaps /\ windows = 1 THEN Border ELSE GapsOut

\* dwindle_arrange on the tree the step leaves; kept are the boxes before it.
\* arrange_node turns back at an empty box: what lies under one keeps the box
\* it had.
Arrange(kept) ==
    LET top == Inner(OuterGap(Cardinality(Leaves')))
        laid[n \in alloc'] ==
          IF n = root' THEN [box |-> top, told |-> TRUE]
          ELSE LET p  == parent'[n]
                   up == laid[p]
               IN  IF ~ up.told \/ Empty(up.box)
                   THEN [box |-> kept[n], told |-> FALSE]
                   ELSE [box |-> Part(up.box, split'[p] = "across", ratio'[p], left'[p] = n),
                         told |-> TRUE]
    IN  box' = [n \in Nodes |-> IF n \in alloc' THEN laid[n].box ELSE Nothing]

\* The compositor arranges the workspaces on show.
Settle(kept) == IF onShow' THEN Arrange(kept) ELSE box' = kept

\* A changed tree: a new inner node has the box b of the leaf it splits, along
\* its longer side and in halves; a new leaf has none yet, a freed node none
\* any more.
Grow(b) ==
    LET new  == {n \in alloc' \ alloc : view'[n] = NoView}
        gone == Nodes \ alloc'
    IN  /\ split' = [n \in Nodes |-> IF n \in new /\ b.w > b.h THEN "across"
                                     ELSE IF n \in new \cup gone THEN "down" ELSE split[n]]
        /\ ratio' = [n \in Nodes |-> IF n \in new \cup gone THEN 50 ELSE ratio[n]]
        /\ Settle([n \in Nodes |-> IF n \in new THEN b
                                   ELSE IF n \in gone THEN Nothing ELSE box[n]])
-----------------------------------------------------------------------------
(* Finding a window                                                        *)

BoxOf(v) == box[TheLeaf(v)]

\* The first of some windows in the order of the tree, which every search
\* follows, if there is any.
Foremost(windows) ==
    LET order == InOrder(root)
    IN  {v \in windows : \E i \in DOMAIN order :
            order[i] = v /\ \A j \in 1..i - 1 : order[j] \notin windows}

\* dwindle_view_at (node_at): the first whose box holds the spot.
ViewAt(x, y) == Foremost({v \in HeldViews : Holds(BoxOf(v), x, y)})

\* interval_gap
IntervalGap(a0, a1, b0, b1) == Max({0, b0 - a1, a0 - b1})

Directions == {"left", "down", "up", "right"}

\* How far b is beyond c on the way to d, edge to edge and aside; negative if it
\* is not that way.
Ahead(b, c, d) == CASE d = "left"  -> c.x - (b.x + b.w)
                    [] d = "right" -> b.x - (c.x + c.w)
                    [] d = "up"    -> c.y - (b.y + b.h)
                    [] d = "down"  -> b.y - (c.y + c.h)
Aside(b, c, d) == IF d \in {"left", "right"}
                  THEN IntervalGap(b.y, b.y + b.h, c.y, c.y + c.h)
                  ELSE IntervalGap(b.x, b.x + b.w, c.x, c.x + c.w)

\* The same, from centre to centre.
Centre(b) == [x |-> b.x + b.w \div 2, y |-> b.y + b.h \div 2]
CentreAhead(b, c, d) == CASE d = "left"  -> Centre(c).x - Centre(b).x
                          [] d = "right" -> Centre(b).x - Centre(c).x
                          [] d = "up"    -> Centre(c).y - Centre(b).y
                          [] d = "down"  -> Centre(b).y - Centre(c).y
CentreAside(b, c, d) == LET off(k) == Max({Centre(b)[k] - Centre(c)[k], Centre(c)[k] - Centre(b)[k]})
                        IN  IF d \in {"left", "right"} THEN off("y") ELSE off("x")

\* The nearest of a set of windows; the first in the tree's order when several
\* are as near.
Nearest(candidates, far(_)) ==
    LET best == Min({far(v) : v \in candidates})
    IN  Foremost({v \in candidates : far(v) = best})

\* Mutant of Toward: takes the farthest window instead of the nearest.
TowardFarthest(from, d) ==
    LET c == BoxOf(from)
        beyond  == {v \in HeldViews \ {from} : Ahead(BoxOf(v), c, d) >= 0}
        edge(v) == - (Ahead(BoxOf(v), c, d) + 4 * Aside(BoxOf(v), c, d))
    IN  IF beyond # {} THEN Nearest(beyond, edge) ELSE {}

\* The window a directional key finds from another (search_direction_edge, then
\* search_direction_center), if any.
Toward(from, d) ==
    LET c == BoxOf(from)
        others  == {v \in HeldViews \ {from} : ~ Empty(BoxOf(v)) /\ ~ Empty(c)}
        beyond  == {v \in others : Ahead(BoxOf(v), c, d) >= 0}
        further == {v \in others : CentreAhead(BoxOf(v), c, d) > 0}
        edge(v)   == Ahead(BoxOf(v), c, d) + 4 * Aside(BoxOf(v), c, d)
        centre(v) == CentreAhead(BoxOf(v), c, d) + 4 * CentreAside(BoxOf(v), c, d)
    IN  IF beyond # {} THEN Nearest(beyond, edge)
        ELSE IF further # {} THEN Nearest(further, centre) ELSE {}
-----------------------------------------------------------------------------
(* The operations                                                          *)

\* workspace_add_view and its like: a window opens, is sent here, or is tiled
\* again.
Tile(v) == /\ AddView(v)
           /\ UNCHANGED <<usable, onShow>>
           /\ Grow(IF root = NoNode THEN Nothing ELSE box[CHOOSE n \in Target : TRUE])

\* A window closes, floats, goes full screen or is dragged away.
Untile(v) == /\ RemoveView(v)
             /\ UNCHANGED <<usable, onShow>>
             /\ Grow(Nothing)

\* server_focus_view tells the layout.
Select(v) == FocusView(v) /\ UNCHANGED boxes

\* The focus keys: dwindle_move_focus on the workspace on show.
FocusKey(d) ==
    /\ onShow /\ focused \in Leaves
    /\ \E v \in Toward(view[focused], d) : FocusView(v)
    /\ UNCHANGED boxes

\* Mutant of MoveKey: the focus stays where it was.
MoveKeyStays(d) ==
    /\ onShow /\ focused \in Leaves
    /\ \E v \in Toward(view[focused], d) : Exchange(focused, TheLeaf(v))
    /\ UNCHANGED <<alloc, parent, left, right, root, focused, split, ratio, usable, onShow>>
    /\ Arrange(box)

\* The move keys: dwindle_move_view.  (Without a window that way the view goes
\* to the next output.)
MoveKey(d) ==
    /\ onShow /\ focused \in Leaves
    /\ \E v \in Toward(view[focused], d) :
         /\ Exchange(focused, TheLeaf(v))
         /\ focused' = TheLeaf(v)
    /\ UNCHANGED <<alloc, parent, left, right, root, split, ratio, usable, onShow>>
    /\ Arrange(box)

\* The nodes between a node and the root.
Above(k) == LET up[n \in alloc] == IF n = root THEN {} ELSE {parent[n]} \cup up[parent[n]]
            IN  up[k]

\* The resize keys and a drag with the right button: dwindle_resize.  It moves
\* the boundary of every node above the focused leaf, and leaves alone a node
\* without width (or height).
Resize(dx, dy) ==
    /\ onShow /\ focused \in Leaves
    /\ LET above == Above(focused)
           by(n) == IF split[n] = "across"
                    THEN IF box[n].w > 0 THEN (100 * dx) \div box[n].w ELSE 0
                    ELSE IF box[n].h > 0 THEN (100 * dy) \div box[n].h ELSE 0
           moved(n) == IF split[n] = "across" THEN dx # 0 /\ box[n].w > 0
                       ELSE dy # 0 /\ box[n].h > 0
       IN  ratio' = [n \in Nodes |-> IF n \in above /\ moved(n) THEN Clamp(ratio[n] + by(n))
                                     ELSE ratio[n]]
    /\ UNCHANGED <<vars, split, usable, onShow>>
    /\ Arrange(box)

\* Mutant of Near: compares the height whatever the split.
NearTop(b, x, y) == y < b.y + b.h \div 2

\* Whether a spot is on the half of a box the first child will have.
Near(b, x, y) == IF b.w > b.h THEN x < b.x + b.w \div 2 ELSE y < b.y + b.h \div 2

\* A dragged window is let go: dwindle_place_view on the window under the
\* pointer, dwindle_add_view where there is none.
Drop(v, x, y) ==
    /\ onShow /\ ~ InTree(v)
    /\ UNCHANGED <<usable, onShow>>
    /\ \/ \E under \in ViewAt(x, y) :
            /\ Split(v, TheLeaf(under), Near(BoxOf(under), x, y))
            /\ Grow(BoxOf(under))
       \/ ViewAt(x, y) = {} /\ Tile(v)

\* A panel or the output's mode changes the usable area: server_arrange.
Panel(a) == /\ usable' = a
            /\ UNCHANGED <<vars, split, ratio, onShow>>
            /\ Settle(box)

\* output_set_workspace shows the workspace, or another one in its place.
Switch == /\ onShow' = ~ onShow
          /\ UNCHANGED <<vars, split, ratio, usable>>
          /\ Settle(box)

GeometryInit ==
    /\ Init
    /\ split = [n \in Nodes |-> "down"]
    /\ ratio = [n \in Nodes |-> 50]
    /\ box = [n \in Nodes |-> Nothing]
    /\ usable \in Areas
    /\ onShow = TRUE

GeometryNext ==
    \/ \E v \in Views : Tile(v) \/ Untile(v) \/ Select(v)
    \/ \E d \in Directions : FocusKey(d) \/ MoveKey(d)
    \/ \E d \in Deltas : Resize(d[1], d[2])
    \/ \E v \in Views, s \in Spots : Drop(v, s[1], s[2])
    \/ \E a \in Areas : Panel(a)
    \/ Switch

GeometrySpec == GeometryInit /\ [][GeometryNext]_geometry
-----------------------------------------------------------------------------
(* Properties                                                              *)

\* Some node has no pixel for each of its children: it has less than two, or
\* its room is a pixel more than the gap, which arrange_node takes although the
\* first child is left with nothing.
Cramped == \E n \in alloc \ Leaves :
             LET room == IF split[n] = "across" THEN box[n].w ELSE box[n].h
             IN  room < 2 \/ room = GapsIn + 1

Apart(a, b) == \/ a.x + a.w <= b.x \/ b.x + b.w <= a.x
               \/ a.y + a.h <= b.y \/ b.y + b.h <= a.y

Within(b, a) == /\ a.x <= b.x /\ b.x + b.w <= a.x + a.w
                /\ a.y <= b.y /\ b.y + b.h <= a.y + a.h

\* On a workspace on show every window has some room, lies inside the usable
\* area and overlaps no other, however far the ratios went, whatever happened
\* while it was hidden and whatever panel came or went (clamp_ratio and
\* arrange_node; server_arrange after every operation).
WindowsTile ==
    onShow /\ ~ Cramped =>
      /\ \A m \in Leaves : ~ Empty(box[m]) /\ Within(box[m], usable)
      /\ \A m, n \in Leaves : m # n => Apart(box[m], box[n])

\* Every node has room for the gap and a pixel for each child.
Spaced == GapsIn > 0 /\ \A n \in alloc \ Leaves :
            GapsIn + 2 <= IF split[n] = "across" THEN box[n].w ELSE box[n].h

\* From any window on show the focus keys lead to every other one, as long as
\* there is a gap between windows.  Without one, a window that only touches
\* another at a corner is as near as the one beside it, and the first in the
\* tree is taken: of four windows in a square the keys never lead to the last.
KeysReachAll ==
    onShow /\ Spaced =>
      \A S \in (SUBSET HeldViews) \ {{}, HeldViews} :
        \E v \in S, d \in Directions : Toward(v, d) \ S # {}

\* A window that is dropped on another lands under the pointer: no window that
\* was there holds the spot any more (dwindle_place_view).
LandsUnderPointer ==
    [][\A v \in Views, s \in Spots :
         Drop(v, s[1], s[2]) /\ ViewAt(s[1], s[2]) # {} /\ ~ Cramped' =>
           \A u \in HeldViews : ~ Holds(BoxOf(u)', s[1], s[2])]_geometry

\* The geometry only resolves what Dwindle leaves open.
ImplementsDwindle == Spec
=============================================================================
