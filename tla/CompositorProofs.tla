--------------------------- MODULE CompositorProofs ---------------------------
(***************************************************************************)
(* Proofs about Compositor for any windows, outputs and workspaces.        *)
(*                                                                         *)
(* What the types promise, that a drag is of a window that is there and    *)
(* that a sticky window stays in sight hold whatever the rules are.  Where *)
(* the windows are holds while no rule and no app makes a window sticky    *)
(* (NeverSticky) and no window maps on an output that was unplugged        *)
(* (Timely), for such a window makes what was freed the active output;     *)
(* then workspaces and outputs change only as Workspaces says.             *)
(***************************************************************************)
EXTENDS Compositor, NaturalsInduction, WellFoundedInduction, FiniteSetTheorems, TLAPS

USE NumWorkspacesAssumption, OutputsAssumption, ViewsAssumption

\* The fields of a View, a layout and the server record.
Windows == [mapped : BOOLEAN, workspace : 0..NumWorkspaces,
            output : Outputs \cup {NoOutput}, tiled : BOOLEAN,
            floating : BOOLEAN, fullscreen : BOOLEAN,
            saved_tiled : BOOLEAN, dragging : BOOLEAN,
            sticky : BOOLEAN, enabled : BOOLEAN]

Trees == [held : SUBSET Views, focus : Views \cup {NoView}]

Servers ==
    [conn : SUBSET Outputs,
     output : [Workspaces -> Outputs \cup {NoOutput}],
     last : [Workspaces -> Outputs \cup {NoOutput}],
     active : [Outputs -> 0..NumWorkspaces],
     act : Outputs \cup {NoOutput},
     occ : SUBSET Workspaces,
     views : SUBSET Views,
     view : [Views -> Windows],
     layout : [Workspaces -> Trees],
     focus : Views \cup {NoView},
     drag : [view : Views \cup {NoView}, restore_tiled : BOOLEAN]]

\* What no call on a window touches: the outputs, the assignment of workspaces
\* to them, the list of windows and the drag.
SameScreens(s, t) ==
    /\ t.conn = s.conn /\ t.output = s.output /\ t.last = s.last
    /\ t.active = s.active /\ t.occ = s.occ
    /\ t.views = s.views /\ t.drag = s.drag

\* ... and neither the active output nor the focus.
Same(s, t) == SameScreens(s, t) /\ t.act = s.act /\ t.focus = s.focus

\* A call that at most re-arranges the layouts.
Arranges(s, t) == t \in Servers /\ Same(s, t) /\ t.view = s.view

\* A call on window v, which stays mapped, or unmapped, and dragged.
CallOn(s, t, v) ==
    /\ t \in Servers /\ Same(s, t)
    /\ \A u \in Views \ {v} : t.view[u] = s.view[u]
    /\ t.view[v].mapped = s.view[v].mapped
    /\ t.view[v].dragging = s.view[v].dragging
-----------------------------------------------------------------------------
(* Assignments to one field                                                *)

\* The record with another layout of one workspace.
LEMMA SetLayout ==
    ASSUME NEW s \in Servers, NEW w \in Workspaces, NEW tree \in Trees
    PROVE  /\ Arranges(s, [s EXCEPT !.layout[w] = tree])
           /\ [s EXCEPT !.layout[w] = tree].layout = [s.layout EXCEPT ![w] = tree]
BY DEF Servers, Arranges, Same, SameScreens

\* The record with other fields of one window.
LEMMA SetView ==
    ASSUME NEW s \in Servers, NEW v \in Views, NEW f \in Windows
    PROVE  /\ [s EXCEPT !.view[v] = f] \in Servers
           /\ Same(s, [s EXCEPT !.view[v] = f])
           /\ [s EXCEPT !.view[v] = f].view = [s.view EXCEPT ![v] = f]
           /\ [s EXCEPT !.view[v] = f].layout = s.layout
BY DEF Servers, Same, SameScreens

-----------------------------------------------------------------------------
(* Layouts                                                                 *)

\* The focus of a layout is in it.
FocusInside(tree) == tree.focus \in tree.held \cup {NoView}

\* From s to t at most the layout of w changes, which then holds held.
LayoutOf(s, t, w, held) ==
    /\ \A x \in Workspaces \ {w} : t.layout[x] = s.layout[x]
    /\ t.layout[w].held = held
    /\ FocusInside(s.layout[w]) => FocusInside(t.layout[w])

LEMMA JoinAdds ==
    ASSUME NEW s \in Servers, NEW w \in Workspaces, NEW v \in Views
    PROVE  /\ Arranges(s, Join(s, w, v))
           /\ LayoutOf(s, Join(s, w, v), w, s.layout[w].held \cup {v})
<1>1. s.layout[w] \in Trees
  BY DEF Servers
<1>2. CASE v \in s.layout[w].held
  BY <1>2 DEF Join, Arranges, Same, SameScreens, LayoutOf
<1>3. CASE v \notin s.layout[w].held
  <2> DEFINE tree == [held |-> s.layout[w].held \cup {v}, focus |-> v]
  <2>1. tree \in Trees /\ FocusInside(tree)
    BY <1>1 DEF Trees, FocusInside
  <2>2. Join(s, w, v) = [s EXCEPT !.layout[w] = tree]
    BY <1>3 DEF Join
  <2>3. tree.held = s.layout[w].held \cup {v}
    OBVIOUS
  <2> HIDE DEF tree
  <2> QED
    BY <2>1, <2>2, <2>3, SetLayout DEF LayoutOf, Servers
<1> QED
  BY <1>2, <1>3

LEMMA LayoutFocusKeeps ==
    ASSUME NEW s \in Servers, NEW w \in 0..NumWorkspaces, NEW v \in Views
    PROVE  /\ Arranges(s, LayoutFocus(s, w, v))
           /\ w # NoWorkspace => LayoutOf(s, LayoutFocus(s, w, v), w, s.layout[w].held)
           /\ w = NoWorkspace => LayoutFocus(s, w, v) = s
<1>1. CASE w = NoWorkspace \/ v \notin s.layout[w].held
  BY <1>1 DEF LayoutFocus, Arranges, Same, SameScreens, LayoutOf
<1>2. CASE w # NoWorkspace /\ v \in s.layout[w].held
  <2> DEFINE tree == [s.layout[w] EXCEPT !.focus = v]
  <2>0. w \in Workspaces
    BY <1>2 DEF NoWorkspace, Workspaces
  <2>1. tree \in Trees /\ FocusInside(tree) /\ tree.held = s.layout[w].held
    BY <1>2, <2>0 DEF Trees, FocusInside, Servers
  <2>2. LayoutFocus(s, w, v) = [s EXCEPT !.layout[w] = tree]
    BY <1>2 DEF LayoutFocus
  <2> HIDE DEF tree
  <2> QED
    BY <1>2, <2>0, <2>1, <2>2, SetLayout DEF LayoutOf, Servers
<1> QED
  BY <1>1, <1>2

LEMMA LeaveRemoves ==
    ASSUME NEW s \in Servers, NEW w \in Workspaces, NEW v \in Views,
           NEW t \in Leave(s, w, v)
    PROVE  /\ Arranges(s, t)
           /\ LayoutOf(s, t, w, s.layout[w].held \ {v})
<1> DEFINE held == s.layout[w].held \ {v}
<1>1. s.layout[w] \in Trees
  BY DEF Servers
<1>2. CASE v \notin s.layout[w].held
  BY <1>2 DEF Leave, Arranges, Same, SameScreens, LayoutOf
<1>3. CASE v \in s.layout[w].held
  <2>1. PICK heir \in IF s.layout[w].focus # v THEN {s.layout[w].focus}
                      ELSE IF held = {} THEN {NoView} ELSE held :
               t = [s EXCEPT !.layout[w] = [held |-> held, focus |-> heir]]
    BY <1>3 DEF Leave
  <2> DEFINE tree == [held |-> held, focus |-> heir]
  <2>2. tree \in Trees /\ tree.held = held
        /\ (FocusInside(s.layout[w]) => FocusInside(tree))
    BY <1>1, <2>1 DEF Trees, FocusInside
  <2>3. t = [s EXCEPT !.layout[w] = tree]
    BY <2>1
  <2> HIDE DEF tree
  <2> QED
    BY <2>2, <2>3, SetLayout DEF LayoutOf, Servers
<1> QED
  BY <1>2, <1>3

\* A window leaves the layout of its workspace, if it has one.
LEMMA LeaveOwnRemoves ==
    ASSUME NEW s \in Servers, NEW v \in Views, NEW t \in LeaveOwn(s, v)
    PROVE  LET w == s.view[v].workspace IN
           /\ Arranges(s, t)
           /\ w # NoWorkspace => LayoutOf(s, t, w, s.layout[w].held \ {v})
           /\ w = NoWorkspace => t = s
<1> DEFINE w == s.view[v].workspace
<1>1. CASE w = NoWorkspace
  BY <1>1 DEF LeaveOwn, Arranges, Same, SameScreens
<1>2. CASE w # NoWorkspace
  <2>1. w \in Workspaces
    BY <1>2 DEF Servers, Windows, Workspaces, NoWorkspace
  <2>2. t \in Leave(s, w, v)
    BY <1>2 DEF LeaveOwn
  <2> HIDE DEF w
  <2> QED
    BY <1>2, <2>1, <2>2, LeaveRemoves DEF w
<1> QED
  BY <1>1, <1>2
-----------------------------------------------------------------------------
(* What a window looks like                                                *)

\* From s to t window v may enter or leave the layout of its workspace w; it
\* keeps its workspace and output, and is shown or hidden as before.
InOwnLayout(s, t, v, w) ==
    \A x \in Workspaces :
      /\ x # w => t.layout[x] = s.layout[x]
      /\ t.layout[x].held \ {v} = s.layout[x].held \ {v}
      /\ FocusInside(s.layout[x]) => FocusInside(t.layout[x])

Dresses(s, t, v) ==
    /\ CallOn(s, t, v)
    /\ t.view[v].workspace = s.view[v].workspace
    /\ t.view[v].output = s.view[v].output
    /\ t.view[v].sticky = s.view[v].sticky
    /\ t.view[v].enabled = s.view[v].enabled
    /\ InOwnLayout(s, t, v, s.view[v].workspace)

LEMMA DressesNothing ==
    ASSUME NEW s \in Servers, NEW v \in Views
    PROVE  Dresses(s, s, v)
BY DEF Dresses, CallOn, Same, SameScreens, InOwnLayout

LEMMA DressesServer ==
    ASSUME NEW s, NEW v, NEW t, Dresses(s, t, v)
    PROVE  t \in Servers
BY DEF Dresses, CallOn

LEMMA DressesTwice ==
    ASSUME NEW s \in Servers, NEW v \in Views, NEW t, NEW u,
           Dresses(s, t, v), Dresses(t, u, v)
    PROVE  Dresses(s, u, v)
BY DEF Dresses, CallOn, Same, SameScreens, InOwnLayout

\* The same window, tiled, floating or full screen another way.
Redressed(f, g) ==
    /\ g.mapped = f.mapped /\ g.workspace = f.workspace /\ g.output = f.output
    /\ g.dragging = f.dragging /\ g.sticky = f.sticky /\ g.enabled = f.enabled

LEMMA RedressedByOneField ==
    ASSUME NEW f \in Windows, NEW b \in BOOLEAN
    PROVE  /\ [f EXCEPT !.tiled = b] \in Windows
           /\ Redressed(f, [f EXCEPT !.tiled = b])
           /\ [f EXCEPT !.floating = b] \in Windows
           /\ Redressed(f, [f EXCEPT !.floating = b])
           /\ [f EXCEPT !.fullscreen = b] \in Windows
           /\ Redressed(f, [f EXCEPT !.fullscreen = b])
           /\ [f EXCEPT !.saved_tiled = b] \in Windows
           /\ Redressed(f, [f EXCEPT !.saved_tiled = b])
BY DEF Windows, Redressed

LEMMA DressesFields ==
    ASSUME NEW s \in Servers, NEW v \in Views, NEW f \in Windows,
           Redressed(s.view[v], f)
    PROVE  Dresses(s, [s EXCEPT !.view[v] = f], v)
<1> DEFINE t == [s EXCEPT !.view[v] = f]
<1>1. /\ t \in Servers /\ Same(s, t) /\ t.view = [s.view EXCEPT ![v] = f]
      /\ t.layout = s.layout
  BY SetView
<1>2. \A u \in Views \ {v} : t.view[u] = s.view[u]
  BY <1>1 DEF Servers
<1>3. t.view[v] = f
  BY <1>1 DEF Servers
<1> HIDE DEF t
<1>4. InOwnLayout(s, t, v, s.view[v].workspace)
  BY <1>1 DEF InOwnLayout
<1>5. Dresses(s, t, v)
  BY <1>1, <1>2, <1>3, <1>4 DEF Dresses, CallOn, Redressed
<1> QED
  BY <1>5 DEF t

LEMMA DressesOneField ==
    ASSUME NEW s \in Servers, NEW v \in Views, NEW b \in BOOLEAN
    PROVE  /\ Dresses(s, [s EXCEPT !.view[v].tiled = b], v)
           /\ Dresses(s, [s EXCEPT !.view[v].floating = b], v)
           /\ Dresses(s, [s EXCEPT !.view[v].fullscreen = b], v)
           /\ Dresses(s, [s EXCEPT !.view[v].saved_tiled = b], v)
<1>1. s.view[v] \in Windows
  BY DEF Servers
<1> QED
  BY <1>1, RedressedByOneField, DressesFields

\* dwindle_remove_view and the like, on the layout of the window's workspace.
LEMMA ArrangesOwn ==
    ASSUME NEW s \in Servers, NEW v \in Views, NEW t, Arranges(s, t),
           NEW held,
           held \ {v} = s.layout[s.view[v].workspace].held \ {v},
           s.view[v].workspace # NoWorkspace =>
             LayoutOf(s, t, s.view[v].workspace, held),
           s.view[v].workspace = NoWorkspace => t = s
    PROVE  Dresses(s, t, v)
<1> DEFINE w == s.view[v].workspace
<1>1. CallOn(s, t, v) /\ t.view = s.view
  BY DEF Arranges, CallOn
<1>2. InOwnLayout(s, t, v, w)
  <2>1. CASE w = NoWorkspace
    BY <2>1 DEF InOwnLayout
  <2>2. CASE w # NoWorkspace
    BY <2>2 DEF InOwnLayout, LayoutOf
  <2> QED
    BY <2>1, <2>2
<1> QED
  BY <1>1, <1>2 DEF Dresses

LEMMA LeaveOwnDresses ==
    ASSUME NEW s \in Servers, NEW v \in Views, NEW t \in LeaveOwn(s, v)
    PROVE  Dresses(s, t, v)
<1> DEFINE held == s.layout[s.view[v].workspace].held \ {v}
<1>1. held \ {v} = s.layout[s.view[v].workspace].held \ {v}
  OBVIOUS
<1>2. /\ Arranges(s, t)
      /\ s.view[v].workspace # NoWorkspace => LayoutOf(s, t, s.view[v].workspace, held)
      /\ s.view[v].workspace = NoWorkspace => t = s
  BY LeaveOwnRemoves
<1> HIDE DEF held
<1> QED
  BY <1>1, <1>2, ArrangesOwn

LEMMA UntileDresses ==
    ASSUME NEW s \in Servers, NEW v \in Views, NEW t \in Untile(s, v)
    PROVE  Dresses(s, t, v)
<1>1. CASE t = s
  BY <1>1, DressesNothing
<1>2. CASE t # s
  <2>1. PICK u \in LeaveOwn(s, v) : t = [u EXCEPT !.view[v].tiled = FALSE]
    BY <1>2 DEF Untile
  <2>2. Dresses(s, u, v) /\ u \in Servers
    BY LeaveOwnDresses DEF Dresses, CallOn
  <2>3. Dresses(u, t, v)
    BY <2>1, <2>2, DressesOneField
  <2> QED
    BY <2>2, <2>3, DressesTwice
<1> QED
  BY <1>1, <1>2

LEMMA TileDresses ==
    ASSUME NEW s \in Servers, NEW v \in Views, s.view[v].workspace # NoWorkspace
    PROVE  Dresses(s, Tile(s, s.view[v].workspace, v), v)
<1> DEFINE w == s.view[v].workspace
           t == Join(s, w, v)
<1>1. w \in Workspaces
  BY DEF Servers, Windows, Workspaces, NoWorkspace
<1>2. Arranges(s, t) /\ LayoutOf(s, t, w, s.layout[w].held \cup {v})
  BY <1>1, JoinAdds
<1>3. (s.layout[w].held \cup {v}) \ {v} = s.layout[w].held \ {v}
  OBVIOUS
<1>4. Tile(s, w, v) = [t EXCEPT !.view[v].tiled = TRUE]
  BY DEF Tile
<1> HIDE DEF t
<1>5. Dresses(s, t, v) /\ t \in Servers
  BY <1>2, <1>3, ArrangesOwn DEF Arranges
<1>6. Dresses(t, Tile(s, w, v), v)
  BY <1>4, <1>5, DressesOneField
<1> QED
  BY <1>5, <1>6, DressesTwice

\* A window leaves its tree and floats.
LEMMA FloatDresses ==
    ASSUME NEW s \in Servers, NEW v \in Views,
           NEW t \in {[u EXCEPT !.view[v].floating = TRUE] : u \in Untile(s, v)}
    PROVE  Dresses(s, t, v)
<1>1. PICK u \in Untile(s, v) : t = [u EXCEPT !.view[v].floating = TRUE]
  OBVIOUS
<1>2. Dresses(s, u, v) /\ u \in Servers
  BY UntileDresses DEF Dresses, CallOn
<1>3. Dresses(u, t, v)
  BY <1>1, <1>2, DressesOneField
<1> QED
  BY <1>2, <1>3, DressesTwice

LEMMA CenterDresses ==
    ASSUME NEW s \in Servers, NEW v \in Views, NEW t \in Center(s, v)
    PROVE  Dresses(s, t, v)
<1>1. t = s \/ t \in {[u EXCEPT !.view[v].floating = TRUE] : u \in Untile(s, v)}
  BY DEF Center
<1> QED
  BY <1>1, DressesNothing, FloatDresses

\* Two assignments, one after the other.
LEMMA DressesTwoFields ==
    ASSUME NEW s \in Servers, NEW v \in Views, NEW b \in BOOLEAN, NEW c \in BOOLEAN
    PROVE  /\ Dresses(s, [s EXCEPT !.view[v].fullscreen = b, !.view[v].saved_tiled = c], v)
           /\ Dresses(s, [s EXCEPT !.view[v].tiled = b, !.view[v].floating = c], v)
<1> DEFINE t == [s EXCEPT !.view[v].fullscreen = b]
           u == [s EXCEPT !.view[v].tiled = b]
<1>1. Dresses(s, t, v) /\ Dresses(s, u, v)
  BY DressesOneField
<1>2. /\ [s EXCEPT !.view[v].fullscreen = b, !.view[v].saved_tiled = c]
           = [t EXCEPT !.view[v].saved_tiled = c]
      /\ [s EXCEPT !.view[v].tiled = b, !.view[v].floating = c]
           = [u EXCEPT !.view[v].floating = c]
  OBVIOUS
<1> HIDE DEF t, u
<1>3. t \in Servers /\ u \in Servers
  BY <1>1 DEF Dresses, CallOn
<1>4. /\ Dresses(t, [t EXCEPT !.view[v].saved_tiled = c], v)
      /\ Dresses(u, [u EXCEPT !.view[v].floating = c], v)
  BY <1>3, DressesOneField
<1> QED
  BY <1>1, <1>2, <1>4, DressesTwice

LEMMA ToggleFullscreenDresses ==
    ASSUME NEW s \in Servers, NEW v \in Views, NEW t \in ToggleFullscreen(s, v)
    PROVE  Dresses(s, t, v)
<1> DEFINE f == s.view[v]
           on(u) == [u EXCEPT !.view[v].fullscreen = TRUE, !.view[v].saved_tiled = f.tiled]
           off == [s EXCEPT !.view[v].fullscreen = FALSE, !.view[v].saved_tiled = FALSE]
<1>1. f \in Windows /\ f.tiled \in BOOLEAN
  BY DEF Servers, Windows
<1>2. Dresses(s, off, v)
  BY DressesTwoFields
<1>3. CASE t = s \/ t = off
  BY <1>2, <1>3, DressesNothing
<1>4. CASE f.workspace # NoWorkspace /\ t = Tile(off, f.workspace, v)
  <2> HIDE DEF off
  <2>1. off \in Servers /\ off.view[v].workspace = f.workspace
    BY <1>2 DEF Dresses, CallOn
  <2>2. Dresses(off, t, v)
    BY <1>4, <2>1, TileDresses
  <2> QED
    BY <1>2, <2>2, DressesTwice
<1>5. CASE t \in {on(u) : u \in Untile(s, v)}
  <2>1. PICK u \in Untile(s, v) : t = on(u)
    BY <1>5
  <2>2. Dresses(s, u, v) /\ u \in Servers
    BY UntileDresses DEF Dresses, CallOn
  <2>3. Dresses(u, on(u), v)
    BY <1>1, <2>2, DressesTwoFields
  <2> QED
    BY <2>1, <2>2, <2>3, DressesTwice
<1> QED
  BY <1>3, <1>4, <1>5 DEF ToggleFullscreen
-----------------------------------------------------------------------------
(* Window rules                                                            *)

\* From s to t window v may change workspace; it leaves the layout of the one
\* it had and enters at most that of the one it has.
Carries(s, t, v) ==
    /\ CallOn(s, t, v)
    /\ \A x \in Workspaces :
         /\ t.layout[x].held \ {v} = s.layout[x].held \ {v}
         /\ FocusInside(s.layout[x]) => FocusInside(t.layout[x])
         /\ v \in t.layout[x].held =>
              \/ x = t.view[v].workspace
              \/ x # s.view[v].workspace /\ v \in s.layout[x].held

LEMMA CarriesNothing ==
    ASSUME NEW s \in Servers, NEW v \in Views
    PROVE  Carries(s, s, v)
BY DEF Carries, CallOn, Same, SameScreens

LEMMA CarriesServer ==
    ASSUME NEW s, NEW v, NEW t, Carries(s, t, v)
    PROVE  t \in Servers /\ t.view[v].mapped = s.view[v].mapped
BY DEF Carries, CallOn

LEMMA CarriesTwice ==
    ASSUME NEW s \in Servers, NEW v \in Views, NEW t, NEW u,
           Carries(s, t, v), Carries(t, u, v)
    PROVE  Carries(s, u, v)
<1>1. CallOn(s, u, v)
  BY DEF Carries, CallOn, Same, SameScreens
<1> QED
  BY <1>1 DEF Carries

LEMMA DressesCarries ==
    ASSUME NEW s \in Servers, NEW v \in Views, NEW t, Dresses(s, t, v)
    PROVE  Carries(s, t, v)
<1>1. ASSUME NEW x \in Workspaces, v \in t.layout[x].held
      PROVE  \/ x = t.view[v].workspace
             \/ x # s.view[v].workspace /\ v \in s.layout[x].held
  BY <1>1 DEF Dresses, InOwnLayout
<1> QED
  BY <1>1 DEF Dresses, InOwnLayout, Carries

\* The window that left the layout of its workspace gets other fields.
LEMMA LeftCarries ==
    ASSUME NEW s \in Servers, NEW v \in Views, NEW t \in LeaveOwn(s, v),
           NEW f \in Windows, f.mapped = s.view[v].mapped,
           f.dragging = s.view[v].dragging
    PROVE  Carries(s, [t EXCEPT !.view[v] = f], v)
<1> DEFINE w == s.view[v].workspace
           r == [t EXCEPT !.view[v] = f]
<1>1. /\ Arranges(s, t)
      /\ w # NoWorkspace => LayoutOf(s, t, w, s.layout[w].held \ {v})
      /\ w = NoWorkspace => t = s
  BY LeaveOwnRemoves
<1>2. t \in Servers /\ t.view = s.view /\ Same(s, t)
  BY <1>1 DEF Arranges
<1>3. /\ r \in Servers /\ Same(t, r) /\ r.view = [t.view EXCEPT ![v] = f]
      /\ r.layout = t.layout
  BY <1>2, SetView
<1> HIDE DEF r
<1>4. CallOn(s, r, v)
  BY <1>2, <1>3 DEF CallOn, Same, SameScreens, Servers
<1>5. ASSUME NEW x \in Workspaces
      PROVE  /\ r.layout[x].held \ {v} = s.layout[x].held \ {v}
             /\ FocusInside(s.layout[x]) => FocusInside(r.layout[x])
             /\ v \in r.layout[x].held => x # w /\ v \in s.layout[x].held
  <2>1. CASE w = NoWorkspace
    BY <1>1, <1>3, <2>1 DEF Workspaces, NoWorkspace
  <2>2. CASE w # NoWorkspace
    BY <1>1, <1>3, <2>2 DEF LayoutOf
  <2> QED
    BY <2>1, <2>2
<1>6. Carries(s, r, v)
  BY <1>4, <1>5 DEF Carries
<1> QED
  BY <1>6 DEF r

LEMMA StuckFields ==
    ASSUME NEW f \in Windows
    PROVE  /\ Stuck(f) \in Windows /\ Stuck(f).mapped = f.mapped
           /\ Stuck(f).dragging = f.dragging /\ Stuck(f).enabled = f.enabled
           /\ Stuck(f).sticky = TRUE /\ Stuck(f).workspace = NoWorkspace
<1>1. NoWorkspace \in 0..NumWorkspaces
  BY DEF NoWorkspace
<1> QED
  BY <1>1 DEF Stuck, Windows

LEMMA TileKeepsFields ==
    ASSUME NEW s \in Servers, NEW v \in Views, NEW w \in Workspaces
    PROVE  /\ Tile(s, w, v).view[v] \in Windows
           /\ Tile(s, w, v).view[v].mapped = s.view[v].mapped
           /\ Tile(s, w, v).view[v].dragging = s.view[v].dragging
           /\ Tile(s, w, v).view[v].enabled = s.view[v].enabled
<1> DEFINE j == Join(s, w, v)
<1>1. Arranges(s, j)
  BY JoinAdds
<1>2. Tile(s, w, v) = [j EXCEPT !.view[v].tiled = TRUE]
  BY DEF Tile
<1> HIDE DEF j
<1>3. j \in Servers /\ j.view = s.view
  BY <1>1 DEF Arranges
<1>4. Dresses(j, Tile(s, w, v), v)
  BY <1>2, <1>3, DressesOneField
<1> QED
  BY <1>3, <1>4 DEF Dresses, CallOn, Servers

\* A window goes to workspace w and into its tree: as the rule "workspace" and
\* a move to another output do it.
LEMMA TileElsewhereCarries ==
    ASSUME NEW s \in Servers, NEW v \in Views, NEW t \in LeaveOwn(s, v),
           NEW w \in Workspaces, NEW f \in Windows, f.mapped = s.view[v].mapped,
           f.dragging = s.view[v].dragging, f.workspace = w
    PROVE  LET r == [Tile(t, w, v) EXCEPT !.view[v] = f] IN
           Carries(s, r, v) /\ r.view[v] = f
<1> DEFINE l == [t EXCEPT !.view[v] = f]
           j == Join(t, w, v)
           k == Tile(t, w, v)
           r == [k EXCEPT !.view[v] = f]
<1>1. Carries(s, l, v)
  BY LeftCarries
<1>2. t \in Servers /\ t.view = s.view /\ Same(s, t)
  BY LeaveOwnRemoves DEF Arranges
<1>3. l.layout = t.layout
  BY <1>2, SetView
<1>4. Arranges(t, j) /\ LayoutOf(t, j, w, t.layout[w].held \cup {v})
  BY <1>2, JoinAdds
<1>5. j \in Servers /\ j.view = t.view /\ Same(t, j)
  BY <1>4 DEF Arranges
<1>6. [j.view[v] EXCEPT !.tiled = TRUE] \in Windows
  <2>1. j.view[v] \in Windows
    BY <1>5 DEF Servers
  <2> QED
    BY <2>1, RedressedByOneField
<1>7. /\ k \in Servers /\ Same(j, k) /\ k.layout = j.layout
      /\ \A u \in Views \ {v} : k.view[u] = j.view[u]
  <2> DEFINE g == [j.view[v] EXCEPT !.tiled = TRUE]
  <2>1. k = [j EXCEPT !.view[v] = g] /\ g \in Windows
    BY <1>6 DEF Tile
  <2> HIDE DEF g, j, k
  <2>2. /\ k \in Servers /\ Same(j, k) /\ k.layout = j.layout
        /\ k.view = [j.view EXCEPT ![v] = g]
    BY <1>5, <2>1, SetView
  <2>3. j.view \in [Views -> Windows]
    BY <1>5 DEF Servers
  <2> QED
    BY <2>2, <2>3
<1> HIDE DEF j, k, l
<1>8. /\ r \in Servers /\ Same(k, r) /\ r.view = [k.view EXCEPT ![v] = f]
      /\ r.layout = k.layout
  BY <1>7, SetView
<1> HIDE DEF r
<1>9. r.view[v] = f /\ \A u \in Views \ {v} : r.view[u] = k.view[u]
  BY <1>7, <1>8 DEF Servers
<1>10. CallOn(s, r, v)
  BY <1>2, <1>5, <1>7, <1>8, <1>9 DEF CallOn, Same, SameScreens
<1>11. ASSUME NEW x \in Workspaces
       PROVE  /\ r.layout[x].held \ {v} = s.layout[x].held \ {v}
              /\ FocusInside(s.layout[x]) => FocusInside(r.layout[x])
              /\ v \in r.layout[x].held =>
                   \/ x = w
                   \/ x # s.view[v].workspace /\ v \in s.layout[x].held
  <2>1. /\ r.layout[x].held \ {v} = t.layout[x].held \ {v}
        /\ FocusInside(t.layout[x]) => FocusInside(r.layout[x])
        /\ v \in r.layout[x].held => x = w \/ v \in t.layout[x].held
    BY <1>4, <1>7, <1>8 DEF LayoutOf
  <2>2. /\ t.layout[x].held \ {v} = s.layout[x].held \ {v}
        /\ FocusInside(s.layout[x]) => FocusInside(t.layout[x])
    BY <1>1, <1>3 DEF Carries
  <2>3. v \in t.layout[x].held => x # s.view[v].workspace /\ v \in s.layout[x].held
    <3>1. /\ s.view[v].workspace # NoWorkspace =>
               LayoutOf(s, t, s.view[v].workspace,
                        s.layout[s.view[v].workspace].held \ {v})
          /\ s.view[v].workspace = NoWorkspace => t = s
      BY LeaveOwnRemoves
    <3>2. NoWorkspace \notin Workspaces
      BY DEF Workspaces, NoWorkspace
    <3> QED
      BY <3>1, <3>2 DEF LayoutOf
  <2> QED
    BY <2>1, <2>2, <2>3
<1>12. Carries(s, r, v) /\ r.view[v] = f
  BY <1>9, <1>10, <1>11 DEF Carries
<1> QED
  BY <1>12 DEF r, k

\* Where a window that does not stick is: on the output of its workspace while
\* it is mapped, on none while it is not; without a workspace there is no output
\* at all.
AtHome(s, v) ==
    LET f == s.view[v] IN
    /\ ~ f.sticky
    /\ ~ f.mapped /\ f.workspace # NoWorkspace => f.output = NoOutput
    /\ f.mapped /\ f.workspace # NoWorkspace => f.output = s.output[f.workspace]
    /\ f.mapped /\ f.workspace = NoWorkspace => f.output = NoOutput /\ s.conn = {}

LEMMA DressesAtHome ==
    ASSUME NEW s, NEW v, NEW t, Dresses(s, t, v), AtHome(s, v)
    PROVE  AtHome(t, v)
BY DEF Dresses, CallOn, Same, SameScreens, AtHome

LEMMA RuleCases ==
    ASSUME NEW s \in Servers, NEW v \in Views, NEW rule \in Rules,
           rule.action = "workspace" => rule.arg # 0,
           NEW t \in ApplyRule(s, v, rule)
    PROVE  \/ Dresses(s, t, v)
           \/ Carries(s, t, v) /\ rule.action = "sticky"
           \/ Carries(s, t, v) /\ (s.view[v].mapped => AtHome(t, v))
<1> DEFINE f == s.view[v]
<1>0. f \in Windows
  BY DEF Servers
<1>1. CASE rule.action = "float"
  BY <1>1, FloatDresses DEF ApplyRule
<1>2. CASE rule.action = "tile"
  <2>1. CASE f.floating /\ f.workspace # NoWorkspace
    <3> DEFINE u == Tile(s, f.workspace, v)
    <3>1. t = [u EXCEPT !.view[v].floating = FALSE]
      BY <1>2, <2>1 DEF ApplyRule
    <3>2. Dresses(s, u, v)
      BY <2>1, TileDresses
    <3> HIDE DEF u
    <3>3. Dresses(u, t, v)
      BY <3>1, <3>2, DressesServer, DressesOneField
    <3> QED
      BY <3>2, <3>3, DressesTwice
  <2>2. CASE ~ (f.floating /\ f.workspace # NoWorkspace)
    <3>1. t = s
      BY <1>2, <2>2 DEF ApplyRule
    <3> QED
      BY <3>1, DressesNothing
  <2> QED
    BY <2>1, <2>2
<1>3. CASE rule.action = "sticky"
  <2>0. PICK u \in Untile(s, v) :
               \E l \in LeaveOwn(u, v) : t = [l EXCEPT !.view[v] = Stuck(@)]
    BY <1>3 DEF ApplyRule, Then
  <2>1. PICK l \in LeaveOwn(u, v) : t = [l EXCEPT !.view[v] = Stuck(@)]
    BY <2>0
  <2>2. Dresses(s, u, v)
    BY UntileDresses
  <2>3. u \in Servers /\ u.view[v] \in Windows
    BY <2>2 DEF Dresses, CallOn, Servers
  <2>4. l.view = u.view
    BY <2>3, LeaveOwnRemoves DEF Arranges
  <2>5. t = [l EXCEPT !.view[v] = Stuck(u.view[v])]
    BY <2>1, <2>4
  <2>6. Carries(u, t, v)
    BY <2>3, <2>5, StuckFields, LeftCarries
  <2> QED
    BY <1>3, <2>2, <2>6, DressesCarries, CarriesTwice
<1>4. CASE rule.action = "fullscreen"
  BY <1>4, ToggleFullscreenDresses, DressesNothing DEF ApplyRule
<1>5. CASE rule.action = "center"
  BY <1>5, CenterDresses DEF ApplyRule
<1>6. CASE rule.action = "workspace" /\ f.workspace = rule.arg
  <2>1. t = s
    BY <1>6 DEF ApplyRule
  <2> QED
    BY <2>1, DressesNothing
<1>7. CASE rule.action = "workspace" /\ f.workspace # rule.arg
  <2> DEFINE w == rule.arg
  <2>1. w \in Workspaces /\ w # NoWorkspace
    BY <1>7 DEF Rules, Workspaces, NoWorkspace
  <2> DEFINE moved(g, o) == [g EXCEPT !.floating = FALSE, !.sticky = FALSE,
                                      !.workspace = w, !.output = o,
                                      !.enabled = @ /\ o # NoOutput]
  <2>2. PICK l \in LeaveOwn(s, v) :
               t = [Tile(l, w, v) EXCEPT !.view[v] = moved(@, l.output[w])]
    BY <1>7 DEF ApplyRule
  <2> DEFINE k == Tile(l, w, v)
             g == k.view[v]
             h == moved(g, l.output[w])
  <2>3. l \in Servers /\ l.view = s.view /\ l.output = s.output
    BY LeaveOwnRemoves DEF Arranges, Same, SameScreens
  <2>4. g \in Windows /\ g.mapped = f.mapped /\ g.dragging = f.dragging
    BY <1>0, <2>1, <2>3, TileKeepsFields
  <2>5. s.output[w] \in Outputs \cup {NoOutput} /\ w \in 0..NumWorkspaces
    BY <2>1 DEF Servers, Workspaces
  <2>6. t = [k EXCEPT !.view[v] = h]
    BY <2>2
  <2> HIDE DEF k, g
  <2>7. /\ h \in Windows /\ h.mapped = g.mapped /\ h.dragging = g.dragging
        /\ h.workspace = w /\ h.output = s.output[w] /\ h.sticky = FALSE
    BY <2>3, <2>4, <2>5 DEF Windows
  <2> HIDE DEF h
  <2>8. Carries(s, t, v) /\ t.view[v] = h
    BY <2>1, <2>4, <2>6, <2>7, TileElsewhereCarries DEF k
  <2>9. t.output = s.output
    BY <2>8 DEF Carries, CallOn, Same, SameScreens
  <2>10. f.mapped => AtHome(t, v)
    BY <2>1, <2>4, <2>7, <2>8, <2>9 DEF AtHome
  <2> QED
    BY <2>8, <2>10
<1> QED
  BY <1>1, <1>2, <1>3, <1>4, <1>5, <1>6, <1>7 DEF Rules

LEMMA RuleCarries ==
    ASSUME NEW s \in Servers, NEW v \in Views, NEW rule \in Rules,
           rule.action = "workspace" => rule.arg # 0,
           NEW t \in ApplyRule(s, v, rule)
    PROVE  /\ Carries(s, t, v)
           /\ rule.action # "sticky" /\ s.view[v].mapped /\ AtHome(s, v) => AtHome(t, v)
BY RuleCases, DressesCarries, DressesAtHome

\* The rules of a list are applied one after the other.
NoStickyRule(rules) == \A i \in 1..Len(rules) : rules[i].action # "sticky"

AppliedTo(s, v, rules, after) ==
    after = [i \in 0..Len(rules) |->
               IF i = 0 THEN {s}
               ELSE Then(after[i - 1], LAMBDA t : ApplyRule(t, v, rules[i]))]

LEMMA LeastOf ==
    ASSUME NEW T, T \subseteq Nat, T # {}
    PROVE  \E m \in T : \A n \in T : m <= n
<1>1. PICK m \in T : \A n \in T : ~ (<<n, m>> \in OpToRel(<, Nat))
  BY NatLessThanWellFounded, WFMin
<1>2. ASSUME NEW n \in T PROVE m <= n
  <2>1. m \in Nat /\ n \in Nat /\ ~ (n < m)
    BY <1>1 DEF OpToRel
  <2> QED
    BY <2>1
<1> QED
  BY <1>2

LEMMA ApplyRulesDefined ==
    ASSUME NEW s, NEW v, NEW rules, Len(rules) \in Nat
    PROVE  \E after : /\ AppliedTo(s, v, rules, after)
                      /\ ApplyRules(s, v, rules) = after[Len(rules)]
<1> DEFINE def(g, i) == IF i = 0 THEN {s}
                        ELSE Then(g[i - 1], LAMBDA t : ApplyRule(t, v, rules[i]))
           A == CHOOSE after : after = [i \in 0..Len(rules) |-> def(after, i)]
<1>1. ApplyRules(s, v, rules) = A[Len(rules)]
  BY DEF ApplyRules
<1>2. ASSUME NEW g, NEW h, NEW i, g[i - 1] = h[i - 1]
      PROVE  def(g, i) = def(h, i)
  BY <1>2 DEF Then
<1> DEFINE n == Len(rules)
           Starts(g, m) == g = [i \in 0..m |-> def(g, i)]
           Missing == {m \in 0..n : ~ \E g : Starts(g, m)}
<1> HIDE DEF def, n
<1>3. \E g : Starts(g, 0)
  <2> DEFINE g == [i \in 0..0 |-> {s}]
  <2>1. def(g, 0) = {s}
    BY DEF def
  <2>2. [i \in 0..0 |-> def(g, i)] = [i \in 0..0 |-> {s}]
    BY <2>1
  <2> QED
    BY <2>2
<1>4. ASSUME NEW m \in Nat, NEW g, Starts(g, m)
      PROVE  \E h : Starts(h, m + 1)
  <2> DEFINE h == [i \in 0..m + 1 |-> IF i = m + 1 THEN def(g, m + 1) ELSE g[i]]
  <2>1. ASSUME NEW i \in 0..m + 1
        PROVE  h[i] = def(h, i)
    <3>1. CASE i = 0
      <4>1. h[i] = g[i] /\ g[i] = def(g, i)
        BY <1>4, <3>1
      <4>2. def(g, i) = {s} /\ def(h, i) = {s}
        BY <3>1 DEF def
      <4> QED
        BY <4>1, <4>2
    <3>2. CASE i # 0
      <4>1. i - 1 \in 0..m + 1 /\ i - 1 # m + 1
        BY <3>2
      <4>2. h[i - 1] = g[i - 1]
        BY <4>1
      <4>3. def(h, i) = def(g, i)
        BY <1>2, <4>2
      <4>4. h[i] = def(g, i)
        BY <1>4
      <4> QED
        BY <4>3, <4>4
    <3> QED
      BY <3>1, <3>2
  <2>2. h = [i \in 0..m + 1 |-> h[i]]
    OBVIOUS
  <2> HIDE DEF h
  <2>3. Starts(h, m + 1)
    BY <2>1, <2>2
  <2> QED
    BY <2>3
<1>5. \E g : Starts(g, n)
  <2>0. n \in Nat
    BY DEF n
  <2>1. SUFFICES ASSUME Missing # {} PROVE FALSE
    BY <2>0
  <2>2. PICK m \in Missing : \A y \in Missing : m <= y
    <3>1. Missing \subseteq Nat
      BY <2>0
    <3> HIDE DEF Missing
    <3> QED
      BY <2>1, <3>1, LeastOf
  <2>3. m # 0
    BY <1>3, <2>2
  <2>4. m - 1 \in 0..n /\ m - 1 \notin Missing /\ m - 1 \in Nat /\ (m - 1) + 1 = m
    BY <2>0, <2>2, <2>3
  <2>5. PICK g : Starts(g, m - 1)
    BY <2>4
  <2>6. \E h : Starts(h, (m - 1) + 1)
    BY <1>4, <2>4, <2>5
  <2> QED
    BY <2>2, <2>4, <2>6
<1>6. A = [i \in 0..n |-> def(A, i)]
  BY <1>5 DEF n
<1>7. AppliedTo(s, v, rules, A)
  BY <1>6 DEF AppliedTo, def, n
<1> QED
  BY <1>1, <1>7

LEMMA ApplyRulesCarries ==
    ASSUME NEW s \in Servers, NEW v \in Views, NEW rules \in RuleLists,
           NEW t \in ApplyRules(s, v, rules)
    PROVE  /\ Carries(s, t, v)
           /\ NoStickyRule(rules) /\ s.view[v].mapped /\ AtHome(s, v) => AtHome(t, v)
<1> DEFINE Wanted(u) ==
             /\ Carries(s, u, v)
             /\ NoStickyRule(rules) /\ s.view[v].mapped /\ AtHome(s, v) => AtHome(u, v)
<1>1. /\ Len(rules) \in Nat
      /\ \A i \in 1..Len(rules) :
           rules[i] \in Rules /\ (rules[i].action = "workspace" => rules[i].arg # 0)
  BY RulesAssumption
<1>2. PICK after : /\ AppliedTo(s, v, rules, after)
                   /\ ApplyRules(s, v, rules) = after[Len(rules)]
  BY <1>1, ApplyRulesDefined
<1> DEFINE Bad == {i \in 0..Len(rules) : \E u \in after[i] : ~ Wanted(u)}
<1>3. SUFFICES ASSUME Bad # {} PROVE FALSE
  <2>1. Len(rules) \notin Bad => Wanted(t)
    BY <1>1, <1>2
  <2> QED
    BY <2>1
<1>4. PICK i \in Bad : \A j \in Bad : i <= j
  <2>1. Bad \subseteq Nat
    BY <1>1
  <2> HIDE DEF Bad
  <2> QED
    BY <1>3, <2>1, LeastOf
<1>5. PICK u \in after[i] : ~ Wanted(u)
  BY <1>4
<1>6. CASE i = 0
  <2>1. u = s
    BY <1>1, <1>2, <1>5, <1>6 DEF AppliedTo
  <2> QED
    BY <1>5, <2>1, CarriesNothing
<1>7. CASE i # 0
  <2>1. i \in 1..Len(rules) /\ i - 1 \in 0..Len(rules) /\ i - 1 \notin Bad
    BY <1>1, <1>4, <1>7
  <2>2. after[i] = Then(after[i - 1], LAMBDA r : ApplyRule(r, v, rules[i]))
    BY <1>2, <1>7, <2>1 DEF AppliedTo
  <2>3. PICK r \in after[i - 1] : u \in ApplyRule(r, v, rules[i])
    BY <1>5, <2>2 DEF Then
  <2>4. Wanted(r)
    BY <2>1, <2>3
  <2>5. /\ Carries(r, u, v)
        /\ rules[i].action # "sticky" /\ r.view[v].mapped /\ AtHome(r, v) => AtHome(u, v)
    BY <1>1, <2>1, <2>3, <2>4, RuleCarries, CarriesServer
  <2>6. Carries(s, u, v)
    BY <2>4, <2>5, CarriesTwice
  <2>7. NoStickyRule(rules) /\ s.view[v].mapped /\ AtHome(s, v) => AtHome(u, v)
    BY <2>1, <2>4, <2>5, CarriesServer DEF NoStickyRule
  <2> QED
    BY <1>5, <2>6, <2>7
<1> QED
  BY <1>6, <1>7
-----------------------------------------------------------------------------
(* Focus                                                                   *)

\* What a change of focus leaves alone: all but the focus of the layouts, the
\* focused window and the active output.
Unmoved(s, t) ==
    /\ t \in Servers /\ SameScreens(s, t) /\ t.view = s.view
    /\ \A x \in Workspaces :
         /\ t.layout[x].held = s.layout[x].held
         /\ FocusInside(s.layout[x]) => FocusInside(t.layout[x])

\* A window that may have the focus.
Focusable(s, v) == v \in Views /\ s.view[v].mapped /\ s.view[v].output # NoOutput

\* Where the focus and the active output may go.
Refocuses(s, t) ==
    /\ Unmoved(s, t)
    /\ t.focus \in {s.focus, NoView} \/ Focusable(s, t.focus)
    /\ \/ t.act \in s.conn \cup {s.act}
       \/ \E v \in Views : Focusable(s, v) /\ t.act = s.view[v].output

LEMMA RefocusesNothing ==
    ASSUME NEW s \in Servers
    PROVE  Refocuses(s, s)
BY DEF Refocuses, Unmoved, SameScreens

LEMMA RefocusesTwice ==
    ASSUME NEW s \in Servers, NEW t, NEW u, Refocuses(s, t), Refocuses(t, u)
    PROVE  Refocuses(s, u)
<1>1. Unmoved(s, u)
  BY DEF Refocuses, Unmoved, SameScreens
<1>2. u.focus \in {s.focus, NoView} \/ Focusable(s, u.focus)
  BY DEF Refocuses, Unmoved, SameScreens, Focusable
<1>3. \/ u.act \in s.conn \cup {s.act}
      \/ \E v \in Views : Focusable(s, v) /\ u.act = s.view[v].output
  BY DEF Refocuses, Unmoved, SameScreens, Focusable
<1> QED
  BY <1>1, <1>2, <1>3 DEF Refocuses

LEMMA LayoutFocusRefocuses ==
    ASSUME NEW s \in Servers, NEW w \in 0..NumWorkspaces, NEW v \in Views
    PROVE  Refocuses(s, LayoutFocus(s, w, v))
<1> DEFINE t == LayoutFocus(s, w, v)
<1>1. /\ Arranges(s, t)
      /\ w # NoWorkspace => LayoutOf(s, t, w, s.layout[w].held)
      /\ w = NoWorkspace => t = s
  BY LayoutFocusKeeps
<1> HIDE DEF t
<1>2. Unmoved(s, t)
  BY <1>1 DEF Unmoved, Arranges, Same, LayoutOf
<1>3. Refocuses(s, t)
  BY <1>1, <1>2 DEF Refocuses, Arranges, Same
<1> QED
  BY <1>3 DEF t

\* A record with another focus and active output.
Focused(s, v) == [s EXCEPT !.act = s.view[v].output, !.focus = v]

LEMMA SetFocusRefocuses ==
    ASSUME NEW s \in Servers, NEW v \in Views, Focusable(s, v)
    PROVE  LET t == Focused(s, v) IN
           Refocuses(s, t) /\ t.focus = v /\ t.act = s.view[v].output
<1> DEFINE o == s.view[v].output
           t == Focused(s, v)
<1>1. o \in Outputs \cup {NoOutput}
  BY DEF Servers, Windows
<1>0. t = [s EXCEPT !.act = o, !.focus = v]
  BY DEF Focused
<1> HIDE DEF o, t
<1>2. /\ t \in Servers /\ SameScreens(s, t) /\ t.view = s.view /\ t.layout = s.layout
      /\ t.act = o /\ t.focus = v
  BY <1>0, <1>1 DEF Servers, SameScreens
<1> USE DEF o
<1>3. Refocuses(s, t)
  BY <1>2 DEF Refocuses, Unmoved
<1> QED
  BY <1>2, <1>3 DEF t

LEMMA SetActRefocuses ==
    ASSUME NEW s \in Servers, NEW o \in s.conn \cup {s.act}
    PROVE  Refocuses(s, [s EXCEPT !.act = o])
<1> DEFINE t == [s EXCEPT !.act = o]
<1>0. o \in Outputs \cup {NoOutput}
  BY DEF Servers
<1>1. /\ t \in Servers /\ SameScreens(s, t) /\ t.view = s.view /\ t.layout = s.layout
      /\ t.act = o /\ t.focus = s.focus
  BY <1>0 DEF Servers, SameScreens
<1> HIDE DEF t
<1>2. Refocuses(s, t)
  BY <1>1 DEF Refocuses, Unmoved
<1> QED
  BY <1>2 DEF t

LEMMA UnfocusRefocuses ==
    ASSUME NEW s \in Servers
    PROVE  Refocuses(s, [s EXCEPT !.focus = NoView])
<1> DEFINE t == [s EXCEPT !.focus = NoView]
<1>1. /\ t \in Servers /\ SameScreens(s, t) /\ t.view = s.view /\ t.layout = s.layout
      /\ t.act = s.act /\ t.focus = NoView
  BY DEF Servers, SameScreens
<1> HIDE DEF t
<1>2. Refocuses(s, t)
  BY <1>1 DEF Refocuses, Unmoved
<1> QED
  BY <1>2 DEF t

\* server_focus_view: the focus goes to wanted, to a full-screen window on the
\* same output or to none, and the active output goes along.
LEMMA FocusViewRefocuses ==
    ASSUME NEW s \in Servers, NEW wanted \in Views \cup {NoView},
           NEW t \in FocusView(s, wanted)
    PROVE  /\ Refocuses(s, t)
           /\ \/ t.focus = NoView /\ t.act = s.act
              \/ /\ wanted # NoView /\ Focusable(s, wanted) /\ Focusable(s, t.focus)
                 /\ s.view[t.focus].output = s.view[wanted].output
                 /\ t.act = s.view[wanted].output
<1>1. CASE wanted = NoView \/ ~ s.view[wanted].mapped \/ s.view[wanted].output = NoOutput
  <2>1. t = [s EXCEPT !.focus = NoView]
    BY <1>1 DEF FocusView
  <2>2. t.focus = NoView /\ t.act = s.act
    BY <2>1 DEF Servers
  <2> QED
    BY <2>1, <2>2, UnfocusRefocuses
<1>2. CASE ~ (wanted = NoView \/ ~ s.view[wanted].mapped
              \/ s.view[wanted].output = NoOutput)
  <2>1. Focusable(s, wanted)
    BY <1>2 DEF Focusable
  <2>2. PICK fs \in FullscreenOn(s, s.view[wanted].output) :
               LET v == IF fs = NoView THEN wanted ELSE fs IN
               t = [LayoutFocus(s, s.view[v].workspace, v) EXCEPT
                      !.act = s.view[v].output, !.focus = v]
    BY <1>2 DEF FocusView
  <2> DEFINE v == IF fs = NoView THEN wanted ELSE fs
             l == LayoutFocus(s, s.view[v].workspace, v)
  <2>3. Focusable(s, v) /\ s.view[v].output = s.view[wanted].output
    BY <2>1 DEF FullscreenOn, Focusable, Servers
  <2>4. t = [l EXCEPT !.act = s.view[v].output, !.focus = v]
    BY <2>2
  <2>5. v \in Views /\ s.view[v].workspace \in 0..NumWorkspaces
    BY <2>3 DEF Focusable, Servers, Windows
  <2> HIDE DEF v
  <2>6. Refocuses(s, l)
    BY <2>5, LayoutFocusRefocuses
  <2>7. l \in Servers /\ l.view = s.view
    BY <2>6 DEF Refocuses, Unmoved
  <2> HIDE DEF l
  <2>10. Focusable(l, v) /\ t = Focused(l, v)
    BY <2>3, <2>4, <2>7 DEF Focusable, Focused
  <2>8. Refocuses(l, t) /\ t.focus = v /\ t.act = l.view[v].output
    BY <2>5, <2>7, <2>10, SetFocusRefocuses
  <2>9. Refocuses(s, t)
    BY <2>6, <2>8, RefocusesTwice
  <2> QED
    BY <1>2, <2>1, <2>3, <2>7, <2>8, <2>9
<1> QED
  BY <1>1, <1>2

\* process_cursor
LEMMA HoverRefocuses ==
    ASSUME NEW s \in Servers, NEW t \in Hover(s)
    PROVE  Refocuses(s, t)
<1> DEFINE over(u, v) == IF u.focus = v THEN {u} ELSE FocusView(u, v)
           crossed == {[s EXCEPT !.act = o] : o \in s.conn \cup {s.act}}
<1>1. ASSUME NEW u, Refocuses(s, u), NEW v \in Views, t \in over(u, v)
      PROVE  Refocuses(s, t)
  <2>1. u \in Servers
    BY <1>1 DEF Refocuses, Unmoved
  <2>2. t = u \/ Refocuses(u, t)
    BY <1>1, <2>1, FocusViewRefocuses
  <2> QED
    BY <1>1, <2>2, RefocusesTwice
<1>2. ASSUME NEW u \in crossed
      PROVE  u \in Servers /\ Refocuses(s, u)
  <2>1. PICK o \in s.conn \cup {s.act} : u = [s EXCEPT !.act = o]
    OBVIOUS
  <2>2. Refocuses(s, u)
    BY <2>1, SetActRefocuses
  <2> QED
    BY <2>2 DEF Refocuses, Unmoved
<1>3. CASE t = s
  BY <1>3, RefocusesNothing
<1>4. CASE \E v \in Views : t \in over(s, v)
  BY <1>1, <1>4, RefocusesNothing
<1>5. CASE \E u \in crossed : t \in FocusView(u, NoView)
  BY <1>2, <1>5, FocusViewRefocuses, RefocusesTwice
<1>6. CASE \E u \in crossed, v \in Views : t \in over(u, v)
  BY <1>1, <1>2, <1>6
<1> DEFINE surfaces == {v \in s.views : s.view[v].mapped /\ s.view[v].enabled}
           boxes == {v \in s.views : /\ s.view[v].mapped /\ ~ s.view[v].fullscreen
                                     /\ s.view[v].output # NoOutput}
<1>7. \/ t = s
      \/ \E v \in surfaces : t \in over(s, v)
      \/ \E u \in crossed : t \in FocusView(u, NoView)
      \/ \E u \in crossed, v \in boxes : t \in over(u, v)
  BY DEF Hover, Then
<1>8. surfaces \subseteq Views /\ boxes \subseteq Views
  BY DEF Servers
<1> HIDE DEF over, crossed, surfaces, boxes
<1> QED
  BY <1>3, <1>4, <1>5, <1>6, <1>7, <1>8
-----------------------------------------------------------------------------
(* What the calls preserve                                                 *)

\* A call that leaves every window but v as it is, and v mapped or unmapped.
Handles(s, t, v) ==
    /\ t \in Servers /\ SameScreens(s, t)
    /\ \A u \in Views \ {v} : t.view[u] = s.view[u]
    /\ t.view[v].mapped = s.view[v].mapped

\* ... and dragged or not.
Tends(s, t, v) == Handles(s, t, v) /\ t.view[v].dragging = s.view[v].dragging

\* A call that maps, unmaps and drags no window and hides none that sticks.
Steady(s, t) ==
    /\ t \in Servers /\ t.views = s.views /\ t.drag = s.drag
    /\ \A u \in Views :
         /\ t.view[u].mapped = s.view[u].mapped
         /\ t.view[u].dragging = s.view[u].dragging
         /\ s.view[u].sticky /\ s.view[u].enabled =>
              t.view[u].sticky /\ t.view[u].enabled

\* The windows that are mapped or dragged exist.
Lively(s) ==
    /\ \A v \in Views : s.view[v].mapped => v \in s.views
    /\ s.drag.view # NoView =>
         s.view[s.drag.view].mapped /\ s.view[s.drag.view].dragging

\* Every window is where it belongs.
Homes(s) == \A v \in Views : AtHome(s, v)

\* A layout holds mapped windows of its workspace.
Planted(s) ==
    \A w \in Workspaces :
      /\ FocusInside(s.layout[w])
      /\ \A v \in s.layout[w].held : s.view[v].mapped /\ s.view[v].workspace = w

\* The window with the focus is mapped and on an output.
FocusShown(s) == s.focus # NoView => Focusable(s, s.focus)

\* Workspaces and outputs refer to each other, every output shows a workspace
\* and one of them is the active one.
Screens(s) ==
    /\ \A w \in Workspaces : s.output[w] # NoOutput =>
          s.output[w] \in s.conn /\ s.active[s.output[w]] = w
    /\ \A o \in s.conn : s.active[o] \in Workspaces /\ s.output[s.active[o]] = o
    /\ s.act \in s.conn \cup {NoOutput}
    /\ s.conn # {} => s.act # NoOutput

Whole(s) == s \in Servers /\ Homes(s) /\ Planted(s) /\ FocusShown(s) /\ Screens(s)

\* From s to t no output comes or goes and no workspace changes place.
Settles(s, t) ==
    /\ SameScreens(s, t)
    /\ t.act \in s.conn \cup {s.act}
    /\ Whole(t)

LEMMA SettlesTwice ==
    ASSUME NEW s, NEW t, NEW u, Settles(s, t), Settles(t, u)
    PROVE  Settles(s, u)
BY DEF Settles, SameScreens

LEMMA TendsTwice ==
    ASSUME NEW s, NEW t, NEW u, NEW v \in Views, Tends(s, t, v), Tends(t, u, v)
    PROVE  Tends(s, u, v)
BY DEF Tends, Handles, SameScreens

LEMMA TendsLively ==
    ASSUME NEW s, Lively(s), NEW t, NEW v \in Views, Tends(s, t, v)
    PROVE  Lively(t)
BY DEF Tends, Handles, SameScreens, Lively, Servers

LEMMA SteadyNothing ==
    ASSUME NEW s \in Servers
    PROVE  Steady(s, s)
BY DEF Steady

LEMMA SteadyTwice ==
    ASSUME NEW s, NEW t, NEW u, Steady(s, t), Steady(t, u)
    PROVE  Steady(s, u)
BY DEF Steady

LEMMA SteadyLively ==
    ASSUME NEW s, Lively(s), s \in Servers, NEW t, Steady(s, t)
    PROVE  Lively(t)
<1>1. s.drag.view \in Views \cup {NoView}
  BY DEF Servers
<1> QED
  BY <1>1 DEF Steady, Lively

LEMMA CarriesTends ==
    ASSUME NEW s, NEW t, NEW v \in Views, Carries(s, t, v)
    PROVE  Tends(s, t, v) /\ t.act = s.act /\ t.focus = s.focus
BY DEF Carries, CallOn, Tends, Handles, Same

LEMMA DressesSteady ==
    ASSUME NEW s, NEW t, NEW v \in Views, Dresses(s, t, v)
    PROVE  Steady(s, t)
BY DEF Dresses, CallOn, Steady, Same, SameScreens

LEMMA RefocusesSteady ==
    ASSUME NEW s, NEW t, Refocuses(s, t)
    PROVE  Steady(s, t) /\ t.view = s.view /\ \A v \in Views : Tends(s, t, v)
BY DEF Refocuses, Unmoved, Steady, Tends, Handles, SameScreens

\* The same screens, with the active output among them.
LEMMA ScreensStay ==
    ASSUME NEW s \in Servers, Screens(s), NEW t, SameScreens(s, t),
           t.act \in s.conn \cup {s.act}
    PROVE  Screens(t)
<1>1. NoOutput \notin s.conn
  BY DEF Servers
<1> QED
  BY <1>1 DEF Screens, SameScreens

\* A window that may have the focus is on a connected output.
LEMMA FocusableShown ==
    ASSUME NEW s \in Servers, Homes(s), NEW v \in Views, Focusable(s, v)
    PROVE  /\ s.view[v].workspace \in Workspaces
           /\ s.view[v].output = s.output[s.view[v].workspace]
<1>1. s.view[v].workspace \in 0..NumWorkspaces
  BY DEF Servers, Windows
<1>2. AtHome(s, v)
  BY DEF Homes
<1>3. s.view[v].workspace # NoWorkspace
  BY <1>2 DEF AtHome, Focusable
<1> QED
  BY <1>1, <1>2, <1>3 DEF AtHome, Focusable, Workspaces, NoWorkspace

\* A change of focus.
LEMMA UnmovedStays ==
    ASSUME NEW s \in Servers, Homes(s), Planted(s), NEW t, Unmoved(s, t)
    PROVE  t \in Servers /\ Homes(t) /\ Planted(t)
<1>1. \A v \in Views : AtHome(t, v)
  BY DEF Homes, AtHome, Unmoved, SameScreens
<1> QED
  BY <1>1 DEF Homes, Planted, Unmoved

LEMMA RefocusSettles ==
    ASSUME NEW s, Whole(s), NEW t, Refocuses(s, t)
    PROVE  Settles(s, t)
<1>1. s \in Servers /\ Homes(s) /\ Planted(s)
  BY DEF Whole
<1>2. t \in Servers /\ Homes(t) /\ Planted(t)
  BY <1>1, UnmovedStays DEF Refocuses
<1>3. FocusShown(t)
  BY DEF Whole, FocusShown, Refocuses, Unmoved, Focusable
<1>4. t.act \in s.conn \cup {s.act}
  <2>1. ASSUME NEW v \in Views, Focusable(s, v), t.act = s.view[v].output
        PROVE  t.act \in s.conn
    BY <1>1, <2>1, FocusableShown DEF Whole, Screens, Focusable
  <2> QED
    BY <2>1 DEF Refocuses
<1>5. SameScreens(s, t)
  BY DEF Refocuses, Unmoved
<1>6. Screens(t)
  BY <1>4, <1>5, ScreensStay DEF Whole
<1> QED
  BY <1>2, <1>3, <1>4, <1>5, <1>6 DEF Settles, Whole

\* All is well but for window v, which may be out of place.
WholeBut(s, v) ==
    /\ s \in Servers
    /\ \A u \in Views \ {v} : AtHome(s, u)
    /\ Planted(s) /\ FocusShown(s) /\ Screens(s)

\* From s to t window v may change in any way, and the layouts as in Carries.
Shifts(s, t, v) ==
    /\ Handles(s, t, v) /\ t.act = s.act /\ t.focus = s.focus
    /\ \A x \in Workspaces :
         /\ t.layout[x].held \ {v} = s.layout[x].held \ {v}
         /\ FocusInside(s.layout[x]) => FocusInside(t.layout[x])
         /\ v \in t.layout[x].held =>
              \/ x = t.view[v].workspace
              \/ x # s.view[v].workspace /\ v \in s.layout[x].held

LEMMA CarriesShifts ==
    ASSUME NEW s, NEW t, NEW v \in Views, Carries(s, t, v)
    PROVE  Shifts(s, t, v)
<1>1. Handles(s, t, v) /\ t.act = s.act /\ t.focus = s.focus
  BY CarriesTends DEF Tends
<1> QED
  BY <1>1 DEF Carries, Shifts

LEMMA WholeButNone ==
    ASSUME NEW s, Whole(s), NEW v \in Views
    PROVE  WholeBut(s, v)
BY DEF Whole, WholeBut, Homes

\* A window that is taken home.
LEMMA ShiftsSettles ==
    ASSUME NEW s, NEW v \in Views, WholeBut(s, v), NEW t, Shifts(s, t, v),
           s.view[v].mapped, AtHome(t, v),
           s.focus = v => t.view[v].output # NoOutput
    PROVE  Settles(s, t)
<1>1. s \in Servers /\ t \in Servers /\ SameScreens(s, t) /\ t.act = s.act
      /\ t.focus = s.focus /\ t.view[v].mapped
      /\ \A u \in Views \ {v} : t.view[u] = s.view[u]
  BY DEF WholeBut, Shifts, Handles
<1>2. Homes(t)
  <2>1. ASSUME NEW u \in Views \ {v} PROVE AtHome(t, u)
    <3>1. AtHome(s, u) /\ t.view[u] = s.view[u]
      BY <1>1 DEF WholeBut
    <3> QED
      BY <1>1, <3>1 DEF AtHome, SameScreens
  <2> QED
    BY <2>1 DEF Homes
<1>3. Planted(t)
  <2> SUFFICES ASSUME NEW x \in Workspaces
               PROVE  /\ FocusInside(t.layout[x])
                      /\ \A u \in t.layout[x].held :
                           t.view[u].mapped /\ t.view[u].workspace = x
    BY DEF Planted
  <2>1. FocusInside(t.layout[x])
    BY DEF Shifts, WholeBut, Planted
  <2>2. t.layout[x].held \subseteq Views
    BY <1>1 DEF Servers, Trees
  <2>3. ASSUME NEW u \in Views \ {v}, u \in t.layout[x].held
        PROVE  t.view[u].mapped /\ t.view[u].workspace = x
    <3>1. u \in s.layout[x].held
      BY <2>3 DEF Shifts
    <3> QED
      BY <1>1, <3>1 DEF WholeBut, Planted
  <2>4. ASSUME v \in t.layout[x].held PROVE t.view[v].workspace = x
    <3>1. v \in s.layout[x].held => s.view[v].workspace = x
      BY DEF WholeBut, Planted
    <3> QED
      BY <2>4, <3>1 DEF Shifts
  <2> QED
    BY <1>1, <2>1, <2>2, <2>3, <2>4
<1>4. FocusShown(t)
  <2>1. CASE t.focus = v
    BY <1>1, <2>1 DEF FocusShown, Focusable
  <2>2. CASE t.focus # v
    BY <1>1, <2>2 DEF FocusShown, Focusable, WholeBut
  <2> QED
    BY <2>1, <2>2
<1>5. Screens(t)
  BY <1>1, ScreensStay DEF WholeBut
<1> QED
  BY <1>1, <1>2, <1>3, <1>4, <1>5 DEF Settles, Whole

\* A window that is tiled, floats or is full screen another way.
LEMMA DressesSettles ==
    ASSUME NEW s, Whole(s), NEW v \in Views, s.view[v].mapped,
           NEW t, Dresses(s, t, v)
    PROVE  Settles(s, t)
<1>1. s \in Servers /\ AtHome(t, v)
  BY DressesAtHome DEF Whole, Homes
<1>2. Shifts(s, t, v)
  BY <1>1, DressesCarries, CarriesShifts
<1>3. s.focus = v => t.view[v].output # NoOutput
  BY DEF Dresses, Whole, FocusShown, Focusable
<1> QED
  BY <1>1, <1>2, <1>3, WholeButNone, ShiftsSettles

\* A change of the focus to a window that may have it, whoever had it before.
LEMMA FocusViewSettles ==
    ASSUME NEW s \in Servers, Homes(s), Planted(s), Screens(s),
           NEW wanted \in Views \cup {NoView}, NEW t \in FocusView(s, wanted)
    PROVE  Settles(s, t)
<1>1. /\ Refocuses(s, t)
      /\ \/ t.focus = NoView /\ t.act = s.act
         \/ /\ wanted # NoView /\ Focusable(s, wanted) /\ Focusable(s, t.focus)
            /\ t.act = s.view[wanted].output
  BY FocusViewRefocuses
<1>2. Unmoved(s, t)
  BY <1>1 DEF Refocuses
<1>3. t \in Servers /\ Homes(t) /\ Planted(t)
  BY <1>2, UnmovedStays
<1>4. FocusShown(t)
  BY <1>1, <1>2 DEF FocusShown, Focusable, Unmoved
<1>5. t.act \in s.conn \cup {s.act}
  BY <1>1, FocusableShown DEF Screens, Focusable
<1>6. SameScreens(s, t)
  BY <1>2 DEF Unmoved
<1>7. Screens(t)
  BY <1>5, <1>6, ScreensStay
<1> QED
  BY <1>3, <1>4, <1>5, <1>6, <1>7 DEF Settles, Whole

-----------------------------------------------------------------------------
(* Windows are mapped                                                      *)

LEMMA FocusedOnIsView ==
    ASSUME NEW s \in Servers, NEW o \in Outputs \cup {NoOutput}
    PROVE  FocusedOn(s, o) \in Views \cup {NoView}
<1>1. CASE o = NoOutput \/ s.active[o] = NoWorkspace
  BY <1>1 DEF FocusedOn
<1>2. CASE ~ (o = NoOutput \/ s.active[o] = NoWorkspace)
  <2>1. s.active[o] \in Workspaces
    BY <1>2 DEF Servers, Workspaces, NoWorkspace
  <2> QED
    BY <1>2, <2>1 DEF FocusedOn, Servers, Trees
<1> QED
  BY <1>1, <1>2

\* Window v gets other fields.
LEMMA SetViewTends ==
    ASSUME NEW s \in Servers, NEW v \in Views, NEW f \in Windows,
           f.mapped = s.view[v].mapped, f.dragging = s.view[v].dragging
    PROVE  LET t == [s EXCEPT !.view[v] = f] IN
           /\ Tends(s, t, v) /\ t.act = s.act /\ t.focus = s.focus
           /\ t.layout = s.layout /\ t.view[v] = f
<1> DEFINE t == [s EXCEPT !.view[v] = f]
<1>1. /\ t \in Servers /\ Same(s, t) /\ t.layout = s.layout
      /\ t.view = [s.view EXCEPT ![v] = f]
  BY SetView
<1> HIDE DEF t
<1>2. t.view[v] = f /\ \A u \in Views \ {v} : t.view[u] = s.view[u]
  BY <1>1 DEF Servers
<1>3. /\ Tends(s, t, v) /\ t.act = s.act /\ t.focus = s.focus
      /\ t.layout = s.layout /\ t.view[v] = f
  BY <1>1, <1>2 DEF Tends, Handles, Same
<1> QED
  BY <1>3 DEF t

LEMMA SetViewCarries ==
    ASSUME NEW s \in Servers, NEW v \in Views, NEW f \in Windows,
           f.mapped = s.view[v].mapped, f.dragging = s.view[v].dragging,
           f.workspace = s.view[v].workspace
    PROVE  LET t == [s EXCEPT !.view[v] = f] IN
           Carries(s, t, v) /\ t.view[v] = f
<1> DEFINE t == [s EXCEPT !.view[v] = f]
<1>1. /\ Tends(s, t, v) /\ t.act = s.act /\ t.focus = s.focus
      /\ t.layout = s.layout /\ t.view[v] = f
  BY SetViewTends
<1> HIDE DEF t
<1>2. CallOn(s, t, v)
  BY <1>1 DEF Tends, Handles, CallOn, Same
<1>3. Carries(s, t, v) /\ t.view[v] = f
  BY <1>1, <1>2 DEF Carries
<1> QED
  BY <1>3 DEF t

\* check_sticky
LEMMA CheckStickySteady ==
    ASSUME NEW s \in Servers, NEW v \in Views, NEW t \in CheckSticky(s, v)
    PROVE  Steady(s, t) /\ Tends(s, t, v)
<1>1. CASE t = s
  BY <1>1, SteadyNothing DEF Tends, Handles, SameScreens
<1>2. CASE t # s
  <2>1. PICK l \in LeaveOwn(s, v) : t = [l EXCEPT !.view[v] = Stuck(@)]
    BY <1>2 DEF CheckSticky
  <2>2. l \in Servers /\ l.view = s.view /\ s.view[v] \in Windows
    BY LeaveOwnRemoves DEF Arranges, Servers
  <2> DEFINE f == Stuck(s.view[v])
  <2>3. /\ f \in Windows /\ f.mapped = s.view[v].mapped
        /\ f.dragging = s.view[v].dragging /\ f.enabled = s.view[v].enabled
        /\ f.sticky = TRUE
    BY <2>2, StuckFields
  <2>4. t = [l EXCEPT !.view[v] = f]
    BY <2>1, <2>2
  <2> HIDE DEF f
  <2>5. Tends(s, t, v)
    BY <2>3, <2>4, LeftCarries, CarriesTends
  <2>6. t.view[v] = f
    BY <2>2, <2>3, <2>4, SetViewTends
  <2> QED
    BY <2>3, <2>5, <2>6 DEF Tends, Handles, SameScreens, Steady
<1> QED
  BY <1>1, <1>2

\* What Adopted does to its window: one that is on no output may get one.
AdoptedOn(s, t, v) ==
    \/ t = s /\ s.view[v].output # NoOutput
    \/ \E o \in Outputs \cup {NoOutput} :
         /\ s.view[v].output = NoOutput
         /\ t.view[v] = [s.view[v] EXCEPT !.output = o]
         /\ s.act # NoOutput => o = s.act
         /\ s.conn = {} /\ s.act = NoOutput => o = NoOutput

\* A window that has no output gets one.
LEMMA AdoptedOutput ==
    ASSUME NEW s \in Servers, NEW v \in Views, NEW t \in Adopted(s, v)
    PROVE  /\ Tends(s, t, v) /\ t.act = s.act /\ t.focus = s.focus
           /\ t.layout = s.layout
           /\ AdoptedOn(s, t, v)
<1>1. CASE s.view[v].output # NoOutput
  <2>1. t = s
    BY <1>1 DEF Adopted
  <2> QED
    BY <1>1, <2>1 DEF Tends, Handles, SameScreens, AdoptedOn
<1>2. CASE s.view[v].output = NoOutput
  <2>1. PICK o \in IF s.act # NoOutput THEN {s.act}
                   ELSE IF s.conn # {} THEN s.conn ELSE {NoOutput} :
               t = [s EXCEPT !.view[v].output = o]
    BY <1>2 DEF Adopted
  <2> DEFINE f == [s.view[v] EXCEPT !.output = o]
  <2>2. o \in Outputs \cup {NoOutput}
    BY <2>1 DEF Servers
  <2>3. s.view[v] \in Windows
    BY DEF Servers
  <2>4. f \in Windows /\ f.mapped = s.view[v].mapped /\ f.dragging = s.view[v].dragging
    BY <2>2, <2>3 DEF Windows
  <2>5. t = [s EXCEPT !.view[v] = f]
    BY <2>1
  <2> HIDE DEF f
  <2>6. /\ Tends(s, t, v) /\ t.act = s.act /\ t.focus = s.focus
        /\ t.layout = s.layout /\ t.view[v] = f
    BY <2>4, <2>5, SetViewTends
  <2>7. (s.act # NoOutput => o = s.act) /\ (s.conn = {} /\ s.act = NoOutput => o = NoOutput)
    BY <2>1
  <2>8. AdoptedOn(s, t, v)
    BY <1>2, <2>2, <2>6, <2>7, Zenon DEF f, AdoptedOn
  <2> QED
    BY <2>6, <2>8
<1> QED
  BY <1>1, <1>2

\* server_view_mapped, for a sticky window.
LEMMA StickyMappedTends ==
    ASSUME NEW s \in Servers, NEW v \in Views, NEW t \in StickyMapped(s, v)
    PROVE  Tends(s, t, v)
<1> DEFINE f == Stuck(s.view[v])
           free == [s EXCEPT !.view[v] = f]
<1>1. PICK u \in Adopted(free, v) : t \in FocusView(u, v)
  BY DEF StickyMapped, Then
<1>2. s.view[v] \in Windows
  BY DEF Servers
<1>3. f \in Windows /\ f.mapped = s.view[v].mapped /\ f.dragging = s.view[v].dragging
  BY <1>2, StuckFields
<1> HIDE DEF f
<1>4. Tends(s, free, v)
  BY <1>3, SetViewTends
<1>5. free \in Servers
  BY <1>4 DEF Tends, Handles
<1> HIDE DEF free
<1>6. Tends(free, u, v)
  BY <1>1, <1>5, AdoptedOutput
<1>7. u \in Servers
  BY <1>6 DEF Tends, Handles
<1>8. Tends(u, t, v)
  BY <1>1, <1>7, FocusViewRefocuses, RefocusesSteady
<1> QED
  BY <1>4, <1>6, <1>8, TendsTwice

\* server_view_mapped finds the window its place: a window that was not mapped
\* before, and so is on no output that was unplugged, is then at home.
OutOfPlace(s, v) ==
    LET f == s.view[v] IN
    /\ WholeBut(s, v)
    /\ f.mapped /\ ~ f.sticky /\ s.focus # v
    /\ f.workspace # NoWorkspace => f.output = NoOutput
    /\ f.output \in s.conn \cup {NoOutput}

LEMMA PlacedAtHome ==
    ASSUME NEW s \in Servers, NEW v \in Views, NEW t \in Placed(s, v)
    PROVE  Tends(s, t, v) /\ (OutOfPlace(s, v) => Settles(s, t) /\ t.focus # v)
<1> DEFINE f == s.view[v]
<1>1. PICK u \in IF f.workspace = NoWorkspace THEN Adopted(s, v) ELSE {s} :
             LET g == u.view[v]
                 w == IF g.workspace = NoWorkspace /\ g.output # NoOutput
                      THEN u.active[g.output] ELSE g.workspace
                 o == IF w # NoWorkspace /\ u.output[w] # NoOutput
                      THEN u.output[w] ELSE g.output
             IN  t = [u EXCEPT !.view[v] = [@ EXCEPT !.workspace = w, !.output = o]]
  BY DEF Placed
<1>14. /\ f.workspace = NoWorkspace => u \in Adopted(s, v)
       /\ f.workspace # NoWorkspace => u = s
  <2>1. u \in IF f.workspace = NoWorkspace THEN Adopted(s, v) ELSE {s}
    OBVIOUS
  <2> HIDE DEF f
  <2> QED
    BY <2>1
<1>12. ASSUME f.workspace = NoWorkspace PROVE AdoptedOn(s, u, v)
  <2>1. u \in Adopted(s, v)
    BY <1>12, <1>14
  <2> QED
    BY <2>1, AdoptedOutput
<1>3. /\ Tends(s, u, v) /\ u.act = s.act /\ u.focus = s.focus /\ u.layout = s.layout
  <2>1. CASE f.workspace = NoWorkspace
    <3>1. u \in Adopted(s, v)
      BY <1>14, <2>1
    <3> QED
      BY <3>1, AdoptedOutput
  <2>2. CASE f.workspace # NoWorkspace
    <3>1. u = s
      BY <1>14, <2>2
    <3> QED
      BY <3>1 DEF Tends, Handles, SameScreens
  <2> QED
    BY <2>1, <2>2
<1>4. u \in Servers /\ SameScreens(s, u)
  BY <1>3 DEF Tends, Handles
<1> DEFINE g == u.view[v]
           w == IF g.workspace = NoWorkspace /\ g.output # NoOutput
                THEN u.active[g.output] ELSE g.workspace
           o == IF w # NoWorkspace /\ u.output[w] # NoOutput
                THEN u.output[w] ELSE g.output
           h == [g EXCEPT !.workspace = w, !.output = o]
<1>2. t = [u EXCEPT !.view[v] = h]
  BY <1>1, Zenon
<1>5. g \in Windows /\ f \in Windows
  BY <1>4 DEF Servers
<1>15. /\ g.workspace \in 0..NumWorkspaces /\ g.output \in Outputs \cup {NoOutput}
       /\ u.active \in [Outputs -> 0..NumWorkspaces]
       /\ u.output \in [Workspaces -> Outputs \cup {NoOutput}]
  <2>1. g.workspace \in 0..NumWorkspaces /\ g.output \in Outputs \cup {NoOutput}
    <3> HIDE DEF g
    <3> QED
      BY <1>5 DEF Windows
  <2>2. /\ u.active \in [Outputs -> 0..NumWorkspaces]
        /\ u.output \in [Workspaces -> Outputs \cup {NoOutput}]
    BY <1>4 DEF Servers
  <2> QED
    BY <2>1, <2>2
<1> HIDE DEF g
<1>6. w \in 0..NumWorkspaces
  BY <1>15
<1>7. o \in Outputs \cup {NoOutput}
  <2> HIDE DEF w
  <2> QED
    BY <1>6, <1>15 DEF Workspaces, NoWorkspace
<1> USE DEF g
<1> HIDE DEF w, o
<1>8. /\ h \in Windows /\ h.mapped = g.mapped /\ h.dragging = g.dragging
      /\ h.sticky = g.sticky /\ h.workspace = w /\ h.output = o
  BY <1>5, <1>6, <1>7 DEF Windows
<1> HIDE DEF h
<1>9. /\ Tends(u, t, v) /\ t.act = u.act /\ t.focus = u.focus
      /\ t.layout = u.layout /\ t.view[v] = h
  BY <1>2, <1>4, <1>8, SetViewTends
<1>10. Tends(s, t, v) /\ t.act = s.act /\ t.focus = s.focus /\ t.layout = s.layout
  BY <1>3, <1>9, TendsTwice
<1>13. t.output = s.output /\ t.conn = s.conn
  BY <1>10 DEF Tends, Handles, SameScreens
<1>11. ASSUME OutOfPlace(s, v) PROVE Settles(s, t) /\ t.focus # v
  <2>1. /\ WholeBut(s, v) /\ Screens(s) /\ Planted(s) /\ f.mapped /\ ~ f.sticky
        /\ s.focus # v
    BY <1>11 DEF OutOfPlace, WholeBut
  <2>2. Shifts(s, t, v)
    <3>1. ASSUME NEW x \in Workspaces, v \in t.layout[x].held
          PROVE  x = t.view[v].workspace
      <4>1. f.workspace = x
        BY <1>10, <2>1, <3>1 DEF Planted
      <4>2. u = s
        BY <1>14, <4>1 DEF Workspaces, NoWorkspace
      <4>3. w = x
        BY <4>1, <4>2 DEF w, Workspaces, NoWorkspace
      <4> QED
        BY <1>8, <1>9, <4>3
    <3> QED
      BY <1>10, <3>1 DEF Shifts, Tends
  <2>3. g.mapped /\ ~ g.sticky /\ o = (IF w # NoWorkspace /\ s.output[w] # NoOutput
                                        THEN s.output[w] ELSE g.output)
    <3>1. CASE u = s
      BY <2>1, <3>1 DEF o
    <3>2. CASE u # s
      <4>1. f.workspace = NoWorkspace
        BY <1>14, <3>2
      <4>2. PICK p \in Outputs \cup {NoOutput} : g = [f EXCEPT !.output = p]
        BY <1>12, <3>2, <4>1 DEF AdoptedOn
      <4> QED
        BY <1>4, <1>5, <2>1, <4>2 DEF o, SameScreens, Windows
    <3> QED
      BY <3>1, <3>2
  <2> SUFFICES AtHome(t, v)
    BY <1>10, <2>1, <2>2, ShiftsSettles
  <2>4. CASE f.workspace # NoWorkspace
    <3>1. u = s /\ f.output = NoOutput /\ w = f.workspace
      BY <1>11, <1>14, <2>4 DEF OutOfPlace, w
    <3>2. o = s.output[w]
      BY <2>3, <2>4, <3>1
    <3> QED
      BY <1>8, <1>9, <1>13, <2>3, <2>4, <3>1, <3>2 DEF AtHome
  <2>5. CASE f.workspace = NoWorkspace
    <3>1. /\ u \in Adopted(s, v)
          /\ f.output \in s.conn \cup {NoOutput}
          /\ NoOutput \notin s.conn
      BY <1>11, <1>14, <2>5 DEF OutOfPlace, Servers
    <3>2. /\ g.workspace = NoWorkspace
          /\ g.output \in s.conn \cup {NoOutput}
          /\ g.output = NoOutput => s.conn = {}
      <4>1. CASE u = s /\ f.output # NoOutput
        BY <2>5, <3>1, <4>1
      <4>2. CASE ~ (u = s /\ f.output # NoOutput)
        <5>1. PICK p \in Outputs \cup {NoOutput} :
                     /\ g = [f EXCEPT !.output = p]
                     /\ s.act # NoOutput => p = s.act
                     /\ s.conn = {} /\ s.act = NoOutput => p = NoOutput
          BY <1>12, <2>5, <4>2 DEF AdoptedOn
        <5>2. g.workspace = f.workspace /\ g.output = p
          BY <1>5, <5>1 DEF Windows
        <5>3. s.act \in s.conn \cup {NoOutput} /\ (s.conn # {} => s.act # NoOutput)
          BY <2>1 DEF Screens
        <5> QED
          BY <2>5, <5>1, <5>2, <5>3
      <4> QED
        BY <4>1, <4>2
    <3>3. CASE g.output = NoOutput
      <4>1. w = NoWorkspace /\ o = NoOutput /\ s.conn = {}
        BY <2>3, <3>2, <3>3 DEF w
      <4> QED
        BY <1>8, <1>9, <1>13, <2>3, <4>1 DEF AtHome
    <3>4. CASE g.output # NoOutput
      <4>1. w = s.active[g.output] /\ g.output \in s.conn
        BY <1>4, <3>2, <3>4 DEF w, SameScreens
      <4>2. w \in Workspaces /\ s.output[w] = g.output
        BY <2>1, <4>1 DEF Screens
      <4>3. w # NoWorkspace /\ o = s.output[w]
        BY <2>3, <4>2, <3>4 DEF Workspaces, NoWorkspace
      <4> QED
        BY <1>8, <1>9, <1>13, <2>3, <4>3 DEF AtHome
    <3> QED
      BY <3>3, <3>4
  <2> QED
    BY <2>4, <2>5
<1> QED
  BY <1>10, <1>11

\* ... then it opens, its rules are applied and it takes the focus.
LEMMA ManagedStays ==
    ASSUME NEW s \in Servers, NEW v \in Views, NEW rules \in RuleLists,
           NEW transient, NEW t \in Managed(s, v, transient, rules)
    PROVE  /\ Tends(s, t, v)
           /\ Whole(s) /\ s.view[v].mapped /\ s.focus # v /\ NoStickyRule(rules)
              => Settles(s, t)
<1> DEFINE f == s.view[v]
           fresh == ~ (f.tiled \/ f.floating \/ f.fullscreen \/ f.dragging)
           shown(g, p) == [g EXCEPT !.output = p, !.enabled = @ /\ p # NoOutput]
           floated == [s EXCEPT !.view[v].floating = TRUE]
           tiled == [Tile(s, f.workspace, v) EXCEPT
                       !.view[v] = shown(@, s.output[f.workspace])]
           opened == IF ~ fresh THEN s ELSE IF transient THEN floated ELSE tiled
<1>1. CASE f.workspace = NoWorkspace \/ f.output = NoOutput
  <2>1. t = s
    BY <1>1 DEF Managed
  <2>2. Whole(s) => Settles(s, s)
    BY DEF Settles, SameScreens
  <2> QED
    BY <2>1, <2>2 DEF Tends, Handles, SameScreens
<1>2. CASE ~ (f.workspace = NoWorkspace \/ f.output = NoOutput)
  <2>0. f \in Windows /\ f.workspace \in Workspaces /\ f.workspace # NoWorkspace
    BY <1>2 DEF Servers, Windows, Workspaces, NoWorkspace
  <2>1. PICK r \in ApplyRules(opened, v, rules) :
               t \in IF r.view[v].output = NoOutput THEN {r} ELSE FocusView(r, v)
    BY <1>2 DEF Managed, Then
  <2>2. Dresses(s, floated, v)
    BY DressesOneField
  <2>3. Carries(s, tiled, v) /\ (f.mapped /\ AtHome(s, v) => AtHome(tiled, v))
    <3> DEFINE k == Tile(s, f.workspace, v)
               g == k.view[v]
               p == s.output[f.workspace]
               h == [g EXCEPT !.output = p, !.enabled = g.enabled /\ p # NoOutput]
    <3>1. Dresses(s, k, v)
      BY <2>0, TileDresses
    <3>2. k \in Servers /\ g \in Windows
      <4>1. k \in Servers
        BY <3>1, DressesServer
      <4> HIDE DEF k
      <4> QED
        BY <4>1 DEF Servers
    <3>3. p \in Outputs \cup {NoOutput}
      BY <2>0 DEF Servers
    <3>4. tiled = [k EXCEPT !.view[v] = h]
      OBVIOUS
    <3> HIDE DEF k, p
    <3>5. /\ h \in Windows /\ h.mapped = g.mapped /\ h.dragging = g.dragging
          /\ h.workspace = g.workspace /\ h.output = p /\ h.sticky = g.sticky
      BY <3>2, <3>3 DEF Windows
    <3> HIDE DEF h, tiled
    <3>6. Carries(k, tiled, v) /\ tiled.view[v] = h
      BY <3>2, <3>4, <3>5, SetViewCarries
    <3>7. Carries(s, tiled, v)
      BY <3>1, <3>6, DressesCarries, CarriesTwice
    <3>8. ASSUME f.mapped, AtHome(s, v) PROVE AtHome(tiled, v)
      <4>1. /\ g.workspace = f.workspace /\ g.sticky = f.sticky /\ g.mapped = f.mapped
        BY <3>1 DEF Dresses, CallOn
      <4>2. tiled.output = s.output
        BY <3>7 DEF Carries, CallOn, Same, SameScreens
      <4> QED
        BY <2>0, <3>5, <3>6, <3>8, <4>1, <4>2 DEF AtHome, p
    <3> QED
      BY <3>7, <3>8
  <2> HIDE DEF fresh, floated, tiled
  <2>4. Carries(s, opened, v) /\ (f.mapped /\ AtHome(s, v) => AtHome(opened, v))
    BY <2>2, <2>3, DressesCarries, CarriesNothing, DressesAtHome
  <2> HIDE DEF opened
  <2>5. opened \in Servers /\ opened.view[v].mapped = f.mapped
    BY <2>4, CarriesServer
  <2>6. /\ Carries(opened, r, v)
        /\ NoStickyRule(rules) /\ opened.view[v].mapped /\ AtHome(opened, v) => AtHome(r, v)
    BY <2>1, <2>5, ApplyRulesCarries
  <2>7. Carries(s, r, v) /\ r \in Servers
    BY <2>4, <2>6, CarriesTwice, CarriesServer
  <2>8. Tends(s, t, v)
    <3>1. t = r \/ Refocuses(r, t)
      BY <2>1, <2>7, FocusViewRefocuses
    <3> QED
      BY <2>7, <3>1, CarriesTends, RefocusesSteady, TendsTwice
  <2>9. ASSUME Whole(s), f.mapped, s.focus # v, NoStickyRule(rules)
        PROVE  Settles(s, t)
    <3>1. AtHome(r, v)
      BY <2>4, <2>5, <2>6, <2>9 DEF Whole, Homes
    <3>2. Settles(s, r)
      BY <2>7, <2>9, <3>1, WholeButNone, CarriesShifts, ShiftsSettles
    <3>3. t = r \/ Settles(r, t)
      BY <2>1, <3>2, FocusViewSettles DEF Settles, Whole
    <3> QED
      BY <3>2, <3>3, SettlesTwice
  <2> QED
    BY <2>8, <2>9
<1> QED
  BY <1>1, <1>2

\* server_view_mapped
LEMMA ViewMappedStays ==
    ASSUME NEW s \in Servers, NEW v \in Views, NEW rules \in RuleLists,
           NEW transient, NEW t \in ViewMapped(s, v, transient, rules)
    PROVE  /\ Tends(s, t, v)
           /\ OutOfPlace(s, v) /\ NoStickyRule(rules) => Settles(s, t)
<1>1. CASE s.view[v].sticky
  BY <1>1, StickyMappedTends DEF ViewMapped, OutOfPlace
<1>2. CASE ~ s.view[v].sticky
  <2>1. PICK u \in Placed(s, v) : t \in Managed(u, v, transient, rules)
    BY <1>2 DEF ViewMapped, Then
  <2>2. Tends(s, u, v) /\ (OutOfPlace(s, v) => Settles(s, u) /\ u.focus # v)
    BY <2>1, PlacedAtHome
  <2>3. u \in Servers /\ u.view[v].mapped = s.view[v].mapped
    BY <2>2 DEF Tends, Handles
  <2>4. /\ Tends(u, t, v)
        /\ Whole(u) /\ u.view[v].mapped /\ u.focus # v /\ NoStickyRule(rules)
           => Settles(u, t)
    BY <2>1, <2>3, ManagedStays
  <2>5. Tends(s, t, v)
    BY <2>2, <2>4, TendsTwice
  <2>6. ASSUME OutOfPlace(s, v), NoStickyRule(rules)
        PROVE  Settles(s, t)
    BY <2>2, <2>3, <2>4, <2>6, SettlesTwice DEF OutOfPlace, Settles
  <2> QED
    BY <2>5, <2>6
<1> QED
  BY <1>1, <1>2

-----------------------------------------------------------------------------
(* One step                                                                *)

WP == INSTANCE WorkspacesProofs WITH occupied <- OccupiedBy(views, view)

\* What holds whatever the rules are.
Live == Server \in Servers /\ Lively(Server)

\* ... and what a step may then not do.
StickyHeld ==
    \A v \in Views :
      view[v].sticky /\ view[v].mapped /\ view[v].enabled /\ view'[v].mapped
      => view'[v].enabled

\* No window is ever on every workspace.
NeverSticky == StickyApps = {} /\ \A rules \in RuleLists : NoStickyRule(rules)

\* A step that only concerns windows.
SettledNext == Whole(Server)' /\ WS!ViewsChange

LEMMA OccupiedTypes ==
    ASSUME NEW vs \in SUBSET Views, NEW fields \in [Views -> Windows]
    PROVE  OccupiedBy(vs, fields) \subseteq Workspaces
BY DEF OccupiedBy, Windows, Workspaces

\* The record that a handler leaves is the one the next starts from, but for
\* the occupied workspaces, which are counted anew.
LEMMA BecomesServer ==
    ASSUME NEW s \in Servers, Becomes(s)
    PROVE  /\ Server' \in Servers
           /\ Server'.conn = s.conn /\ Server'.output = s.output
           /\ Server'.last = s.last /\ Server'.active = s.active
           /\ Server'.act = s.act /\ Server'.views = s.views
           /\ Server'.view = s.view /\ Server'.layout = s.layout
           /\ Server'.focus = s.focus /\ Server'.drag = s.drag
<1>1. OccupiedBy(s.views, s.view) \subseteq Workspaces
  BY OccupiedTypes DEF Servers
<1> QED
  BY <1>1 DEF Becomes, Server, Servers

LEMMA BecomesLive ==
    ASSUME NEW s \in Servers, Lively(s), Becomes(s)
    PROVE  Live'
<1>1. Server' \in Servers /\ Lively(Server')
  BY BecomesServer DEF Lively
<1> QED
  BY <1>1 DEF Live

LEMMA BecomesWhole ==
    ASSUME NEW s, Whole(s), Becomes(s)
    PROVE  Whole(Server)'
<1>1. s \in Servers
  BY DEF Whole
<1>2. /\ Server' \in Servers
      /\ Server'.conn = s.conn /\ Server'.output = s.output
      /\ Server'.active = s.active /\ Server'.act = s.act
      /\ Server'.view = s.view /\ Server'.layout = s.layout
      /\ Server'.focus = s.focus
  BY <1>1, BecomesServer
<1>3. Homes(Server')
  BY <1>2 DEF Whole, Homes, AtHome
<1>4. Planted(Server') /\ FocusShown(Server')
  BY <1>2 DEF Whole, Planted, FocusShown, Focusable
<1>5. Screens(Server')
  BY <1>2 DEF Whole, Screens
<1> QED
  BY <1>2, <1>3, <1>4, <1>5 DEF Whole

\* A step that maps, unmaps and drags no window and hides none that sticks.
LEMMA SteadyStep ==
    ASSUME Live, NEW s, Steady(Server, s), Becomes(s)
    PROVE  Live' /\ StickyHeld
<1>1. s \in Servers /\ Lively(s)
  BY SteadyLively DEF Live, Steady
<1>2. Server.view = view /\ view' = s.view
  BY DEF Server, Becomes
<1> QED
  BY <1>1, <1>2, BecomesLive DEF StickyHeld, Steady

\* A step that changes window v, which was not mapped.
LEMMA TendsStep ==
    ASSUME NEW v \in Views, ~ view[v].mapped,
           NEW u \in Servers, Lively(u),
           \A x \in Views \ {v} : u.view[x] = view[x],
           NEW s, Tends(u, s, v), Becomes(s)
    PROVE  Live' /\ StickyHeld
<1>1. s \in Servers /\ Lively(s)
  BY TendsLively DEF Tends, Handles
<1>2. view' = s.view /\ \A x \in Views \ {v} : s.view[x] = view[x]
  BY DEF Becomes, Tends, Handles
<1> QED
  BY <1>1, <1>2, BecomesLive DEF StickyHeld

\* A step that leaves outputs and workspaces alone.
LEMMA SettledStep ==
    ASSUME NEW s, Whole(s), Becomes(s),
           s.conn = connected, s.output = output, s.last = last_output,
           s.active = active, s.act \in connected \cup {active_output}
    PROVE  SettledNext
<1>1. s \in Servers /\ Whole(Server)'
  BY BecomesWhole DEF Whole
<1>2. OccupiedBy(s.views, s.view) \subseteq Workspaces
  BY <1>1, OccupiedTypes DEF Servers
<1>3. /\ OccupiedBy(views, view)' \subseteq Workspaces
      /\ active_output' \in connected \cup {active_output}
      /\ UNCHANGED <<connected, output, last_output, active>>
  BY <1>2 DEF Becomes
<1>4. WS!ViewsChange
  <2>1. OccupiedBy(views, view)' \in SUBSET WS!Workspaces
    BY <1>3 DEF Workspaces, WS!Workspaces
  <2> QED
    BY <1>3, <2>1 DEF WS!ViewsChange, WS!assignment
<1> QED
  BY <1>1, <1>4 DEF SettledNext

LEMMA SettlesStep ==
    ASSUME NEW s, Settles(Server, s), Becomes(s)
    PROVE  SettledNext
<1>1. /\ s.conn = connected /\ s.output = output /\ s.last = last_output
      /\ s.active = active /\ s.act \in connected \cup {active_output}
      /\ Whole(s)
  BY DEF Settles, SameScreens, Server
<1> QED
  BY <1>1, SettledStep

LEMMA DressStep ==
    ASSUME Live, NEW v \in Views, NEW s, Dresses(Server, s, v), Becomes(s)
    PROVE  Live' /\ StickyHeld /\ (Whole(Server) /\ view[v].mapped => SettledNext)
<1>1. Live' /\ StickyHeld
  BY DressesSteady, SteadyStep
<1>2. Server.view = view
  BY DEF Server
<1>3. Whole(Server) /\ view[v].mapped => SettledNext
  BY <1>2, DressesSettles, SettlesStep
<1> QED
  BY <1>1, <1>3

LEMMA RefocusStep ==
    ASSUME Live, NEW s, Refocuses(Server, s), Becomes(s)
    PROVE  Live' /\ StickyHeld /\ (Whole(Server) => SettledNext)
<1>1. Live' /\ StickyHeld
  BY RefocusesSteady, SteadyStep
<1>2. Whole(Server) => SettledNext
  BY RefocusSettles, SettlesStep
<1> QED
  BY <1>1, <1>2
-----------------------------------------------------------------------------
(* The handlers that move the focus                                        *)

LEMMA ActivateStays ==
    ASSUME Live, NEW v \in Views, Activate(v)
    PROVE  Live' /\ StickyHeld /\ (Whole(Server) => SettledNext)
<1>1. PICK s \in FocusView(Server, v) : Becomes(s)
  BY DEF Activate
<1>2. Refocuses(Server, s)
  BY FocusViewRefocuses DEF Live
<1> QED
  BY <1>1, <1>2, RefocusStep

LEMMA FocusSurfaceStays ==
    ASSUME Live, FocusSurface
    PROVE  Live' /\ StickyHeld /\ (Whole(Server) => SettledNext)
<1> DEFINE s == [Server EXCEPT !.focus = NoView]
<1>1. Becomes(s)
  BY DEF FocusSurface
<1>2. Refocuses(Server, s)
  BY UnfocusRefocuses DEF Live
<1> HIDE DEF s
<1> QED
  BY <1>1, <1>2, RefocusStep

LEMMA SurfaceDestroyedStays ==
    ASSUME Live, SurfaceDestroyed
    PROVE  Live' /\ StickyHeld /\ (Whole(Server) => SettledNext)
<1>1. PICK s \in FocusView(Server, FocusedOn(Server, active_output)) : Becomes(s)
  BY DEF SurfaceDestroyed
<1>2. active_output \in Outputs \cup {NoOutput}
  BY DEF Live, Server, Servers
<1>3. Refocuses(Server, s)
  BY <1>2, FocusedOnIsView, FocusViewRefocuses DEF Live
<1> QED
  BY <1>1, <1>3, RefocusStep

LEMMA MovePointerStays ==
    ASSUME Live, MovePointer
    PROVE  Live' /\ StickyHeld /\ (Whole(Server) => SettledNext)
<1>1. PICK s \in Hover(Server) : Becomes(s)
  BY DEF MovePointer
<1>2. Refocuses(Server, s)
  BY HoverRefocuses DEF Live
<1> QED
  BY <1>1, <1>2, RefocusStep

\* An output that lies next to another is a connected one.
LEMMA BesideConnected ==
    ASSUME NEW current, NEW o \in Beside(current)
    PROVE  current \in connected /\ o \in connected
<1>1. current \in connected /\ \E place \in Arrangements,
                                  dir \in {"left", "down", "up", "right"} :
           o \in find_output_in_direction(place, current, dir)
  BY DEF Beside
<1> QED
  BY <1>1 DEF find_output_in_direction

LEMMA FocusOutputRefocuses ==
    ASSUME NEW s \in Servers, NEW o \in s.conn, NEW t \in FocusOutput(s, o)
    PROVE  Refocuses(s, t)
<1>1. o \in Outputs
  BY DEF Servers
<1>2. CASE FocusedOn(s, o) # NoView
  <2>1. t \in FocusView(s, FocusedOn(s, o))
    BY <1>2 DEF FocusOutput
  <2> QED
    BY <1>1, <2>1, FocusedOnIsView, FocusViewRefocuses
<1>3. CASE FocusedOn(s, o) = NoView
  <2> DEFINE u == [s EXCEPT !.act = o]
  <2>1. t \in FocusView(u, NoView)
    BY <1>3 DEF FocusOutput
  <2>2. Refocuses(s, u)
    BY SetActRefocuses
  <2> HIDE DEF u
  <2>3. u \in Servers
    BY <2>2 DEF Refocuses, Unmoved
  <2> QED
    BY <2>1, <2>2, <2>3, FocusViewRefocuses, RefocusesTwice
<1> QED
  BY <1>2, <1>3

LEMMA FocusDirectionStays ==
    ASSUME Live, FocusDirection
    PROVE  Live' /\ StickyHeld /\ (Whole(Server) => SettledNext)
<1> DEFINE f == view[focused_view]
           inside == /\ focused_view # NoView
                     /\ f.output # NoOutput /\ f.workspace # NoWorkspace
                     /\ ~ f.floating /\ ~ f.fullscreen
           moved(v) == LayoutFocus(Server, f.workspace, v)
<1>1. Server \in Servers /\ Server.conn = connected /\ Server.view = view
      /\ Server.focus = focused_view /\ Server.layout = layout
  BY DEF Live, Server
<1>2. PICK s : /\ Becomes(s)
               /\ \/ \E o \in Beside(active_output) : s \in FocusOutput(Server, o)
                  \/ inside /\ \E v \in layout[f.workspace].held : s \in FocusView(moved(v), v)
  BY DEF FocusDirection, Then
<1>3. CASE \E o \in Beside(active_output) : s \in FocusOutput(Server, o)
  BY <1>1, <1>2, <1>3, BesideConnected, FocusOutputRefocuses, RefocusStep
<1>4. CASE inside /\ \E v \in layout[f.workspace].held : s \in FocusView(moved(v), v)
  <2>1. f.workspace \in Workspaces
    BY <1>1, <1>4 DEF Servers, Windows, Workspaces, NoWorkspace
  <2>2. PICK v \in layout[f.workspace].held : s \in FocusView(moved(v), v)
    BY <1>4
  <2>3. v \in Views /\ f.workspace \in 0..NumWorkspaces
    BY <1>1, <2>1 DEF Servers, Trees, Workspaces
  <2>4. Refocuses(Server, moved(v))
    BY <1>1, <2>3, LayoutFocusRefocuses
  <2> HIDE DEF moved
  <2>5. moved(v) \in Servers
    BY <2>4 DEF Refocuses, Unmoved
  <2>6. Refocuses(moved(v), s)
    BY <2>2, <2>3, <2>5, FocusViewRefocuses
  <2> QED
    BY <1>1, <1>2, <2>4, <2>6, RefocusesTwice, RefocusStep
<1> QED
  BY <1>2, <1>3, <1>4

-----------------------------------------------------------------------------
(* The handlers that tile a window, let it float or make it full screen    *)

LEMMA RequestFullscreenStays ==
    ASSUME Live, NEW v \in Views, RequestFullscreen(v)
    PROVE  Live' /\ StickyHeld /\ (Whole(Server) => SettledNext)
<1>1. PICK s \in ToggleFullscreen(Server, v) : Becomes(s)
  BY DEF RequestFullscreen
<1>2. Dresses(Server, s, v) /\ view[v].mapped
  BY ToggleFullscreenDresses DEF Live, RequestFullscreen
<1> QED
  BY <1>1, <1>2, DressStep

\* The window with the focus is mapped.
LEMMA FocusedMapped ==
    ASSUME Whole(Server), focused_view # NoView
    PROVE  view[focused_view].mapped
BY DEF Whole, FocusShown, Focusable, Server

LEMMA CenterViewStays ==
    ASSUME Live, NEW v \in Views, CenterView(v)
    PROVE  Live' /\ StickyHeld /\ (Whole(Server) => SettledNext)
<1>1. PICK s \in Center(Server, v) : Becomes(s)
  BY DEF CenterView
<1>2. Dresses(Server, s, v) /\ focused_view = v
  BY CenterDresses DEF Live, CenterView
<1> QED
  BY <1>1, <1>2, FocusedMapped, DressStep

LEMMA ToggleFloatingStays ==
    ASSUME Live, NEW v \in Views, ToggleFloating(v)
    PROVE  Live' /\ StickyHeld /\ (Whole(Server) => SettledNext)
<1> DEFINE f == view[v]
           down == [Server EXCEPT !.view[v].floating = FALSE]
<1>1. focused_view = v /\ Server \in Servers /\ Server.view = view
  BY DEF ToggleFloating, Live, Server
<1>2. CASE \E u \in Untile(Server, v) : Becomes([u EXCEPT !.view[v].floating = TRUE])
  <2>1. PICK u \in Untile(Server, v) : Becomes([u EXCEPT !.view[v].floating = TRUE])
    BY <1>2
  <2> DEFINE s == [u EXCEPT !.view[v].floating = TRUE]
  <2>2. Dresses(Server, u, v)
    BY <1>1, <2>1, UntileDresses
  <2>3. u \in Servers
    BY <2>2, DressesServer
  <2>4. Dresses(u, s, v)
    BY <2>3, DressesOneField
  <2> HIDE DEF s
  <2>5. Dresses(Server, s, v) /\ Becomes(s)
    BY <1>1, <2>1, <2>2, <2>4, DressesTwice DEF s
  <2> QED
    BY <1>1, <2>5, FocusedMapped, DressStep
<1>3. CASE Becomes(IF f.workspace = NoWorkspace THEN down ELSE Tile(down, f.workspace, v))
  <2>1. Dresses(Server, down, v)
    BY <1>1, DressesOneField
  <2> HIDE DEF down
  <2>2. down \in Servers /\ down.view[v].workspace = f.workspace
    BY <1>1, <2>1, DressesServer DEF Dresses
  <2> DEFINE s == IF f.workspace = NoWorkspace THEN down ELSE Tile(down, f.workspace, v)
  <2>3. s = down \/ Dresses(down, s, v)
    BY <2>2, TileDresses
  <2> HIDE DEF s
  <2>4. Dresses(Server, s, v)
    BY <1>1, <2>1, <2>2, <2>3, DressesTwice
  <2>5. Becomes(s)
    BY <1>3 DEF s
  <2> QED
    BY <1>1, <2>4, <2>5, FocusedMapped, DressStep
<1> QED
  BY <1>2, <1>3 DEF ToggleFloating

LEMMA SetAppIdStays ==
    ASSUME Live, NEW v \in Views, SetAppId(v)
    PROVE  Live' /\ StickyHeld /\ ~ NeverSticky
<1>1. PICK s \in CheckSticky(Server, v) : Becomes(s)
  BY DEF SetAppId
<1>2. Steady(Server, s)
  BY CheckStickySteady DEF Live
<1>3. v \in StickyApps
  BY DEF SetAppId
<1> QED
  BY <1>1, <1>2, <1>3, SteadyStep DEF NeverSticky
-----------------------------------------------------------------------------
(* A window goes to another output                                         *)

LEMMA LeaveCarries ==
    ASSUME NEW s \in Servers, NEW v \in Views, NEW w \in Workspaces,
           NEW t \in Leave(s, w, v)
    PROVE  Carries(s, t, v) /\ t.view = s.view
<1>1. Arranges(s, t) /\ LayoutOf(s, t, w, s.layout[w].held \ {v})
  BY LeaveRemoves
<1>2. CallOn(s, t, v) /\ t.view = s.view
  BY <1>1 DEF Arranges, CallOn
<1>3. ASSUME NEW x \in Workspaces
      PROVE  /\ t.layout[x].held \ {v} = s.layout[x].held \ {v}
             /\ FocusInside(s.layout[x]) => FocusInside(t.layout[x])
             /\ v \in t.layout[x].held => v \in s.layout[x].held
  BY <1>1 DEF LayoutOf
<1> QED
  BY <1>2, <1>3 DEF Carries

\* What a move leaves of the fields of the window.
Moved(s, t, v) ==
    /\ Carries(s, t, v)
    /\ t.view[v].sticky = s.view[v].sticky
    /\ t.view[v].enabled = s.view[v].enabled

LEMMA MovedTwice ==
    ASSUME NEW s \in Servers, NEW v \in Views, NEW t, NEW u,
           Moved(s, t, v), Moved(t, u, v)
    PROVE  Moved(s, u, v)
BY CarriesTwice DEF Moved

LEMMA MovedSteady ==
    ASSUME NEW s, NEW v \in Views, NEW t, Moved(s, t, v)
    PROVE  Steady(s, t)
BY CarriesTends DEF Moved, Tends, Handles, SameScreens, Steady

\* The window gets another output, or is no longer tiled.
LEMMA MovedOutput ==
    ASSUME NEW s \in Servers, NEW v \in Views, NEW o \in Outputs \cup {NoOutput}
    PROVE  LET t == [s EXCEPT !.view[v].output = o] IN
           /\ Moved(s, t, v) /\ t.view[v].output = o
           /\ t.view[v].workspace = s.view[v].workspace
<1> DEFINE f == s.view[v]
           g == [f EXCEPT !.output = o]
           r == [s EXCEPT !.view[v] = g]
<1>1. f \in Windows
  BY DEF Servers
<1>2. /\ g \in Windows /\ g.mapped = f.mapped /\ g.dragging = f.dragging
      /\ g.workspace = f.workspace /\ g.sticky = f.sticky /\ g.enabled = f.enabled
      /\ g.output = o
  BY <1>1 DEF Windows
<1>3. r = [s EXCEPT !.view[v].output = o]
  OBVIOUS
<1> HIDE DEF g
<1>4. Carries(s, r, v) /\ r.view[v] = g
  BY <1>2, SetViewCarries
<1> HIDE DEF r
<1>5. Moved(s, r, v) /\ r.view[v].output = o /\ r.view[v].workspace = f.workspace
  BY <1>2, <1>4 DEF Moved
<1> QED
  BY <1>3, <1>5

LEMMA MovedUntiled ==
    ASSUME NEW s \in Servers, NEW v \in Views
    PROVE  LET t == [s EXCEPT !.view[v].tiled = FALSE] IN
           Moved(s, t, v) /\ t.view[v].workspace = s.view[v].workspace
BY DressesOneField, DressesCarries DEF Moved, Dresses

LEMMA MovedToOutputMoves ==
    ASSUME NEW s \in Servers, NEW v \in Views, NEW target \in Outputs,
           s.view[v].output # NoOutput \/ s.act \in Outputs,
           NEW t \in MovedToOutput(s, v, target)
    PROVE  \E u : /\ t \in FocusView(u, v)
                  /\ Moved(s, u, v) /\ u.view[v].output = target
                  /\ u.view[v].workspace = IF s.active[target] = NoWorkspace
                                           THEN s.view[v].workspace
                                           ELSE s.active[target]
<1> DEFINE f == s.view[v]
           a == s.active[target]
           source == IF f.output # NoOutput THEN f.output ELSE s.act
           away == IF f.workspace # NoWorkspace /\ a # NoWorkspace /\ f.workspace # a
                   THEN LeaveOwn(s, v) ELSE {s}
           owned(x) == IF a = NoWorkspace THEN x ELSE [x EXCEPT !.view[v].workspace = a]
           untiled(x) == IF f.tiled /\ ~ f.fullscreen /\ x.active[source] # NoWorkspace
                         THEN {[y EXCEPT !.view[v].tiled = FALSE] :
                                 y \in Leave(x, x.active[source], v)}
                         ELSE {x}
           there(x) == LET y == [x EXCEPT !.view[v].output = target]
                       IN  IF f.fullscreen \/ f.floating \/ a = NoWorkspace THEN y
                           ELSE Tile(y, a, v)
<1>0. PICK x \in away : \E y \in untiled(owned(x)) : t \in FocusView(there(y), v)
  <2>1. MovedToOutput(s, v, target) =
          UNION {FocusView(there(y), v) : y \in Then({owned(x) : x \in away}, untiled)}
    BY DEF MovedToOutput
  <2> DEFINE begun == {owned(x) : x \in away}
  <2>2. Then(begun, untiled) = UNION {untiled(z) : z \in begun}
    BY DEF Then
  <2> HIDE DEF away, owned, untiled, there
  <2>3. PICK y \in Then(begun, untiled) : t \in FocusView(there(y), v)
    BY <2>1
  <2>4. PICK z \in begun : y \in untiled(z)
    BY <2>2, <2>3
  <2> QED
    BY <2>3, <2>4
<1>1. PICK y \in untiled(owned(x)) : t \in FocusView(there(y), v)
  BY <1>0
<1> DEFINE o == owned(x)
           p == [y EXCEPT !.view[v].output = target]
           u == there(y)
<1> HIDE DEF away, owned, untiled, there
<1>20. \/ x = s
       \/ /\ a # NoWorkspace /\ f.workspace \notin {NoWorkspace, a}
          /\ x \in LeaveOwn(s, v)
  BY DEF away
<1>21. \/ y = o
      \/ /\ o.active[source] # NoWorkspace
         /\ \E z \in Leave(o, o.active[source], v) : y = [z EXCEPT !.view[v].tiled = FALSE]
  BY <1>1 DEF untiled
<1>22. \/ u = p
       \/ a # NoWorkspace /\ u = Tile(p, a, v)
  BY DEF there
<1> HIDE DEF u
<1>2. f \in Windows /\ a \in 0..NumWorkspaces /\ source \in Outputs
  BY DEF Servers, Windows
<1> DEFINE home == IF a = NoWorkspace THEN f.workspace ELSE a
<1>3. Moved(s, o, v) /\ o.view[v].workspace = home
  <2>1. CASE a = NoWorkspace
    BY <1>20, <2>1, CarriesNothing DEF Moved, owned
  <2>2. CASE a # NoWorkspace
    <3> DEFINE g == [f EXCEPT !.workspace = a]
    <3>1. /\ g \in Windows /\ g.mapped = f.mapped /\ g.dragging = f.dragging
          /\ g.sticky = f.sticky /\ g.enabled = f.enabled /\ g.workspace = a
      BY <1>2 DEF Windows
    <3>2. x.view = s.view /\ x \in Servers
      BY <1>20, LeaveOwnRemoves DEF Arranges
    <3>3. o = [x EXCEPT !.view[v] = g]
      BY <2>2, <3>2 DEF owned
    <3> HIDE DEF g, o
    <3>4. CASE f.workspace = a
      <4>1. x = s
        BY <1>20, <3>4
      <4>2. Carries(s, o, v) /\ o.view[v] = g
        BY <3>1, <3>3, <3>4, <4>1, SetViewCarries
      <4> QED
        BY <2>2, <3>1, <4>2 DEF Moved
    <3>5. CASE f.workspace # a
      <4>1. x \in LeaveOwn(s, v)
        BY <2>2, <3>5 DEF LeaveOwn, away
      <4>2. Carries(s, o, v)
        BY <3>1, <3>3, <4>1, LeftCarries
      <4>3. o.view[v] = g
        BY <3>1, <3>2, <3>3, SetViewTends
      <4> QED
        BY <2>2, <3>1, <4>2, <4>3 DEF Moved
    <3> QED
      BY <3>4, <3>5
  <2> QED
    BY <2>1, <2>2
<1> HIDE DEF o
<1>4. o \in Servers /\ o.active = s.active
  BY <1>3 DEF Moved, Carries, CallOn, Same, SameScreens
<1>5. Moved(s, y, v) /\ y.view[v].workspace = home
  <2>1. CASE y = o
    BY <1>3, <2>1
  <2>2. CASE y # o
    <3>1. PICK z \in Leave(o, o.active[source], v) : y = [z EXCEPT !.view[v].tiled = FALSE]
      BY <1>21, <2>2
    <3>2. o.active[source] # NoWorkspace
      BY <1>21, <2>2
    <3>3. o.active[source] \in Workspaces
      BY <1>2, <1>4, <3>2 DEF Servers, Workspaces, NoWorkspace
    <3>4. Carries(o, z, v) /\ z.view = o.view
      BY <1>4, <3>1, <3>3, LeaveCarries
    <3>5. Moved(o, z, v) /\ z \in Servers
      BY <3>4, CarriesServer DEF Moved
    <3>6. Moved(z, y, v) /\ y.view[v].workspace = z.view[v].workspace
      BY <3>1, <3>5, MovedUntiled
    <3> QED
      BY <1>3, <1>4, <3>4, <3>5, <3>6, MovedTwice
  <2> QED
    BY <2>1, <2>2
<1>6. y \in Servers
  BY <1>5, CarriesServer DEF Moved
<1>7. Moved(y, p, v) /\ p.view[v].workspace = home /\ p.view[v].output = target
  BY <1>5, <1>6, MovedOutput
<1> HIDE DEF p
<1>9. p \in Servers
  BY <1>7, CarriesServer DEF Moved
<1>10. u = p \/ Dresses(p, u, v)
  <2>1. a # NoWorkspace => p.view[v].workspace = a
    BY <1>7
  <2> QED
    BY <1>22, <1>9, <2>1, TileDresses
<1>11. Moved(p, u, v) /\ u.view[v].workspace = home /\ u.view[v].output = target
  <2>1. CASE u = p
    BY <1>7, <1>9, <2>1, CarriesNothing DEF Moved
  <2>2. CASE Dresses(p, u, v)
    <3>1. Carries(p, u, v)
      BY <1>9, <2>2, DressesCarries
    <3> QED
      BY <1>7, <2>2, <3>1 DEF Moved, Dresses
  <2> QED
    BY <1>10, <2>1, <2>2
<1>12. Moved(s, u, v)
  BY <1>5, <1>6, <1>7, <1>9, <1>11, MovedTwice
<1>13. t \in FocusView(u, v)
  BY <1>1 DEF u
<1> QED
  BY <1>11, <1>12, <1>13

LEMMA MovedToOutputStays ==
    ASSUME NEW s \in Servers, NEW v \in Views, NEW target \in s.conn,
           s.view[v].output # NoOutput \/ s.act \in Outputs,
           NEW t \in MovedToOutput(s, v, target)
    PROVE  Steady(s, t) /\ (Whole(s) /\ s.view[v].mapped => Settles(s, t))
<1> DEFINE a == s.active[target]
<1>1. target \in Outputs
  BY DEF Servers
<1>2. PICK u : /\ t \in FocusView(u, v)
               /\ Moved(s, u, v) /\ u.view[v].output = target
               /\ u.view[v].workspace = IF a = NoWorkspace THEN s.view[v].workspace ELSE a
  BY <1>1, MovedToOutputMoves
<1>3. u \in Servers /\ Carries(s, u, v)
  BY <1>2, CarriesServer DEF Moved
<1>4. Steady(s, t)
  BY <1>2, <1>3, MovedSteady, FocusViewRefocuses, RefocusesSteady, SteadyTwice
<1>5. ASSUME Whole(s), s.view[v].mapped PROVE Settles(s, t)
  <2>1. a \in Workspaces /\ s.output[a] = target /\ a # NoWorkspace
    BY <1>5 DEF Whole, Screens, Workspaces, NoWorkspace
  <2>2. AtHome(u, v)
    <3>1. u.output = s.output /\ u.view[v].sticky = s.view[v].sticky
      BY <1>2, <1>3 DEF Moved, Carries, CallOn, Same, SameScreens
    <3>2. u.view[v].mapped /\ ~ s.view[v].sticky
      BY <1>3, <1>5, CarriesServer DEF Whole, Homes, AtHome
    <3> QED
      BY <1>2, <2>1, <3>1, <3>2 DEF AtHome
  <2>3. Settles(s, u)
    BY <1>1, <1>2, <1>3, <1>5, <2>2, WholeButNone, CarriesShifts, ShiftsSettles
  <2>4. Settles(u, t)
    BY <1>2, <2>3, FocusViewSettles DEF Settles, Whole
  <2> QED
    BY <2>3, <2>4, SettlesTwice
<1> QED
  BY <1>4, <1>5

LEMMA MoveOutputDirectionStays ==
    ASSUME Live, NEW v \in Views, MoveOutputDirection(v)
    PROVE  Live' /\ StickyHeld /\ (Whole(Server) => SettledNext)
<1>1. PICK o \in Beside(SourceOf(v)) : \E s \in MovedToOutput(Server, v, o) : Becomes(s)
  BY DEF MoveOutputDirection
<1>2. PICK s \in MovedToOutput(Server, v, o) : Becomes(s)
  BY <1>1
<1>3. /\ Server \in Servers /\ Server.conn = connected /\ Server.view = view
      /\ Server.act = active_output
  BY DEF Live, Server
<1>4. o \in Server.conn /\ SourceOf(v) \in Outputs
  BY <1>1, <1>3, BesideConnected DEF Servers
<1>5. Server.view[v].output # NoOutput \/ Server.act \in Outputs
  BY <1>3, <1>4 DEF SourceOf
<1>6. /\ Steady(Server, s)
      /\ Whole(Server) /\ view[v].mapped => Settles(Server, s)
  BY <1>2, <1>3, <1>4, <1>5, MovedToOutputStays
<1>7. Whole(Server) => view[v].mapped
  BY FocusedMapped DEF MoveOutputDirection
<1> QED
  BY <1>2, <1>6, <1>7, SteadyStep, SettlesStep

LEMMA MoveDirectionStays ==
    ASSUME Live, NEW v \in Views, MoveDirection(v)
    PROVE  Live' /\ StickyHeld /\ (Whole(Server) => SettledNext)
<1> DEFINE f == view[v]
           here == LayoutFocus(Server, f.workspace, v)
<1>1. /\ Server \in Servers /\ Server.conn = connected /\ Server.view = view
      /\ Server.act = active_output
  BY DEF Live, Server
<1>2. f.workspace \in 0..NumWorkspaces
  BY <1>1 DEF Servers, Windows
<1>3. Refocuses(Server, here)
  BY <1>1, <1>2, LayoutFocusRefocuses
<1>4. \/ /\ f.workspace # NoWorkspace
         /\ \E s \in FocusView(here, here.layout[f.workspace].focus) : Becomes(s)
      \/ \E o \in Beside(SourceOf(v)) :
           \E s \in MovedToOutput(IF f.tiled THEN here ELSE Server, v, o) : Becomes(s)
  BY DEF MoveDirection
<1> HIDE DEF here
<1>5. here \in Servers /\ here.view = view /\ here.conn = connected
  BY <1>1, <1>3 DEF Refocuses, Unmoved, SameScreens
<1>6. CASE /\ f.workspace # NoWorkspace
           /\ \E s \in FocusView(here, here.layout[f.workspace].focus) : Becomes(s)
  <2>1. PICK s \in FocusView(here, here.layout[f.workspace].focus) : Becomes(s)
    BY <1>6
  <2>2. f.workspace \in Workspaces
    BY <1>2, <1>6 DEF Workspaces, NoWorkspace
  <2>3. here.layout[f.workspace].focus \in Views \cup {NoView}
    BY <1>5, <2>2 DEF Servers, Trees
  <2>4. Refocuses(here, s)
    BY <1>5, <2>1, <2>3, FocusViewRefocuses
  <2> QED
    BY <1>1, <1>3, <2>1, <2>4, RefocusesTwice, RefocusStep
<1>7. CASE \E o \in Beside(SourceOf(v)) :
             \E s \in MovedToOutput(IF f.tiled THEN here ELSE Server, v, o) : Becomes(s)
  <2> DEFINE from == IF f.tiled THEN here ELSE Server
  <2>1. PICK o \in Beside(SourceOf(v)) : \E s \in MovedToOutput(from, v, o) : Becomes(s)
    BY <1>7
  <2>2. PICK s \in MovedToOutput(from, v, o) : Becomes(s)
    BY <2>1
  <2>3. /\ from \in Servers /\ from.view = view /\ from.conn = connected
        /\ Refocuses(Server, from)
    BY <1>1, <1>3, <1>5, RefocusesNothing
  <2>4. from.act = active_output
    BY <1>1, <1>2, LayoutFocusKeeps DEF here, Arranges, Same
  <2> HIDE DEF from
  <2>5. o \in from.conn /\ SourceOf(v) \in Outputs
    BY <1>1, <2>1, <2>3, BesideConnected DEF Servers
  <2>6. from.view[v].output # NoOutput \/ from.act \in Outputs
    BY <2>3, <2>4, <2>5 DEF SourceOf
  <2>7. /\ Steady(from, s)
        /\ Whole(from) /\ view[v].mapped => Settles(from, s)
    BY <2>2, <2>3, <2>5, <2>6, MovedToOutputStays
  <2>8. Steady(Server, s)
    BY <2>3, <2>7, RefocusesSteady, SteadyTwice
  <2>9. ASSUME Whole(Server) PROVE Settles(Server, s)
    <3>1. Settles(Server, from)
      BY <2>3, <2>9, RefocusSettles
    <3>2. view[v].mapped
      BY <2>9, FocusedMapped DEF MoveDirection
    <3> QED
      BY <2>7, <3>1, <3>2, SettlesTwice DEF Settles
  <2> QED
    BY <2>2, <2>8, <2>9, SteadyStep, SettlesStep
<1> QED
  BY <1>4, <1>6, <1>7

-----------------------------------------------------------------------------
(* Windows come                                                            *)

\* The handlers that change one window directly: what they leave alone.
LEMMA FieldsOf ==
    ASSUME NEW s \in Servers, NEW v \in Views, NEW f \in Windows
    PROVE  LET t == [s EXCEPT !.view[v] = f] IN
           /\ t \in Servers /\ SameScreens(s, t) /\ t.act = s.act /\ t.focus = s.focus
           /\ t.layout = s.layout /\ t.view[v] = f
           /\ \A u \in Views \ {v} : t.view[u] = s.view[u]
<1> DEFINE t == [s EXCEPT !.view[v] = f]
<1>1. /\ t \in Servers /\ Same(s, t) /\ t.layout = s.layout
      /\ t.view = [s.view EXCEPT ![v] = f]
  BY SetView
<1> HIDE DEF t
<1>2. /\ t \in Servers /\ SameScreens(s, t) /\ t.act = s.act /\ t.focus = s.focus
      /\ t.layout = s.layout /\ t.view[v] = f
      /\ \A u \in Views \ {v} : t.view[u] = s.view[u]
  BY <1>1 DEF Same, Servers
<1> QED
  BY <1>2 DEF t

\* A window that is not mapped is in no layout, and has not the focus.
LEMMA UnmappedIsOut ==
    ASSUME NEW s, Whole(s), NEW v \in Views, ~ s.view[v].mapped
    PROVE  /\ s.focus # v
           /\ \A w \in Workspaces : v \notin s.layout[w].held
BY DEF Whole, Planted, FocusShown, Focusable

\* The other windows stay where they were.
LEMMA OthersStay ==
    ASSUME NEW s, Whole(s), NEW v \in Views, ~ s.view[v].mapped,
           NEW t \in Servers, t.conn = s.conn, t.output = s.output,
           t.active = s.active, t.act = s.act, t.layout = s.layout,
           t.focus = s.focus, \A u \in Views \ {v} : t.view[u] = s.view[u]
    PROVE  WholeBut(t, v)
<1>1. \A u \in Views \ {v} : AtHome(t, u)
  BY DEF Whole, Homes, AtHome
<1>2. s.focus # v /\ \A w \in Workspaces : v \notin s.layout[w].held
  BY UnmappedIsOut
<1>3. \A w \in Workspaces : s.layout[w].held \subseteq Views
  BY DEF Whole, Servers, Trees
<1>4. Planted(t)
  BY <1>2, <1>3 DEF Whole, Planted
<1>5. FocusShown(t)
  BY <1>2 DEF Whole, FocusShown, Focusable
<1>6. Screens(t)
  BY DEF Whole, Screens
<1> QED
  BY <1>1, <1>4, <1>5, <1>6 DEF WholeBut

LEMMA FreshFields == Fresh \in Windows /\ ~ Fresh.mapped /\ ~ Fresh.sticky
                     /\ Fresh.workspace = NoWorkspace /\ ~ Fresh.dragging
BY DEF Fresh, Windows, NoWorkspace

LEMMA CreateStays ==
    ASSUME Live, NEW v \in Views, Create(v)
    PROVE  Live' /\ StickyHeld /\ (Whole(Server) => SettledNext)
<1> DEFINE p == [Server EXCEPT !.view[v] = Fresh]
           s == [p EXCEPT !.views = @ \cup {v}]
<1>1. Server \in Servers /\ Lively(Server) /\ Server.view = view /\ Server.views = views
      /\ Server.drag = drag
  BY DEF Live, Server
<1>2. /\ p \in Servers /\ SameScreens(Server, p) /\ p.act = Server.act
      /\ p.focus = Server.focus /\ p.layout = Server.layout /\ p.view[v] = Fresh
      /\ \A u \in Views \ {v} : p.view[u] = Server.view[u]
  BY <1>1, FreshFields, FieldsOf
<1> HIDE DEF p
<1>3. /\ s \in Servers /\ s.views = p.views \cup {v} /\ s.view = p.view
      /\ s.conn = p.conn /\ s.output = p.output /\ s.last = p.last
      /\ s.active = p.active /\ s.act = p.act /\ s.layout = p.layout
      /\ s.focus = p.focus /\ s.drag = p.drag
  BY <1>2 DEF Servers
<1>4. Becomes(s)
  BY DEF Create, Becomes, Server, p
<1> HIDE DEF s
<1>5. ~ view[v].mapped /\ v \notin views
  BY <1>1 DEF Create, Lively
<1>6. Lively(s)
  BY <1>1, <1>2, <1>3, <1>5, FreshFields DEF Lively, SameScreens, Servers
<1>7. view' = s.view /\ StickyHeld
  BY <1>1, <1>2, <1>3, <1>4, <1>5, FreshFields DEF Becomes, StickyHeld
<1>8. ASSUME Whole(Server) PROVE SettledNext
  <2>1. WholeBut(s, v)
    BY <1>1, <1>2, <1>3, <1>5, <1>8, OthersStay DEF SameScreens
  <2>2. AtHome(s, v)
    BY <1>2, <1>3, FreshFields DEF AtHome
  <2>3. Whole(s)
    BY <2>1, <2>2 DEF WholeBut, Whole, Homes
  <2> QED
    BY <1>2, <1>3, <1>4, <2>3, SettledStep DEF SameScreens, Server
<1> QED
  BY <1>3, <1>4, <1>6, <1>7, <1>8, BecomesLive

\* A window that a client maps.
LEMMA MappedStays ==
    ASSUME Live, NEW v \in Views, v \in views, ~ view[v].mapped,
           NEW f \in Windows, f.mapped = TRUE, f.sticky = view[v].sticky,
           f.dragging = view[v].dragging,
           f.workspace = view[v].workspace, f.output = view[v].output
    PROVE  LET up == [Server EXCEPT !.view[v] = f] IN
           /\ up \in Servers /\ Lively(up)
           /\ \A x \in Views \ {v} : up.view[x] = view[x]
           /\ SameScreens(Server, up) /\ up.act = active_output
           /\ up.view[v] = f
           /\ Whole(Server) /\ f.output \in connected \cup {NoOutput} => OutOfPlace(up, v)
<1> DEFINE up == [Server EXCEPT !.view[v] = f]
<1>1. /\ Server \in Servers /\ Lively(Server) /\ Server.view = view
      /\ Server.views = views /\ Server.act = active_output
      /\ Server.conn = connected
  BY DEF Live, Server
<1>2. /\ up \in Servers /\ SameScreens(Server, up) /\ up.act = Server.act
      /\ up.focus = Server.focus /\ up.layout = Server.layout /\ up.view[v] = f
      /\ \A u \in Views \ {v} : up.view[u] = Server.view[u]
  BY <1>1, FieldsOf
<1> HIDE DEF up
<1>3. Lively(up)
  <2>1. Server.drag.view \in Views \cup {NoView} /\ Server.drag.view # v
    BY <1>1 DEF Servers, Lively
  <2> QED
    BY <1>1, <1>2, <2>1 DEF Lively, SameScreens
<1>4. ASSUME Whole(Server), f.output \in connected \cup {NoOutput}
      PROVE  OutOfPlace(up, v)
  <2>1. WholeBut(up, v)
    BY <1>1, <1>2, <1>4, OthersStay DEF SameScreens
  <2>2. AtHome(Server, v) /\ Server.focus # v
    BY <1>1, <1>4, UnmappedIsOut DEF Whole, Homes
  <2> QED
    BY <1>1, <1>2, <1>4, <2>1, <2>2 DEF OutOfPlace, AtHome, SameScreens
<1>5. /\ up \in Servers /\ Lively(up)
      /\ \A x \in Views \ {v} : up.view[x] = view[x]
      /\ SameScreens(Server, up) /\ up.act = active_output
      /\ up.view[v] = f
      /\ Whole(Server) /\ f.output \in connected \cup {NoOutput} => OutOfPlace(up, v)
  BY <1>1, <1>2, <1>3, <1>4
<1> QED
  BY <1>5 DEF up

LEMMA MapXdgStays ==
    ASSUME Live, NEW v \in Views, NEW rules \in RuleLists, NEW transient,
           NEW fullscreen, NEW sticky, MapXdg(v, transient, rules, fullscreen, sticky)
    PROVE  /\ Live' /\ StickyHeld
           /\ Whole(Server) /\ Timely /\ NoStickyRule(rules) /\ ~ sticky => SettledNext
<1> DEFINE f == [view[v] EXCEPT !.mapped = TRUE, !.enabled = TRUE]
           up == [Server EXCEPT !.view[v] = f]
           full(x) == IF fullscreen /\ ~ x.view[v].fullscreen
                      THEN ToggleFullscreen(x, v) ELSE {x}
           stick(x) == IF sticky THEN CheckSticky(x, v) ELSE {x}
<1>1. /\ v \in views /\ ~ view[v].mapped
      /\ \E s \in Then(Then(ViewMapped(up, v, transient, rules), full), stick) : Becomes(s)
  BY DEF MapXdg, Server
<1>2. view[v] \in Windows
  BY DEF Live, Server, Servers
<1>3. /\ f \in Windows /\ f.mapped = TRUE /\ f.sticky = view[v].sticky
      /\ f.dragging = view[v].dragging
      /\ f.workspace = view[v].workspace /\ f.output = view[v].output
  BY <1>2 DEF Windows
<1> HIDE DEF f
<1>4. /\ up \in Servers /\ Lively(up)
      /\ \A x \in Views \ {v} : up.view[x] = view[x]
      /\ SameScreens(Server, up) /\ up.act = active_output
      /\ up.view[v] = f
      /\ Whole(Server) /\ f.output \in connected \cup {NoOutput} => OutOfPlace(up, v)
  BY <1>1, <1>3, MappedStays
<1> HIDE DEF up
<1>5. PICK s \in Then(Then(ViewMapped(up, v, transient, rules), full), stick) : Becomes(s)
  BY <1>1
<1>6. PICK q \in Then(ViewMapped(up, v, transient, rules), full) : s \in stick(q)
  BY <1>5 DEF Then
<1>7. PICK p \in ViewMapped(up, v, transient, rules) : q \in full(p)
  BY <1>6 DEF Then
<1>8. /\ Tends(up, p, v)
      /\ OutOfPlace(up, v) /\ NoStickyRule(rules) => Settles(up, p)
  BY <1>4, <1>7, ViewMappedStays
<1>9. p \in Servers /\ p.view[v].mapped
  BY <1>3, <1>4, <1>8 DEF Tends, Handles
<1>10. q = p \/ Dresses(p, q, v)
  BY <1>7, <1>9, ToggleFullscreenDresses
<1>11. Tends(up, q, v) /\ q \in Servers
  <2>1. Dresses(p, q, v) => Tends(p, q, v)
    BY <1>9, DressesCarries, CarriesTends
  <2>2. Tends(up, q, v)
    BY <1>8, <1>10, <2>1, TendsTwice
  <2> QED
    BY <2>2 DEF Tends, Handles
<1>12. Tends(up, s, v)
  <2>1. s = q \/ Tends(q, s, v)
    BY <1>6, <1>11, CheckStickySteady
  <2> QED
    BY <1>11, <2>1, TendsTwice
<1>13. Live' /\ StickyHeld
  BY <1>1, <1>4, <1>5, <1>12, TendsStep
<1>14. ASSUME Whole(Server), Timely, NoStickyRule(rules), ~ sticky PROVE SettledNext
  <2>1. s = q
    BY <1>6, <1>14
  <2>2. view'[v].mapped
    BY <1>3, <1>4, <1>5, <1>12 DEF Tends, Handles, Becomes
  <2>3. f.output \in connected \cup {NoOutput}
    BY <1>1, <1>3, <1>14, <2>2 DEF Timely
  <2>4. Settles(up, p)
    BY <1>4, <1>8, <1>14, <2>3
  <2>5. q = p \/ Settles(p, q)
    BY <1>9, <1>10, <2>4, DressesSettles DEF Settles
  <2>6. Settles(up, s)
    BY <2>1, <2>4, <2>5, SettlesTwice
  <2>7. /\ Whole(s) /\ s.conn = connected /\ s.output = output /\ s.last = last_output
        /\ s.active = active /\ s.act \in connected \cup {active_output}
    BY <1>4, <2>6 DEF Settles, SameScreens, Server
  <2> QED
    BY <1>5, <2>7, SettledStep
<1> QED
  BY <1>13, <1>14

LEMMA MapXwaylandStays ==
    ASSUME Live, NEW v \in Views, NEW rules \in RuleLists, NEW transient,
           MapXwayland(v, transient, rules)
    PROVE  /\ Live' /\ StickyHeld
           /\ Whole(Server) /\ Timely /\ NoStickyRule(rules) => SettledNext
<1> DEFINE f == [view[v] EXCEPT !.mapped = TRUE]
           up == [Server EXCEPT !.view[v] = f]
<1>1. /\ v \in views /\ ~ view[v].mapped
      /\ \E s \in ViewMapped(up, v, transient, rules) : Becomes(s)
  BY DEF MapXwayland, Server
<1>2. view[v] \in Windows
  BY DEF Live, Server, Servers
<1>3. /\ f \in Windows /\ f.mapped = TRUE /\ f.sticky = view[v].sticky
      /\ f.dragging = view[v].dragging
      /\ f.workspace = view[v].workspace /\ f.output = view[v].output
  BY <1>2 DEF Windows
<1> HIDE DEF f
<1>4. /\ up \in Servers /\ Lively(up)
      /\ \A x \in Views \ {v} : up.view[x] = view[x]
      /\ SameScreens(Server, up) /\ up.act = active_output
      /\ up.view[v] = f
      /\ Whole(Server) /\ f.output \in connected \cup {NoOutput} => OutOfPlace(up, v)
  BY <1>1, <1>3, MappedStays
<1> HIDE DEF up
<1>5. PICK s \in ViewMapped(up, v, transient, rules) : Becomes(s)
  BY <1>1
<1>6. /\ Tends(up, s, v)
      /\ OutOfPlace(up, v) /\ NoStickyRule(rules) => Settles(up, s)
  BY <1>4, <1>5, ViewMappedStays
<1>7. ASSUME Whole(Server), Timely, NoStickyRule(rules) PROVE SettledNext
  <2>1. view'[v].mapped
    BY <1>3, <1>4, <1>5, <1>6 DEF Tends, Handles, Becomes
  <2>2. f.output \in connected \cup {NoOutput}
    BY <1>1, <1>3, <1>7, <2>1 DEF Timely
  <2>3. /\ Whole(s) /\ s.conn = connected /\ s.output = output /\ s.last = last_output
        /\ s.active = active /\ s.act \in connected \cup {active_output}
    BY <1>4, <1>6, <1>7, <2>2 DEF Settles, SameScreens, Server
  <2> QED
    BY <1>5, <2>3, SettledStep
<1> QED
  BY <1>1, <1>4, <1>5, <1>6, <1>7, TendsStep

-----------------------------------------------------------------------------
(* Windows go                                                              *)

LEMMA PassFocusStays ==
    ASSUME NEW s \in Servers, NEW v \in Views, NEW next \in Views \cup {NoView},
           NEW t \in PassFocus(s, v, next)
    PROVE  /\ Refocuses(s, t)
           /\ Homes(s) /\ Planted(s) /\ Screens(s) /\ (s.focus # v => FocusShown(s))
              => Settles(s, t)
<1>1. CASE s.focus # v
  <2>1. t = s
    BY <1>1 DEF PassFocus
  <2>2. Homes(s) /\ Planted(s) /\ Screens(s) /\ FocusShown(s) => Settles(s, s)
    BY DEF Settles, SameScreens, Whole
  <2> QED
    BY <1>1, <2>1, <2>2, RefocusesNothing
<1>2. CASE s.focus = v
  <2> DEFINE wanted == IF next # NoView THEN next ELSE FocusedOn(s, s.act)
  <2>1. t \in FocusView(s, wanted)
    BY <1>2 DEF PassFocus
  <2>2. s.act \in Outputs \cup {NoOutput}
    BY DEF Servers
  <2>3. wanted \in Views \cup {NoView}
    BY <2>2, FocusedOnIsView
  <2> HIDE DEF wanted
  <2> QED
    BY <2>1, <2>3, FocusViewRefocuses, FocusViewSettles
<1> QED
  BY <1>1, <1>2

\* A drag ends when its window goes.
LEMMA CancelDragEnds ==
    ASSUME NEW s \in Servers, NEW v \in Views
    PROVE  LET t == CancelDrag(s, v) IN
           /\ t \in Servers /\ t.drag.view # v
           /\ t.drag.view # NoView => t.drag.view = s.drag.view
           /\ t.conn = s.conn /\ t.output = s.output /\ t.last = s.last
           /\ t.active = s.active /\ t.act = s.act /\ t.views = s.views
           /\ t.view = s.view /\ t.layout = s.layout /\ t.focus = s.focus
<1>1. CASE s.drag.view = v
  <2>1. NoDrag \in [view : Views \cup {NoView}, restore_tiled : BOOLEAN]
        /\ NoDrag.view = NoView
    BY DEF NoDrag
  <2> QED
    BY <1>1, <2>1 DEF CancelDrag, Servers
<1>2. CASE s.drag.view # v
  BY <1>2 DEF CancelDrag
<1> QED
  BY <1>1, <1>2

\* A window that is not mapped leaves the layout of its workspace.
LEMMA LeavingPlants ==
    ASSUME NEW s \in Servers, NEW v \in Views, Planted(s),
           NEW d \in Servers, d.layout = s.layout,
           d.view[v].workspace = s.view[v].workspace,
           \A u \in Views \ {v} : d.view[u] = s.view[u],
           NEW t \in LeaveOwn(d, v)
    PROVE  Planted(t)
<1> DEFINE w == d.view[v].workspace
<1>1. /\ Arranges(d, t)
      /\ w # NoWorkspace => LayoutOf(d, t, w, d.layout[w].held \ {v})
      /\ w = NoWorkspace => t = d
  BY LeaveOwnRemoves
<1>2. t \in Servers /\ t.view = d.view
  BY <1>1 DEF Arranges
<1> HIDE DEF w
<1> SUFFICES ASSUME NEW x \in Workspaces
             PROVE  /\ FocusInside(t.layout[x])
                    /\ \A u \in t.layout[x].held :
                         t.view[u].mapped /\ t.view[u].workspace = x
  BY DEF Planted
<1>3. /\ FocusInside(s.layout[x])
      /\ \A u \in s.layout[x].held : s.view[u].mapped /\ s.view[u].workspace = x
  BY DEF Planted
<1>4. x # NoWorkspace
  BY DEF Workspaces, NoWorkspace
<1>5. /\ FocusInside(t.layout[x])
      /\ t.layout[x].held \subseteq s.layout[x].held \ {v}
  <2>1. CASE w = NoWorkspace
    BY <1>1, <1>3, <1>4, <2>1 DEF w
  <2>2. CASE w # NoWorkspace /\ x = w
    BY <1>1, <1>3, <2>2 DEF LayoutOf
  <2>3. CASE w # NoWorkspace /\ x # w
    BY <1>1, <1>3, <2>3 DEF LayoutOf, w
  <2> QED
    BY <2>1, <2>2, <2>3
<1>6. t.layout[x].held \subseteq Views
  BY <1>2 DEF Servers, Trees
<1> QED
  BY <1>2, <1>3, <1>5, <1>6

LEMMA UnmapStays ==
    ASSUME Live, NEW v \in Views, Unmap(v)
    PROVE  Live' /\ StickyHeld /\ (Whole(Server) => SettledNext)
<1> DEFINE f == view[v]
           xdg == v \notin Xwayland /\ f.fullscreen
           gone == [f EXCEPT !.mapped = FALSE, !.output = NoOutput, !.tiled = FALSE,
                             !.fullscreen = @ /\ ~ xdg, !.saved_tiled = @ /\ ~ xdg]
           c == CancelDrag(Server, v)
           down == [c EXCEPT !.view[v] = gone]
           next(x) == IF f.workspace = NoWorkspace \/ x.output[f.workspace] = NoOutput
                      THEN NoView ELSE x.layout[f.workspace].focus
<1>1. /\ Server \in Servers /\ Lively(Server) /\ Server.view = view
      /\ Server.conn = connected /\ Server.output = output
      /\ Server.last = last_output /\ Server.active = active
      /\ Server.act = active_output
  BY DEF Live, Server
<1>2. \E t \in LeaveOwn(down, v) : \E s \in PassFocus(t, v, next(t)) : Becomes(s)
  BY DEF Unmap, Then
<1>3. f \in Windows
  BY <1>1 DEF Servers
<1>4. /\ gone \in Windows /\ ~ gone.mapped /\ gone.output = NoOutput
      /\ gone.sticky = f.sticky /\ gone.workspace = f.workspace
  <2> DEFINE full == f.fullscreen /\ ~ xdg
             saved == f.saved_tiled /\ ~ xdg
  <2>1. full \in BOOLEAN /\ saved \in BOOLEAN
    OBVIOUS
  <2>2. gone = [f EXCEPT !.mapped = FALSE, !.output = NoOutput, !.tiled = FALSE,
                         !.fullscreen = full, !.saved_tiled = saved]
    OBVIOUS
  <2> HIDE DEF full, saved, gone, f
  <2> QED
    BY <1>3, <2>1, <2>2 DEF Windows
<1>5. /\ c \in Servers /\ c.drag.view # v
      /\ c.drag.view # NoView => c.drag.view = Server.drag.view
      /\ c.conn = Server.conn /\ c.output = Server.output /\ c.last = Server.last
      /\ c.active = Server.active /\ c.act = Server.act /\ c.views = Server.views
      /\ c.view = view /\ c.layout = Server.layout /\ c.focus = Server.focus
  BY <1>1, CancelDragEnds
<1> HIDE DEF gone, c
<1>6. /\ down \in Servers /\ SameScreens(c, down) /\ down.act = c.act
      /\ down.focus = c.focus /\ down.layout = c.layout /\ down.view[v] = gone
      /\ \A u \in Views \ {v} : down.view[u] = c.view[u]
  BY <1>4, <1>5, FieldsOf
<1> HIDE DEF down
<1>7. PICK t \in LeaveOwn(down, v) : \E s \in PassFocus(t, v, next(t)) : Becomes(s)
  BY <1>2
<1>8. PICK s \in PassFocus(t, v, next(t)) : Becomes(s)
  BY <1>7
<1>9. t \in Servers /\ t.view = down.view /\ Same(down, t)
  BY <1>6, <1>7, LeaveOwnRemoves DEF Arranges
<1>10. next(t) \in Views \cup {NoView}
  BY <1>3, <1>9 DEF Servers, Trees, Windows, Workspaces, NoWorkspace
<1> HIDE DEF next
<1>11. Refocuses(t, s)
  BY <1>8, <1>9, <1>10, PassFocusStays
<1>12. s \in Servers /\ s.view = down.view /\ s.drag = c.drag /\ s.views = Server.views
  BY <1>5, <1>6, <1>9, <1>11 DEF Refocuses, Unmoved, Same, SameScreens
<1>13. Lively(s)
  BY <1>1, <1>4, <1>5, <1>6, <1>12 DEF Lively, Servers
<1>14. StickyHeld
  BY <1>4, <1>5, <1>6, <1>8, <1>12 DEF StickyHeld, Becomes
<1>15. ASSUME Whole(Server) PROVE SettledNext
  <2>1. Homes(t)
    <3>1. ASSUME NEW u \in Views \ {v} PROVE AtHome(t, u)
      <4>1. AtHome(Server, u) /\ t.view[u] = view[u]
        BY <1>5, <1>6, <1>9, <1>15 DEF Whole, Homes
      <4> QED
        BY <1>1, <1>5, <1>6, <1>9, <4>1 DEF AtHome, Same, SameScreens
    <3>2. AtHome(Server, v) /\ t.view[v] = gone
      BY <1>6, <1>9, <1>15 DEF Whole, Homes
    <3>3. AtHome(t, v)
      BY <1>1, <1>4, <3>2 DEF AtHome
    <3> QED
      BY <3>1, <3>3 DEF Homes
  <2>2. Planted(t)
    <3>1. Planted(Server) /\ down.view[v].workspace = Server.view[v].workspace
          /\ \A u \in Views \ {v} : down.view[u] = Server.view[u]
      BY <1>1, <1>4, <1>5, <1>6, <1>15 DEF Whole
    <3> QED
      BY <1>1, <1>5, <1>6, <1>7, <3>1, LeavingPlants
  <2>3. Screens(t)
    <3>1. Screens(Server)
      BY <1>15 DEF Whole
    <3> QED
      BY <1>5, <1>6, <1>9, <3>1 DEF Screens, Same, SameScreens
  <2>4. ASSUME t.focus # v PROVE FocusShown(t)
    BY <1>1, <1>5, <1>6, <1>9, <1>15, <2>4 DEF Whole, FocusShown, Focusable, Same
  <2>5. Settles(t, s)
    BY <1>8, <1>9, <1>10, <2>1, <2>2, <2>3, <2>4, PassFocusStays
  <2>6. /\ Whole(s) /\ s.conn = connected /\ s.output = output /\ s.last = last_output
        /\ s.active = active /\ s.act \in connected \cup {active_output}
    BY <1>1, <1>5, <1>6, <1>9, <2>5 DEF Settles, Same, SameScreens
  <2> QED
    BY <1>8, <2>6, SettledStep
<1> QED
  BY <1>8, <1>12, <1>13, <1>14, <1>15, BecomesLive

-----------------------------------------------------------------------------
(* The windows follow their workspaces                                     *)

\* The same window, shown elsewhere or hidden.
Rehung(f, g) ==
    /\ g \in Windows
    /\ g.mapped = f.mapped /\ g.workspace = f.workspace /\ g.sticky = f.sticky
    /\ g.dragging = f.dragging
    /\ f.sticky => g.enabled = f.enabled

LEMMA ShownOrHidden ==
    ASSUME NEW f \in Windows, NEW o \in Outputs \cup {NoOutput}
    PROVE  /\ Rehung(f, f)
           /\ Rehung(f, ShowView(f, o)) /\ Rehung(f, HideView(f, o))
           /\ f.mapped /\ ~ f.sticky => ShowView(f, o).output = o
           /\ f.mapped /\ ~ f.sticky /\ f.output = o => HideView(f, o).output = NoOutput
           /\ ~ f.mapped => ShowView(f, o) = f /\ HideView(f, o) = f
<1> DEFINE g == [f EXCEPT !.output = o, !.enabled = TRUE]
           h == [f EXCEPT !.output = NoOutput, !.enabled = FALSE]
<1>1. Rehung(f, f) /\ (~ f.sticky => Rehung(f, g) /\ Rehung(f, h))
      /\ g.output = o /\ h.output = NoOutput
  BY DEF Rehung, Windows
<1>2. ShowView(f, o) = IF ~ f.mapped \/ f.sticky THEN f ELSE g
  BY DEF ShowView
<1>3. HideView(f, o) = IF f.output # o \/ ~ f.mapped \/ f.sticky THEN f ELSE h
  BY DEF HideView
<1> HIDE DEF g, h
<1> QED
  BY <1>1, <1>2, <1>3

\* What a handler on outputs leaves alone of the record.
Assigns(s, t) ==
    /\ t \in Servers /\ t.conn = s.conn /\ t.act = s.act /\ t.occ = s.occ
    /\ t.views = s.views /\ t.view = s.view /\ t.layout = s.layout
    /\ t.focus = s.focus /\ t.drag = s.drag

\* ... and of the windows.
Hangs(s, t) ==
    /\ t \in Servers /\ t.views = s.views /\ t.layout = s.layout
    /\ t.focus = s.focus /\ t.drag = s.drag /\ t.act = s.act /\ t.conn = s.conn
    /\ \A v \in Views : Rehung(s.view[v], t.view[v])

LEMMA FollowHangs ==
    ASSUME NEW s \in Servers, NEW t, Assigns(s, t), NEW shown
    PROVE  LET u == Follow(s, t, shown) IN
           /\ Hangs(s, u)
           /\ u.output = t.output /\ u.last = t.last /\ u.active = t.active
           /\ Homes(s) => Homes(u)
           /\ \A v \in Views :
                LET w == s.view[v].workspace IN
                /\ w = NoWorkspace => u.view[v] = s.view[v]
                /\ w # NoWorkspace /\ t.output[w] = s.output[w] /\ w \notin shown =>
                     u.view[v] = s.view[v]
<1> DEFINE up(w) == w \in shown \/ t.output[w] \notin {NoOutput, s.output[w]}
           new(f) == LET w == f.workspace IN
                     IF w = NoWorkspace \/ (t.output[w] = s.output[w] /\ w \notin shown) THEN f
                     ELSE IF up(w) THEN ShowView(f, t.output[w])
                     ELSE HideView(f, s.output[w])
           fields == [v \in Views |-> new(s.view[v])]
           u == [t EXCEPT !.view = fields]
<1>1. Follow(s, t, shown) = u
  BY DEF Follow
<1>2. t \in Servers /\ t.view = s.view
  BY DEF Assigns
<1> HIDE DEF new
<1>3. ASSUME NEW v \in Views
      PROVE  LET f == s.view[v]  w == f.workspace IN
             /\ Rehung(f, new(f))
             /\ w = NoWorkspace => new(f) = f
             /\ w # NoWorkspace /\ t.output[w] = s.output[w] /\ w \notin shown => new(f) = f
             /\ ~ f.mapped => new(f) = f
             /\ w # NoWorkspace /\ f.mapped /\ ~ f.sticky /\ f.output = s.output[w] =>
                  new(f).output = t.output[w]
  <2> DEFINE f == s.view[v]
             w == f.workspace
  <2>1. f \in Windows /\ (w # NoWorkspace => w \in Workspaces)
    BY DEF Servers, Windows, Workspaces, NoWorkspace
  <2> HIDE DEF f
  <2>2. CASE w = NoWorkspace \/ (t.output[w] = s.output[w] /\ w \notin shown)
    <3>1. new(f) = f
      BY <2>2 DEF new
    <3> QED
      BY <2>1, <2>2, <3>1, ShownOrHidden DEF f
  <2>3. CASE /\ ~ (w = NoWorkspace \/ (t.output[w] = s.output[w] /\ w \notin shown))
             /\ up(w)
    <3>1. new(f) = ShowView(f, t.output[w])
      BY <2>3 DEF new
    <3>2. t.output[w] \in Outputs \cup {NoOutput}
      BY <1>2, <2>1, <2>3 DEF Servers
    <3>3. /\ Rehung(f, new(f)) /\ (~ f.mapped => new(f) = f)
          /\ f.mapped /\ ~ f.sticky => new(f).output = t.output[w]
      BY <2>1, <3>1, <3>2, ShownOrHidden
    <3> HIDE DEF up
    <3> QED
      BY <2>3, <3>3 DEF f
  <2>4. CASE /\ ~ (w = NoWorkspace \/ (t.output[w] = s.output[w] /\ w \notin shown))
             /\ ~ up(w)
    <3>1. new(f) = HideView(f, s.output[w])
      BY <2>4 DEF new
    <3>2. s.output[w] \in Outputs \cup {NoOutput}
      BY <2>1, <2>4 DEF Servers
    <3>3. t.output[w] = NoOutput
      BY <2>4
    <3>4. /\ Rehung(f, new(f)) /\ (~ f.mapped => new(f) = f)
          /\ f.mapped /\ ~ f.sticky /\ f.output = s.output[w] =>
               new(f).output = NoOutput
      BY <2>1, <3>1, <3>2, ShownOrHidden
    <3> HIDE DEF up
    <3> QED
      BY <2>4, <3>3, <3>4 DEF f
  <2> QED
    BY <2>2, <2>3, <2>4
<1>4. fields \in [Views -> Windows] /\ \A v \in Views : fields[v] = new(s.view[v])
  BY <1>3 DEF Rehung
<1> HIDE DEF fields
<1>5. /\ u \in Servers /\ u.view = fields
      /\ u.conn = t.conn /\ u.output = t.output /\ u.last = t.last
      /\ u.active = t.active /\ u.act = t.act /\ u.views = t.views
      /\ u.layout = t.layout /\ u.focus = t.focus /\ u.drag = t.drag
  BY <1>2, <1>4 DEF Servers
<1> HIDE DEF u
<1>6. Hangs(s, u)
  BY <1>3, <1>4, <1>5 DEF Hangs, Assigns
<1>7. ASSUME Homes(s) PROVE Homes(u)
  <2> SUFFICES ASSUME NEW v \in Views PROVE AtHome(u, v)
    BY DEF Homes
  <2>1. AtHome(s, v) /\ u.view[v] = new(s.view[v]) /\ u.conn = s.conn
    BY <1>4, <1>5, <1>7 DEF Homes, Assigns
  <2> DEFINE f == s.view[v]
             g == u.view[v]
             w == f.workspace
  <2>2. Rehung(f, g)
    BY <1>6 DEF Hangs
  <2>3. /\ w = NoWorkspace \/ ~ f.mapped => g = f
        /\ w # NoWorkspace /\ f.mapped /\ ~ f.sticky /\ f.output = s.output[w] =>
             g.output = t.output[w]
    BY <1>3, <2>1
  <2>4. u.output = t.output /\ ~ f.sticky
    BY <1>5, <2>1 DEF AtHome
  <2>5. g.mapped = f.mapped /\ g.workspace = w /\ g.sticky = f.sticky
    BY <2>2 DEF Rehung
  <2> QED
    BY <2>1, <2>3, <2>4, <2>5 DEF AtHome
<1>8. /\ Hangs(s, u)
      /\ u.output = t.output /\ u.last = t.last /\ u.active = t.active
      /\ Homes(s) => Homes(u)
      /\ \A v \in Views :
           LET w == s.view[v].workspace IN
           /\ w = NoWorkspace => u.view[v] = s.view[v]
           /\ w # NoWorkspace /\ t.output[w] = s.output[w] /\ w \notin shown =>
                u.view[v] = s.view[v]
  BY <1>3, <1>4, <1>5, <1>6, <1>7
<1> QED
  BY <1>1, <1>8

LEMMA HangsSteady ==
    ASSUME NEW s \in Servers, NEW t, Hangs(s, t)
    PROVE  Steady(s, t) /\ (Planted(s) => Planted(t))
<1>1. \A w \in Workspaces : s.layout[w].held \subseteq Views
  BY DEF Servers, Trees
<1> QED
  BY <1>1 DEF Hangs, Steady, Rehung, Planted

\* Which workspaces are occupied does not depend on where they are.
LEMMA HangsOccupied ==
    ASSUME NEW s \in Servers, NEW t, Hangs(s, t)
    PROVE  OccupiedBy(t.views, t.view) = OccupiedBy(s.views, s.view)
<1>1. s.views \subseteq Views
  BY DEF Servers
<1>2. /\ {v \in t.views : t.view[v].mapped /\ ~ t.view[v].sticky}
           = {v \in s.views : s.view[v].mapped /\ ~ s.view[v].sticky}
      /\ \A v \in s.views : t.view[v].workspace = s.view[v].workspace
  BY <1>1 DEF Hangs, Rehung
<1> QED
  BY <1>2 DEF OccupiedBy

-----------------------------------------------------------------------------
(* The calls of Workspaces on the record                                   *)

\* The part of the record that Workspaces works on.
Assignment(s) == [output |-> s.output, last |-> s.last, active |-> s.active,
                  occ |-> s.occ]

\* t is what the call that takes assignment of s to a makes of s.
Reassigns(s, t, a) == Assigns(s, t) /\ Assignment(t) = a

LEMMA NoWorkspaceIs == WS!NoWorkspace = NoWorkspace /\ WS!Workspaces = Workspaces
                       /\ NoWorkspace \notin Workspaces
BY DEF WS!NoWorkspace, WS!Workspaces, NoWorkspace, Workspaces

LEMMA FirstOf ==
    ASSUME NEW S \in SUBSET Workspaces
    PROVE  /\ WS!First(S) \in S \cup {NoWorkspace}
           /\ S # {} => WS!First(S) \in S
<1>1. S = {} => WS!First(S) = NoWorkspace
  BY DEF WS!First, WS!NoWorkspace, NoWorkspace
<1>2. S # {} => WS!First(S) \in S
  <2>1. SUFFICES ASSUME S # {} PROVE WS!First(S) \in S
    OBVIOUS
  <2>2. S \subseteq Nat
    BY DEF Workspaces
  <2>3. \E m \in S : \A n \in S : m <= n
    BY <2>1, <2>2, LeastOf
  <2> QED
    BY <2>1, <2>3 DEF WS!First
<1> QED
  BY <1>1, <1>2

LEMMA HideAssigns ==
    ASSUME NEW s \in Servers, NEW w \in Workspaces
    PROVE  LET t == WS!Hide(s, w) IN
           /\ Reassigns(s, t, WS!Hide(Assignment(s), w))
           /\ t.output = [s.output EXCEPT ![w] = NoOutput] /\ t.active = s.active
<1> DEFINE last == IF w \in s.occ THEN s.last[w] ELSE NoOutput
           t == [s EXCEPT !.output[w] = NoOutput, !.last[w] = last]
<1>1. WS!Hide(s, w) = t
  BY DEF WS!Hide
<1> DEFINE a == Assignment(s)
           b == [a EXCEPT !.output[w] = NoOutput]
<1>2. WS!Hide(a, w) = [output |-> [s.output EXCEPT ![w] = NoOutput],
                       last |-> [s.last EXCEPT ![w] = last],
                       active |-> s.active, occ |-> s.occ]
  <2>1. /\ a.output = s.output /\ a.last = s.last /\ a.occ = s.occ
        /\ a = [output |-> s.output, last |-> s.last, active |-> s.active, occ |-> s.occ]
    BY DEF Assignment
  <2>2. WS!Hide(a, w) = [b EXCEPT !.last[w] = IF w \in a.occ THEN a.last[w] ELSE NoOutput]
    BY DEF WS!Hide
  <2> HIDE DEF a
  <2>3. b = [output |-> [s.output EXCEPT ![w] = NoOutput], last |-> s.last,
             active |-> s.active, occ |-> s.occ]
    BY <2>1
  <2>4. WS!Hide(a, w) = [b EXCEPT !.last[w] = last]
    BY <2>1, <2>2
  <2> HIDE DEF b, last
  <2> QED
    BY <2>3, <2>4
<1>3. last \in Outputs \cup {NoOutput}
  BY DEF Servers
<1> HIDE DEF last
<1>4. /\ t \in Servers /\ t.output = [s.output EXCEPT ![w] = NoOutput]
      /\ t.last = [s.last EXCEPT ![w] = last]
      /\ t.conn = s.conn /\ t.active = s.active /\ t.act = s.act /\ t.occ = s.occ
      /\ t.views = s.views /\ t.view = s.view /\ t.layout = s.layout
      /\ t.focus = s.focus /\ t.drag = s.drag
  BY <1>3 DEF Servers
<1> HIDE DEF t
<1> QED
  BY <1>1, <1>2, <1>4 DEF Reassigns, Assigns, Assignment

LEMMA ShowAssigns ==
    ASSUME NEW s \in Servers, NEW w \in Workspaces, NEW o \in Outputs
    PROVE  LET t == WS!Show(s, w, o) IN
           /\ Reassigns(s, t, WS!Show(Assignment(s), w, o))
           /\ t.output = [s.output EXCEPT ![w] = o] /\ t.active = s.active
<1> DEFINE t == [s EXCEPT !.output[w] = o, !.last[w] = o]
<1>1. WS!Show(s, w, o) = t
  BY DEF WS!Show
<1> DEFINE a == Assignment(s)
           b == [a EXCEPT !.output[w] = o]
<1>2. WS!Show(a, w, o) = [output |-> [s.output EXCEPT ![w] = o],
                          last |-> [s.last EXCEPT ![w] = o],
                          active |-> s.active, occ |-> s.occ]
  <2>1. a = [output |-> s.output, last |-> s.last, active |-> s.active, occ |-> s.occ]
    BY DEF Assignment
  <2>2. WS!Show(a, w, o) = [b EXCEPT !.last[w] = o]
    BY DEF WS!Show
  <2> HIDE DEF a
  <2>3. b = [output |-> [s.output EXCEPT ![w] = o], last |-> s.last,
             active |-> s.active, occ |-> s.occ]
    BY <2>1
  <2> HIDE DEF b
  <2> QED
    BY <2>2, <2>3
<1>3. /\ t \in Servers /\ t.output = [s.output EXCEPT ![w] = o]
      /\ t.last = [s.last EXCEPT ![w] = o]
      /\ t.conn = s.conn /\ t.active = s.active /\ t.act = s.act /\ t.occ = s.occ
      /\ t.views = s.views /\ t.view = s.view /\ t.layout = s.layout
      /\ t.focus = s.focus /\ t.drag = s.drag
  BY DEF Servers
<1> HIDE DEF t
<1> QED
  BY <1>1, <1>2, <1>3 DEF Reassigns, Assigns, Assignment

LEMMA SetActiveAssigns ==
    ASSUME NEW s \in Servers, NEW w \in 0..NumWorkspaces, NEW o \in Outputs
    PROVE  LET t == WS!SetActive(s, o, w) IN
           /\ Reassigns(s, t, WS!SetActive(Assignment(s), o, w))
           /\ t.output = s.output /\ t.active = [s.active EXCEPT ![o] = w]
<1> DEFINE t == [s EXCEPT !.active[o] = w]
<1>1. WS!SetActive(s, o, w) = t
  BY DEF WS!SetActive
<1>2. WS!SetActive(Assignment(s), o, w) =
        [output |-> s.output, last |-> s.last,
         active |-> [s.active EXCEPT ![o] = w], occ |-> s.occ]
  BY DEF WS!SetActive, Assignment
<1>3. /\ t \in Servers /\ t.active = [s.active EXCEPT ![o] = w]
      /\ t.output = s.output /\ t.last = s.last
      /\ t.conn = s.conn /\ t.act = s.act /\ t.occ = s.occ
      /\ t.views = s.views /\ t.view = s.view /\ t.layout = s.layout
      /\ t.focus = s.focus /\ t.drag = s.drag
  BY DEF Servers
<1> HIDE DEF t
<1> QED
  BY <1>1, <1>2, <1>3 DEF Reassigns, Assigns, Assignment

LEMMA ForgetAssigns ==
    ASSUME NEW s \in Servers, NEW o \in Outputs
    PROVE  LET t == WS!Forget(s, o) IN
           /\ Reassigns(s, t, WS!Forget(Assignment(s), o))
           /\ t.output = s.output /\ t.active = s.active
<1> DEFINE last == [w \in Workspaces |-> IF s.last[w] = o THEN NoOutput ELSE s.last[w]]
           t == [s EXCEPT !.last = last]
<1>1. WS!Forget(s, o) = t
  BY NoWorkspaceIs DEF WS!Forget
<1>2. WS!Forget(Assignment(s), o) =
        [output |-> s.output, last |-> last, active |-> s.active, occ |-> s.occ]
  BY NoWorkspaceIs DEF WS!Forget, Assignment
<1>3. last \in [Workspaces -> Outputs \cup {NoOutput}]
  BY DEF Servers
<1> HIDE DEF last
<1>4. /\ t \in Servers /\ t.last = last /\ t.active = s.active
      /\ t.output = s.output
      /\ t.conn = s.conn /\ t.act = s.act /\ t.occ = s.occ
      /\ t.views = s.views /\ t.view = s.view /\ t.layout = s.layout
      /\ t.focus = s.focus /\ t.drag = s.drag
  BY <1>3 DEF Servers
<1> HIDE DEF t
<1> QED
  BY <1>1, <1>2, <1>4 DEF Reassigns, Assigns, Assignment

LEMMA AssignsTwice ==
    ASSUME NEW s, NEW t, NEW u, Assigns(s, t), Assigns(t, u)
    PROVE  Assigns(s, u)
BY DEF Assigns

LEMMA ReplacementFound ==
    ASSUME NEW s, NEW w
    PROVE  LET hidden == {x \in Workspaces \ {w} : s.output[x] = NoOutput} IN
           /\ WS!Replacement(s, w) \in hidden \cup {NoWorkspace}
           /\ hidden # {} => WS!Replacement(s, w) \in hidden
<1> DEFINE hidden == {x \in Workspaces \ {w} : s.output[x] = NoOutput}
           S == IF hidden \ s.occ # {} THEN hidden \ s.occ ELSE hidden
<1>1. WS!Replacement(s, w) = WS!First(S)
  BY NoWorkspaceIs DEF WS!Replacement
<1>2. S \subseteq hidden /\ (hidden # {} => S # {}) /\ S \in SUBSET Workspaces
  OBVIOUS
<1> HIDE DEF hidden, S
<1>3. WS!First(S) \in S \cup {NoWorkspace} /\ (S # {} => WS!First(S) \in S)
  BY <1>2, FirstOf
<1>4. /\ WS!Replacement(s, w) \in hidden \cup {NoWorkspace}
      /\ hidden # {} => WS!Replacement(s, w) \in hidden
  BY <1>1, <1>2, <1>3
<1> QED
  BY <1>4 DEF hidden

\* The empty workspace that gives way also forgets its output.
LEMMA ClearAssigns ==
    ASSUME NEW s \in Servers, NEW w \in Workspaces
    PROVE  LET t == [s EXCEPT !.last[w] = NoOutput] IN
           /\ Reassigns(s, t, [Assignment(s) EXCEPT !.last[w] = NoOutput])
           /\ t.output = s.output /\ t.active = s.active
<1> DEFINE t == [s EXCEPT !.last[w] = NoOutput]
<1>2. [Assignment(s) EXCEPT !.last[w] = NoOutput] =
        [output |-> s.output, last |-> [s.last EXCEPT ![w] = NoOutput],
         active |-> s.active, occ |-> s.occ]
  BY DEF Assignment
<1>3. /\ t \in Servers /\ t.last = [s.last EXCEPT ![w] = NoOutput]
      /\ t.output = s.output
      /\ t.conn = s.conn /\ t.active = s.active /\ t.act = s.act /\ t.occ = s.occ
      /\ t.views = s.views /\ t.view = s.view /\ t.layout = s.layout
      /\ t.focus = s.focus /\ t.drag = s.drag
  BY DEF Servers
<1> HIDE DEF t
<1>4. /\ Reassigns(s, t, [Assignment(s) EXCEPT !.last[w] = NoOutput])
      /\ t.output = s.output /\ t.active = s.active
  BY <1>2, <1>3 DEF Reassigns, Assigns, Assignment
<1> QED
  BY <1>4 DEF t

LEMMA ReassignsTwice ==
    ASSUME NEW s, NEW t, NEW u, NEW a, NEW b, Reassigns(s, t, a), Reassigns(t, u, b)
    PROVE  Reassigns(s, u, b)
BY AssignsTwice DEF Reassigns

LEMMA ReassignsFields ==
    ASSUME NEW s, NEW t, NEW a, Reassigns(s, t, a)
    PROVE  /\ t \in Servers /\ Assigns(s, t) /\ Assignment(t) = a
           /\ a.output = t.output /\ a.last = t.last /\ a.active = t.active
           /\ a.occ = t.occ
BY DEF Reassigns, Assigns, Assignment

LEMMA WithdrawAssigns ==
    ASSUME NEW s \in Servers, NEW w \in Workspaces, s.output[w] # NoOutput
    PROVE  LET t == WS!Withdraw(s, w) IN
           /\ Reassigns(s, t, WS!Withdraw(Assignment(s), w))
           /\ t.output[w] = NoOutput
           /\ \A x \in Workspaces \ {w} :
                s.output[x] # NoOutput => t.output[x] = s.output[x]
<1> DEFINE a == Assignment(s)
           old == s.output[w]
           h == WS!Hide(s, w)
           ha == WS!Hide(a, w)
           g == [h EXCEPT !.last[w] = NoOutput]
           ga == [ha EXCEPT !.last[w] = NoOutput]
           next == WS!Replacement(g, w)
           f == WS!SetActive(g, old, next)
           fa == WS!SetActive(ga, old, next)
           e == WS!Show(f, next, old)
           ea == WS!Show(fa, next, old)
           t == IF s.active[old] # w THEN g ELSE IF next = NoWorkspace THEN f ELSE e
           ta == IF s.active[old] # w THEN ga ELSE IF next = NoWorkspace THEN fa ELSE ea
<1>1. a.output = s.output /\ a.active = s.active
  BY DEF Assignment
<1>2. WS!Withdraw(s, w) = t
  BY NoWorkspaceIs DEF WS!Withdraw
<1>3. old \in Outputs
  BY DEF Servers
<1>4. Reassigns(s, h, ha) /\ h.output = [s.output EXCEPT ![w] = NoOutput]
  BY HideAssigns
<1> HIDE DEF h, ha
<1>5. h \in Servers /\ Assignment(h) = ha
  BY <1>4, ReassignsFields
<1>6. Reassigns(h, g, ga) /\ g.output = h.output
  BY <1>5, ClearAssigns
<1> HIDE DEF g, ga
<1>7. /\ g \in Servers /\ Assignment(g) = ga
      /\ ga.output = g.output /\ ga.occ = g.occ
  BY <1>6, ReassignsFields
<1>8. WS!Replacement(ga, w) = next
  BY <1>7 DEF WS!Replacement
<1>9. WS!Withdraw(a, w) = ta
  BY <1>1, <1>8, NoWorkspaceIs DEF WS!Withdraw, ga, ha
<1>10. next \in {x \in Workspaces \ {w} : g.output[x] = NoOutput} \cup {NoWorkspace}
  BY ReplacementFound
<1>11. next \in 0..NumWorkspaces /\ (next # NoWorkspace => next \in Workspaces)
  BY <1>10 DEF Workspaces, NoWorkspace
<1> HIDE DEF a, next
<1>12. Reassigns(g, f, fa) /\ f.output = g.output
  BY <1>3, <1>7, <1>11, SetActiveAssigns
<1> HIDE DEF f, fa
<1>13. f \in Servers /\ Assignment(f) = fa
  BY <1>12, ReassignsFields
<1>14. next # NoWorkspace =>
         Reassigns(f, e, ea) /\ e.output = [f.output EXCEPT ![next] = old]
  BY <1>3, <1>11, <1>13, ShowAssigns
<1> HIDE DEF e, ea
<1>15. Reassigns(s, t, ta)
  <2>1. Reassigns(s, g, ga)
    BY <1>4, <1>6, ReassignsTwice
  <2>2. Reassigns(s, f, fa)
    BY <1>12, <2>1, ReassignsTwice
  <2>3. next # NoWorkspace => Reassigns(s, e, ea)
    BY <1>14, <2>2, ReassignsTwice
  <2> QED
    BY <2>1, <2>2, <2>3
<1>16. s.output \in [Workspaces -> Outputs \cup {NoOutput}]
  BY DEF Servers
<1>17. /\ t.output[w] = NoOutput
       /\ \A x \in Workspaces \ {w} :
            s.output[x] # NoOutput => t.output[x] = s.output[x]
  <2>1. \/ t.output = g.output
        \/ next # NoWorkspace /\ t.output = [g.output EXCEPT ![next] = old]
    BY <1>12, <1>14
  <2> HIDE DEF t
  <2> QED
    BY <1>4, <1>6, <1>10, <1>16, <2>1
<1> HIDE DEF t, ta
<1> QED
  BY <1>2, <1>9, <1>15, <1>17 DEF a

\* Workspace w is brought up on output d; at most one other is hidden.
LEMMA OpenAssigns ==
    ASSUME NEW s \in Servers, NEW w \in Workspaces, NEW d \in Outputs
    PROVE  LET t == WS!Open(s, w, d) IN
           /\ Reassigns(s, t, WS!Open(Assignment(s), w, d))
           /\ t.output[w] = d
<1> DEFINE a == Assignment(s)
           shown == s.active[d]
           h == IF shown \in {NoWorkspace, w} THEN s ELSE WS!Hide(s, shown)
           ha == IF shown \in {NoWorkspace, w} THEN a ELSE WS!Hide(a, shown)
           f == WS!SetActive(h, d, w)
           fa == WS!SetActive(ha, d, w)
           e == WS!Show(f, w, d)
           ea == WS!Show(fa, w, d)
<1>1. a.active = s.active
  BY DEF Assignment
<1>2. WS!Open(s, w, d) = e /\ WS!Open(a, w, d) = ea
  BY <1>1, NoWorkspaceIs DEF WS!Open
<1>3. shown # NoWorkspace => shown \in Workspaces
  BY DEF Servers, Workspaces, NoWorkspace
<1>4. Reassigns(s, h, ha)
  <2>1. Reassigns(s, s, a)
    BY DEF Reassigns, Assigns
  <2>2. shown # NoWorkspace => Reassigns(s, WS!Hide(s, shown), WS!Hide(a, shown))
    BY <1>3, HideAssigns
  <2> QED
    BY <2>1, <2>2
<1> HIDE DEF h, ha
<1>5. h \in Servers /\ Assignment(h) = ha /\ w \in 0..NumWorkspaces
  BY <1>4, ReassignsFields DEF Workspaces
<1>6. Reassigns(h, f, fa)
  BY <1>5, SetActiveAssigns
<1> HIDE DEF f, fa
<1>7. f \in Servers /\ Assignment(f) = fa
  BY <1>6, ReassignsFields
<1>8. Reassigns(f, e, ea) /\ e.output = [f.output EXCEPT ![w] = d]
  BY <1>7, ShowAssigns
<1>9. e.output[w] = d
  BY <1>7, <1>8 DEF Servers
<1> HIDE DEF e, ea
<1>10. Reassigns(s, e, ea)
  BY <1>4, <1>6, <1>8, ReassignsTwice
<1> QED
  BY <1>2, <1>9, <1>10

LEMMA PullAssigns ==
    ASSUME NEW s \in Servers, NEW w \in Workspaces, NEW o
    PROVE  /\ Reassigns(s, WS!Pull(s, w, o), WS!Pull(Assignment(s), w, o))
           /\ WS!Destination(WS!Pull(s, w, o), w, o)
                = WS!Destination(WS!Pull(Assignment(s), w, o), w, o)
<1> DEFINE p == WS!Pull(s, w, o)
           pa == WS!Pull(Assignment(s), w, o)
<1>1. Reassigns(s, s, Assignment(s))
  BY DEF Reassigns, Assigns
<1>2. s.output[w] # NoOutput =>
        Reassigns(s, WS!Withdraw(s, w), WS!Withdraw(Assignment(s), w))
  BY WithdrawAssigns
<1>3. Assignment(s).output = s.output /\ Assignment(s).occ = s.occ
  BY DEF Assignment
<1>4. Reassigns(s, p, pa)
  BY <1>1, <1>2, <1>3 DEF WS!Pull
<1> HIDE DEF p, pa
<1>5. pa.output = p.output /\ pa.last = p.last /\ pa.occ = p.occ
  BY <1>4, ReassignsFields
<1>6. WS!Destination(p, w, o) = WS!Destination(pa, w, o)
  BY <1>5 DEF WS!Destination
<1> QED
  BY <1>4, <1>6 DEF p, pa

-----------------------------------------------------------------------------
(* Windows are freed                                                       *)

\* Every window is in its place; the screens may not be.
Orderly(s) == s \in Servers /\ Homes(s) /\ Planted(s) /\ FocusShown(s)

LEMMA BecomesOrderly ==
    ASSUME NEW s, Orderly(s), Becomes(s)
    PROVE  Orderly(Server)'
<1>1. s \in Servers
  BY DEF Orderly
<1>2. /\ Server' \in Servers
      /\ Server'.conn = s.conn /\ Server'.output = s.output
      /\ Server'.view = s.view /\ Server'.layout = s.layout
      /\ Server'.focus = s.focus
  BY <1>1, BecomesServer
<1>3. Homes(Server')
  BY <1>2 DEF Orderly, Homes, AtHome
<1>4. Planted(Server') /\ FocusShown(Server')
  BY <1>2 DEF Orderly, Planted, FocusShown, Focusable
<1> QED
  BY <1>2, <1>3, <1>4 DEF Orderly

\* Follow looks at the outputs and the windows of the first record only.
LEMMA FollowLooks ==
    ASSUME NEW s, NEW r, r.output = s.output, r.view = s.view, NEW t, NEW shown
    PROVE  Follow(s, t, shown) = Follow(r, t, shown)
BY DEF Follow

\* The assignment of s, with other occupied workspaces.
AssignmentOver(s, occupied) ==
    [output |-> s.output, last |-> s.last, active |-> s.active, occ |-> occupied]

\* server_release_workspace_if_empty
LEMMA ReleaseHangs ==
    ASSUME NEW s \in Servers, NEW w \in Workspaces
    PROVE  LET u == Release(s, w)
               occ == Occupied(s) IN
           /\ Hangs(s, u)
           /\ Homes(s) => Homes(u)
           /\ \/ u = s
              \/ /\ s.output[w] # NoOutput /\ w \notin occ
                 /\ AssignmentOver(u, occ) = WS!Withdraw(AssignmentOver(s, occ), w)
                 /\ \A v \in Views :
                      LET x == s.view[v].workspace IN
                      x \in Workspaces \ {w} /\ s.output[x] # NoOutput =>
                        u.view[v] = s.view[v]
<1> DEFINE u == Release(s, w)
           occ == Occupied(s)
           now == [s EXCEPT !.occ = occ]
           t == WS!Withdraw(now, w)
<1>1. occ \subseteq Workspaces
  BY OccupiedTypes DEF Occupied, Servers
<1>2. u = IF s.output[w] = NoOutput \/ w \in now.occ THEN s ELSE Follow(s, t, {})
  BY DEF Release
<1> HIDE DEF occ
<1>3. /\ now \in Servers /\ now.occ = occ
      /\ now.conn = s.conn /\ now.output = s.output /\ now.last = s.last
      /\ now.active = s.active /\ now.act = s.act
      /\ now.views = s.views /\ now.view = s.view /\ now.layout = s.layout
      /\ now.focus = s.focus /\ now.drag = s.drag
  BY <1>1 DEF Servers
<1> HIDE DEF now, u
<1>4. CASE s.output[w] = NoOutput \/ w \in occ
  <2>1. u = s
    BY <1>2, <1>3, <1>4
  <2>2. \A v \in Views : Rehung(s.view[v], s.view[v])
    BY DEF Rehung, Servers
  <2>3. Hangs(s, s)
    BY <2>2 DEF Hangs
  <2> QED
    BY <2>1, <2>3 DEF u
<1>5. CASE ~ (s.output[w] = NoOutput \/ w \in occ)
  <2>1. /\ Reassigns(now, t, WS!Withdraw(Assignment(now), w))
        /\ \A x \in Workspaces \ {w} :
             now.output[x] # NoOutput => t.output[x] = now.output[x]
    BY <1>3, <1>5, WithdrawAssigns
  <2> HIDE DEF t
  <2>2. u = Follow(now, t, {})
    BY <1>2, <1>3, <1>5, FollowLooks
  <2>3. Assigns(now, t) /\ Assignment(t) = WS!Withdraw(Assignment(now), w)
    BY <2>1, ReassignsFields
  <2>4. /\ Hangs(now, u)
        /\ u.output = t.output /\ u.last = t.last /\ u.active = t.active
        /\ Homes(now) => Homes(u)
        /\ \A v \in Views :
             LET x == now.view[v].workspace IN
             x # NoWorkspace /\ t.output[x] = now.output[x] /\ x \notin {} =>
               u.view[v] = now.view[v]
    BY <1>3, <2>2, <2>3, FollowHangs
  <2>5. Hangs(s, u)
    BY <1>3, <2>4 DEF Hangs
  <2>6. Homes(s) => Homes(u)
    BY <1>3, <2>4 DEF Homes, AtHome
  <2>7. Assignment(now) = AssignmentOver(s, occ) /\ Assignment(t) = AssignmentOver(u, occ)
    BY <1>3, <2>3, <2>4 DEF Assignment, AssignmentOver, Assigns
  <2>8. ASSUME NEW v \in Views, s.view[v].workspace \in Workspaces \ {w},
               s.output[s.view[v].workspace] # NoOutput
        PROVE  u.view[v] = s.view[v]
    <3>1. s.view[v].workspace # NoWorkspace
      BY <2>8 DEF Workspaces, NoWorkspace
    <3> QED
      BY <1>3, <2>1, <2>4, <2>8, <3>1
  <2> QED
    BY <1>5, <2>3, <2>5, <2>6, <2>7, <2>8 DEF u, occ
<1> QED
  BY <1>4, <1>5

\* Which workspaces are occupied does not depend on a window that is not
\* mapped.
AlikeBut(fields, others, v) ==
    /\ ~ fields[v].mapped /\ ~ others[v].mapped
    /\ \A u \in Views \ {v} : /\ others[u].mapped = fields[u].mapped
                             /\ others[u].sticky = fields[u].sticky
                             /\ others[u].workspace = fields[u].workspace

LEMMA OccupiedWithout ==
    ASSUME NEW vs \in SUBSET Views, NEW fields, NEW others, NEW v,
           AlikeBut(fields, others, v)
    PROVE  /\ OccupiedBy(vs, others) = OccupiedBy(vs, fields)
           /\ OccupiedBy(vs \ {v}, others) = OccupiedBy(vs, fields)
<1>1. /\ {u \in vs : others[u].mapped /\ ~ others[u].sticky}
           = {u \in vs : fields[u].mapped /\ ~ fields[u].sticky}
      /\ {u \in vs \ {v} : others[u].mapped /\ ~ others[u].sticky}
           = {u \in vs : fields[u].mapped /\ ~ fields[u].sticky}
      /\ \A u \in {x \in vs : fields[x].mapped /\ ~ fields[x].sticky} :
           others[u].workspace = fields[u].workspace
  BY DEF AlikeBut
<1> QED
  BY <1>1 DEF OccupiedBy

\* A window that is gone from the list.
LEMMA Removed ==
    ASSUME NEW s \in Servers, NEW v
    PROVE  LET t == [s EXCEPT !.views = s.views \ {v}] IN
           /\ t \in Servers /\ t.views = s.views \ {v}
           /\ t.conn = s.conn /\ t.output = s.output /\ t.last = s.last
           /\ t.active = s.active /\ t.act = s.act /\ t.view = s.view
           /\ t.layout = s.layout /\ t.focus = s.focus /\ t.drag = s.drag
BY DEF Servers

LEMMA DestroyStays ==
    ASSUME Live, NEW v \in Views, Destroy(v)
    PROVE  Live' /\ StickyHeld /\ (Whole(Server) => Orderly(Server)' /\ WS!Next)
<1> DEFINE w == view[v].workspace
           c == CancelDrag(Server, v)
           left(x) == [x EXCEPT !.view[v] = Fresh]
           next(x) == IF w = NoWorkspace THEN NoView ELSE x.layout[w].focus
           released(x) == IF w = NoWorkspace THEN left(x) ELSE Release(left(x), w)
           done(x) == PassFocus(released(x), v, next(x))
           gone(x) == [x EXCEPT !.views = x.views \ {v}]
<1>1. /\ Server \in Servers /\ Lively(Server) /\ Server.view = view
      /\ Server.conn = connected /\ Server.output = output
      /\ Server.last = last_output /\ Server.active = active
      /\ Server.act = active_output /\ Server.views = views
      /\ ~ view[v].mapped /\ v \in views
  BY DEF Live, Server, Destroy
<1>2. \E x \in LeaveOwn(c, v) : \E s \in done(x) : Becomes(gone(s))
  <2>1. \E s \in Then(LeaveOwn(c, v), done) : Becomes(gone(s))
    BY DEF Destroy
  <2> HIDE DEF c, done
  <2> QED
    BY <2>1 DEF Then
<1>3. w # NoWorkspace => w \in Workspaces
  BY <1>1 DEF Servers, Windows, Workspaces, NoWorkspace
<1>4. /\ c \in Servers /\ c.drag.view # v
      /\ c.drag.view # NoView => c.drag.view = Server.drag.view
      /\ c.conn = connected /\ c.output = output /\ c.last = last_output
      /\ c.active = active /\ c.act = active_output /\ c.views = views
      /\ c.view = view /\ c.layout = Server.layout /\ c.focus = Server.focus
  BY <1>1, CancelDragEnds
<1> HIDE DEF c
<1>5. PICK x \in LeaveOwn(c, v) : \E s \in done(x) : Becomes(gone(s))
  BY <1>2
<1>6. PICK t \in done(x) : Becomes(gone(t))
  BY <1>5
<1>7. x \in Servers /\ Same(c, x) /\ x.view = view
  BY <1>4, LeaveOwnRemoves DEF Arranges
<1> DEFINE l == left(x)
           r == released(x)
           s == gone(t)
<1>8. /\ l \in Servers /\ SameScreens(x, l) /\ l.act = x.act
      /\ l.focus = x.focus /\ l.layout = x.layout /\ l.view[v] = Fresh
      /\ \A u \in Views \ {v} : l.view[u] = view[u]
  BY <1>7, FreshFields, FieldsOf
<1>9. r = IF w = NoWorkspace THEN l ELSE Release(l, w)
  OBVIOUS
<1>10. t \in PassFocus(r, v, next(x))
  BY <1>6
<1>11. next(x) \in Views \cup {NoView}
  BY <1>3, <1>7 DEF Servers, Trees
<1> HIDE DEF next, l, r, released, done
<1>12. /\ Hangs(l, r)
       /\ Homes(l) => Homes(r)
       /\ \/ r = l
          \/ /\ w # NoWorkspace
             /\ l.output[w] # NoOutput /\ w \notin Occupied(l)
             /\ AssignmentOver(r, Occupied(l))
                  = WS!Withdraw(AssignmentOver(l, Occupied(l)), w)
             /\ \A u \in Views :
                  LET y == l.view[u].workspace IN
                  y \in Workspaces \ {w} /\ l.output[y] # NoOutput =>
                    r.view[u] = l.view[u]
  <2>1. CASE w = NoWorkspace
    <3>1. \A u \in Views : Rehung(l.view[u], l.view[u])
      BY <1>8 DEF Rehung, Servers
    <3> QED
      BY <1>8, <1>9, <2>1, <3>1 DEF Hangs
  <2>2. CASE w # NoWorkspace
    <3>1. r = Release(l, w) /\ w \in Workspaces
      BY <1>3, <1>9, <2>2
    <3> HIDE DEF w
    <3> QED
      BY <1>8, <2>2, <3>1, ReleaseHangs
  <2> QED
    BY <2>1, <2>2
<1>13. r \in Servers
  BY <1>12 DEF Hangs
<1>14. Refocuses(r, t)
  BY <1>10, <1>11, <1>13, PassFocusStays
<1>15. t \in Servers /\ t.view = r.view /\ t.views = views /\ t.drag = c.drag
  BY <1>4, <1>7, <1>8, <1>12, <1>14 DEF Refocuses, Unmoved, Hangs, Same, SameScreens
<1>16. /\ s \in Servers /\ s.views = views \ {v} /\ s.view = r.view /\ s.drag = c.drag
       /\ s.conn = t.conn /\ s.output = t.output /\ s.last = t.last
       /\ s.active = t.active /\ s.act = t.act
       /\ s.layout = t.layout /\ s.focus = t.focus
  BY <1>15, Removed
<1>17. Becomes(s)
  BY <1>6
<1> HIDE DEF s
<1>18. /\ \A u \in Views : Rehung(l.view[u], r.view[u])
       /\ ~ r.view[v].mapped
       /\ \A u \in Views \ {v} : Rehung(view[u], r.view[u])
  <2>1. \A u \in Views : Rehung(l.view[u], r.view[u])
    BY <1>12 DEF Hangs
  <2> QED
    BY <1>8, <2>1, FreshFields DEF Rehung
<1>19. Lively(s)
  <2>1. ASSUME NEW u \in Views, s.view[u].mapped PROVE u \in s.views
    BY <1>1, <1>16, <1>18, <2>1 DEF Lively, Rehung
  <2>2. ASSUME s.drag.view # NoView
        PROVE  s.view[s.drag.view].mapped /\ s.view[s.drag.view].dragging
    <3>1. s.drag.view \in Views \ {v} /\ s.drag.view = Server.drag.view
      BY <1>4, <1>16, <2>2 DEF Servers
    <3> QED
      BY <1>1, <1>16, <1>18, <3>1 DEF Lively, Rehung
  <2> QED
    BY <2>1, <2>2 DEF Lively
<1>20. view' = r.view /\ StickyHeld
  BY <1>16, <1>17, <1>18 DEF Becomes, StickyHeld, Rehung
<1>21. ASSUME Whole(Server) PROVE Orderly(Server)' /\ WS!Next
  <2>1. Server.focus # v /\ \A y \in Workspaces : v \notin Server.layout[y].held
    BY <1>1, <1>21, UnmappedIsOut
  <2>2. x = c
    BY <1>3, <1>4, <1>5, <2>1 DEF LeaveOwn, Leave
  <2>3. WholeBut(l, v)
    BY <1>1, <1>4, <1>7, <1>8, <1>21, <2>2, OthersStay DEF Same, SameScreens
  <2>4. AtHome(l, v)
    BY <1>8, FreshFields DEF AtHome
  <2>5. Homes(l) /\ Planted(l) /\ FocusShown(l)
    BY <2>3, <2>4 DEF WholeBut, Homes
  <2>6. Homes(r) /\ Planted(r)
    BY <1>8, <1>12, <2>5, HangsSteady
  <2>7. r.focus # v /\ t = r
    BY <1>4, <1>7, <1>8, <1>10, <1>12, <2>1 DEF PassFocus, Hangs, Same
  <2>8. Occupied(l) = OccupiedBy(views, view)
    <3>1. ~ view[v].mapped /\ ~ l.view[v].mapped /\ l.views = views /\ views \subseteq Views
      BY <1>1, <1>4, <1>7, <1>8, FreshFields DEF Same, SameScreens, Servers
    <3>2. AlikeBut(view, l.view, v)
      BY <1>8, <3>1 DEF AlikeBut
    <3>3. OccupiedBy(views, l.view) = OccupiedBy(views, view)
      BY <3>1, <3>2, OccupiedWithout
    <3> QED
      BY <3>1, <3>3 DEF Occupied
  <2>9. OccupiedBy(views', view') = OccupiedBy(views, view)
    <3>1. ~ view[v].mapped /\ ~ r.view[v].mapped /\ views \subseteq Views
          /\ views' = views \ {v} /\ view' = r.view
      BY <1>1, <1>16, <1>17, <1>18 DEF Becomes, Servers
    <3>2. AlikeBut(view, r.view, v)
      BY <1>18, <3>1 DEF AlikeBut, Rehung
    <3>3. OccupiedBy(views \ {v}, r.view) = OccupiedBy(views, view)
      BY <3>1, <3>2, OccupiedWithout
    <3> QED
      BY <3>1, <3>3
  <2>10. /\ l.conn = connected /\ l.output = output /\ l.last = last_output
         /\ l.active = active /\ l.act = active_output /\ l.views = views
    BY <1>4, <1>7, <1>8 DEF Same, SameScreens
  <2>11. r.conn = connected /\ r.act = active_output /\ r.focus = l.focus
         /\ r.layout = l.layout
    BY <1>12, <2>10 DEF Hangs
  <2>12. FocusShown(r)
    <3> SUFFICES ASSUME r.focus # NoView PROVE Focusable(r, r.focus)
      BY DEF FocusShown
    <3> DEFINE f == l.focus
               y == l.view[f].workspace
    <3>1. f # NoView /\ f # v /\ Focusable(l, f) /\ f \in Views /\ f = r.focus
      BY <2>5, <2>7, <2>11 DEF FocusShown, Focusable
    <3>2. y \in Workspaces /\ l.view[f].output = l.output[y]
      BY <1>8, <2>5, <3>1, FocusableShown
    <3>3. y \in Occupied(l)
      <4>1. f \in l.views
        BY <1>1, <1>8, <2>10, <3>1 DEF Lively, Focusable
      <4>2. l.view[f].mapped /\ ~ l.view[f].sticky
        BY <2>5, <3>1 DEF Focusable, Homes, AtHome
      <4>3. y # 0
        BY <3>2 DEF Workspaces
      <4> QED
        BY <4>1, <4>2, <4>3 DEF Occupied, OccupiedBy
    <3>4. r = l \/ r.view[f] = l.view[f]
      <4>1. l.output[y] # NoOutput
        BY <3>1, <3>2 DEF Focusable
      <4> QED
        BY <1>12, <3>1, <3>2, <3>3, <4>1
    <3> QED
      BY <3>1, <3>4 DEF Focusable
  <2>13. Orderly(s)
    <3>1. s.conn = r.conn /\ s.output = r.output /\ s.layout = r.layout /\ s.focus = r.focus
      BY <1>16, <2>7
    <3>2. Homes(s)
      BY <1>16, <2>6, <3>1 DEF Homes, AtHome
    <3>3. Planted(s) /\ FocusShown(s)
      BY <1>16, <2>6, <2>12, <3>1 DEF Planted, FocusShown, Focusable
    <3> QED
      BY <1>16, <3>2, <3>3 DEF Orderly
  <2>14. /\ connected' = connected /\ active_output' = active_output
         /\ output' = r.output /\ last_output' = r.last /\ active' = r.active
    BY <1>16, <1>17, <2>7, <2>11 DEF Becomes
  <2>15. CASE r = l
    <3>1. WS!ViewsChange
      <4>1. OccupiedBy(views, view) \subseteq Workspaces
        BY <1>1, OccupiedTypes DEF Servers
      <4> QED
        BY <2>9, <2>10, <2>14, <2>15, <4>1, NoWorkspaceIs DEF WS!ViewsChange, WS!assignment
    <3> QED
      BY <1>17, <2>13, <3>1, BecomesOrderly DEF WS!Next
  <2>16. CASE r # l
    <3>1. /\ w \in Workspaces /\ output[w] # NoOutput
          /\ w \notin OccupiedBy(views, view)
          /\ AssignmentOver(r, OccupiedBy(views, view))
               = WS!Withdraw(AssignmentOver(l, OccupiedBy(views, view)), w)
      BY <1>3, <1>12, <2>8, <2>10, <2>16
    <3> DEFINE occ == OccupiedBy(views, view)
               now == [WS!Current EXCEPT !.occ = OccupiedBy(views, view)']
    <3>2. now = AssignmentOver(l, occ)
      BY <2>9, <2>10 DEF WS!Current, AssignmentOver
    <3>3. OccupiedBy(views, view)' = OccupiedBy(views, view) \ {w}
      BY <2>9, <3>1
    <3> HIDE DEF now, w
    <3>4. WS!Becomes(WS!Withdraw(now, w))
      <4>1. /\ AssignmentOver(r, occ).output = r.output
            /\ AssignmentOver(r, occ).last = r.last
            /\ AssignmentOver(r, occ).active = r.active
        BY DEF AssignmentOver
      <4> QED
        BY <2>14, <3>1, <3>2, <4>1 DEF WS!Becomes
    <3>5. WS!ReleaseIfEmpty(w)
      BY <2>14, <3>1, <3>3, <3>4 DEF WS!ReleaseIfEmpty, now
    <3>6. WS!Next
      BY <3>1, <3>5, NoWorkspaceIs DEF WS!Next
    <3> QED
      BY <1>17, <2>13, <3>6, BecomesOrderly
  <2> QED
    BY <2>15, <2>16
<1> QED
  BY <1>16, <1>17, <1>19, <1>20, <1>21, BecomesLive

-----------------------------------------------------------------------------
(* The drag                                                                *)

\* A call that maps and unmaps no window and hides none that sticks.
Keeps(s, t) ==
    /\ t \in Servers /\ t.views = s.views
    /\ \A u \in Views :
         /\ t.view[u].mapped = s.view[u].mapped
         /\ s.view[u].sticky /\ s.view[u].enabled =>
              t.view[u].sticky /\ t.view[u].enabled

LEMMA KeepsTwice ==
    ASSUME NEW s, NEW t, NEW u, Keeps(s, t), Keeps(t, u)
    PROVE  Keeps(s, u)
BY DEF Keeps

LEMMA SteadyKeeps ==
    ASSUME NEW s, NEW t, Steady(s, t)
    PROVE  Keeps(s, t)
BY DEF Steady, Keeps

\* A window that is grabbed or let go, and the drag that begins or ends with it.
Regrabs(s, t) ==
    /\ t \in Servers
    /\ t.conn = s.conn /\ t.output = s.output /\ t.last = s.last
    /\ t.active = s.active /\ t.act = s.act /\ t.views = s.views
    /\ t.layout = s.layout /\ t.focus = s.focus
    /\ \A u \in Views :
         /\ t.view[u].mapped = s.view[u].mapped
         /\ t.view[u].workspace = s.view[u].workspace
         /\ t.view[u].output = s.view[u].output
         /\ t.view[u].sticky = s.view[u].sticky
         /\ t.view[u].enabled = s.view[u].enabled

LEMMA RegrabsStays ==
    ASSUME NEW s, NEW t, Regrabs(s, t)
    PROVE  Keeps(s, t) /\ (Whole(s) => Whole(t))
<1>1. Keeps(s, t)
  BY DEF Regrabs, Keeps
<1>2. ASSUME Whole(s) PROVE Whole(t)
  <2>1. Homes(t)
    BY <1>2 DEF Whole, Homes, AtHome, Regrabs
  <2>2. Planted(t)
    <3>1. \A w \in Workspaces : s.layout[w].held \subseteq Views
      BY <1>2 DEF Whole, Servers, Trees
    <3> QED
      BY <1>2, <3>1 DEF Whole, Planted, Regrabs
  <2>3. FocusShown(t) /\ Screens(t)
    BY <1>2 DEF Whole, FocusShown, Focusable, Screens, Regrabs
  <2> QED
    BY <2>1, <2>2, <2>3 DEF Whole, Regrabs
<1> QED
  BY <1>1, <1>2

\* The drag becomes d.
LEMMA SetDragRegrabs ==
    ASSUME NEW s \in Servers,
           NEW d \in [view : Views \cup {NoView}, restore_tiled : BOOLEAN]
    PROVE  LET t == [s EXCEPT !.drag = d] IN
           Regrabs(s, t) /\ t.drag = d /\ t.view = s.view
<1> DEFINE t == [s EXCEPT !.drag = d]
<1>1. /\ t \in Servers /\ t.drag = d /\ t.view = s.view
      /\ t.conn = s.conn /\ t.output = s.output /\ t.last = s.last
      /\ t.active = s.active /\ t.act = s.act /\ t.views = s.views
      /\ t.layout = s.layout /\ t.focus = s.focus
  BY DEF Servers
<1> HIDE DEF t
<1>2. Regrabs(s, t) /\ t.drag = d /\ t.view = s.view
  BY <1>1 DEF Regrabs
<1> QED
  BY <1>2 DEF t

LEMMA StartDragStays ==
    ASSUME Live, NEW v \in Views, NEW move \in BOOLEAN, StartDrag(v, move)
    PROVE  Live' /\ StickyHeld /\ (Whole(Server) => SettledNext)
<1> DEFINE f == view[v]
           lift == move /\ f.tiled /\ f.workspace # NoWorkspace
           lifted(x) == IF lift
                        THEN {[t EXCEPT !.view[v].floating = TRUE] : t \in Untile(x, v)}
                        ELSE {x}
           d == [view |-> v, restore_tiled |-> lift]
           grabbed(x) == [x EXCEPT !.drag = d, !.view[v].dragging = TRUE]
<1>1. /\ Server \in Servers /\ Lively(Server) /\ Server.view = view
      /\ Server.conn = connected /\ Server.output = output
      /\ Server.last = last_output /\ Server.active = active
      /\ Server.act = active_output /\ Server.views = views
      /\ f.mapped
  BY DEF Live, Server, StartDrag
<1>2. \E x \in FocusView(Server, v) : \E t \in lifted(x) : Becomes(grabbed(t))
  <2>1. \E s \in Then(FocusView(Server, v), lifted) : Becomes(grabbed(s))
    BY DEF StartDrag
  <2> HIDE DEF lifted, grabbed
  <2> QED
    BY <2>1 DEF Then
<1>3. f \in Windows
  BY <1>1 DEF Servers
<1>4. d \in [view : Views \cup {NoView}, restore_tiled : BOOLEAN] /\ d.view = v
  BY <1>3 DEF Windows
<1> HIDE DEF d
<1>5. PICK x \in FocusView(Server, v) : \E t \in lifted(x) : Becomes(grabbed(t))
  BY <1>2
<1>6. PICK t \in lifted(x) : Becomes(grabbed(t))
  BY <1>5
<1>7. Refocuses(Server, x) /\ x \in Servers
  BY <1>1, <1>5, FocusViewRefocuses DEF Refocuses, Unmoved
<1>8. t = x \/ Dresses(x, t, v)
  BY <1>6, <1>7, FloatDresses
<1>9. Steady(Server, t) /\ t \in Servers
  <2>1. Steady(Server, x)
    BY <1>7, RefocusesSteady
  <2>2. Steady(Server, t)
    BY <1>8, <2>1, DressesSteady, SteadyTwice
  <2> QED
    BY <2>2 DEF Steady
<1> DEFINE p == [t EXCEPT !.drag = d]
           g == [t.view[v] EXCEPT !.dragging = TRUE]
           s == [p EXCEPT !.view[v] = g]
<1>10. Regrabs(t, p) /\ p.drag = d /\ p.view = t.view
  BY <1>4, <1>9, SetDragRegrabs
<1>11. grabbed(t) = s
  <2>1. p.view = t.view
    BY <1>10
  <2>2. grabbed(t) = [p EXCEPT !.view[v].dragging = TRUE]
    OBVIOUS
  <2> HIDE DEF p, grabbed
  <2> QED
    BY <2>1, <2>2
<1> HIDE DEF p, grabbed
<1>12. t.view[v] \in Windows /\ p \in Servers
  BY <1>9, <1>10 DEF Servers, Regrabs
<1>13. /\ g \in Windows /\ g.dragging = TRUE
       /\ g.mapped = t.view[v].mapped /\ g.workspace = t.view[v].workspace
       /\ g.output = t.view[v].output /\ g.sticky = t.view[v].sticky
       /\ g.enabled = t.view[v].enabled
  BY <1>12 DEF Windows
<1> HIDE DEF g
<1>14. /\ s \in Servers /\ SameScreens(p, s) /\ s.act = p.act /\ s.focus = p.focus
       /\ s.layout = p.layout /\ s.view[v] = g
       /\ \A u \in Views \ {v} : s.view[u] = p.view[u]
  BY <1>12, <1>13, FieldsOf
<1> HIDE DEF s
<1>15. Regrabs(t, s) /\ s.drag = d
  BY <1>10, <1>13, <1>14 DEF Regrabs, SameScreens
<1>16. Becomes(s)
  BY <1>6, <1>11
<1>17. Lively(s)
  <2>1. s.view[v].mapped /\ s.view[v].dragging
    BY <1>1, <1>9, <1>13, <1>14 DEF Steady
  <2>2. \A u \in Views : s.view[u].mapped => u \in s.views
    BY <1>1, <1>9, <1>15 DEF Lively, Steady, Regrabs
  <2> QED
    BY <1>4, <1>15, <2>1, <2>2 DEF Lively
<1>18. Keeps(Server, s)
  BY <1>9, <1>15, SteadyKeeps, RegrabsStays, KeepsTwice
<1>19. StickyHeld
  BY <1>1, <1>16, <1>18 DEF StickyHeld, Keeps, Becomes
<1>20. ASSUME Whole(Server) PROVE SettledNext
  <2>1. Settles(Server, x)
    BY <1>7, <1>20, RefocusSettles
  <2>2. x.view[v].mapped
    BY <1>1, <1>7 DEF Refocuses, Unmoved
  <2>3. Settles(Server, t)
    BY <1>8, <2>1, <2>2, DressesSettles, SettlesTwice DEF Settles
  <2>4. Whole(s)
    BY <1>15, <2>3, RegrabsStays DEF Settles
  <2>5. /\ s.conn = connected /\ s.output = output /\ s.last = last_output
        /\ s.active = active /\ s.act \in connected \cup {active_output}
    BY <1>1, <1>15, <2>3 DEF Settles, SameScreens, Regrabs
  <2> QED
    BY <1>16, <2>4, <2>5, SettledStep
<1> QED
  BY <1>14, <1>16, <1>17, <1>19, <1>20, BecomesLive

\* The window is dropped: where its output shows another workspace it has gone
\* to that one.
LEMMA DroppedStays ==
    ASSUME NEW s \in Servers, NEW v \in Views, NEW target \in s.conn \cup {NoOutput},
           NEW t \in Dropped(s, v, target)
    PROVE  /\ Keeps(s, t)
           /\ Whole(s) /\ s.view[v].mapped =>
                Settles(s, t) /\ target \in {NoOutput, t.view[v].output}
<1> DEFINE f == s.view[v]
           a == IF target = NoOutput THEN NoWorkspace ELSE s.active[target]
           crossed == target \notin {NoOutput, f.output}
           away == IF crossed /\ f.workspace # NoWorkspace /\ a # NoWorkspace /\ f.workspace # a
                   THEN LeaveOwn(s, v) ELSE {s}
           o == IF crossed THEN target ELSE f.output
           w == IF crossed /\ a # NoWorkspace THEN a ELSE f.workspace
           kept == [f EXCEPT !.output = o, !.workspace = w]
           dropped == [f EXCEPT !.dragging = FALSE, !.output = o, !.workspace = w]
<1>1. PICK x \in away : t = [x EXCEPT !.view[v] = dropped]
  BY DEF Dropped
<1>2. f \in Windows /\ NoOutput \notin s.conn /\ s.conn \subseteq Outputs
  BY DEF Servers
<1>3. a \in 0..NumWorkspaces
  BY <1>2 DEF Servers, NoWorkspace
<1>4. o \in Outputs \cup {NoOutput} /\ w \in 0..NumWorkspaces
  BY <1>2, <1>3 DEF Windows
<1>5. x \in {s} \cup LeaveOwn(s, v)
  OBVIOUS
<1>6. /\ crossed \/ (o = f.output /\ w = f.workspace /\ x = s)
      /\ crossed => o = target /\ target \in s.conn /\ a = s.active[target]
      /\ crossed /\ f.workspace # NoWorkspace /\ a \notin {NoWorkspace, f.workspace} =>
           w = a /\ x \in LeaveOwn(s, v)
      /\ target \in {NoOutput, o}
  BY <1>1
<1>7. crossed /\ a = f.workspace => w = f.workspace /\ x = s
  BY <1>1
<1> HIDE DEF away, o, w
<1>8. /\ dropped \in Windows /\ dropped.mapped = f.mapped /\ dropped.sticky = f.sticky
      /\ dropped.enabled = f.enabled /\ dropped.output = o /\ dropped.workspace = w
      /\ kept \in Windows /\ kept.mapped = f.mapped /\ kept.dragging = f.dragging
      /\ kept.sticky = f.sticky /\ kept.output = o /\ kept.workspace = w
  BY <1>2, <1>4 DEF Windows
<1> HIDE DEF dropped, kept
<1>9. x \in Servers /\ x.view = s.view /\ Same(s, x)
  <2>1. CASE x = s
    BY <2>1 DEF Same, SameScreens
  <2>2. CASE x \in LeaveOwn(s, v)
    <3>1. Arranges(s, x)
      BY <2>2, LeaveOwnRemoves
    <3> QED
      BY <3>1 DEF Arranges
  <2> QED
    BY <1>5, <2>1, <2>2
<1>10. /\ t \in Servers /\ SameScreens(x, t) /\ t.act = x.act /\ t.focus = x.focus
       /\ t.layout = x.layout /\ t.view[v] = dropped
       /\ \A u \in Views \ {v} : t.view[u] = x.view[u]
  BY <1>1, <1>8, <1>9, FieldsOf
<1>11. Keeps(s, t)
  BY <1>8, <1>9, <1>10 DEF Keeps, Same, SameScreens
<1>12. ASSUME Whole(s), f.mapped
       PROVE  Settles(s, t) /\ target \in {NoOutput, t.view[v].output}
  <2>1. /\ AtHome(s, v) /\ Screens(s) /\ Planted(s)
    BY <1>12 DEF Whole, Homes
  <2>2. crossed => f.workspace # NoWorkspace /\ a \in Workspaces /\ s.output[a] = target
    BY <1>6, <1>12, <2>1 DEF AtHome, Screens
  <2>3. crossed => w = a /\ (a # f.workspace => x \in LeaveOwn(s, v))
    BY <1>6, <1>7, <2>2 DEF Workspaces, NoWorkspace
  <2>4. AtHome(t, v)
    <3>1. t.output = s.output /\ t.conn = s.conn /\ t.view[v] = dropped
      BY <1>9, <1>10 DEF Same, SameScreens
    <3>2. CASE crossed
      <4>1. o = s.output[w] /\ w # NoWorkspace
        BY <1>6, <2>2, <2>3, <3>2 DEF Workspaces, NoWorkspace
      <4> QED
        BY <1>8, <1>12, <2>1, <3>1, <4>1 DEF AtHome
    <3>3. CASE ~ crossed
      BY <1>6, <1>8, <2>1, <3>1, <3>3 DEF AtHome
    <3> QED
      BY <3>2, <3>3
  <2>5. Handles(s, t, v) /\ t.act = s.act /\ t.focus = s.focus
    BY <1>8, <1>9, <1>10 DEF Handles, Same, SameScreens
  <2>6. ASSUME NEW y \in Workspaces
        PROVE  /\ t.layout[y].held \ {v} = s.layout[y].held \ {v}
               /\ FocusInside(s.layout[y]) => FocusInside(t.layout[y])
               /\ v \in t.layout[y].held =>
                    \/ y = t.view[v].workspace
                    \/ y # s.view[v].workspace /\ v \in s.layout[y].held
    <3>1. CASE crossed /\ a # f.workspace
      <4> DEFINE r == [x EXCEPT !.view[v] = kept]
      <4>1. x \in LeaveOwn(s, v)
        BY <2>3, <3>1
      <4>2. Carries(s, r, v)
        BY <1>8, <4>1, LeftCarries
      <4>3. r.layout = x.layout /\ r.view[v] = kept
        BY <1>8, <1>9 DEF Servers
      <4> HIDE DEF r
      <4> QED
        BY <1>8, <1>10, <4>2, <4>3 DEF Carries
    <3>2. CASE ~ (crossed /\ a # f.workspace)
      <4>1. x = s /\ w = f.workspace
        BY <1>6, <1>7, <2>3, <3>2
      <4> QED
        BY <1>8, <1>10, <2>1, <4>1 DEF Planted
    <3> QED
      BY <3>1, <3>2
  <2>7. Shifts(s, t, v)
    BY <2>5, <2>6 DEF Shifts
  <2>8. s.focus = v => t.view[v].output # NoOutput
    BY <1>2, <1>6, <1>8, <1>10, <1>12 DEF Whole, FocusShown, Focusable
  <2>9. Settles(s, t)
    BY <1>12, <2>4, <2>7, <2>8, WholeButNone, ShiftsSettles
  <2> QED
    BY <1>6, <1>8, <1>10, <2>9
<1> QED
  BY <1>11, <1>12

\* A window that changes its place within the layouts of its workspace.
LEMMA ArrangesKeeps ==
    ASSUME NEW s, NEW t, Arranges(s, t)
    PROVE  Keeps(s, t)
BY DEF Arranges, Keeps, Same, SameScreens

\* A window that was tiled is tiled again, on the output it is on.
LEMMA RetiledStays ==
    ASSUME NEW s \in Servers, NEW v \in Views, NEW target \in Outputs \cup {NoOutput},
           NEW t \in Retiled(s, v, target)
    PROVE  /\ Keeps(s, t)
           /\ Whole(s) /\ s.view[v].mapped /\ target \in {NoOutput, s.view[v].output} =>
                Settles(s, t)
<1> DEFINE out == IF target # NoOutput THEN target ELSE s.view[v].output
           a == s.active[out]
           f == s.view[v]
           w == IF f.workspace = NoWorkspace THEN a ELSE f.workspace
           down == [s EXCEPT !.view[v].floating = FALSE]
           g == [f EXCEPT !.floating = FALSE, !.tiled = TRUE, !.output = out,
                          !.workspace = w]
           back == [s EXCEPT !.view[v] = g]
           under == {u \in s.layout[a].held \ {v} :
                       s.view[u].tiled /\ ~ s.view[u].fullscreen}
<1>1. \/ t = down
      \/ /\ out # NoOutput /\ a # NoWorkspace
         /\ \E b \in {back} \cup {LayoutFocus(back, a, u) : u \in under} : t = Join(b, a, v)
  BY DEF Retiled, Place
<1>2. f \in Windows /\ out \in Outputs \cup {NoOutput}
  BY DEF Servers, Windows
<1>3. CASE t = down
  <2>1. Dresses(s, t, v)
    BY <1>3, DressesOneField
  <2> QED
    BY <2>1, DressesSteady, SteadyKeeps, DressesSettles
<1>4. CASE t # down
  <2>0. out # NoOutput => a \in 0..NumWorkspaces
    BY <1>2 DEF Servers
  <2>1. /\ out \in Outputs /\ a \in Workspaces
        /\ \E b \in {back} \cup {LayoutFocus(back, a, u) : u \in under} : t = Join(b, a, v)
    <3> HIDE DEF out, a, down, back, under
    <3> QED
      BY <1>1, <1>2, <1>4, <2>0 DEF Workspaces, NoWorkspace
  <2>2. w \in 0..NumWorkspaces /\ under \subseteq Views /\ a \in 0..NumWorkspaces
    BY <1>2, <2>1 DEF Servers, Trees, Windows, Workspaces
  <2>3. out = f.output => out = s.view[v].output
    OBVIOUS
  <2>4. target \in {NoOutput, s.view[v].output} => out = f.output
    OBVIOUS
  <2>5. f.workspace = a => w = a
    OBVIOUS
  <2> HIDE DEF under, out, w
  <2>6. /\ g \in Windows /\ g.mapped = f.mapped /\ g.dragging = f.dragging
        /\ g.sticky = f.sticky /\ g.enabled = f.enabled
        /\ g.workspace = w /\ g.output = out
    BY <1>2, <2>1, <2>2 DEF Windows
  <2> HIDE DEF g
  <2>7. /\ back \in Servers /\ SameScreens(s, back) /\ back.act = s.act
        /\ back.focus = s.focus /\ back.layout = s.layout /\ back.view[v] = g
        /\ \A u \in Views \ {v} : back.view[u] = s.view[u]
    BY <2>6, FieldsOf
  <2>8. Redressed(f, g) => Dresses(s, back, v)
    BY <2>6, DressesFields
  <2> HIDE DEF back
  <2>9. PICK b \in {back} \cup {LayoutFocus(back, a, u) : u \in under} : t = Join(b, a, v)
    BY <2>1
  <2>10. /\ Arranges(back, b) /\ b \in Servers
         /\ LayoutOf(back, b, a, back.layout[a].held)
    <3>1. CASE b = back
      BY <2>7, <3>1 DEF Arranges, Same, SameScreens, LayoutOf
    <3>2. CASE b # back
      <4>1. PICK u \in under : b = LayoutFocus(back, a, u)
        BY <2>9, <3>2
      <4>2. a # NoWorkspace /\ u \in Views
        BY <2>1, <2>2 DEF Workspaces, NoWorkspace
      <4> QED
        BY <2>2, <2>7, <4>1, <4>2, LayoutFocusKeeps DEF Arranges
    <3> QED
      BY <3>1, <3>2
  <2>11. Arranges(b, t) /\ LayoutOf(b, t, a, b.layout[a].held \cup {v})
    BY <2>1, <2>9, <2>10, JoinAdds
  <2>12. Keeps(s, t)
    <3>1. Keeps(s, back)
      BY <2>6, <2>7 DEF Keeps, SameScreens
    <3> QED
      BY <2>10, <2>11, <3>1, ArrangesKeeps, KeepsTwice
  <2>13. ASSUME Whole(s), f.mapped, target \in {NoOutput, f.output}
         PROVE  Settles(s, t)
    <3>1. Focusable(s, v) /\ Homes(s) /\ Screens(s) /\ out = f.output
      BY <2>1, <2>4, <2>13 DEF Whole, Focusable
    <3>2. f.workspace \in Workspaces /\ f.output = s.output[f.workspace]
      BY <3>1, FocusableShown
    <3>3. a = f.workspace /\ f.workspace # NoWorkspace
      <4> DEFINE x == f.workspace
      <4>1. x \in Workspaces /\ s.output[x] = out /\ out # NoOutput
        BY <2>1, <3>1, <3>2
      <4> HIDE DEF x
      <4>2. s.active[out] = x
        BY <3>1, <4>1 DEF Screens
      <4>3. x # NoWorkspace
        BY <4>1 DEF Workspaces, NoWorkspace
      <4> QED
        BY <4>2, <4>3 DEF x
    <3>4. Dresses(s, back, v) /\ back.view[v].workspace = a
      BY <2>5, <2>6, <2>7, <2>8, <3>1, <3>3 DEF Redressed
    <3>5. Dresses(back, b, v)
      <4> DEFINE held == back.layout[back.view[v].workspace].held
      <4>1. /\ held \ {v} = back.layout[back.view[v].workspace].held \ {v}
            /\ back.view[v].workspace # NoWorkspace =>
                 LayoutOf(back, b, back.view[v].workspace, held)
            /\ back.view[v].workspace = NoWorkspace => b = back
        BY <2>10, <3>3, <3>4
      <4> HIDE DEF held
      <4> QED
        BY <2>7, <2>10, <4>1, ArrangesOwn
    <3>6. b.view[v].workspace = a
      BY <2>10, <3>4 DEF Arranges
    <3>7. Dresses(b, t, v)
      <4> DEFINE held == b.layout[b.view[v].workspace].held \cup {v}
      <4>1. /\ held \ {v} = b.layout[b.view[v].workspace].held \ {v}
            /\ b.view[v].workspace # NoWorkspace =>
                 LayoutOf(b, t, b.view[v].workspace, held)
            /\ b.view[v].workspace = NoWorkspace => t = b
        BY <2>11, <3>3, <3>6
      <4> HIDE DEF held
      <4> QED
        BY <2>10, <2>11, <4>1, ArrangesOwn
    <3>8. Dresses(s, t, v)
      BY <2>7, <3>4, <3>5, <3>7, DressesTwice
    <3> QED
      BY <2>13, <3>8, DressesSettles
  <2> QED
    BY <2>12, <2>13
<1> QED
  BY <1>3, <1>4

LEMMA EndDragStays ==
    ASSUME Live, NEW target \in connected \cup {NoOutput}, EndDrag(target)
    PROVE  Live' /\ StickyHeld /\ (Whole(Server) => SettledNext)
<1> DEFINE v == drag.view
           tile(x) == IF drag.restore_tiled THEN Retiled(x, v, target) ELSE {x}
           free(x) == [x EXCEPT !.drag = NoDrag]
           focus(x) == FocusView(free(x), v)
<1>1. /\ Server \in Servers /\ Lively(Server) /\ Server.view = view
      /\ Server.conn = connected /\ Server.output = output
      /\ Server.last = last_output /\ Server.active = active
      /\ Server.act = active_output /\ Server.views = views
      /\ Server.drag = drag /\ v # NoView
  BY DEF Live, Server, EndDrag
<1>2. v \in Views /\ view[v].mapped
  BY <1>1 DEF Servers, Lively
<1>3. target \in Outputs \cup {NoOutput}
  BY <1>1 DEF Servers
<1>4. \E x \in Dropped(Server, v, target) : \E y \in tile(x) :
        \E z \in focus(y) : \E s \in Hover(z) : Becomes(s)
  <2> DEFINE A == Dropped(Server, v, target)
             B == Then(A, tile)
             C == Then(B, focus)
  <2>1. \E s \in Then(C, Hover) : Becomes(s)
    BY DEF EndDrag
  <2>2. /\ B = UNION {tile(x) : x \in A} /\ C = UNION {focus(y) : y \in B}
        /\ Then(C, Hover) = UNION {Hover(z) : z \in C}
    BY DEF Then
  <2> HIDE DEF A, B, C, tile, focus
  <2>3. PICK s \in Then(C, Hover) : Becomes(s)
    BY <2>1
  <2>4. PICK z \in C : s \in Hover(z)
    BY <2>2, <2>3
  <2>5. PICK y \in B : z \in focus(y)
    BY <2>2
  <2>6. PICK x \in A : y \in tile(x)
    BY <2>2
  <2> QED
    BY <2>3, <2>4, <2>5, <2>6 DEF A
<1>5. PICK x \in Dropped(Server, v, target) : \E y \in tile(x) :
        \E z \in focus(y) : \E s \in Hover(z) : Becomes(s)
  BY <1>4
<1>6. PICK y \in tile(x) : \E z \in focus(y) : \E s \in Hover(z) : Becomes(s)
  BY <1>5
<1>7. PICK z \in focus(y) : \E s \in Hover(z) : Becomes(s)
  BY <1>6
<1>8. PICK s \in Hover(z) : Becomes(s)
  BY <1>7
<1> DEFINE p == free(y)
<1>9. y = x \/ y \in Retiled(x, v, target)
  BY <1>6
<1>10. z \in FocusView(p, v)
  BY <1>7
<1> HIDE DEF tile, focus, v
<1>11. /\ Keeps(Server, x)
       /\ Whole(Server) => Settles(Server, x) /\ target \in {NoOutput, x.view[v].output}
  BY <1>1, <1>2, <1>5, DroppedStays
<1>12. x \in Servers /\ x.view[v].mapped
  BY <1>1, <1>2, <1>11 DEF Keeps
<1>13. Keeps(Server, y) /\ y \in Servers
  <2>1. y = x \/ Keeps(x, y)
    BY <1>2, <1>3, <1>9, <1>12, RetiledStays
  <2>2. Keeps(Server, y)
    BY <1>11, <2>1, KeepsTwice
  <2> QED
    BY <2>2 DEF Keeps
<1>14. Regrabs(y, p) /\ p.drag = NoDrag
  <2>1. NoDrag \in [view : Views \cup {NoView}, restore_tiled : BOOLEAN]
    BY DEF NoDrag
  <2> QED
    BY <1>13, <2>1, SetDragRegrabs
<1> HIDE DEF p
<1>15. p \in Servers /\ Keeps(y, p)
  BY <1>14, RegrabsStays DEF Regrabs
<1>16. Refocuses(p, z) /\ z \in Servers
  BY <1>2, <1>10, <1>15, FocusViewRefocuses DEF Refocuses, Unmoved
<1>17. Refocuses(z, s) /\ s \in Servers
  BY <1>8, <1>16, HoverRefocuses DEF Refocuses, Unmoved
<1>18. Keeps(Server, s)
  BY <1>13, <1>15, <1>16, <1>17, RefocusesSteady, SteadyKeeps, KeepsTwice
<1>19. s.drag = NoDrag
  BY <1>14, <1>16, <1>17 DEF Refocuses, Unmoved, SameScreens
<1>20. Lively(s)
  BY <1>1, <1>18, <1>19 DEF Keeps, Lively, NoDrag
<1>21. StickyHeld
  BY <1>1, <1>8, <1>18 DEF StickyHeld, Keeps, Becomes
<1>22. ASSUME Whole(Server) PROVE SettledNext
  <2>1. Settles(Server, x) /\ target \in {NoOutput, x.view[v].output}
    BY <1>11, <1>22
  <2>2. Settles(Server, y)
    <3>1. y = x \/ Settles(x, y)
      BY <1>2, <1>3, <1>9, <1>12, <2>1, RetiledStays DEF Settles
    <3> QED
      BY <2>1, <3>1, SettlesTwice
  <2>3. Whole(p)
    BY <1>14, <2>2, RegrabsStays DEF Settles
  <2>4. Settles(p, z)
    BY <1>16, <2>3, RefocusSettles
  <2>5. Settles(z, s)
    BY <1>17, <2>4, RefocusSettles DEF Settles
  <2>6. Settles(p, s)
    BY <2>4, <2>5, SettlesTwice
  <2>7. /\ Whole(s) /\ s.conn = connected /\ s.output = output /\ s.last = last_output
        /\ s.active = active /\ s.act \in connected \cup {active_output}
    BY <1>1, <1>14, <2>2, <2>6 DEF Settles, SameScreens, Regrabs
  <2> QED
    BY <1>8, <2>7, SettledStep
<1> QED
  BY <1>8, <1>17, <1>20, <1>21, <1>22, BecomesLive

-----------------------------------------------------------------------------
(* A workspace is switched to                                              *)

LEMMA ActSet ==
    ASSUME NEW s \in Servers, NEW o \in Outputs \cup {NoOutput}
    PROVE  LET t == [s EXCEPT !.act = o] IN
           /\ t \in Servers /\ t.act = o
           /\ t.conn = s.conn /\ t.output = s.output /\ t.last = s.last
           /\ t.active = s.active /\ t.views = s.views /\ t.view = s.view
           /\ t.layout = s.layout /\ t.focus = s.focus /\ t.drag = s.drag
BY DEF Servers

\* Wherever the focus was, it is then on a window that is shown.
LEMMA FocusViewOrders ==
    ASSUME NEW s \in Servers, Homes(s), Planted(s),
           NEW wanted \in Views \cup {NoView}, NEW t \in FocusView(s, wanted)
    PROVE  Orderly(t)
<1>1. /\ Unmoved(s, t)
      /\ t.focus # NoView => Focusable(s, t.focus)
  BY FocusViewRefocuses DEF Refocuses
<1>2. t \in Servers /\ Homes(t) /\ Planted(t)
  BY <1>1, UnmovedStays
<1>3. FocusShown(t)
  BY <1>1 DEF FocusShown, Focusable, Unmoved
<1> QED
  BY <1>2, <1>3 DEF Orderly

LEMMA CurrentIs == WS!Current = Assignment(Server)
BY DEF WS!Current, Assignment, Server

\* A step after which the assignment of workspaces is that of t.
LEMMA AssignmentBecomes ==
    ASSUME NEW t, NEW a, Assignment(t) = a,
           NEW s, s.output = t.output, s.last = t.last, s.active = t.active, Becomes(s)
    PROVE  WS!Becomes(a)
BY DEF Assignment, Becomes, WS!Becomes

LEMMA SwitchWorkspaceStays ==
    ASSUME Live, NEW w \in Workspaces, SwitchWorkspace(w)
    PROVE  /\ Live' /\ StickyHeld
           /\ Whole(Server) =>
                /\ Orderly(Server)' /\ WS!Next
                /\ Screens(Server)' =>
                     focused_view' = NoView \/ view'[focused_view'].workspace = w
<1> DEFINE p == WS!Pull(Server, w, active_output)
           d == WS!Destination(p, w, active_output)
           q == WS!Open(p, w, d)
           t == Follow(Server, q, {w})
           r == [t EXCEPT !.act = d]
           wanted == t.layout[w].focus
           a == WS!Pull(Assignment(Server), w, active_output)
<1>1. /\ Server \in Servers /\ Lively(Server) /\ Server.view = view
      /\ Server.conn = connected /\ Server.output = output
      /\ Server.last = last_output /\ Server.active = active
      /\ Server.act = active_output /\ Server.views = views
  BY DEF Live, Server
<1>2. PICK s \in FocusView(r, wanted) : Becomes(s)
  BY DEF SwitchWorkspace
<1>3. active_output \in Outputs
  BY <1>1 DEF SwitchWorkspace, Servers
<1>4. Reassigns(Server, p, a) /\ d = WS!Destination(a, w, active_output)
  BY <1>1, PullAssigns
<1> HIDE DEF p, a
<1>5. p \in Servers /\ Assigns(Server, p) /\ Assignment(p) = a
  BY <1>4, ReassignsFields
<1>6. d \in Outputs
  BY <1>3, <1>5 DEF WS!Destination, Servers
<1> HIDE DEF d
<1>7. Reassigns(p, q, WS!Open(a, w, d)) /\ q.output[w] = d
  BY <1>5, <1>6, OpenAssigns
<1> HIDE DEF q
<1>8. Assigns(Server, q) /\ Assignment(q) = WS!Open(a, w, d)
  BY <1>5, <1>7, AssignsTwice, ReassignsFields
<1>9. /\ Hangs(Server, t)
      /\ t.output = q.output /\ t.last = q.last /\ t.active = q.active
      /\ Homes(Server) => Homes(t)
  BY <1>1, <1>8, FollowHangs
<1> HIDE DEF t
<1>10. t \in Servers /\ Steady(Server, t) /\ (Planted(Server) => Planted(t))
  BY <1>1, <1>9, HangsSteady DEF Hangs
<1>11. /\ r \in Servers /\ r.act = d
       /\ r.conn = t.conn /\ r.output = t.output /\ r.last = t.last
       /\ r.active = t.active /\ r.views = t.views /\ r.view = t.view
       /\ r.layout = t.layout /\ r.focus = t.focus /\ r.drag = t.drag
  BY <1>6, <1>10, ActSet
<1> HIDE DEF r
<1>12. wanted \in Views \cup {NoView}
  BY <1>10 DEF Servers, Trees
<1>13. /\ Unmoved(r, s)
       /\ \/ s.focus = NoView /\ s.act = d
          \/ /\ Focusable(r, wanted) /\ Focusable(r, s.focus)
             /\ r.view[s.focus].output = r.view[wanted].output
             /\ s.act = r.view[wanted].output
  BY <1>2, <1>11, <1>12, FocusViewRefocuses DEF Refocuses
<1>14. /\ s \in Servers /\ s.view = t.view /\ s.views = t.views /\ s.conn = t.conn
       /\ s.output = q.output /\ s.last = q.last /\ s.active = q.active
       /\ s.drag = t.drag
  BY <1>9, <1>11, <1>13 DEF Unmoved, SameScreens
<1>15. Steady(Server, s)
  BY <1>10, <1>14 DEF Steady
<1>16. Live' /\ StickyHeld
  BY <1>2, <1>15, SteadyStep
<1>17. ASSUME Whole(Server)
       PROVE  /\ Orderly(Server)' /\ WS!Next
              /\ Screens(Server)' =>
                   focused_view' = NoView \/ view'[focused_view'].workspace = w
  <2>1. Homes(r) /\ Planted(r)
    <3>1. Homes(t) /\ Planted(t)
      BY <1>9, <1>10, <1>17 DEF Whole
    <3> QED
      BY <1>11, <3>1 DEF Homes, AtHome, Planted
  <2>2. Orderly(Server)'
    BY <1>2, <1>11, <1>12, <2>1, FocusViewOrders, BecomesOrderly
  <2>3. s.focus # NoView => r.view[wanted].output = d
    <3>1. SUFFICES ASSUME s.focus # NoView PROVE r.view[wanted].output = d
      OBVIOUS
    <3>2. Focusable(r, wanted) /\ wanted # NoView /\ wanted \in Views
      BY <1>12, <1>13, <3>1 DEF Focusable
    <3>3. r.view[wanted].workspace = w
      <4>1. FocusInside(r.layout[w]) /\ \A u \in r.layout[w].held : r.view[u].workspace = w
        BY <2>1 DEF Planted
      <4>2. wanted = r.layout[w].focus
        BY <1>11
      <4> HIDE DEF wanted
      <4> QED
        BY <3>2, <4>1, <4>2 DEF FocusInside
    <3> HIDE DEF wanted
    <3> QED
      BY <1>7, <1>9, <1>11, <2>1, <3>2, <3>3, FocusableShown
  <2>4. s.act = d
    BY <1>13, <2>3 DEF Focusable
  <2>5. WS!SwitchWorkspace(w)
    <3> DEFINE b == WS!Pull(WS!Current, w, active_output)
               e == WS!Destination(b, w, active_output)
    <3>1. b = a
      BY CurrentIs DEF a
    <3>2. e = d
      BY <1>4, <3>1
    <3>3. WS!Becomes(WS!Open(a, w, d))
      BY <1>2, <1>8, <1>14, AssignmentBecomes
    <3>4. /\ active_output # NoOutput /\ w # active[active_output]
          /\ active_output' = d /\ connected' = connected
      BY <1>1, <1>2, <1>9, <1>14, <2>4 DEF SwitchWorkspace, Becomes, Hangs
    <3>5. OccupiedBy(views, view)' = OccupiedBy(views, view)
      <4>1. OccupiedBy(t.views, t.view) = OccupiedBy(views, view)
        BY <1>1, <1>9, HangsOccupied
      <4>2. views' = t.views /\ view' = t.view
        BY <1>2, <1>14 DEF Becomes
      <4> QED
        BY <4>1, <4>2
    <3> HIDE DEF b, e
    <3>6. WS!Becomes(WS!Open(b, w, e)) /\ active_output' = e
      BY <3>1, <3>2, <3>3, <3>4
    <3> QED
      BY <3>4, <3>5, <3>6 DEF WS!SwitchWorkspace, b, e
  <2>6. WS!Next
    BY <2>5, NoWorkspaceIs DEF WS!Next
  <2>7. ASSUME Screens(Server)', focused_view' # NoView
        PROVE  view'[focused_view'].workspace = w
    <3> DEFINE g == s.focus
    <3>1. g = focused_view' /\ view' = r.view /\ g # NoView
      BY <1>2, <1>11, <1>14, <2>7 DEF Becomes
    <3>2. Focusable(r, g) /\ r.view[g].output = d /\ g \in Views
      BY <1>13, <2>3, <3>1 DEF Focusable
    <3>3. r.view[g].workspace \in Workspaces /\ r.output[r.view[g].workspace] = d
      BY <1>11, <2>1, <3>2, FocusableShown
    <3>4. Server'.output = r.output
      BY <1>2, <1>9, <1>11, <1>14, BecomesServer
    <3>5. \A x \in Workspaces : r.output[x] # NoOutput =>
            Server'.active[r.output[x]] = x
      BY <2>7, <3>4 DEF Screens
    <3>6. r.output[w] = d /\ d # NoOutput
      BY <1>6, <1>7, <1>9, <1>11
    <3> QED
      BY <3>1, <3>3, <3>5, <3>6
  <2> QED
    BY <2>2, <2>6, <2>7
<1> QED
  BY <1>16, <1>17

-----------------------------------------------------------------------------
(* Outputs come                                                            *)

LEMMA OutputCreateStays ==
    ASSUME Live, NEW o \in Outputs, OutputCreate(o)
    PROVE  /\ Live' /\ StickyHeld
           /\ Whole(Server) => Orderly(Server)' /\ WS!Next
<1> DEFINE free == WS!First({x \in Workspaces : output[x] = NoOutput})
           w == IF free = NoWorkspace THEN 1 ELSE free
           tiled == {v \in Orphans : view[v].mapped}
           p == WS!SetActive(Server, o, w)
           q == WS!Show(p, w, o)
           t == Follow(Server, q, {w})
           b == WS!Show(WS!SetActive(Assignment(Server), o, w), w, o)
           adopt(v, f) == IF v \notin Orphans THEN f
                          ELSE IF v \notin tiled THEN [f EXCEPT !.output = o]
                          ELSE [f EXCEPT !.output = o, !.workspace = w, !.tiled = TRUE]
           fields == [v \in Views |-> adopt(v, t.view[v])]
           conn == t.conn \cup {o}
           act == IF t.act = NoOutput THEN o ELSE t.act
           tree(last) == [held |-> t.layout[w].held \cup tiled, focus |-> last]
           after(last) == [t EXCEPT !.conn = conn, !.view = fields,
                                    !.layout[w] = tree(last), !.act = act]
<1>1. /\ Server \in Servers /\ Lively(Server) /\ Server.view = view
      /\ Server.conn = connected /\ Server.output = output
      /\ Server.last = last_output /\ Server.active = active
      /\ Server.act = active_output /\ Server.views = views
      /\ Server.layout = layout /\ Server.focus = focused_view
  BY DEF Live, Server
<1>2. \E last \in IF tiled = {} THEN {t.layout[w].focus} ELSE tiled : Becomes(after(last))
  BY DEF OutputCreate
<1>3. w \in Workspaces /\ w # NoWorkspace
  <2>1. free \in Workspaces \cup {NoWorkspace}
    <3> DEFINE S == {x \in Workspaces : output[x] = NoOutput}
    <3>1. S \in SUBSET Workspaces
      OBVIOUS
    <3> HIDE DEF S
    <3>2. WS!First(S) \in S \cup {NoWorkspace}
      BY <3>1, FirstOf
    <3> QED
      BY <3>1, <3>2 DEF S
  <2> HIDE DEF free
  <2> QED
    BY <2>1 DEF Workspaces, NoWorkspace
<1>4. tiled \subseteq Orphans /\ Orphans \subseteq views /\ views \subseteq Views
  BY <1>1 DEF Orphans, Servers
<1>5. \A v \in tiled : view[v].mapped
  OBVIOUS
<1>6. \A v \in Orphans : view[v].output = NoOutput /\ view[v].workspace = NoWorkspace
  BY DEF Orphans
<1>7. \A v \in views : view[v].mapped /\ view[v].output = NoOutput
                         /\ view[v].workspace = NoWorkspace => v \in tiled
  BY DEF Orphans
<1> HIDE DEF w, tiled
<1>8. Reassigns(Server, p, WS!SetActive(Assignment(Server), o, w)) /\ p.output = output
  <2>1. w \in 0..NumWorkspaces
    BY <1>3 DEF Workspaces
  <2> HIDE DEF free, q, t, b, adopt, fields, conn, act, tree, after
  <2> QED
    BY <1>1, <2>1, SetActiveAssigns
<1> HIDE DEF p
<1>9. p \in Servers /\ Assignment(p) = WS!SetActive(Assignment(Server), o, w)
  BY <1>8, ReassignsFields
<1>10. Reassigns(p, q, b) /\ q.output = [output EXCEPT ![w] = o]
  BY <1>3, <1>8, <1>9, ShowAssigns
<1> HIDE DEF q
<1>11. Assigns(Server, q) /\ Assignment(q) = b
  <2> HIDE DEF b, t, adopt, fields, conn, act, tree, after
  <2>1. Reassigns(Server, q, b)
    BY <1>8, <1>10, ReassignsTwice
  <2> QED
    BY <2>1, ReassignsFields
<1>12. /\ Hangs(Server, t)
       /\ t.output = q.output /\ t.last = q.last /\ t.active = q.active
       /\ Homes(Server) => Homes(t)
  BY <1>1, <1>11, FollowHangs
<1> HIDE DEF t
<1>13. /\ t \in Servers /\ Steady(Server, t) /\ (Planted(Server) => Planted(t))
       /\ t.conn = connected /\ t.act = active_output /\ t.layout = layout
       /\ t.focus = focused_view /\ t.views = views
  BY <1>1, <1>12, HangsSteady DEF Hangs
<1>14. ASSUME NEW v \in Views
       PROVE  LET f == t.view[v]
                  g == adopt(v, f) IN
              /\ g \in Windows /\ g.mapped = f.mapped /\ g.dragging = f.dragging
              /\ g.sticky = f.sticky /\ g.enabled = f.enabled
              /\ v \notin Orphans => g = f
              /\ v \in Orphans => g.output = o
              /\ v \in Orphans \ tiled => g.workspace = f.workspace
              /\ v \in tiled => g.workspace = w
  <2> DEFINE f == t.view[v]
             g1 == [f EXCEPT !.output = o]
             g2 == [f EXCEPT !.output = o, !.workspace = w, !.tiled = TRUE]
  <2>1. f \in Windows /\ w \in 0..NumWorkspaces
    BY <1>3, <1>13 DEF Servers, Workspaces
  <2>2. /\ g1 \in Windows /\ g1.mapped = f.mapped /\ g1.dragging = f.dragging
        /\ g1.sticky = f.sticky /\ g1.enabled = f.enabled /\ g1.output = o
        /\ g1.workspace = f.workspace
    BY <2>1 DEF Windows
  <2>3. /\ g2 \in Windows /\ g2.mapped = f.mapped /\ g2.dragging = f.dragging
        /\ g2.sticky = f.sticky /\ g2.enabled = f.enabled /\ g2.output = o
        /\ g2.workspace = w
    BY <2>1 DEF Windows
  <2>4. adopt(v, f) = IF v \notin Orphans THEN f ELSE IF v \notin tiled THEN g1 ELSE g2
    OBVIOUS
  <2> HIDE DEF f, g1, g2, adopt
  <2>5. LET g == adopt(v, f) IN
        /\ g \in Windows /\ g.mapped = f.mapped /\ g.dragging = f.dragging
        /\ g.sticky = f.sticky /\ g.enabled = f.enabled
        /\ v \notin Orphans => g = f
        /\ v \in Orphans => g.output = o
        /\ v \in Orphans \ tiled => g.workspace = f.workspace
        /\ v \in tiled => g.workspace = w
    BY <1>4, <2>1, <2>2, <2>3, <2>4
  <2> QED
    BY <2>5 DEF f
<1> HIDE DEF adopt
<1>15. /\ fields \in [Views -> Windows]
       /\ \A v \in Views : fields[v] = adopt(v, t.view[v])
  BY <1>14
<1> HIDE DEF fields
<1>16. PICK last \in IF tiled = {} THEN {t.layout[w].focus} ELSE tiled :
               Becomes(after(last))
  BY <1>2
<1> DEFINE s == after(last)
           r == tree(last)
<1>17. t.layout[w] \in Trees
  BY <1>3, <1>13 DEF Servers
<1>18. /\ r \in Trees /\ r.held = layout[w].held \cup tiled /\ r.focus = last
       /\ FocusInside(layout[w]) => FocusInside(r)
  BY <1>4, <1>13, <1>16, <1>17 DEF Trees, FocusInside
<1>19. conn \in SUBSET Outputs /\ act \in Outputs \cup {NoOutput}
  BY <1>13 DEF Servers
<1>20. s = [t EXCEPT !.conn = conn, !.view = fields, !.layout[w] = r, !.act = act]
  OBVIOUS
<1>21. conn = connected \cup {o}
       /\ act = IF active_output = NoOutput THEN o ELSE active_output
  BY <1>13
<1> HIDE DEF r, conn, act, s, tree, after
<1>22. /\ s \in Servers /\ s.conn = conn /\ s.view = fields /\ s.act = act
       /\ s.layout = [layout EXCEPT ![w] = r]
       /\ s.output = t.output /\ s.last = t.last /\ s.active = t.active
       /\ s.views = t.views /\ s.focus = t.focus /\ s.drag = t.drag
  BY <1>3, <1>13, <1>15, <1>18, <1>19, <1>20 DEF Servers
<1>23. Becomes(s)
  BY <1>16 DEF s
<1>24. Steady(Server, s)
  <2>1. Steady(t, s)
    BY <1>14, <1>15, <1>22 DEF Steady
  <2> QED
    BY <1>13, <2>1, SteadyTwice
<1>25. Live' /\ StickyHeld
  BY <1>23, <1>24, SteadyStep
<1>26. \A v \in Views : Rehung(view[v], t.view[v])
  BY <1>1, <1>12 DEF Hangs
<1>27. ASSUME NEW v \in Views
       PROVE  /\ s.view[v].mapped = view[v].mapped
              /\ s.view[v].sticky = view[v].sticky
              /\ v \in tiled => s.view[v].workspace = w /\ s.view[v].output = o
              /\ v \notin tiled => s.view[v].workspace = view[v].workspace
              /\ v \notin Orphans => s.view[v] = t.view[v]
  BY <1>4, <1>14, <1>15, <1>22, <1>26 DEF Rehung
<1>28. /\ layout \in [Workspaces -> Trees] /\ output \in [Workspaces -> Outputs \cup {NoOutput}]
       /\ \A x \in Workspaces : layout[x].held \subseteq Views
  BY <1>1 DEF Servers, Trees
<1>29. s.output[w] = o /\ \A x \in Workspaces \ {w} : s.output[x] = output[x]
  BY <1>3, <1>10, <1>12, <1>22, <1>28
<1>30. ASSUME Whole(Server) PROVE Orderly(s)
  <2>1. Homes(Server) /\ Homes(t) /\ Planted(Server) /\ FocusShown(Server)
    BY <1>12, <1>30 DEF Whole
  <2>2. Homes(s)
    <3> SUFFICES ASSUME NEW v \in Views PROVE AtHome(s, v)
      BY DEF Homes
    <3>1. AtHome(Server, v) /\ AtHome(t, v)
      BY <2>1 DEF Homes
    <3>2. CASE v \in tiled
      BY <1>1, <1>3, <1>5, <1>27, <1>29, <3>1, <3>2 DEF AtHome
    <3>3. CASE v \in Orphans \ tiled
      <4>1. ~ view[v].mapped /\ view[v].workspace = NoWorkspace
        BY <1>4, <1>6, <1>7, <3>3
      <4> QED
        BY <1>1, <1>27, <3>1, <3>3, <4>1 DEF AtHome
    <3>4. CASE v \notin Orphans
      <4>1. s.view[v] = t.view[v] /\ s.output = t.output
        BY <1>22, <1>27, <3>4
      <4>2. t.view[v].mapped => t.view[v].workspace # NoWorkspace
        <5>1. view[v].mapped => v \in views
          BY <1>1 DEF Lively
        <5>2. t.view[v].mapped = view[v].mapped /\ t.view[v].workspace = view[v].workspace
          BY <1>26 DEF Rehung
        <5> QED
          BY <1>1, <1>4, <1>7, <3>1, <3>4, <5>1, <5>2 DEF AtHome
      <4> QED
        BY <3>1, <4>1, <4>2 DEF AtHome
    <3> QED
      BY <3>2, <3>3, <3>4
  <2>3. Planted(s)
    <3> SUFFICES ASSUME NEW x \in Workspaces
                 PROVE  /\ FocusInside(s.layout[x])
                        /\ \A v \in s.layout[x].held :
                             s.view[v].mapped /\ s.view[v].workspace = x
      BY DEF Planted
    <3>1. /\ FocusInside(layout[x])
          /\ \A v \in layout[x].held : view[v].mapped /\ view[v].workspace = x
      BY <1>1, <2>1 DEF Planted
    <3>2. x # NoWorkspace
      BY DEF Workspaces, NoWorkspace
    <3>3. ASSUME NEW v \in layout[x].held
          PROVE  s.view[v].mapped /\ s.view[v].workspace = x
      BY <1>4, <1>6, <1>27, <1>28, <3>1, <3>2
    <3>4. CASE x # w
      BY <1>3, <1>22, <1>28, <3>1, <3>3, <3>4
    <3>5. CASE x = w
      <4>1. s.layout[x] = r
        BY <1>3, <1>22, <1>28, <3>5
      <4>2. \A v \in tiled : s.view[v].mapped /\ s.view[v].workspace = x
        BY <1>4, <1>5, <1>27, <3>5
      <4> QED
        BY <1>18, <3>1, <3>3, <3>5, <4>1, <4>2
    <3> QED
      BY <3>4, <3>5
  <2>4. FocusShown(s)
    <3> SUFFICES ASSUME s.focus # NoView PROVE Focusable(s, s.focus)
      BY DEF FocusShown
    <3> DEFINE f == focused_view
               x == view[f].workspace
    <3>1. s.focus = f /\ Focusable(Server, f) /\ f \in Views /\ view[f].mapped
          /\ view[f].output # NoOutput
      BY <1>1, <1>13, <1>22, <2>1 DEF FocusShown, Focusable
    <3>2. x \in Workspaces /\ view[f].output = output[x] /\ x # NoWorkspace
      BY <1>1, <2>1, <3>1, FocusableShown DEF Workspaces, NoWorkspace
    <3>3. f \notin Orphans
      BY <1>6, <3>1
    <3>4. s.view[f] = t.view[f] /\ t.view[f].mapped /\ t.view[f].workspace = x
      BY <1>26, <1>27, <3>1, <3>3 DEF Rehung
    <3>5. t.view[f].output = t.output[x]
      BY <2>1, <3>1, <3>2, <3>4 DEF Homes, AtHome
    <3>6. t.output[x] # NoOutput
      BY <1>22, <1>29, <3>1, <3>2
    <3> QED
      BY <3>1, <3>4, <3>5, <3>6 DEF Focusable
  <2> QED
    BY <1>22, <2>2, <2>3, <2>4 DEF Orderly
<1>31. ASSUME Whole(Server) PROVE WS!OutputCreate(o)
  <2>1. OccupiedBy(views', view') \in {OccupiedBy(views, view),
                                       OccupiedBy(views, view) \cup {w}}
    <3> DEFINE M == {v \in views : view[v].mapped /\ ~ view[v].sticky}
    <3>1. views' = views /\ view' = s.view
      BY <1>13, <1>22, <1>23 DEF Becomes
    <3>2. {v \in views : s.view[v].mapped /\ ~ s.view[v].sticky} = M
      BY <1>4, <1>27
    <3>3. tiled \subseteq M
      <4>1. \A v \in tiled : AtHome(Server, v)
        BY <1>4, <1>31 DEF Whole, Homes
      <4> QED
        BY <1>1, <1>4, <1>5, <4>1 DEF AtHome
    <3>4. \A v \in M : /\ v \in tiled => s.view[v].workspace = w
                       /\ v \notin tiled => s.view[v].workspace = view[v].workspace
      BY <1>4, <1>27
    <3>5. \A v \in tiled : view[v].workspace = 0
      BY <1>4, <1>6 DEF NoWorkspace
    <3>6. /\ OccupiedBy(views', view') = {s.view[v].workspace : v \in M} \ {0}
          /\ OccupiedBy(views, view) = {view[v].workspace : v \in M} \ {0}
      BY <3>1, <3>2 DEF OccupiedBy
    <3>7. w # 0
      BY <1>3 DEF NoWorkspace
    <3> HIDE DEF M
    <3>8. CASE tiled = {}
      BY <3>4, <3>6, <3>8
    <3>9. CASE tiled # {}
      <4>1. {s.view[v].workspace : v \in M} \ {0}
              = ({view[v].workspace : v \in M} \ {0}) \cup {w}
        BY <3>3, <3>4, <3>5, <3>7, <3>9
      <4> QED
        BY <3>6, <4>1
    <3> QED
      BY <3>8, <3>9
  <2>2. WS!Becomes(b)
    <3>1. s.output = q.output /\ s.last = q.last /\ s.active = q.active
      BY <1>12, <1>22
    <3> QED
      BY <1>11, <1>23, <3>1, AssignmentBecomes
  <2>3. /\ o \notin connected /\ connected' = connected \cup {o}
        /\ active_output' = IF active_output = NoOutput THEN o ELSE active_output
    BY <1>21, <1>22, <1>23 DEF OutputCreate, Becomes
  <2> DEFINE z == WS!First({x \in WS!Workspaces : output[x] = NoOutput})
             y == IF z = WS!NoWorkspace THEN 1 ELSE z
  <2>4. y = w
    BY NoWorkspaceIs DEF w
  <2>5. WS!Current = Assignment(Server)
    BY CurrentIs
  <2> HIDE DEF y
  <2>6. WS!Becomes(WS!Show(WS!SetActive(WS!Current, o, y), y, o))
    BY <2>2, <2>4, <2>5
  <2>7. OccupiedBy(views, view)' \in {OccupiedBy(views, view),
                                      OccupiedBy(views, view) \cup {y}}
    BY <2>1, <2>4
  <2> QED
    BY <2>3, <2>6, <2>7 DEF WS!OutputCreate, y
<1>32. Whole(Server) => Orderly(Server)' /\ WS!Next
  <2>1. Whole(Server) => Orderly(Server)'
    BY <1>23, <1>30, BecomesOrderly
  <2>2. Whole(Server) => WS!Next
    BY <1>31 DEF WS!Next
  <2> QED
    BY <2>1, <2>2
<1> QED
  BY <1>25, <1>32

-----------------------------------------------------------------------------
(* ... and go                                                              *)

LEMMA FollowAssigns ==
    ASSUME NEW s, NEW t \in Servers, NEW shown
    PROVE  Assignment(Follow(s, t, shown)) = Assignment(t)
BY DEF Follow, Assignment, Servers

\* The workspace of the output that goes, hidden with its windows.
LEMMA HiddenHangs ==
    ASSUME NEW s \in Servers, NEW o \in Outputs
    PROVE  LET w == s.active[o]
               t == IF w = NoWorkspace THEN s ELSE Follow(s, WS!Hide(s, w), {})
               a == Assignment(s) IN
           /\ Hangs(s, t)
           /\ Assignment(t) = IF w = NoWorkspace THEN a ELSE WS!Hide(a, w)
           /\ Homes(s) => Homes(t)
           /\ w # NoWorkspace => t.output = [s.output EXCEPT ![w] = NoOutput]
<1> DEFINE w == s.active[o]
           h == WS!Hide(s, w)
           t == Follow(s, h, {})
<1>1. CASE w = NoWorkspace
  BY <1>1 DEF Hangs, Rehung, Servers
<1>2. CASE w # NoWorkspace
  <2>1. w \in Workspaces
    BY <1>2 DEF Servers, Workspaces, NoWorkspace
  <2> HIDE DEF w
  <2>2. /\ Reassigns(s, h, WS!Hide(Assignment(s), w))
        /\ h.output = [s.output EXCEPT ![w] = NoOutput]
    BY <2>1, HideAssigns
  <2> HIDE DEF h
  <2>3. h \in Servers /\ Assigns(s, h) /\ Assignment(h) = WS!Hide(Assignment(s), w)
    BY <2>2, ReassignsFields
  <2>4. Hangs(s, t) /\ t.output = h.output /\ (Homes(s) => Homes(t))
    BY <2>3, FollowHangs
  <2>5. Assignment(t) = Assignment(h)
    BY <2>3, FollowAssigns
  <2> HIDE DEF t
  <2>6. /\ Hangs(s, t)
        /\ Assignment(t) = WS!Hide(Assignment(s), w)
        /\ Homes(s) => Homes(t)
        /\ t.output = [s.output EXCEPT ![w] = NoOutput]
    BY <2>2, <2>3, <2>4, <2>5
  <2> QED
    BY <1>2, <2>6 DEF w, h, t
<1> QED
  BY <1>1, <1>2

\* The record without output o, whose workspace is hidden already.
LEMMA OutputForgotten ==
    ASSUME NEW s \in Servers, NEW o \in Outputs
    PROVE  LET t == WS!Forget(WS!SetActive(s, o, NoWorkspace), o) IN
           /\ Reassigns(s, t, WS!Forget(WS!SetActive(Assignment(s), o, NoWorkspace), o))
           /\ t.output = s.output
<1> DEFINE p == WS!SetActive(s, o, NoWorkspace)
           a == WS!SetActive(Assignment(s), o, NoWorkspace)
           t == WS!Forget(p, o)
<1>1. NoWorkspace \in 0..NumWorkspaces
  BY NumWorkspacesAssumption DEF NoWorkspace
<1>2. Reassigns(s, p, a) /\ p.output = s.output
  BY <1>1, SetActiveAssigns
<1> HIDE DEF p, a
<1>3. p \in Servers /\ Assignment(p) = a
  BY <1>2, ReassignsFields
<1>4. Reassigns(p, t, WS!Forget(a, o)) /\ t.output = p.output
  BY <1>3, ForgetAssigns
<1> HIDE DEF t
<1>5. Reassigns(s, t, WS!Forget(a, o)) /\ t.output = s.output
  BY <1>2, <1>4, ReassignsTwice
<1> QED
  BY <1>5 DEF t, p, a

LEMMA OutputDestroyStays ==
    ASSUME Live, NEW o \in Outputs, OutputDestroy(o)
    PROVE  /\ Live' /\ StickyHeld
           /\ Whole(Server) => Orderly(Server)' /\ WS!Next
<1> DEFINE w == active[o]
           hidden == IF w = NoWorkspace THEN Server
                     ELSE Follow(Server, WS!Hide(Server, w), {})
           gone == WS!Forget(WS!SetActive(hidden, o, NoWorkspace), o)
           left == connected \ {o}
           refocus(s, fallback) ==
             IF s.focus # NoView /\ s.view[s.focus].output \in {NoOutput, o}
             THEN FocusView(s, FocusedOn(s, fallback)) ELSE {s}
           act(fallback) == IF gone.act = o THEN fallback ELSE gone.act
           h == IF w = NoWorkspace THEN Assignment(Server)
                ELSE WS!Hide(Assignment(Server), w)
           a == WS!Forget(WS!SetActive(h, o, NoWorkspace), o)
<1>1. /\ Server \in Servers /\ Lively(Server) /\ Server.view = view
      /\ Server.conn = connected /\ Server.output = output
      /\ Server.last = last_output /\ Server.active = active
      /\ Server.act = active_output /\ Server.views = views
      /\ Server.layout = layout /\ Server.focus = focused_view
  BY DEF Live, Server
<1>2. /\ o \in connected
      /\ \E fallback \in IF left = {} THEN {NoOutput} ELSE left :
           \E s \in refocus([gone EXCEPT !.act = act(fallback)], fallback) :
             Becomes([s EXCEPT !.conn = left])
  BY Zenon DEF OutputDestroy
<1>3. /\ Hangs(Server, hidden) /\ Assignment(hidden) = h
      /\ Homes(Server) => Homes(hidden)
      /\ w # NoWorkspace => hidden.output = [output EXCEPT ![w] = NoOutput]
  <2> HIDE DEF left, act, refocus, gone, a
  <2> DEFINE x == Server.active[o]
             without(y) == IF y = NoWorkspace THEN Server
                           ELSE Follow(Server, WS!Hide(Server, y), {})
  <2>1. Server \in Servers /\ w = x
    BY <1>1
  <2>2. /\ Hangs(Server, without(x))
        /\ Assignment(without(x)) = IF x = NoWorkspace THEN Assignment(Server)
                                    ELSE WS!Hide(Assignment(Server), x)
        /\ Homes(Server) => Homes(without(x))
        /\ x # NoWorkspace => without(x).output = [Server.output EXCEPT ![x] = NoOutput]
    BY <2>1, HiddenHangs
  <2> HIDE DEF w, x
  <2> QED
    BY <1>1, <2>1, <2>2
<1> HIDE DEF hidden, h
<1>4. /\ hidden \in Servers /\ Steady(Server, hidden)
      /\ Planted(Server) => Planted(hidden)
      /\ \A v \in Views : Rehung(view[v], hidden.view[v])
      /\ hidden.conn = connected /\ hidden.act = active_output
      /\ hidden.focus = focused_view
  BY <1>1, <1>3, HangsSteady DEF Hangs
<1>5. Reassigns(hidden, gone, a) /\ gone.output = hidden.output
  <2> HIDE DEF left, act, refocus
  <2> QED
    BY <1>3, <1>4, OutputForgotten
<1> HIDE DEF gone, a
<1>6. /\ gone \in Servers /\ Assignment(gone) = a /\ Assigns(hidden, gone)
  BY <1>5, ReassignsFields
<1>7. PICK fallback \in IF left = {} THEN {NoOutput} ELSE left :
             \E s \in refocus([gone EXCEPT !.act = act(fallback)], fallback) :
               Becomes([s EXCEPT !.conn = left])
  BY <1>2
<1> DEFINE r == [gone EXCEPT !.act = act(fallback)]
<1>8. PICK s \in refocus(r, fallback) : Becomes([s EXCEPT !.conn = left])
  BY <1>7
<1>9. left \in SUBSET Outputs /\ fallback \in Outputs \cup {NoOutput}
  BY <1>1 DEF Servers
<1>10. act(fallback) \in Outputs \cup {NoOutput}
  BY <1>6, <1>9 DEF Servers
<1>11. act(fallback) = IF active_output = o THEN fallback ELSE active_output
  BY <1>4, <1>6 DEF Assigns
<1> HIDE DEF act
<1>12. /\ r \in Servers /\ r.act = act(fallback)
       /\ r.conn = gone.conn /\ r.output = gone.output /\ r.last = gone.last
       /\ r.active = gone.active /\ r.views = gone.views /\ r.view = gone.view
       /\ r.layout = gone.layout /\ r.focus = gone.focus /\ r.drag = gone.drag
  BY <1>6, <1>10, ActSet
<1> HIDE DEF r
<1>13. /\ r.conn = connected /\ r.views = hidden.views /\ r.view = hidden.view
       /\ r.layout = hidden.layout /\ r.focus = focused_view
       /\ r.drag = hidden.drag /\ r.output = hidden.output
  BY <1>4, <1>5, <1>6, <1>12 DEF Assigns
<1> DEFINE wanted == FocusedOn(r, fallback)
<1>14. wanted \in Views \cup {NoView}
  BY <1>9, <1>12, FocusedOnIsView
<1> HIDE DEF wanted
<1>15. /\ Unmoved(r, s)
       /\ \/ s = r /\ (focused_view # NoView =>
                         r.view[focused_view].output \notin {NoOutput, o})
          \/ /\ s \in FocusView(r, wanted)
             /\ \/ s.act = r.act
                \/ wanted # NoView /\ Focusable(r, wanted) /\ s.act = r.view[wanted].output
  <2>1. CASE r.focus # NoView /\ r.view[r.focus].output \in {NoOutput, o}
    <3>1. s \in FocusView(r, wanted)
      BY <1>8, <2>1 DEF wanted
    <3> QED
      BY <1>12, <1>14, <3>1, FocusViewRefocuses DEF Refocuses
  <2>2. CASE ~ (r.focus # NoView /\ r.view[r.focus].output \in {NoOutput, o})
    <3>1. s = r
      BY <1>8, <2>2
    <3> QED
      BY <1>12, <1>13, <2>2, <3>1 DEF Unmoved, SameScreens
  <2> QED
    BY <2>1, <2>2
<1> HIDE DEF refocus, left
<1>16. /\ s \in Servers /\ s.conn = connected /\ s.views = hidden.views
       /\ s.view = hidden.view /\ s.drag = hidden.drag
       /\ s.output = gone.output /\ s.last = gone.last /\ s.active = gone.active
  BY <1>5, <1>12, <1>13, <1>15 DEF Unmoved, SameScreens
<1> DEFINE z == [s EXCEPT !.conn = left]
<1>17. /\ z \in Servers /\ z.conn = left /\ z.views = s.views /\ z.view = s.view
       /\ z.drag = s.drag /\ z.output = s.output /\ z.last = s.last
       /\ z.active = s.active /\ z.act = s.act /\ z.layout = s.layout
       /\ z.focus = s.focus
  BY <1>9, <1>16 DEF Servers
<1>18. Becomes(z)
  BY <1>8
<1> HIDE DEF z
<1>19. Live' /\ StickyHeld
  <2>1. Steady(Server, z)
    BY <1>4, <1>16, <1>17 DEF Steady
  <2> QED
    BY <1>18, <2>1, SteadyStep
<1>20. ASSUME Whole(Server)
       PROVE  Orderly(z)
  <2>1. Homes(r) /\ Planted(r)
    <3>1. Homes(hidden) /\ Planted(hidden)
      BY <1>3, <1>4, <1>20 DEF Whole
    <3> QED
      BY <1>4, <1>13, <3>1 DEF Homes, AtHome, Planted
  <2>2. Orderly(s)
    <3>1. CASE s \in FocusView(r, wanted)
      BY <1>12, <1>14, <2>1, <3>1, FocusViewOrders
    <3>2. CASE s = r /\ (focused_view # NoView =>
                           r.view[focused_view].output \notin {NoOutput, o})
      <4>1. FocusShown(r)
        BY <1>1, <1>4, <1>13, <1>20, <3>2 DEF Whole, FocusShown, Focusable, Rehung
      <4> QED
        BY <1>12, <2>1, <3>2, <4>1 DEF Orderly
    <3> QED
      BY <1>15, <3>1, <3>2
  <2>3. Homes(z)
    <3> SUFFICES ASSUME NEW v \in Views PROVE AtHome(z, v)
      BY DEF Homes
    <3>1. AtHome(s, v) /\ AtHome(Server, v)
      BY <1>20, <2>2 DEF Orderly, Whole, Homes
    <3>2. s.view[v].mapped => s.view[v].workspace # NoWorkspace
      BY <1>1, <1>2, <1>4, <1>16, <3>1 DEF AtHome, Rehung
    <3> QED
      BY <1>17, <3>1, <3>2 DEF AtHome
  <2>4. Planted(z) /\ FocusShown(z)
    BY <1>17, <2>2 DEF Orderly, Planted, FocusShown, Focusable
  <2> QED
    BY <1>17, <2>3, <2>4 DEF Orderly
<1>21. ASSUME Whole(Server)
       PROVE  WS!OutputDestroy(o)
  <2>1. w \in Workspaces /\ w # NoWorkspace
    BY <1>1, <1>2, <1>21 DEF Whole, Screens, Workspaces, NoWorkspace
  <2>2. /\ z.act \in IF left = {} THEN {NoOutput} ELSE (left \cup {active_output}) \ {o}
    <3>1. connected \subseteq Outputs /\ NoOutput \notin connected
      BY <1>1 DEF Servers
    <3>2. active_output \in connected
      BY <1>1, <1>2, <1>21 DEF Whole, Screens
    <3>3. r.act \in IF left = {} THEN {NoOutput} ELSE (left \cup {active_output}) \ {o}
      BY <1>2, <1>11, <1>12, <3>1, <3>2 DEF left
    <3>4. ASSUME wanted # NoView, Focusable(r, wanted)
          PROVE  r.view[wanted].output \in left
      <4> DEFINE x == r.view[wanted].workspace
      <4>1. Homes(r)
        <5>1. Homes(hidden)
          BY <1>3, <1>21 DEF Whole
        <5> QED
          BY <1>4, <1>13, <5>1 DEF Homes, AtHome
      <4>2. x \in Workspaces /\ r.view[wanted].output = r.output[x]
            /\ r.output[x] # NoOutput
        BY <1>12, <3>4, <4>1, FocusableShown DEF Focusable
      <4> HIDE DEF x
      <4>3. output \in [Workspaces -> Outputs \cup {NoOutput}]
        BY <1>1 DEF Servers
      <4>4. x # w /\ r.output[x] = output[x]
        BY <1>3, <1>13, <2>1, <4>2, <4>3
      <4>5. output[x] \in connected /\ active[output[x]] = x
        BY <1>1, <1>21, <4>2, <4>4 DEF Whole, Screens
      <4> QED
        BY <1>1, <4>2, <4>4, <4>5 DEF left
    <3> QED
      BY <1>15, <1>17, <3>1, <3>3, <3>4 DEF left
  <2>3. OccupiedBy(views, view)' = OccupiedBy(views, view)
    <3>1. OccupiedBy(hidden.views, hidden.view) = OccupiedBy(views, view)
      BY <1>1, <1>3, HangsOccupied
    <3>2. views' = hidden.views /\ view' = hidden.view
      BY <1>16, <1>17, <1>18 DEF Becomes
    <3> QED
      BY <3>1, <3>2
  <2>4. WS!Becomes(a)
    BY <1>6, <1>16, <1>17, <1>18, AssignmentBecomes
  <2>5. connected' = left /\ active_output' = z.act
    BY <1>17, <1>18 DEF Becomes
  <2> DEFINE k == IF active[o] = WS!NoWorkspace THEN WS!Current
                  ELSE WS!Hide(WS!Current, active[o])
  <2>6. k = h /\ WS!NoWorkspace = NoWorkspace
    BY <1>1, CurrentIs, NoWorkspaceIs DEF h
  <2> HIDE DEF k
  <2>7. WS!Becomes(WS!Forget(WS!SetActive(k, o, WS!NoWorkspace), o))
    BY <2>4, <2>6 DEF a
  <2>8. WS!FallBack(o, left)
    BY <2>2, <2>5 DEF WS!FallBack
  <2> QED
    BY <1>2, <2>3, <2>5, <2>7, <2>8 DEF WS!OutputDestroy, k, left
<1>22. Whole(Server) => Orderly(Server)' /\ WS!Next
  <2>1. Whole(Server) => Orderly(Server)'
    BY <1>18, <1>20, BecomesOrderly
  <2>2. Whole(Server) => WS!Next
    BY <1>21 DEF WS!Next
  <2> QED
    BY <2>1, <2>2
<1> QED
  BY <1>19, <1>22

-----------------------------------------------------------------------------
(* Every step                                                              *)

\* What a step keeps while no window is sticky, but for the screens.
OrderlyNext == Orderly(Server)' /\ WS!Next

LEMMA SettledIsOrderly == SettledNext => OrderlyNext
BY DEF SettledNext, OrderlyNext, Whole, Orderly, WS!Next

LEMMA WindowStays ==
    ASSUME Live, NEW v \in Views, WindowNext(v)
    PROVE  Live' /\ StickyHeld /\ (NeverSticky /\ Timely /\ Whole(Server) => OrderlyNext)
<1>1. CASE Create(v)
  BY <1>1, CreateStays, SettledIsOrderly
<1>2. CASE Unmap(v)
  BY <1>2, UnmapStays, SettledIsOrderly
<1>3. CASE Destroy(v)
  BY <1>3, DestroyStays DEF OrderlyNext
<1>4. CASE SetAppId(v)
  BY <1>4, SetAppIdStays
<1>5. CASE RequestFullscreen(v)
  BY <1>5, RequestFullscreenStays, SettledIsOrderly
<1>6. CASE Activate(v)
  BY <1>6, ActivateStays, SettledIsOrderly
<1>7. ASSUME NEW rules \in RuleLists, NEW transient \in BOOLEAN, NEW fullscreen \in BOOLEAN,
             NEW sticky \in IF v \in StickyApps THEN BOOLEAN ELSE {FALSE},
             MapXdg(v, transient, rules, fullscreen, sticky)
      PROVE  Live' /\ StickyHeld /\ (NeverSticky /\ Timely /\ Whole(Server) => OrderlyNext)
  <2>1. NeverSticky => NoStickyRule(rules) /\ ~ sticky
    BY DEF NeverSticky
  <2> QED
    BY <1>7, <2>1, MapXdgStays, SettledIsOrderly
<1>8. ASSUME NEW rules \in RuleLists, NEW transient \in BOOLEAN,
             MapXwayland(v, transient, rules)
      PROVE  Live' /\ StickyHeld /\ (NeverSticky /\ Timely /\ Whole(Server) => OrderlyNext)
  <2>1. NeverSticky => NoStickyRule(rules)
    BY DEF NeverSticky
  <2> QED
    BY <1>8, <2>1, MapXwaylandStays, SettledIsOrderly
<1> QED
  BY <1>1, <1>2, <1>3, <1>4, <1>5, <1>6, <1>7, <1>8 DEF WindowNext

LEMMA KeyStays ==
    ASSUME Live, KeyNext
    PROVE  Live' /\ StickyHeld /\ (Whole(Server) => OrderlyNext)
<1>1. ASSUME NEW w \in Workspaces, SwitchWorkspace(w)
      PROVE  Live' /\ StickyHeld /\ (Whole(Server) => OrderlyNext)
  BY <1>1, SwitchWorkspaceStays DEF OrderlyNext
<1>2. CASE FocusDirection
  BY <1>2, FocusDirectionStays, SettledIsOrderly
<1>3. ASSUME NEW v \in Views, ToggleFloating(v)
      PROVE  Live' /\ StickyHeld /\ (Whole(Server) => OrderlyNext)
  BY <1>3, ToggleFloatingStays, SettledIsOrderly
<1>4. ASSUME NEW v \in Views, CenterView(v)
      PROVE  Live' /\ StickyHeld /\ (Whole(Server) => OrderlyNext)
  BY <1>4, CenterViewStays, SettledIsOrderly
<1>5. ASSUME NEW v \in Views, MoveDirection(v)
      PROVE  Live' /\ StickyHeld /\ (Whole(Server) => OrderlyNext)
  BY <1>5, MoveDirectionStays, SettledIsOrderly
<1>6. ASSUME NEW v \in Views, MoveOutputDirection(v)
      PROVE  Live' /\ StickyHeld /\ (Whole(Server) => OrderlyNext)
  BY <1>6, MoveOutputDirectionStays, SettledIsOrderly
<1> QED
  BY <1>1, <1>2, <1>3, <1>4, <1>5, <1>6 DEF KeyNext

LEMMA PointerStays ==
    ASSUME Live, PointerNext
    PROVE  Live' /\ StickyHeld /\ (Whole(Server) => OrderlyNext)
<1>1. CASE MovePointer
  BY <1>1, MovePointerStays, SettledIsOrderly
<1>2. ASSUME NEW v \in Views, NEW move \in BOOLEAN, StartDrag(v, move)
      PROVE  Live' /\ StickyHeld /\ (Whole(Server) => OrderlyNext)
  BY <1>2, StartDragStays, SettledIsOrderly
<1>3. ASSUME NEW o \in connected \cup {NoOutput}, EndDrag(o)
      PROVE  Live' /\ StickyHeld /\ (Whole(Server) => OrderlyNext)
  BY <1>3, EndDragStays, SettledIsOrderly
<1> QED
  BY <1>1, <1>2, <1>3 DEF PointerNext

LEMMA OutputStays ==
    ASSUME Live, OutputNext
    PROVE  Live' /\ StickyHeld /\ (Whole(Server) => OrderlyNext)
BY OutputCreateStays, OutputDestroyStays DEF OutputNext, OrderlyNext

LEMMA NextStays ==
    ASSUME Live, Next
    PROVE  Live' /\ StickyHeld /\ (NeverSticky /\ Timely /\ Whole(Server) => OrderlyNext)
<1>1. CASE FocusSurface \/ SurfaceDestroyed
  BY <1>1, FocusSurfaceStays, SurfaceDestroyedStays, SettledIsOrderly
<1> QED
  BY <1>1, WindowStays, KeyStays, PointerStays, OutputStays DEF Next

LEMMA InitLive == Init => Live
<1>1. SUFFICES ASSUME Init PROVE Live
  OBVIOUS
<1>2. Fresh \in Windows /\ ~ Fresh.mapped
  BY FreshFields
<1>3. /\ connected = {} /\ output = [w \in Workspaces |-> NoOutput]
      /\ last_output = [w \in Workspaces |-> NoOutput]
      /\ active = [o \in Outputs |-> NoWorkspace] /\ active_output = NoOutput
      /\ views = {} /\ view = [v \in Views |-> Fresh] /\ focused_view = NoView
      /\ layout = [w \in Workspaces |-> [held |-> {}, focus |-> NoView]]
      /\ drag = [view |-> NoView, restore_tiled |-> FALSE]
      /\ NoWorkspace \in 0..NumWorkspaces
  BY <1>1, NoWorkspaceIs DEF Init, WS!Init, NoDrag, NoWorkspace
<1>4. OccupiedBy(views, view) = {}
  BY <1>3 DEF OccupiedBy
<1>5. Server \in Servers
  BY <1>2, <1>3, <1>4 DEF Server, Servers, Trees
<1>6. Lively(Server)
  BY <1>2, <1>3 DEF Server, Lively
<1> QED
  BY <1>5, <1>6 DEF Live

\* Nothing happens.
LEMMA StutterServer ==
    ASSUME UNCHANGED vars
    PROVE  Server' = Server
BY DEF vars, Server

-----------------------------------------------------------------------------
(* Whatever the rules are                                                  *)

LEMMA LiveInductive == Live /\ [Next]_vars => Live'
<1>1. Live /\ UNCHANGED vars => Live'
  BY StutterServer DEF Live, Lively
<1> QED
  BY <1>1, NextStays

LEMMA LiveAlways == Spec => []Live
BY InitLive, LiveInductive, PTL DEF Spec

\* Every field of the server holds what its type promises.
THEOREM ServerTypes == Spec => []TypeOK
<1>1. Live => TypeOK
  <2>1. SUFFICES ASSUME Live PROVE TypeOK
    OBVIOUS
  <2>2. Server \in Servers
    BY <2>1 DEF Live
  <2>3. /\ connected \in SUBSET Outputs
        /\ output \in [Workspaces -> Outputs \cup {NoOutput}]
        /\ last_output \in [Workspaces -> Outputs \cup {NoOutput}]
        /\ active \in [Outputs -> 0..NumWorkspaces]
        /\ active_output \in Outputs \cup {NoOutput}
        /\ OccupiedBy(views, view) \in SUBSET Workspaces
        /\ views \in SUBSET Views /\ view \in [Views -> Windows]
        /\ layout \in [Workspaces -> Trees] /\ focused_view \in Views \cup {NoView}
        /\ drag \in [view : Views \cup {NoView}, restore_tiled : BOOLEAN]
    BY <2>2 DEF Server, Servers
  <2>4. WS!Workspaces \cup {WS!NoWorkspace} = 0..NumWorkspaces
    BY NoWorkspaceIs DEF Workspaces, NoWorkspace
  <2>5. WS!TypeOK
    BY <2>3, <2>4, NoWorkspaceIs DEF WS!TypeOK, WS!Current, WS!Assignments
  <2> QED
    BY <2>3, <2>5 DEF TypeOK, Windows, Trees
<1> QED
  BY <1>1, LiveAlways, PTL

\* The window that is dragged is there, mapped and knows it.
THEOREM DragAlwaysLive == Spec => []DragIsLive
<1>1. Live => DragIsLive
  BY DEF Live, Lively, DragIsLive, Server, Servers
<1> QED
  BY <1>1, LiveAlways, PTL

\* No step hides a sticky window that stays mapped.
THEOREM StickyAlwaysShown == Spec => StickyStaysShown
<1>1. Live /\ Next => StickyHeld
  BY NextStays
<1>2. Live /\ StickyHeld =>
        \A v \in views :
          view[v].sticky /\ view[v].mapped /\ view[v].enabled /\ view'[v].mapped
          => view'[v].enabled
  BY DEF Live, Server, Servers, StickyHeld
<1>3. Live /\ [Next]_vars =>
        [\A v \in views :
           view[v].sticky /\ view[v].mapped /\ view[v].enabled /\ view'[v].mapped
           => view'[v].enabled]_vars
  BY <1>1, <1>2
<1> QED
  BY <1>3, LiveAlways, PTL DEF Spec, StickyStaysShown

-----------------------------------------------------------------------------
(* While no window is sticky                                               *)

\* The inductive invariant: the windows are whole, and so is the assignment of
\* workspaces to outputs, which remembers where hidden ones were as well.
Sound == Live /\ Whole(Server) /\ WP!IInv

\* The steps of Workspaces are the steps that its proofs are about.
LEMMA SameHelpers ==
    /\ WS!NoWorkspace = WP!NoWorkspace /\ WS!Workspaces = WP!Workspaces
    /\ WS!Current = WP!Current
    /\ \A S : WS!First(S) = WP!First(S)
    /\ \A s, w, o : WS!Show(s, w, o) = WP!Show(s, w, o)
    /\ \A s, w : WS!Hide(s, w) = WP!Hide(s, w)
    /\ \A s, w, o : WS!SetActive(s, o, w) = WP!SetActive(s, o, w)
<1>1. WS!NoWorkspace = WP!NoWorkspace /\ WS!Workspaces = WP!Workspaces
  BY DEF WS!NoWorkspace, WP!NoWorkspace, WS!Workspaces, WP!Workspaces
<1>2. WS!Current = WP!Current
  BY DEF WS!Current, WP!Current
<1>3. ASSUME NEW S PROVE WS!First(S) = WP!First(S)
  BY <1>1 DEF WS!First, WP!First
<1>4. ASSUME NEW s, NEW w PROVE WS!Hide(s, w) = WP!Hide(s, w)
  BY DEF WS!Hide, WP!Hide
<1>5. ASSUME NEW s, NEW w, NEW o PROVE WS!Show(s, w, o) = WP!Show(s, w, o)
  BY DEF WS!Show, WP!Show
<1>6. ASSUME NEW s, NEW w, NEW o PROVE WS!SetActive(s, o, w) = WP!SetActive(s, o, w)
  BY DEF WS!SetActive, WP!SetActive
<1> QED
  BY <1>1, <1>2, <1>3, <1>4, <1>5, <1>6

LEMMA SameWithdraw ==
    ASSUME NEW s, NEW w
    PROVE  WS!Withdraw(s, w) = WP!Withdraw(s, w)
<1>1. ASSUME NEW t PROVE WS!Replacement(t, w) = WP!Replacement(t, w)
  <2>1. WS!Workspaces = WP!Workspaces
    BY SameHelpers
  <2> DEFINE S == {v \in WS!Workspaces \ {w} : t.output[v] = NoOutput}
             T == {v \in WP!Workspaces \ {w} : t.output[v] = NoOutput}
  <2>2. S = T
    BY <2>1
  <2> HIDE DEF S, T
  <2>3. /\ WS!Replacement(t, w) = WS!First(IF S \ t.occ # {} THEN S \ t.occ ELSE S)
        /\ WP!Replacement(t, w) = WP!First(IF T \ t.occ # {} THEN T \ t.occ ELSE T)
    BY DEF WS!Replacement, WP!Replacement, S, T
  <2> QED
    BY <2>2, <2>3, SameHelpers
<1> DEFINE h == [WS!Hide(s, w) EXCEPT !.last[w] = NoOutput]
           k == [WP!Hide(s, w) EXCEPT !.last[w] = NoOutput]
           old == s.output[w]
           n == WS!Replacement(h, w)
           m == WP!Replacement(k, w)
           f == WS!SetActive(h, old, n)
           g == WP!SetActive(k, old, m)
<1>2. WS!Hide(s, w) = WP!Hide(s, w)
  BY SameHelpers
<1>3. h = k
  BY <1>2
<1>4. WS!Withdraw(s, w) = IF s.active[old] # w THEN h
                          ELSE IF n = WS!NoWorkspace THEN f ELSE WS!Show(f, n, old)
  BY DEF WS!Withdraw
<1>5. WP!Withdraw(s, w) = IF s.active[old] # w THEN k
                          ELSE IF m = WP!NoWorkspace THEN g ELSE WP!Show(g, m, old)
  BY DEF WP!Withdraw
<1> HIDE DEF h, k
<1>6. n = m
  BY <1>1, <1>3
<1> HIDE DEF n, m
<1>7. f = g
  BY <1>3, <1>6, SameHelpers
<1> HIDE DEF f, g
<1> QED
  BY <1>3, <1>4, <1>5, <1>6, <1>7, SameHelpers

LEMMA SameOpen ==
    ASSUME NEW s, NEW w, NEW o
    PROVE  /\ WS!Pull(s, w, o) = WP!Pull(s, w, o)
           /\ WS!Destination(s, w, o) = WP!Destination(s, w, o)
           /\ WS!Open(s, w, o) = WP!Open(s, w, o)
<1>1. WS!Pull(s, w, o) = WP!Pull(s, w, o)
  BY SameWithdraw DEF WS!Pull, WP!Pull
<1>2. WS!Destination(s, w, o) = WP!Destination(s, w, o)
  BY DEF WS!Destination, WP!Destination
<1> DEFINE shown == s.active[o]
           c == IF shown \in {WS!NoWorkspace, w} THEN s ELSE WS!Hide(s, shown)
           d == IF shown \in {WP!NoWorkspace, w} THEN s ELSE WP!Hide(s, shown)
<1>3. /\ WS!Open(s, w, o) = WS!Show(WS!SetActive(c, o, w), w, o)
      /\ WP!Open(s, w, o) = WP!Show(WP!SetActive(d, o, w), w, o)
  BY DEF WS!Open, WP!Open
<1>4. c = d
  BY SameHelpers
<1> HIDE DEF c, d
<1>5. WS!Open(s, w, o) = WP!Open(s, w, o)
  BY <1>3, <1>4, SameHelpers
<1> QED
  BY <1>1, <1>2, <1>5

LEMMA SameBecomes ==
    ASSUME NEW s
    PROVE  WS!Becomes(s) <=> WP!Becomes(s)
BY DEF WS!Becomes, WP!Becomes

LEMMA SameSwitch ==
    ASSUME NEW w, WS!SwitchWorkspace(w)
    PROVE  WP!SwitchWorkspace(w)
<1> DEFINE s == WS!Pull(WS!Current, w, active_output)
           r == WP!Pull(WP!Current, w, active_output)
           d == WS!Destination(s, w, active_output)
           e == WP!Destination(r, w, active_output)
<1>1. s = r
  BY SameHelpers, SameOpen
<1>2. /\ active_output # NoOutput /\ w # active[active_output]
      /\ WS!Becomes(WS!Open(s, w, d)) /\ active_output' = d
      /\ UNCHANGED <<connected, OccupiedBy(views, view)>>
  BY DEF WS!SwitchWorkspace
<1>3. /\ active_output # NoOutput /\ w # active[active_output]
      /\ WP!Becomes(WP!Open(r, w, e)) /\ active_output' = e
      /\ UNCHANGED <<connected, OccupiedBy(views, view)>>
      => WP!SwitchWorkspace(w)
  BY DEF WP!SwitchWorkspace
<1> HIDE DEF s, r
<1>4. d = e
  BY <1>1, SameOpen
<1> HIDE DEF d, e
<1>5. WS!Open(s, w, d) = WP!Open(r, w, e)
  BY <1>1, <1>4, SameOpen
<1>6. WP!Becomes(WP!Open(r, w, e))
  BY <1>2, <1>5, SameBecomes
<1> QED
  BY <1>2, <1>3, <1>4, <1>6

LEMMA SameRelease ==
    ASSUME NEW w, WS!ReleaseIfEmpty(w)
    PROVE  WP!ReleaseIfEmpty(w)
<1> DEFINE occ == OccupiedBy(views, view)
           s == [WS!Current EXCEPT !.occ = occ']
           r == [WP!Current EXCEPT !.occ = occ']
<1>1. /\ output[w] # NoOutput /\ occ' = occ \ {w}
      /\ WS!Becomes(WS!Withdraw(s, w))
      /\ active_output' \in connected \cup {active_output}
      /\ connected' = connected
  BY DEF WS!ReleaseIfEmpty
<1>2. /\ output[w] # NoOutput /\ occ' = occ \ {w}
      /\ WP!Becomes(WP!Withdraw(r, w))
      /\ active_output' \in connected \cup {active_output}
      /\ connected' = connected
      => WP!ReleaseIfEmpty(w)
  BY DEF WP!ReleaseIfEmpty
<1>3. s = r
  BY SameHelpers
<1> HIDE DEF s, r
<1>4. WS!Withdraw(s, w) = WP!Withdraw(r, w)
  BY <1>3, SameWithdraw
<1>5. WP!Becomes(WP!Withdraw(r, w))
  BY <1>1, <1>4, SameBecomes
<1> QED
  BY <1>1, <1>2, <1>5

LEMMA SameCreate ==
    ASSUME NEW o, WS!OutputCreate(o)
    PROVE  WP!OutputCreate(o)
<1> DEFINE occ == OccupiedBy(views, view)
           x == WS!First({w \in WS!Workspaces : output[w] = NoOutput})
           y == WP!First({w \in WP!Workspaces : output[w] = NoOutput})
           v == IF x = WS!NoWorkspace THEN 1 ELSE x
           w == IF y = WP!NoWorkspace THEN 1 ELSE y
           s == WS!Show(WS!SetActive(WS!Current, o, v), v, o)
           r == WP!Show(WP!SetActive(WP!Current, o, w), w, o)
<1>1. /\ o \notin connected /\ connected' = connected \cup {o}
      /\ WS!Becomes(s)
      /\ active_output' = IF active_output = NoOutput THEN o ELSE active_output
      /\ occ' \in {occ, occ \cup {v}}
  BY DEF WS!OutputCreate
<1>2. /\ o \notin connected /\ connected' = connected \cup {o}
      /\ WP!Becomes(r)
      /\ active_output' = IF active_output = NoOutput THEN o ELSE active_output
      /\ occ' \in {occ, occ \cup {w}}
      => WP!OutputCreate(o)
  BY DEF WP!OutputCreate
<1>3. x = y
  BY SameHelpers
<1> HIDE DEF x, y
<1>4. v = w
  BY <1>3, SameHelpers
<1> HIDE DEF v, w
<1>5. s = r
  BY <1>4, SameHelpers
<1> HIDE DEF s, r
<1>6. WP!Becomes(r)
  BY <1>1, <1>5, SameBecomes
<1> QED
  BY <1>1, <1>2, <1>4, <1>6

LEMMA SameDestroy ==
    ASSUME NEW o, WS!OutputDestroy(o)
    PROVE  WP!OutputDestroy(o)
<1> DEFINE occ == OccupiedBy(views, view)
           left == connected \ {o}
           s == IF active[o] = WS!NoWorkspace THEN WS!Current
                ELSE WS!Hide(WS!Current, active[o])
           r == IF active[o] = WP!NoWorkspace THEN WP!Current
                ELSE WP!Hide(WP!Current, active[o])
           t == WS!Forget(WS!SetActive(s, o, WS!NoWorkspace), o)
           u == WP!Forget(WP!SetActive(r, o, WP!NoWorkspace), o)
<1>1. /\ o \in connected /\ connected' = left /\ WS!Becomes(t)
      /\ WS!FallBack(o, left) /\ occ' = occ
  BY DEF WS!OutputDestroy
<1>2. /\ o \in connected /\ connected' = left /\ WP!Becomes(u)
      /\ WP!FallBack(o, left) /\ occ' = occ
      => WP!OutputDestroy(o)
  BY DEF WP!OutputDestroy
<1>3. s = r
  BY SameHelpers
<1> HIDE DEF s, r
<1>4. t = u
  <2>1. ASSUME NEW q PROVE WS!Forget(q, o) = WP!Forget(q, o)
    BY SameHelpers DEF WS!Forget, WP!Forget
  <2> QED
    BY <1>3, <2>1, SameHelpers
<1> HIDE DEF t, u
<1>5. WP!Becomes(u)
  BY <1>1, <1>4, SameBecomes
<1>6. WP!FallBack(o, left)
  BY <1>1 DEF WS!FallBack, WP!FallBack
<1> QED
  BY <1>1, <1>2, <1>5, <1>6

LEMMA SameNext == WS!Next => WP!Next
<1>1. WS!ViewsChange => WP!ViewsChange
  BY SameHelpers DEF WS!ViewsChange, WP!ViewsChange, WS!assignment, WP!assignment
<1> QED
  BY <1>1, SameHelpers, SameSwitch, SameRelease, SameCreate, SameDestroy
     DEF WS!Next, WP!Next

LEMMA ScreensAgree == WP!IInv => Screens(Server)
BY NoWorkspaceIs DEF WP!IInv, WP!Good, WP!Current, WP!NoWorkspace, WP!Workspaces,
   Screens, Server, Workspaces, NoWorkspace

LEMMA AssignmentInv ==
    ASSUME WS!EnoughWorkspaces, WP!IInv, WS!Next
    PROVE  WP!IInv'
<1>1. WP!EnoughWorkspaces
  <2>1. WS!Cardinality(Outputs) = WP!Cardinality(Outputs)
    BY DEF WS!Cardinality, WP!Cardinality
  <2> QED
    BY <2>1 DEF WS!EnoughWorkspaces, WP!EnoughWorkspaces
<1>2. [WP!Next]_WP!vars
  BY SameNext
<1>3. WP!IsFiniteSet(Outputs) /\ NoOutput \notin Outputs
  BY DEF WP!IsFiniteSet, IsFiniteSet
<1> QED
  BY <1>1, <1>2, <1>3, WP!NextInv

LEMMA InitSound == Init => Sound
<1>1. SUFFICES ASSUME Init PROVE Sound
  OBVIOUS
<1>2. /\ connected = {} /\ output = [w \in Workspaces |-> NoOutput]
      /\ last_output = [w \in Workspaces |-> NoOutput]
      /\ active = [o \in Outputs |-> NoWorkspace] /\ active_output = NoOutput
      /\ views = {} /\ view = [v \in Views |-> Fresh] /\ focused_view = NoView
      /\ layout = [w \in Workspaces |-> [held |-> {}, focus |-> NoView]]
  BY <1>1, NoWorkspaceIs DEF Init, WS!Init
<1>3. Live
  BY <1>1, InitLive
<1>4. WP!IInv
  <2>1. OccupiedBy(views, view) = {}
    BY <1>2 DEF OccupiedBy
  <2>2. WP!Workspaces = Workspaces /\ WP!NoWorkspace = NoWorkspace
    BY NoWorkspaceIs, SameHelpers
  <2> QED
    BY <1>2, <2>1, <2>2, NumWorkspacesAssumption
       DEF WP!IInv, WP!TypeOK, WP!Good, WP!Current, WP!Assignments
<1>5. Homes(Server)
  BY <1>2 DEF Server, Homes, AtHome, Fresh, NoWorkspace
<1>6. Planted(Server) /\ FocusShown(Server)
  BY <1>2 DEF Server, Planted, FocusShown, FocusInside
<1> QED
  BY <1>3, <1>4, <1>5, <1>6, ScreensAgree DEF Sound, Live, Whole

LEMMA SoundNext ==
    ASSUME WS!EnoughWorkspaces, NeverSticky, Sound, Next, Timely
    PROVE  /\ Sound' /\ WS!Next
           /\ \A w \in Workspaces : SwitchWorkspace(w) =>
                focused_view' = NoView \/ view'[focused_view'].workspace = w
<1>1. Live /\ Whole(Server) /\ WP!IInv
  BY DEF Sound
<1>2. Live' /\ Orderly(Server)' /\ WS!Next
  BY <1>1, NextStays DEF OrderlyNext
<1>3. WP!IInv'
  BY <1>1, <1>2, AssignmentInv
<1>4. Screens(Server)'
  BY <1>3, ScreensAgree, PTL
<1>5. Whole(Server)'
  BY <1>2, <1>4 DEF Orderly, Whole
<1>6. \A w \in Workspaces : SwitchWorkspace(w) =>
        focused_view' = NoView \/ view'[focused_view'].workspace = w
  BY <1>1, <1>4, SwitchWorkspaceStays
<1> QED
  BY <1>2, <1>3, <1>5, <1>6 DEF Sound

LEMMA SoundStutters == Sound /\ UNCHANGED vars => Sound' /\ UNCHANGED WS!vars
<1>1. SUFFICES ASSUME Sound, UNCHANGED vars PROVE Sound' /\ UNCHANGED WS!vars
  OBVIOUS
<1>2. UNCHANGED WS!vars
  BY <1>1 DEF vars, WS!vars
<1>3. Live' /\ Whole(Server)'
  <2>1. Live /\ Whole(Server)
    BY <1>1 DEF Sound
  <2>2. Server' = Server
    BY <1>1, StutterServer
  <2>3. Server' \in Servers /\ Lively(Server')
    BY <2>1, <2>2 DEF Live
  <2>4. Whole(Server')
    BY <2>1, <2>2
  <2> QED
    BY <2>3, <2>4 DEF Live
<1>4. WP!IInv'
  BY <1>1 DEF Sound, vars, WP!IInv, WP!TypeOK, WP!Current
<1> QED
  BY <1>2, <1>3, <1>4 DEF Sound

LEMMA SoundAlways ==
    ASSUME WS!EnoughWorkspaces, NeverSticky
    PROVE  TimelySpec => []Sound
<1>1. Sound /\ [Next /\ Timely]_vars => Sound'
  BY SoundNext, SoundStutters
<1> QED
  BY <1>1, InitSound, PTL DEF TimelySpec

\* Whatever the windows do, the outputs and workspaces do what Workspaces says.
THEOREM WindowsKeepWorkspaces ==
    ASSUME WS!EnoughWorkspaces, NeverSticky
    PROVE  TimelySpec => ImplementsWorkspaces
<1>1. Init => WS!Init
  BY DEF Init
<1>2. Sound /\ [Next /\ Timely]_vars => [WS!Next]_WS!vars
  BY SoundNext, SoundStutters
<1> QED
  BY <1>1, <1>2, SoundAlways, PTL DEF TimelySpec, ImplementsWorkspaces, WS!Spec

\* A mapped window is on the output that shows its workspace.
THEOREM WindowsOnTheirOutput ==
    ASSUME WS!EnoughWorkspaces, NeverSticky
    PROVE  TimelySpec => []WindowOnItsOutput
<1>1. Sound => WindowOnItsOutput
  BY DEF Sound, Live, Whole, Homes, AtHome, Server, Servers, WindowOnItsOutput
<1> QED
  BY <1>1, SoundAlways, PTL

\* A layout holds live, mapped windows of its workspace.
THEOREM LayoutsHoldTheirWindows ==
    ASSUME WS!EnoughWorkspaces, NeverSticky
    PROVE  TimelySpec => []LayoutHoldsItsWindows
<1>1. Sound => LayoutHoldsItsWindows
  <2>1. SUFFICES ASSUME Sound PROVE LayoutHoldsItsWindows
    OBVIOUS
  <2>2. \A w \in Workspaces : layout[w].held \subseteq Views
    BY <2>1 DEF Sound, Live, Server, Servers, Trees
  <2>3. \A w \in Workspaces : \A v \in layout[w].held :
          view[v].mapped /\ view[v].workspace = w
    BY <2>1 DEF Sound, Whole, Planted, Server
  <2>4. \A v \in Views : view[v].mapped => v \in views
    BY <2>1 DEF Sound, Live, Lively, Server
  <2> QED
    BY <2>2, <2>3, <2>4 DEF LayoutHoldsItsWindows
<1> QED
  BY <1>1, SoundAlways, PTL

\* No mapped window waits for a workspace while there is an output.
THEOREM NoneEverLeftWaiting ==
    ASSUME WS!EnoughWorkspaces, NeverSticky
    PROVE  TimelySpec => []NoneLeftWaiting
<1>1. Sound => NoneLeftWaiting
  BY DEF Sound, Live, Whole, Homes, AtHome, Server, Servers, NoneLeftWaiting
<1> QED
  BY <1>1, SoundAlways, PTL

\* A workspace is only ever on an output that is connected: nothing but a
\* sticky window, or one that maps on an unplugged output, takes it elsewhere.
THEOREM VisibleBelongsInTime ==
    ASSUME WS!EnoughWorkspaces, NeverSticky
    PROVE  TimelySpec => []VisibleBelongs
<1>1. Sound => VisibleBelongs
  BY DEF Sound, Whole, Screens, Server, VisibleBelongs
<1> QED
  BY <1>1, SoundAlways, PTL

\* The window with the focus is there, mapped, and on the connected output that
\* shows its workspace.
THEOREM FocusAlwaysShown ==
    ASSUME WS!EnoughWorkspaces, NeverSticky
    PROVE  TimelySpec => []FocusIsShown
<1>1. Sound => FocusIsShown
  <2>1. SUFFICES ASSUME Sound, focused_view # NoView PROVE FocusIsShown
    BY DEF FocusIsShown
  <2> DEFINE f == focused_view
  <2>2. Server.view = view /\ Server.conn = connected /\ Server.output = output
        /\ Server.views = views /\ Server.focus = f
    BY DEF Server
  <2>3. Server \in Servers /\ Homes(Server) /\ Screens(Server) /\ Lively(Server)
        /\ Focusable(Server, f)
    BY <2>1, <2>2 DEF Sound, Live, Whole, FocusShown
  <2>4. f \in Views /\ view[f].mapped /\ view[f].output # NoOutput /\ f \in views
    BY <2>2, <2>3 DEF Focusable, Lively
  <2>5. view[f].workspace \in Workspaces /\ view[f].output = output[view[f].workspace]
    BY <2>2, <2>3, <2>4, FocusableShown
  <2>6. view[f].workspace # NoWorkspace
    BY <2>5 DEF Workspaces, NoWorkspace
  <2>7. view[f].output \in connected
    BY <2>2, <2>3, <2>4, <2>5 DEF Screens
  <2> QED
    BY <2>4, <2>5, <2>6, <2>7 DEF FocusIsShown
<1> QED
  BY <1>1, SoundAlways, PTL

\* A switch gives the focus to a window of the workspace it switched to, or to
\* none.
THEOREM SwitchesFocusInside ==
    ASSUME WS!EnoughWorkspaces, NeverSticky
    PROVE  TimelySpec => SwitchFocusesInside
<1>1. Sound /\ [Next /\ Timely]_vars =>
        [\A w \in Workspaces : SwitchWorkspace(w) =>
           focused_view' = NoView \/ view'[focused_view'].workspace = w]_vars
  BY SoundNext
<1> QED
  BY <1>1, SoundAlways, PTL DEF TimelySpec, SwitchFocusesInside
=============================================================================
