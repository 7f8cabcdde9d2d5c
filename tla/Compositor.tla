----------------------------- MODULE Compositor -----------------------------
(***************************************************************************)
(* The windows of the compositor: how they map, tile, float, go full       *)
(* screen, stick, are dragged, change workspace and output, take the focus *)
(* and vanish (src/view.c, src/server.c, src/input.c), on top of the       *)
(* workspaces and outputs of Workspaces.  wyoWM is one thread around an    *)
(* event loop: a handler runs to its end, but clients, keys, the pointer,  *)
(* hotplug and IPC interleave in any order, and every handler updates by   *)
(* hand what several others rely on.                                       *)
(*                                                                         *)
(* A handler is a chain of calls on one server record s: an operator of    *)
(* this module takes s to the record it leaves, or to the set of those it  *)
(* may leave where the code decides on geometry, on the order of a list or *)
(* on the shape of a layout tree.  A layout is what Layout promises: the   *)
(* views it holds and the one it focuses.  Memory does not run out here.   *)
(***************************************************************************)
EXTENDS Integers, Sequences, FiniteSets

CONSTANTS Views, NoView,             \* windows, and the NULL View pointer
          Xwayland,                  \* those of X11 clients
          Outputs, NoOutput, NumWorkspaces,
          Arrangements,              \* where clients and rules put the outputs
          RuleLists,                 \* the window rules that may match one
          StickyApps                 \* those whose app_id may be "sticky"

\* What parse_window_rule lets through, and the workspace of the rules that
\* have one.
Rules == [action : {"float", "tile", "sticky", "fullscreen", "center", "workspace"},
          arg : 0..NumWorkspaces]

ASSUME NumWorkspacesAssumption == NumWorkspaces \in Nat \ {0}
ASSUME OutputsAssumption == IsFiniteSet(Outputs) /\ NoOutput \notin Outputs
ASSUME RulesAssumption ==
    \A rules \in RuleLists :
      /\ rules \in Seq(Rules)
      /\ \A i \in 1..Len(rules) : rules[i].action = "workspace" => rules[i].arg # 0
ASSUME ViewsAssumption == NoView \notin Views /\ Xwayland \subseteq Views
ASSUME StickyAssumption == StickyApps \subseteq Views \ Xwayland

VARIABLES connected, output, last_output, active, active_output,
          views,           \* server->views
          view,            \* the fields of every View
          layout,          \* the views each workspace's tree holds
          focused_view,    \* Server.focused_view
          drag             \* Server.drag

vars == <<connected, output, last_output, active, active_output, views, view,
          layout, focused_view, drag>>

\* The workspaces that hold a mapped view that is not sticky.
OccupiedBy(vs, fields) ==
    {fields[v].workspace : v \in {u \in vs : fields[u].mapped /\ ~ fields[u].sticky}} \ {0}

WS == INSTANCE Workspaces WITH occupied <- OccupiedBy(views, view)

Workspaces == 1..NumWorkspaces
NoWorkspace == 0

\* workspace_empty, for every workspace.
Occupied(s) == OccupiedBy(s.views, s.view)

Server ==
    [conn |-> connected, output |-> output, last |-> last_output, active |-> active,
     act |-> active_output, occ |-> OccupiedBy(views, view), views |-> views,
     view |-> view, layout |-> layout, focus |-> focused_view, drag |-> drag]

Becomes(s) ==
    /\ connected' = s.conn /\ output' = s.output /\ last_output' = s.last
    /\ active' = s.active /\ active_output' = s.act
    /\ views' = s.views /\ view' = s.view /\ layout' = s.layout
    /\ focused_view' = s.focus /\ drag' = s.drag

\* A call that may end in several ways, and what is then done in each.
Then(S, Do(_)) == UNION {Do(s) : s \in S}

\* calloc
Fresh == [mapped |-> FALSE, workspace |-> NoWorkspace, output |-> NoOutput,
          tiled |-> FALSE, floating |-> FALSE, fullscreen |-> FALSE,
          saved_tiled |-> FALSE, dragging |-> FALSE, sticky |-> FALSE,
          enabled |-> TRUE]

NoDrag == [view |-> NoView, restore_tiled |-> FALSE]
-----------------------------------------------------------------------------
(* Layouts                                                                 *)

\* dwindle_add_view
Join(s, w, v) ==
    IF v \in s.layout[w].held THEN s
    ELSE [s EXCEPT !.layout[w] = [held |-> @.held \cup {v}, focus |-> v]]

\* dwindle_focus
LayoutFocus(s, w, v) ==
    IF w = NoWorkspace \/ v \notin s.layout[w].held THEN s
    ELSE [s EXCEPT !.layout[w].focus = v]

\* dwindle_remove_view.  Which leaf takes the focus depends on the tree.
Leave(s, w, v) ==
    LET held == s.layout[w].held \ {v} IN
    IF v \notin s.layout[w].held THEN {s}
    ELSE {[s EXCEPT !.layout[w] = [held |-> held, focus |-> heir]] :
            heir \in IF s.layout[w].focus # v THEN {s.layout[w].focus}
                     ELSE IF held = {} THEN {NoView} ELSE held}

\* dwindle_place_view, for a view that is not in the layout.
Place(s, w, v, under) == Join(LayoutFocus(s, w, under), w, v)

\* workspace_remove_view and dwindle_remove_view, where there is a workspace.
LeaveOwn(s, v) ==
    IF s.view[v].workspace = NoWorkspace THEN {s}
    ELSE Leave(s, s.view[v].workspace, v)

\* A tiled view leaves the tree of its workspace.
Untile(s, v) ==
    IF s.view[v].tiled /\ s.view[v].workspace # NoWorkspace
    THEN {[t EXCEPT !.view[v].tiled = FALSE] : t \in LeaveOwn(s, v)}
    ELSE {s}

\* A view joins the tree of workspace w.
Tile(s, w, v) == [Join(s, w, v) EXCEPT !.view[v].tiled = TRUE]
-----------------------------------------------------------------------------
(* Focus                                                                   *)

\* output_fullscreen_view: the newest such view; NoView if there is none.
FullscreenOn(s, o) ==
    LET fs == {v \in s.views : /\ s.view[v].output = o
                               /\ s.view[v].mapped
                               /\ s.view[v].fullscreen
                               /\ s.view[v].enabled}
    IN  IF fs = {} THEN {NoView} ELSE fs

\* Mutant of FocusView: does not look whether the view has an output.
FocusViewAnywhere(s, wanted) ==
    IF wanted = NoView \/ ~ s.view[wanted].mapped THEN {[s EXCEPT !.focus = NoView]}
    ELSE {[LayoutFocus(s, s.view[wanted].workspace, wanted) EXCEPT
             !.act = s.view[wanted].output, !.focus = wanted]}

\* server_focus_view: a full-screen view takes the focus of its whole output;
\* a view without an output takes it from everybody.
FocusView(s, wanted) ==
    LET none == [s EXCEPT !.focus = NoView]
        onto(v) == [LayoutFocus(s, s.view[v].workspace, v) EXCEPT
                      !.act = s.view[v].output, !.focus = v]
    IN  IF \/ wanted = NoView
           \/ ~ s.view[wanted].mapped
           \/ s.view[wanted].output = NoOutput
        THEN {none}
        ELSE {onto(IF fs = NoView THEN wanted ELSE fs) :
                fs \in FullscreenOn(s, s.view[wanted].output)}

\* The view that the layout of the workspace on output o focuses.
FocusedOn(s, o) ==
    IF o = NoOutput \/ s.active[o] = NoWorkspace THEN NoView
    ELSE s.layout[s.active[o]].focus

\* process_cursor: the pointer rests on the surface of a view or on one that
\* is not a view's; on the box of a view; or on the background.  The active
\* output follows the pointer except over a surface.
Hover(s) ==
    LET over(t, v) == IF t.focus = v THEN {t} ELSE FocusView(t, v)
        surfaces == {v \in s.views : s.view[v].mapped /\ s.view[v].enabled}
        boxes == {v \in s.views : /\ s.view[v].mapped /\ ~ s.view[v].fullscreen
                                  /\ s.view[v].output # NoOutput}
        crossed == {[s EXCEPT !.act = o] : o \in s.conn \cup {s.act}}
    IN  {s} \cup Then(surfaces, LAMBDA v : over(s, v))
            \cup Then(crossed, LAMBDA t : FocusView(t, NoView))
            \cup Then(crossed, LAMBDA t : Then(boxes, LAMBDA v : over(t, v)))
-----------------------------------------------------------------------------
(* Windows and workspaces                                                  *)

\* Mutants of HideView: a full-screen window is left alone; a sticky one is
\* hidden.
HideViewUnlessFull(f, o) ==
    IF f.output # o \/ ~ f.mapped \/ f.sticky \/ f.fullscreen THEN f
    ELSE [f EXCEPT !.output = NoOutput, !.enabled = FALSE]
HideViewSticky(f, o) ==
    IF f.output # o \/ ~ f.mapped THEN f
    ELSE [f EXCEPT !.output = NoOutput, !.enabled = FALSE]

\* workspace_hide, for a window of the workspace that output o showed.
HideView(f, o) ==
    IF f.output # o \/ ~ f.mapped \/ f.sticky THEN f
    ELSE [f EXCEPT !.output = NoOutput, !.enabled = FALSE]

\* workspace_show, for a window of the workspace that output o now shows.
ShowView(f, o) == IF ~ f.mapped \/ f.sticky THEN f
                  ELSE [f EXCEPT !.output = o, !.enabled = TRUE]

\* The windows follow their workspaces: t is s with the new assignment, and the
\* workspaces in shown were shown again where they were.
Follow(s, t, shown) ==
    LET up(w) == w \in shown \/ t.output[w] \notin {NoOutput, s.output[w]}
        new(f) ==
          LET w == f.workspace IN
          IF w = NoWorkspace \/ (t.output[w] = s.output[w] /\ w \notin shown) THEN f
          ELSE IF up(w) THEN ShowView(f, t.output[w])
          ELSE HideView(f, s.output[w])
    IN  [t EXCEPT !.view = [v \in Views |-> new(s.view[v])]]

\* server_release_workspace_if_empty
Release(s, w) ==
    LET now == [s EXCEPT !.occ = Occupied(s)] IN
    IF s.output[w] = NoOutput \/ w \in now.occ THEN s
    ELSE Follow(s, WS!Withdraw(now, w), {})

\* view_toggle_fullscreen
ToggleFullscreen(s, v) ==
    LET f == s.view[v]
        on(t) == [t EXCEPT !.view[v].fullscreen = TRUE,
                           !.view[v].saved_tiled = f.tiled]
        off == [s EXCEPT !.view[v].fullscreen = FALSE,
                         !.view[v].saved_tiled = FALSE]
    IN  IF f.output = NoOutput THEN {s}
        ELSE IF f.fullscreen
        THEN {IF f.saved_tiled /\ ~ f.tiled /\ f.workspace # NoWorkspace
              THEN Tile(off, f.workspace, v) ELSE off}
        ELSE IF f.mapped THEN {on(t) : t \in Untile(s, v)}
        ELSE {s}

\* view_center
Center(s, v) ==
    LET f == s.view[v] IN
    IF f.output = NoOutput \/ f.fullscreen \/ ~ f.tiled \/ f.workspace = NoWorkspace
    THEN {s}
    ELSE {[t EXCEPT !.view[v].floating = TRUE] : t \in Untile(s, v)}

\* A window that is on every workspace belongs to none, and floats.
Stuck(f) == [f EXCEPT !.sticky = TRUE, !.floating = TRUE, !.workspace = NoWorkspace]

\* view_apply_window_rules, for one rule that matches.
ApplyRule(s, v, rule) ==
    LET f == s.view[v]
        moved(g, w, o) == [g EXCEPT !.floating = FALSE, !.sticky = FALSE,
                                    !.workspace = w, !.output = o,
                                    !.enabled = @ /\ o # NoOutput]
    IN
    CASE rule.action = "float" ->
           {[t EXCEPT !.view[v].floating = TRUE] : t \in Untile(s, v)}
      [] rule.action = "tile" ->
           {IF f.floating /\ f.workspace # NoWorkspace
            THEN [Tile(s, f.workspace, v) EXCEPT !.view[v].floating = FALSE]
            ELSE s}
      [] rule.action = "sticky" ->
           {[t EXCEPT !.view[v] = Stuck(@)] :
              t \in Then(Untile(s, v), LAMBDA u : LeaveOwn(u, v))}
      [] rule.action = "fullscreen" ->
           IF f.fullscreen THEN {s} ELSE ToggleFullscreen(s, v)
      [] rule.action = "center" -> Center(s, v)
      [] rule.action = "workspace" /\ f.workspace = rule.arg -> {s}
      [] rule.action = "workspace" /\ f.workspace # rule.arg ->
           {[Tile(t, rule.arg, v) EXCEPT
               !.view[v] = moved(@, rule.arg, t.output[rule.arg])] :
              t \in LeaveOwn(s, v)}

ApplyRules(s, v, rules) ==
    LET after[i \in 0..Len(rules)] ==
          IF i = 0 THEN {s}
          ELSE Then(after[i - 1], LAMBDA t : ApplyRule(t, v, rules[i]))
    IN  after[Len(rules)]

\* check_sticky, when the app_id of the view is in the list.
CheckSticky(s, v) ==
    IF s.view[v].sticky \/ v \in Xwayland THEN {s}
    ELSE {[t EXCEPT !.view[v] = Stuck(@)] : t \in LeaveOwn(s, v)}

\* The output of a window that has none: the active one, else the one under
\* the pointer, else the first.
Adopted(s, v) ==
    LET o == IF s.act # NoOutput THEN {s.act}
             ELSE IF s.conn # {} THEN s.conn ELSE {NoOutput}
    IN  IF s.view[v].output # NoOutput THEN {s}
        ELSE {[s EXCEPT !.view[v].output = p] : p \in o}

\* server_view_mapped, for a sticky view.
StickyMapped(s, v) ==
    LET free == [s EXCEPT !.view[v] = Stuck(@)]
    IN  Then(Adopted(free, v), LAMBDA t : FocusView(t, v))

\* server_view_mapped, for any other: where it belongs.
Placed(s, v) ==
    LET home(t) ==
          LET f == t.view[v]
              w == IF f.workspace = NoWorkspace /\ f.output # NoOutput
                   THEN t.active[f.output] ELSE f.workspace
              o == IF w # NoWorkspace /\ t.output[w] # NoOutput
                   THEN t.output[w] ELSE f.output
          IN  [t EXCEPT !.view[v] = [@ EXCEPT !.workspace = w, !.output = o]]
    IN  {home(t) : t \in IF s.view[v].workspace = NoWorkspace THEN Adopted(s, v) ELSE {s}}

\* ... and how it opens.
Managed(s, v, transient, rules) ==
    LET f == s.view[v]
        fresh == ~ (f.tiled \/ f.floating \/ f.fullscreen \/ f.dragging)
        shown(g, o) == [g EXCEPT !.output = o, !.enabled = @ /\ o # NoOutput]
        opened == IF ~ fresh THEN s
                  ELSE IF transient THEN [s EXCEPT !.view[v].floating = TRUE]
                  ELSE [Tile(s, f.workspace, v) EXCEPT
                          !.view[v] = shown(@, s.output[f.workspace])]
        focused(t) == IF t.view[v].output = NoOutput THEN {t} ELSE FocusView(t, v)
    IN  IF f.workspace = NoWorkspace \/ f.output = NoOutput THEN {s}
        ELSE Then(ApplyRules(opened, v, rules), focused)

ViewMapped(s, v, transient, rules) ==
    IF s.view[v].sticky THEN StickyMapped(s, v)
    ELSE Then(Placed(s, v), LAMBDA t : Managed(t, v, transient, rules))
-----------------------------------------------------------------------------
(* Windows come and go                                                     *)

\* No handler asks whether the View.output it follows still exists, nor whether
\* a tree other than its own holds the view it frees.  What was freed is read as
\* it was left: an output that shows no workspace (output_destroy wrote NULL
\* there), a view as calloc gives it; or, when the address is used again, as
\* what was put there (OutputCreate, Create).

\* view_create_xdg, view_create_xwayland
Create(v) ==
    /\ v \notin views
    /\ views' = views \cup {v}
    /\ view' = [view EXCEPT ![v] = Fresh]
    /\ UNCHANGED <<connected, output, last_output, active, active_output,
                   layout, focused_view, drag>>

\* handle_map: an XDG window asks to be full screen or not, and may be one of
\* the sticky apps.
MapXdg(v, transient, rules, fullscreen, sticky) ==
    LET up == [Server EXCEPT !.view[v] = [@ EXCEPT !.mapped = TRUE, !.enabled = TRUE]]
        full(s) == IF fullscreen /\ ~ s.view[v].fullscreen
                   THEN ToggleFullscreen(s, v) ELSE {s}
        stick(s) == IF sticky THEN CheckSticky(s, v) ELSE {s}
    IN  /\ v \in views \ Xwayland
        /\ ~ view[v].mapped
        /\ \E s \in Then(Then(ViewMapped(up, v, transient, rules), full), stick) :
             Becomes(s)

\* handle_xwayland_map
MapXwayland(v, transient, rules) ==
    /\ v \in views \cap Xwayland
    /\ ~ view[v].mapped
    /\ \E s \in ViewMapped([Server EXCEPT !.view[v].mapped = TRUE], v, transient, rules) :
         Becomes(s)

\* Mutant of CancelDrag: the drag goes on.
CancelDragNot(s, v) == s

\* A drag ends when its view goes, wherever it was dragged to.
CancelDrag(s, v) == IF s.drag.view = v THEN [s EXCEPT !.drag = NoDrag] ELSE s

\* Mutant of PassFocus: the focus stays.
PassFocusNot(s, v, next) == {s}

\* The focus goes from v to next, or else to where the active output is.
PassFocus(s, v, next) ==
    IF s.focus # v THEN {s}
    ELSE FocusView(s, IF next # NoView THEN next ELSE FocusedOn(s, s.act))

\* handle_unmap and handle_xwayland_unmap, with server_view_unmapped: the
\* window keeps its workspace.
Unmap(v) ==
    LET f == view[v]
        xdg == v \notin Xwayland /\ f.fullscreen
        gone == [f EXCEPT !.mapped = FALSE, !.output = NoOutput, !.tiled = FALSE,
                          !.fullscreen = @ /\ ~ xdg, !.saved_tiled = @ /\ ~ xdg]
        down == [CancelDrag(Server, v) EXCEPT !.view[v] = gone]
        next(s) == IF f.workspace = NoWorkspace \/ s.output[f.workspace] = NoOutput
                   THEN NoView ELSE s.layout[f.workspace].focus
    IN  /\ v \in views
        /\ f.mapped
        /\ \E s \in Then(LeaveOwn(down, v), LAMBDA t : PassFocus(t, v, next(t))) :
             Becomes(s)

\* view_destroy with server_view_destroyed.  wlroots unmaps a window first.
Destroy(v) ==
    LET w == view[v].workspace
        left(s) == [s EXCEPT !.view[v] = Fresh]
        done(s) == LET next == IF w = NoWorkspace THEN NoView ELSE s.layout[w].focus
                       r == IF w = NoWorkspace THEN left(s) ELSE Release(left(s), w)
                   IN  PassFocus(r, v, next)
    IN  /\ v \in views
        /\ ~ view[v].mapped
        /\ \E s \in Then(LeaveOwn(CancelDrag(Server, v), v), done) :
             Becomes([s EXCEPT !.views = @ \ {v}])

\* handle_set_app_id: the app_id changes to one of the sticky apps.
SetAppId(v) ==
    /\ v \in views \cap StickyApps
    /\ \E s \in CheckSticky(Server, v) : Becomes(s)

\* handle_request_fullscreen and handle_xwayland_request_fullscreen
RequestFullscreen(v) ==
    /\ v \in views /\ view[v].mapped
    /\ \E s \in ToggleFullscreen(Server, v) : Becomes(s)

\* handle_foreign_activate and handle_xwayland_request_activate; with
\* xdg-activation a full-screen view cannot be covered, which FocusView sees to.
Activate(v) ==
    /\ v \in views /\ view[v].mapped
    /\ \E s \in FocusView(Server, v) : Becomes(s)

\* server_focus_surface: a layer surface takes the keyboard from the windows.
FocusSurface == Becomes([Server EXCEPT !.focus = NoView])

\* handle_focused_surface_destroy: it gives it back.  Which surface has it is
\* not kept, so this may happen whenever no window has the focus.
SurfaceDestroyed ==
    /\ focused_view = NoView
    /\ \E s \in FocusView(Server, FocusedOn(Server, active_output)) : Becomes(s)
-----------------------------------------------------------------------------
(* Keys and commands                                                       *)

\* server_switch_workspace
SwitchWorkspace(w) ==
    LET p == WS!Pull(Server, w, active_output)
        d == WS!Destination(p, w, active_output)
        t == Follow(Server, WS!Open(p, w, d), {w})
    IN  /\ active_output # NoOutput
        /\ w # active[active_output]
        /\ \E s \in FocusView([t EXCEPT !.act = d], t.layout[w].focus) : Becomes(s)

\* ACTION_TOGGLE_FLOATING.  It does nothing to a window that has no output,
\* and the focused window has one (FocusIsShown).
ToggleFloating(v) ==
    LET f == view[v]
        tiled == f.tiled /\ f.workspace # NoWorkspace
        down == [Server EXCEPT !.view[v].floating = FALSE]
    IN  /\ focused_view = v
        /\ ~ f.fullscreen
        /\ \/ /\ tiled
              /\ \E s \in Untile(Server, v) :
                   Becomes([s EXCEPT !.view[v].floating = TRUE])
           \/ /\ ~ tiled
              /\ f.floating
              /\ Becomes(IF f.workspace = NoWorkspace THEN down
                         ELSE Tile(down, f.workspace, v))

\* ACTION_TOGGLE_FULLSCREEN is RequestFullscreen.  ACTION_CENTER:
CenterView(v) ==
    /\ focused_view = v
    /\ \E s \in Center(Server, v) : Becomes(s)

\* find_output_in_direction: the nearest of the outputs that lie that way of
\* the current one and pass the test of overlap the code makes for it.
find_output_in_direction(place, current, dir) ==
    LET c == place[current]
        gap(o) == LET b == place[o] IN
                  CASE dir = "left"  -> c.x - (b.x + b.w)
                    [] dir = "down"  -> b.y - (c.y + c.h)
                    [] dir = "up"    -> c.y - (b.y + b.h)
                    [] dir = "right" -> b.x - (c.x + c.w)
        h_overlap(b) == b.y < c.y + c.h /\ b.y + b.h > c.y
        v_overlap(b) == b.x < c.x + c.w /\ b.x + b.w > c.x
        there == {o \in connected \ {current} :
                    /\ gap(o) >= 0
                    /\ IF dir \in {"left", "up"} THEN h_overlap(place[o])
                                                ELSE v_overlap(place[o])}
    IN  {o \in there : \A p \in there : gap(o) <= gap(p)}

\* Outputs are moved about at any time (handle_output_manager_apply, a
\* reload).  An output that is gone is not followed.
Beside(current) ==
    IF current \notin connected THEN {}
    ELSE UNION {find_output_in_direction(place, current, dir) :
                  place \in Arrangements, dir \in {"left", "down", "up", "right"}}

\* focus_output_direction, to the output that lies there.
FocusOutput(s, o) ==
    IF FocusedOn(s, o) # NoView THEN FocusView(s, FocusedOn(s, o))
    ELSE FocusView([s EXCEPT !.act = o], NoView)

\* focus_direction
FocusDirection ==
    LET f == view[focused_view]
        inside == /\ focused_view # NoView
                  /\ f.output # NoOutput /\ f.workspace # NoWorkspace
                  /\ ~ f.floating /\ ~ f.fullscreen
        beyond == Then({Server}, LAMBDA s :
                    UNION {FocusOutput(s, o) : o \in Beside(active_output)})
        neighbours == IF inside THEN layout[f.workspace].held ELSE {}
        moved(v) == LayoutFocus(Server, f.workspace, v)
    IN  \E s \in beyond \cup UNION {FocusView(moved(v), v) : v \in neighbours} : Becomes(s)

\* move_view_to_output_direction, to the output that lies there.
MovedToOutput(s, v, target) ==
    LET f == s.view[v]
        a == s.active[target]
        source == IF f.output # NoOutput THEN f.output ELSE s.act
        away == IF f.workspace # NoWorkspace /\ a # NoWorkspace /\ f.workspace # a
                THEN LeaveOwn(s, v) ELSE {s}
        owned(t) == IF a = NoWorkspace THEN t ELSE [t EXCEPT !.view[v].workspace = a]
        untiled(t) == IF f.tiled /\ ~ f.fullscreen /\ t.active[source] # NoWorkspace
                      THEN {[u EXCEPT !.view[v].tiled = FALSE] :
                              u \in Leave(t, t.active[source], v)}
                      ELSE {t}
        there(t) == LET u == [t EXCEPT !.view[v].output = target]
                    IN  IF f.fullscreen \/ f.floating \/ a = NoWorkspace THEN u
                        ELSE Tile(u, a, v)
    IN  UNION {FocusView(there(t), v) :
                 t \in Then({owned(u) : u \in away}, untiled)}

SourceOf(v) == IF view[v].output # NoOutput THEN view[v].output ELSE active_output

\* ACTION_MOVE_OUTPUT_DIRECTION
MoveOutputDirection(v) ==
    /\ focused_view = v
    /\ \E o \in Beside(SourceOf(v)) :
         \E s \in MovedToOutput(Server, v, o) : Becomes(s)

\* ACTION_MOVE_DIRECTION, for a tiled view: it trades places with a neighbour
\* in its layout, or goes to the next output.
MoveDirection(v) ==
    LET f == view[v]
        here == LayoutFocus(Server, f.workspace, v)
    IN  /\ focused_view = v
        /\ ~ f.fullscreen /\ ~ f.floating
        /\ \/ /\ f.tiled /\ f.workspace # NoWorkspace
              /\ \E s \in FocusView(here, here.layout[f.workspace].focus) : Becomes(s)
           \/ \E o \in Beside(SourceOf(v)) :
                \E s \in MovedToOutput(IF f.tiled THEN here ELSE Server, v, o) : Becomes(s)
-----------------------------------------------------------------------------
(* The pointer                                                             *)

\* The pointer moves, or the wheel turns or another button is pressed, which
\* a drag does not prevent.
MovePointer == \E s \in Hover(Server) : Becomes(s)

\* handle_cursor_button, Super and a press on a window: the left button moves
\* it, out of the tree if it is tiled, the right one resizes it.
StartDrag(v, move) ==
    LET f == view[v]
        lift == move /\ f.tiled /\ f.workspace # NoWorkspace
        lifted(s) == IF lift
                     THEN {[t EXCEPT !.view[v].floating = TRUE] : t \in Untile(s, v)}
                     ELSE {s}
        grabbed(s) == [s EXCEPT !.drag = [view |-> v, restore_tiled |-> lift],
                                !.view[v].dragging = TRUE]
    IN  /\ v \in views
        /\ f.mapped /\ ~ f.fullscreen
        /\ f.enabled \/ f.output # NoOutput
        /\ \E s \in Then(FocusView(Server, v), lifted) : Becomes(grabbed(s))

\* Mutant of Dropped: the window keeps its workspace.
DroppedWithWorkspace(s, v, target) ==
    LET f == s.view[v] IN
    {[s EXCEPT !.view[v] = [f EXCEPT !.dragging = FALSE,
                                     !.output = IF target = NoOutput THEN @ ELSE target]]}

\* The window is dropped on output target, or outside every output.
Dropped(s, v, target) ==
    LET f == s.view[v]
        a == IF target = NoOutput THEN NoWorkspace ELSE s.active[target]
        crossed == target \notin {NoOutput, f.output}
        away == IF crossed /\ f.workspace # NoWorkspace /\ a # NoWorkspace /\ f.workspace # a
                THEN LeaveOwn(s, v) ELSE {s}
        dropped == [f EXCEPT !.dragging = FALSE,
                             !.output = IF crossed THEN target ELSE @,
                             !.workspace = IF crossed /\ a # NoWorkspace THEN a ELSE @]
    IN  {[t EXCEPT !.view[v] = dropped] : t \in away}

\* Mutant of Retiled: the tree is that of the active output.
RetiledOnActive(s, v, target) ==
    LET a == s.active[s.act] IN
    IF s.act = NoOutput \/ a = NoWorkspace THEN {s}
    ELSE {Join([s EXCEPT !.view[v] = [@ EXCEPT !.floating = FALSE, !.tiled = TRUE]], a, v)}

\* A window that was tiled goes back into a tree: that of the output under the
\* pointer, next to the tiled window it was dropped on if there is one.
Retiled(s, v, target) ==
    LET out == IF target # NoOutput THEN target ELSE s.view[v].output
        a == s.active[out]
        f == s.view[v]
        down == [s EXCEPT !.view[v].floating = FALSE]
        back == [s EXCEPT !.view[v] =
                   [f EXCEPT !.floating = FALSE, !.tiled = TRUE, !.output = out,
                             !.workspace = IF @ = NoWorkspace THEN a ELSE @]]
        under == {u \in s.layout[a].held \ {v} :
                    s.view[u].tiled /\ ~ s.view[u].fullscreen}
    IN  IF out = NoOutput THEN {down}
        ELSE IF a = NoWorkspace THEN {down}
        ELSE {Join(back, a, v)} \cup {Place(back, a, v, u) : u \in under}

\* handle_cursor_button, the release that ends a drag.
EndDrag(target) ==
    LET v == drag.view
        tile(s) == IF drag.restore_tiled THEN Retiled(s, v, target) ELSE {s}
        free(s) == [s EXCEPT !.drag = NoDrag]
        focus(s) == FocusView(free(s), v)
    IN  /\ v # NoView
        /\ \E s \in Then(Then(Then(Dropped(Server, v, target), tile), focus), Hover) :
             Becomes(s)
-----------------------------------------------------------------------------
(* Outputs                                                                 *)

\* Mutant of Orphans: nothing is adopted.
OrphansNone == {}

\* The windows that wait for an output.
Orphans == {v \in views : view[v].output = NoOutput /\ view[v].workspace = NoWorkspace}

\* output_create: the windows that have neither an output nor a workspace are
\* adopted, in the order of the list.
OutputCreate(o) ==
    LET free == WS!First({w \in Workspaces : output[w] = NoOutput})
        w == IF free = NoWorkspace THEN 1 ELSE free
        tiled == {v \in Orphans : view[v].mapped}
        shown == Follow(Server, WS!Show(WS!SetActive(Server, o, w), w, o), {w})
        adopt(v, f) == IF v \notin Orphans THEN f
                       ELSE IF v \notin tiled THEN [f EXCEPT !.output = o]
                       ELSE [f EXCEPT !.output = o, !.workspace = w, !.tiled = TRUE]
    IN  /\ o \notin connected
        /\ \E last \in IF tiled = {} THEN {shown.layout[w].focus} ELSE tiled :
             Becomes([shown EXCEPT
               !.conn = @ \cup {o},
               !.view = [v \in Views |-> adopt(v, shown.view[v])],
               !.layout[w] = [held |-> @.held \cup tiled, focus |-> last],
               !.act = IF @ = NoOutput THEN o ELSE @])

\* output_destroy: the newest of the other outputs takes over.
OutputDestroy(o) ==
    LET hidden == IF active[o] = NoWorkspace THEN Server
                  ELSE Follow(Server, WS!Hide(Server, active[o]), {})
        gone == WS!Forget(WS!SetActive(hidden, o, NoWorkspace), o)
        left == connected \ {o}
        refocus(s, fallback) ==
          IF s.focus # NoView /\ s.view[s.focus].output \in {NoOutput, o}
          THEN FocusView(s, FocusedOn(s, fallback)) ELSE {s}
    IN  /\ o \in connected
        /\ \E fallback \in IF left = {} THEN {NoOutput} ELSE left :
             \E s \in refocus([gone EXCEPT !.act = IF @ = o THEN fallback ELSE @], fallback) :
               Becomes([s EXCEPT !.conn = left])

Init ==
    /\ views = {}
    /\ view = [v \in Views |-> Fresh]
    /\ WS!Init
    /\ layout = [w \in Workspaces |-> [held |-> {}, focus |-> NoView]]
    /\ focused_view = NoView
    /\ drag = NoDrag

WindowNext(v) ==
    \/ Create(v) \/ Unmap(v) \/ Destroy(v) \/ SetAppId(v)
    \/ RequestFullscreen(v) \/ Activate(v)
    \/ \E rules \in RuleLists, transient, fullscreen \in BOOLEAN :
         \/ \E sticky \in IF v \in StickyApps THEN BOOLEAN ELSE {FALSE} :
              MapXdg(v, transient, rules, fullscreen, sticky)
         \/ MapXwayland(v, transient, rules)

KeyNext ==
    \/ \E w \in Workspaces : SwitchWorkspace(w)
    \/ FocusDirection
    \/ \E v \in Views : \/ ToggleFloating(v) \/ CenterView(v)
                        \/ MoveDirection(v) \/ MoveOutputDirection(v)

PointerNext ==
    \/ MovePointer
    \/ \E v \in Views, move \in BOOLEAN : StartDrag(v, move)
    \/ \E o \in connected \cup {NoOutput} : EndDrag(o)

OutputNext == \E o \in Outputs : OutputCreate(o) \/ OutputDestroy(o)

Next == \/ \E v \in Views : WindowNext(v)
        \/ KeyNext \/ PointerNext \/ OutputNext
        \/ FocusSurface \/ SurfaceDestroyed

Spec == Init /\ [][Next]_vars

\* Every window that maps does so on an output that is there, or on none.  The
\* code does not see to it: a window that output_create adopted before it
\* mapped keeps that output when it is unplugged, and handle_map goes on with
\* what was freed (VisibleBelongs shows where that leads).  The results that
\* rest on this are stated of TimelySpec.
Timely ==
    \A v \in Views : ~ view[v].mapped /\ view'[v].mapped =>
                      view[v].output \in connected \cup {NoOutput}

TimelySpec == Init /\ [][Next /\ Timely]_vars
-----------------------------------------------------------------------------
(* Properties                                                              *)

TypeOK ==
    /\ WS!TypeOK
    /\ views \subseteq Views
    /\ view \in [Views -> [mapped : BOOLEAN, workspace : 0..NumWorkspaces,
                           output : Outputs \cup {NoOutput}, tiled : BOOLEAN,
                           floating : BOOLEAN, fullscreen : BOOLEAN,
                           saved_tiled : BOOLEAN, dragging : BOOLEAN,
                           sticky : BOOLEAN, enabled : BOOLEAN]]
    /\ layout \in [Workspaces -> [held : SUBSET Views, focus : Views \cup {NoView}]]
    /\ focused_view \in Views \cup {NoView}
    /\ drag \in [view : Views \cup {NoView}, restore_tiled : BOOLEAN]

\* Whatever the windows do, workspaces and outputs change only as Workspaces
\* says; so what is proved there holds here.  A sticky window breaks this: it
\* keeps an output that was unplugged, and a focus on it makes that output the
\* active one (output_destroy only visits the windows of the workspace); so
\* does a window that maps on an output that was freed, which Timely excludes.
ImplementsWorkspaces == WS!Spec

\* A mapped window of a workspace is on the output that shows the workspace,
\* and on none while it is hidden: View.output, written in fourteen places,
\* agrees with Workspace.output.
WindowOnItsOutput ==
    \A v \in views :
      LET f == view[v] IN
      f.mapped /\ ~ f.sticky /\ f.workspace # NoWorkspace =>
        f.output = output[f.workspace]

\* A layout holds live, mapped windows of its own workspace and nothing else:
\* no window has a leaf in two trees, and none leaves one behind when it is
\* freed (dwindle.c keeps View pointers that nobody clears).
LayoutHoldsItsWindows ==
    \A w \in Workspaces : \A v \in layout[w].held :
      v \in views /\ view[v].mapped /\ view[v].workspace = w

\* The window with the focus exists, is mapped, and is on a connected output
\* that shows its workspace (Server.focused_view).
FocusIsShown ==
    focused_view # NoView =>
      LET f == view[focused_view] IN
      /\ focused_view \in views
      /\ f.mapped
      /\ f.output \in connected
      /\ f.workspace # NoWorkspace
      /\ output[f.workspace] = f.output

\* The window that is dragged exists and is mapped: Server.drag.view is reset
\* by every handler that takes it away.
DragIsLive ==
    drag.view # NoView => /\ drag.view \in views
                          /\ view[drag.view].mapped
                          /\ view[drag.view].dragging

\* No mapped window waits for a workspace while an output is there: those that
\* were mapped without one are adopted when it comes.  One that maps on an
\* output that was freed is not (Timely).
NoneLeftWaiting ==
    connected # {} =>
      \A v \in views : view[v].mapped /\ ~ view[v].sticky => view[v].workspace # NoWorkspace

\* A switch gives the focus to a window of the workspace it switched to or to
\* none, never to one it hid, whatever is full screen or dragged.
SwitchFocusesInside ==
    [][\A w \in Workspaces : SwitchWorkspace(w) =>
         focused_view' = NoView \/ view'[focused_view'].workspace = w]_vars

\* No switch, release or hotplug hides a sticky window that is shown: only a
\* rule for another workspace, when it is mapped anew.
StickyStaysShown ==
    [][\A v \in views :
         view[v].sticky /\ view[v].mapped /\ view[v].enabled /\ view'[v].mapped
         => view'[v].enabled]_vars

\* README "Workspace rules": "Visible workspace belongs to its output": a
\* workspace is on an output that exists (Workspace.output).  A window mapped on
\* an output that was freed makes it the active one, and the next switch opens
\* its workspace there.
VisibleBelongs == \A w \in Workspaces : output[w] \in connected \cup {NoOutput}

\* README "Actions": "`moveoutput <direction>`: Move window to adjacent output":
\* from an output with another one alongside, the key that points to it finds
\* it.
Alongside(place, o, p, dir) ==
    LET b == place[o]  c == place[p] IN
    CASE dir = "left"  -> c.y = b.y /\ c.x + c.w = b.x
      [] dir = "right" -> c.y = b.y /\ b.x + b.w = c.x
      [] dir = "up"    -> c.x = b.x /\ c.y + c.h = b.y
      [] dir = "down"  -> c.x = b.x /\ b.y + b.h = c.y

MoveOutputReaches ==
    \A place \in Arrangements, o, p \in connected,
       dir \in {"left", "down", "up", "right"} :
        Alongside(place, o, p, dir) =>
            find_output_in_direction(place, o, dir) = {p}
=============================================================================
