-------------------------------- MODULE Seat --------------------------------
(***************************************************************************)
(* Who gets the keys and the pointer (src/src/input.c, src/src/layer.c and *)
(* the focus functions of src/src/server.c): keyboards that come and go,   *)
(* the focused window, panels and launchers of the layer shell, the room   *)
(* panels reserve, and pointer constraints.                                *)
(*                                                                         *)
(* Which window gets the focus next is Compositor's matter: here it is any *)
(* mapped one.                                                             *)
(***************************************************************************)
EXTENDS Naturals, FiniteSets

CONSTANTS
    Views,        \* windows
    Panels,       \* layer surfaces
    Menus,        \* popups of layer surfaces
    Interactive,  \* those of them that ask for the keyboard when mapped
    Keyboards,
    Outputs,
    Constraints,  \* pointer constraints of clients
    Locks,        \* those of them that lock the pointer, the others confine it
    OneShots,     \* those that end when they are deactivated
    None,
    Dangling      \* a pointer to an output that is gone

ASSUME SeatAssumption ==
    /\ {None, Dangling} \cap (Views \cup Panels \cup Menus \cup Keyboards
                              \cup Outputs \cup Constraints) = {}
    /\ None # Dangling
    /\ Views \cap (Panels \cup Menus) = {} /\ Panels \cap Menus = {}
    /\ Interactive \subseteq Panels
    /\ Locks \cup OneShots \subseteq Constraints

VARIABLES
    keyboards,          \* Server.keyboards
    active_keyboard,    \* Server.active_keyboard
    focus,              \* see FocusType
    mapped,             \* the mapped views and the popups on the screen
    outputs,            \* Server.outputs
    active_output,      \* Server.active_output
    layer,              \* the layer surfaces: see LayerType
    usable,             \* per output: the panels its usable area leaves out
    pointer             \* see PointerType

vars == <<keyboards, active_keyboard, focus, mapped, outputs,
          active_output, layer, usable, pointer>>

seatVars == <<keyboards, active_keyboard>>
layerVars == <<outputs, active_output, layer, usable>>

(***************************************************************************)
(* The focus: view and surface are Server.focused_view and                 *)
(* Server.focused_surface, heard the surface whose destroy signal holds    *)
(* Server.focused_surface_destroy, seat the keyboard focus of the          *)
(* wlr_seat, and deaf remembers that the last window or surface that was   *)
(* given the focus got it while no keyboard was active.                    *)
(***************************************************************************)
FocusType ==
    [view : Views \cup {None}, surface : Panels \cup Menus \cup {None},
     heard : Panels \cup Menus \cup {None},
     seat : Views \cup Panels \cup Menus \cup {None},
     deaf : BOOLEAN]

(***************************************************************************)
(* The pointer: alive are the constraints that exist, active is            *)
(* Server.active_constraint, linked the constraints whose destroy signal   *)
(* has Server.constraint_destroy in its list, last the one it was linked   *)
(* to last (None when the listener's own link is empty), hidden is         *)
(* Server.cursor_hidden.  switched remembers that a workspace switch took  *)
(* the constraint away.                                                    *)
(***************************************************************************)
PointerType ==
    [alive : SUBSET Constraints, active : Constraints \cup {None},
     linked : SUBSET Constraints, last : Constraints \cup {None},
     hidden : BOOLEAN, switched : BOOLEAN]

(***************************************************************************)
(* A layer surface: zone says that it asks for room of its own.            *)
(***************************************************************************)
LayerType ==
    [state : {"none", "created", "mapped"}, zone : BOOLEAN,
     output : Outputs \cup {None, Dangling}]

NoLayer == [state |-> "none", zone |-> FALSE, output |-> None]

TypeOK ==
    /\ keyboards \subseteq Keyboards
    /\ active_keyboard \in keyboards \cup {None}
    /\ focus \in FocusType
    /\ mapped \subseteq Views \cup Menus
    /\ outputs \subseteq Outputs
    /\ active_output \in outputs \cup {None}
    /\ layer \in [Panels -> LayerType]
    /\ usable \in [Outputs -> SUBSET Panels]
    /\ pointer \in PointerType

Init ==
    /\ keyboards = {} /\ active_keyboard = None
    /\ focus = [view |-> None, surface |-> None, heard |-> None, seat |-> None,
                deaf |-> FALSE]
    /\ mapped = {}
    /\ outputs = {} /\ active_output = None
    /\ layer = [p \in Panels |-> NoLayer]
    /\ usable = [o \in Outputs |-> {}]
    /\ pointer = [alive |-> {}, active |-> None, linked |-> {}, last |-> None,
                  hidden |-> FALSE, switched |-> FALSE]

-----------------------------------------------------------------------------
(***************************************************************************)
(* The focus functions, as functions of the focus.                         *)
(***************************************************************************)

\* wlr_seat_keyboard_notify_enter, which both functions skip when there is
\* no active keyboard: the seat keeps the focus it had.
Enter(f, target) ==
    IF active_keyboard = None THEN [f EXCEPT !.deaf = TRUE]
    ELSE [f EXCEPT !.seat = target, !.deaf = FALSE]

ClearFocus(f) == [f EXCEPT !.seat = None, !.deaf = FALSE]

\* Mutant of server_focus_view: the test for the focused window forgets that a
\* surface may have the focus.
FocusViewHasty(f, view) ==
    LET dropped == [f EXCEPT !.view = view, !.surface = None, !.heard = None]
    IN  IF f.view = view THEN f
        ELSE IF view = None THEN ClearFocus(dropped)
        ELSE Enter(dropped, view)

server_focus_view(f, view) ==
    LET dropped == [f EXCEPT !.view = view, !.surface = None, !.heard = None]
    IN  IF f.view = view /\ f.surface = None THEN f
        ELSE IF view = None THEN ClearFocus(dropped)
        ELSE Enter(dropped, view)

\* Mutant of server_focus_surface: nobody listens when no keyboard is active.
FocusSurfaceDeaf(f, surface) ==
    LET given == [f EXCEPT !.view = None, !.surface = surface]
    IN  IF surface # None /\ f.surface = surface THEN f
        ELSE IF surface # None /\ active_keyboard # None
             THEN Enter([given EXCEPT !.heard = surface], surface)
        ELSE [ClearFocus(given) EXCEPT !.deaf = surface # None]

\* A surface without an active keyboard falls through to the last call of
\* the function, which clears the seat.
server_focus_surface(f, surface) ==
    LET given == [f EXCEPT !.view = None, !.surface = surface, !.heard = surface]
    IN  IF surface # None /\ f.surface = surface THEN f
        ELSE IF surface # None /\ active_keyboard # None THEN Enter(given, surface)
        ELSE [ClearFocus(given) EXCEPT !.deaf = surface # None]

\* server_focus_view refuses a view that is not mapped or has no output.
Focusable(view) == IF view \in mapped /\ outputs # {} THEN view ELSE None

-----------------------------------------------------------------------------
(***************************************************************************)
(* The room of the panels.                                                 *)
(***************************************************************************)

\* layer_shell_arrange: a surface without an output gets the active one, a
\* mapped one takes its room from the usable area of its output.
Adopted(l, outs, active) ==
    LET adopter == IF active # None THEN active
                   ELSE IF outs # {} THEN CHOOSE o \in outs : TRUE ELSE None
    IN  [p \in Panels |->
            IF l[p].state # "none" /\ l[p].output = None
            THEN [l[p] EXCEPT !.output = adopter] ELSE l[p]]

UsableArea(l, outs) ==
    [o \in Outputs |->
        {p \in Panels : /\ o \in outs /\ l[p].output = o
                        /\ l[p].state = "mapped" /\ l[p].zone}]

layer_shell_arrange(l, outs, active) ==
    /\ layer' = Adopted(l, outs, active)
    /\ usable' = UsableArea(Adopted(l, outs, active), outs)

\* server_arrange does it among the other things it arranges.
server_arrange(l, outs, active) ==
    /\ layer_shell_arrange(l, outs, active)
    /\ outputs' = outs
    /\ active_output' = active

-----------------------------------------------------------------------------
(***************************************************************************)
(* Keyboards                                                               *)
(***************************************************************************)

\* keyboard_create: the seat gets the keyboard, but nobody is entered.
keyboard_create(k) ==
    /\ k \notin keyboards
    /\ keyboards' = keyboards \cup {k}
    /\ active_keyboard' = k
    /\ UNCHANGED <<focus, mapped, layerVars, pointer>>

handle_keyboard_destroy(k) ==
    /\ k \in keyboards
    /\ keyboards' = keyboards \ {k}
    /\ active_keyboard' = IF active_keyboard = k THEN None ELSE active_keyboard
    /\ UNCHANGED <<focus, mapped, layerVars, pointer>>

\* handle_key and handle_modifiers make the keyboard the active one; a bind
\* that moves the focus is one of the focus steps below.
handle_key(k) ==
    /\ k \in keyboards /\ active_keyboard # k
    /\ active_keyboard' = k
    /\ UNCHANGED <<keyboards, focus, mapped, layerVars, pointer>>

-----------------------------------------------------------------------------
(***************************************************************************)
(* Windows                                                                 *)
(***************************************************************************)

\* A focus step of a key, a command, a switch or the pointer over a window.
FocusView(v) ==
    /\ focus' = server_focus_view(focus, Focusable(v))
    /\ focus' # focus
    /\ UNCHANGED <<seatVars, mapped, layerVars, pointer>>

\* A window that opens gets the focus, one that opens in the background not.
handle_map(v) ==
    /\ v \notin mapped /\ outputs # {}
    /\ mapped' = mapped \cup {v}
    /\ \/ focus' = server_focus_view(focus, v)
       \/ focus' = focus
    /\ server_arrange(layer, outputs, active_output)
    /\ UNCHANGED <<seatVars, pointer>>

\* An unmapped window loses the focus to another one or to nobody; the seat
\* forgets a surface only when it is destroyed.
handle_unmap(v) ==
    /\ v \in mapped
    /\ mapped' = mapped \ {v}
    /\ IF focus.view = v
       THEN \E next \in ((Views \cap mapped) \ {v}) \cup {None} :
                focus' = server_focus_view(focus, Focusable(next))
       ELSE focus' = focus
    /\ server_arrange(layer, outputs, active_output)
    /\ UNCHANGED <<seatVars, pointer>>

handle_destroy(v) ==
    /\ v \notin mapped
    /\ focus.seat = v
    /\ focus' = [focus EXCEPT !.seat = None]
    /\ UNCHANGED <<seatVars, mapped, layerVars, pointer>>

\* process_cursor over the background, in a motion, a click or a scroll: nobody
\* has the focus any more.  A locked pointer stops before that.
PointAtBackground ==
    /\ pointer.active \notin Locks
    /\ focus' = ClearFocus(server_focus_view(focus, None))
    /\ focus' # focus
    /\ UNCHANGED <<seatVars, mapped, layerVars, pointer>>

-----------------------------------------------------------------------------
(***************************************************************************)
(* Panels, launchers and their menus                                       *)
(***************************************************************************)

\* The surface asks for an output or leaves it to the compositor.
handle_new_layer_surface(p) ==
    \E o \in outputs \cup {None} :
        /\ layer[p].state = "none"
        /\ server_arrange([layer EXCEPT ![p] = [NoLayer EXCEPT !.state = "created",
                                !.output = IF o = None THEN active_output ELSE o]],
                          outputs, active_output)
        /\ UNCHANGED <<seatVars, focus, mapped, pointer>>

handle_layer_map(p) ==
    /\ layer[p].state = "created"
    /\ focus' = IF p \in Interactive THEN server_focus_surface(focus, p) ELSE focus
    /\ server_arrange([layer EXCEPT ![p].state = "mapped"], outputs, active_output)
    /\ UNCHANGED <<seatVars, mapped, pointer>>

\* Mutant of handle_layer_unmap: nothing is arranged.
UnmapKeepsRoom(p) ==
    /\ layer[p].state = "mapped"
    /\ focus' = IF focus.surface = p THEN server_focus_surface(focus, None) ELSE focus
    /\ layer' = [layer EXCEPT ![p].state = "created"]
    /\ UNCHANGED <<seatVars, mapped, outputs, active_output, usable, pointer>>

handle_layer_unmap(p) ==
    /\ layer[p].state = "mapped"
    /\ focus' = IF focus.surface = p THEN server_focus_surface(focus, None) ELSE focus
    /\ server_arrange([layer EXCEPT ![p].state = "created"], outputs, active_output)
    /\ UNCHANGED <<seatVars, mapped, pointer>>

\* The surface asks for room, or no longer does.  The handler arranges the
\* panels, and everything else only when some room changed.
handle_layer_commit(p) ==
    LET committed == [layer EXCEPT ![p].zone = ~ @]
    IN  /\ layer[p].state # "none"
        /\ layer_shell_arrange(committed, outputs, active_output)
        /\ UNCHANGED <<seatVars, focus, mapped, outputs, active_output, pointer>>

\* A surface is unmapped before it is destroyed; the listener of the focused
\* surface, if it hears this one, runs first.
handle_layer_destroy(p) ==
    LET forgot == IF focus.seat = p THEN [focus EXCEPT !.seat = None] ELSE focus
    IN  /\ layer[p].state = "created"
        /\ focus' = IF focus.surface = p THEN server_focus_surface(forgot, None)
                    ELSE forgot
        /\ layer' = [layer EXCEPT ![p] = NoLayer]
        /\ UNCHANGED <<seatVars, mapped, outputs, active_output, usable, pointer>>

\* handle_new_popup of layer.c: nothing here listens to the popup.
handle_new_popup(m) ==
    /\ m \notin mapped
    /\ \E p \in Panels : layer[p].state = "mapped"
    /\ mapped' = mapped \cup {m}
    /\ UNCHANGED <<seatVars, focus, layerVars, pointer>>

\* handle_cursor_button on a surface that is no window's:
\* surface_allows_keyboard refuses the panels that want no keyboard.
ClickSurface(s) ==
    /\ pointer.active \notin Locks
    /\ \/ s \in mapped \cap Menus
       \/ s \in Interactive /\ layer[s].state = "mapped"
    /\ focus' = server_focus_surface(focus, s)
    /\ UNCHANGED <<seatVars, mapped, layerVars, pointer>>

\* The popup is destroyed; handle_focused_surface_destroy gives the focus to a
\* window of the active output.
MenuDestroyed(m) ==
    LET forgot == IF focus.seat = m THEN [focus EXCEPT !.seat = None] ELSE focus
        unheard == [forgot EXCEPT !.surface = None, !.heard = None, !.view = None]
    IN  /\ m \in mapped \cap Menus
        /\ mapped' = mapped \ {m}
        /\ IF focus.heard = m
           THEN \E next \in Views \cup {None} :
                    focus' = server_focus_view(unheard, Focusable(next))
           ELSE focus' = forgot
        /\ UNCHANGED <<seatVars, layerVars, pointer>>

-----------------------------------------------------------------------------
(***************************************************************************)
(* Outputs.  Nobody takes a layer surface off an output that goes away, so *)
(* its pointer dangles; a new output may happen to get the same address.   *)
(***************************************************************************)

output_create(o) ==
    \E found \in SUBSET {p \in Panels : layer[p].output = Dangling} :
        /\ o \notin outputs
        /\ server_arrange([p \in Panels |-> IF p \in found
                                            THEN [layer[p] EXCEPT !.output = o]
                                            ELSE layer[p]],
                          outputs \cup {o},
                          IF active_output = None THEN o ELSE active_output)
        /\ UNCHANGED <<seatVars, focus, mapped, pointer>>

\* The focus moves to a window of another output or to nobody when its window
\* was on the output that is gone.
output_destroy(o) ==
    LET left == outputs \ {o}
    IN  /\ o \in outputs
        /\ \/ focus' = focus
           \/ /\ focus.view # None
              /\ \E next \in (IF left = {} THEN {} ELSE Views \cap mapped) \cup {None} :
                    focus' = server_focus_view(focus, next)
        /\ \E fallback \in IF active_output # o THEN {active_output}
                           ELSE IF left = {} THEN {None} ELSE left :
             server_arrange([p \in Panels |-> IF layer[p].output = o
                                              THEN [layer[p] EXCEPT !.output = Dangling]
                                              ELSE layer[p]],
                            left, fallback)
        /\ UNCHANGED <<seatVars, mapped, pointer>>

-----------------------------------------------------------------------------
(***************************************************************************)
(* Pointer constraints                                                     *)
(***************************************************************************)

\* listener_remove takes the listener out of the list it was put in last.
Unlisten(ptr) == [ptr EXCEPT !.linked = @ \ {ptr.last}, !.last = None]

\* Mutant of Destroyed: the cursor stays hidden.
DestroyedHidden(ptr, c) ==
    LET gone == [ptr EXCEPT !.alive = @ \ {c}]
    IN  IF c \notin ptr.linked THEN gone
        ELSE Unlisten(IF ptr.active = c THEN [gone EXCEPT !.active = None] ELSE gone)

\* The constraint is destroyed: handle_constraint_destroy runs if the signal
\* still has the listener.
Destroyed(ptr, c) ==
    LET gone == [ptr EXCEPT !.alive = @ \ {c}]
        freed == IF ptr.active = c
                 THEN [gone EXCEPT !.active = None, !.hidden = FALSE] ELSE gone
    IN  IF c \in ptr.linked THEN Unlisten(freed) ELSE gone

Deactivated(ptr, c) == IF c \in OneShots THEN Destroyed(ptr, c) ELSE ptr

\* A listener that is in two lists has wrecked both: what follows is undefined
\* and not followed.
Intact == Cardinality(pointer.linked) <= 1

\* Mutant of handle_new_constraint: the old one is still listened to.
NewConstraintListens(c) ==
    /\ Intact
    /\ c \notin pointer.alive
    /\ pointer' = [pointer EXCEPT !.alive = @ \cup {c}, !.active = c,
                                  !.linked = @ \cup {c}, !.last = c,
                                  !.hidden = c \in Locks]
    /\ UNCHANGED <<seatVars, focus, mapped, layerVars>>

handle_new_constraint(c) ==
    LET old == IF pointer.active = None THEN pointer
               ELSE Deactivated(Unlisten(pointer), pointer.active)
    IN  /\ Intact
        /\ c \notin pointer.alive
        /\ pointer' = [old EXCEPT !.alive = @ \cup {c}, !.active = c,
                                  !.linked = @ \cup {c}, !.last = c,
                                  !.hidden = c \in Locks]
        /\ UNCHANGED <<seatVars, focus, mapped, layerVars>>

handle_constraint_destroy(c) ==
    /\ Intact
    /\ c \in pointer.alive
    /\ pointer' = Destroyed(pointer, c)
    /\ UNCHANGED <<seatVars, focus, mapped, layerVars>>

\* server_switch_workspace away from a full-screen window: the constraint is
\* deactivated and forgotten, its listener is not.
SwitchFromFullscreen ==
    /\ Intact
    /\ pointer.active # None
    /\ pointer' = [Deactivated(pointer, pointer.active) EXCEPT
                      !.active = None, !.hidden = FALSE, !.switched = TRUE]
    /\ UNCHANGED <<seatVars, focus, mapped, layerVars>>

-----------------------------------------------------------------------------
Next ==
    \/ \E k \in Keyboards :
          keyboard_create(k) \/ handle_keyboard_destroy(k) \/ handle_key(k)
    \/ \E v \in Views : FocusView(v) \/ handle_map(v) \/ handle_unmap(v) \/ handle_destroy(v)
    \/ PointAtBackground
    \/ \E p \in Panels :
          \/ handle_new_layer_surface(p) \/ handle_layer_map(p)
          \/ handle_layer_unmap(p) \/ handle_layer_destroy(p)
          \/ handle_layer_commit(p)
    \/ \E m \in Menus : handle_new_popup(m) \/ MenuDestroyed(m)
    \/ \E s \in Panels \cup Menus : ClickSurface(s)
    \/ \E o \in Outputs : output_create(o) \/ output_destroy(o)
    \/ \E c \in Constraints : handle_new_constraint(c) \/ handle_constraint_destroy(c)
    \/ SwitchFromFullscreen

Spec == Init /\ [][Next]_vars

-----------------------------------------------------------------------------
(***************************************************************************)
(* Properties                                                              *)
(***************************************************************************)

Target(f) == IF f.surface # None THEN f.surface ELSE f.view

\* The keys go where the compositor says the focus is, whatever windows,
\* launchers, menus, keyboards and outputs came and went in between.  The one
\* exception is a focus given while no keyboard was active: the enter event is
\* skipped and no handler makes up for it when a keyboard arrives.
KeysGoToTheFocus == ~ focus.deaf => focus.seat = Target(focus)

Exists(s) == s \in mapped \/ (s \in Panels /\ layer[s].state # "none")

\* Server.focused_surface never points to a surface that was freed, and it is
\* that surface whose end the compositor listens for: a launcher or a menu that
\* goes away in any order with windows and outputs leaves no pointer behind.
FocusedSurfaceLives ==
    /\ focus.heard = focus.surface
    /\ focus.surface # None => Exists(focus.surface) /\ focus.view = None

\* A window and a launcher that is up get the room between the panels that are
\* up on that output, no more and no less: every handler that changes what is
\* mapped, or where, arranges.
RoomBetweenPanels ==
    \A o \in outputs :
        usable[o] = {p \in Panels : /\ layer[p].state = "mapped" /\ layer[p].zone
                                    /\ layer[p].output = o}

\* The one listener for the end of the active constraint is in one list only
\* and in that constraint's: linked twice it corrupts both lists.  A workspace
\* switch away from a full-screen window breaks this, because it forgets the
\* constraint and leaves the listener.
ConstraintIsHeard ==
    pointer.switched \/ pointer.linked = {pointer.active} \ {None}

\* A hidden cursor comes back: it is hidden only while a client holds a lock
\* that exists, or the pointer would be lost for the session.
CursorComesBack ==
    Intact /\ pointer.hidden => pointer.active \in Locks \cap pointer.alive
=============================================================================
