------------------------------- MODULE Layout -------------------------------
(***************************************************************************)
(* What a tiling layout promises the compositor, whatever tree it keeps    *)
(* (the interface of src/layout.h): it holds a set of views, it has a      *)
(* focused view exactly when it holds one, a view it was told to remove is *)
(* gone, and the focus only moves when its view leaves or on request.      *)
(***************************************************************************)
CONSTANTS Views, NoView

VARIABLES held,   \* the views in the layout
          focus   \* dwindle_focused_view

layoutVars == <<held, focus>>

LayoutInit == held = {} /\ focus = NoView

\* dwindle_add_view: the view joins and takes the focus.
Join(v) == /\ v \notin held
           /\ held' = held \cup {v}
           /\ focus' = v

\* dwindle_remove_view: the view leaves; if it had the focus another view
\* takes it, as long as there is one.
Leave(v) == /\ v \in held
            /\ held' = held \ {v}
            /\ IF focus # v THEN focus' = focus
               ELSE IF held' = {} THEN focus' = NoView
               ELSE focus' \in held'

\* dwindle_focus, dwindle_move_focus, and a dwindle_place_view that finds no
\* memory: the focus goes to a view that is there.
Focus(v) == /\ v \in held
            /\ focus' = v
            /\ UNCHANGED held

LayoutNext == \E v \in Views : Join(v) \/ Leave(v) \/ Focus(v)

LayoutSpec == LayoutInit /\ [][LayoutNext]_layoutVars
=============================================================================
