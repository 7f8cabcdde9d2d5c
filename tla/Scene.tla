------------------------------- MODULE Scene --------------------------------
(***************************************************************************)
(* What outlives the event that made it: the snapshot a closing window     *)
(* leaves behind, the client buffer it is drawn from, its border, and the  *)
(* old wallpaper that fades out after a reload (src/src/view.c,            *)
(* src/src/output.c, reload_config of src/src/server.c).  They go on from  *)
(* frame to frame, and an output only has a frame if somebody asked for it.*)
(*                                                                         *)
(* Which output a window is on is Compositor's matter: here it moves to    *)
(* any, one that was freed included, for pointers to such are handed on    *)
(* (VisibleBelongs of Compositor).  Animations are counted in frames; one  *)
(* that has lasted its time is over sooner.  The buffer of a mapped        *)
(* window's scene node is the one its last commit brought, which both      *)
(* commit handlers cache at once.                                          *)
(***************************************************************************)
EXTENDS Integers, FiniteSets

CONSTANTS
    Views,
    Outputs,
    Buffers,        \* client buffers
    None,
    Len, FadeLen,   \* frames that an animation and a fade last at most
    MaxNodes,       \* bound: snapshots in the tree of one window
    MaxReloads      \* bound: reloads

ASSUME SceneAssumption ==
    /\ None \notin Outputs \cup Buffers
    /\ {Len, FadeLen, MaxNodes} \subseteq Nat \ {0}
    /\ MaxReloads \in Nat

VARIABLES
    outputs,    \* "none" (never plugged), "off" (not enabled), "on" or "freed"
    frame,      \* the outputs with a frame to come
    view,       \* see ViewType
    wallpaper,  \* Server.wallpaper_buffer is there
    fade,       \* per output: see FadeType
    reloads

vars == <<outputs, frame, view, wallpaper, fade, reloads>>

(***************************************************************************)
(* A window: type, output, closing, closing_output and close_buffer are    *)
(* the fields of View, surface says that it has a scene_tree, scene that   *)
(* closing_scene is set, snapshots counts the snapshot nodes in its        *)
(* root_tree, locks the locks taken on buffers on its behalf, left the     *)
(* frames until none of its animations is active.                          *)
(***************************************************************************)
ViewType ==
    [type : {"xdg", "x11"}, state : {"gone", "idle", "mapped"},
     surface : BOOLEAN, output : Outputs \cup {None}, closing : BOOLEAN,
     closing_output : Outputs \cup {None}, scene : BOOLEAN,
     snapshots : 0..MaxNodes, close_buffer : Buffers \cup {None},
     locks : [Buffers -> 0..1], border : BOOLEAN, left : 0..Len]

(***************************************************************************)
(* Output.wallpaper_fade and the frames its animation has left; instant    *)
(* remembers that it was begun with animation_duration_ms = 0.             *)
(***************************************************************************)
FadeType == [node : BOOLEAN, left : 0..FadeLen, instant : BOOLEAN]

NoFade == [node |-> FALSE, left |-> 0, instant |-> FALSE]

Gone ==
    [type |-> "xdg", state |-> "gone", surface |-> FALSE, output |-> None,
     closing |-> FALSE, closing_output |-> None,
     scene |-> FALSE, snapshots |-> 0, close_buffer |-> None, locks |-> [b \in Buffers |-> 0],
     border |-> FALSE, left |-> 0]

IsX11(v) == view[v].type = "x11"

Connected == {o \in Outputs : outputs[o] \in {"off", "on"}}

\* What View.output may point to; memory that was freed is used again by
\* output_create.
Places == {o \in Outputs : outputs[o] # "none"} \cup {None}

\* server_arrange asks every output for a frame; one that is off sends none.
Arranged == frame' = {o \in Outputs : outputs'[o] = "on"}

Init ==
    /\ outputs = [o \in Outputs |-> "none"]
    /\ frame = {}
    /\ view = [v \in Views |-> Gone]
    /\ wallpaper \in BOOLEAN
    /\ fade = [o \in Outputs |-> NoFade]
    /\ reloads = 0
-----------------------------------------------------------------------------
(* What the handlers do to one window                                      *)

Unlocked(locks, b) == IF b = None THEN locks ELSE [locks EXCEPT ![b] = @ - 1]

WithLock(locks, b) == [locks EXCEPT ![b] = @ + 1]

\* Mutant of Cache: the buffer cached before stays locked.
CacheKeeps(r, b) ==
    IF b = r.close_buffer THEN r
    ELSE [r EXCEPT !.close_buffer = b, !.locks = WithLock(@, b)]

Cache(r, b) ==
    IF b = r.close_buffer THEN r
    ELSE [r EXCEPT !.close_buffer = b,
                   !.locks = Unlocked(WithLock(@, b), r.close_buffer)]

NotClosing(r) ==
    [r EXCEPT !.closing = FALSE, !.closing_output = None, !.scene = FALSE,
              !.close_buffer = None, !.locks = Unlocked(@, r.close_buffer)]

Dropped(r) ==
    [NotClosing(r) EXCEPT !.snapshots = IF r.scene THEN @ - 1 ELSE @]

\* The animation of a window that opens, closes or moves; its duration may be 0.
Animated(r) == {[r EXCEPT !.left = n] : n \in {0, Len}}

\* view_update_border: a full-screen window and a border of width 0 show none.
Bordered(r) ==
    {[r EXCEPT !.border = on] :
        on \in IF r.state = "mapped" \/ r.closing THEN BOOLEAN ELSE {FALSE}}

\* Mutant of FrameUpdate: the border of a closed window stays on the screen.
FrameUpdateBorder(r, done) ==
    IF r.closing /\ r.left = 0 THEN Dropped(r)
    ELSE [r EXCEPT !.left = IF done \/ @ = 0 THEN 0 ELSE @ - 1]

FrameUpdate(r, done) ==
    IF r.closing /\ r.left = 0 THEN [Dropped(r) EXCEPT !.border = FALSE]
    ELSE [r EXCEPT !.left = IF done \/ @ = 0 THEN 0 ELSE @ - 1]
-----------------------------------------------------------------------------
(* Windows                                                                 *)

view_create(v, type) ==
    /\ view[v].state = "gone"
    /\ view' = [view EXCEPT ![v] = [Gone EXCEPT !.type = type, !.state = "idle",
                                                !.surface = type = "xdg"]]
    /\ UNCHANGED <<outputs, frame, wallpaper, fade, reloads>>

handle_xwayland_associate(v) ==
    /\ IsX11(v) /\ view[v].state = "idle" /\ ~view[v].surface
    /\ view' = [view EXCEPT ![v].surface = TRUE]
    /\ UNCHANGED <<outputs, frame, wallpaper, fade, reloads>>

handle_commit(v, b) ==
    /\ view[v].state = "mapped"
    /\ \E r \in IF IsX11(v) THEN {Cache(view[v], b)}
                ELSE Bordered(Cache(view[v], b)) :
          view' = [view EXCEPT ![v] = r]
    /\ UNCHANGED <<outputs, frame, wallpaper, fade, reloads>>

\* Only a window that is on no output, or lies on a freed one without being on
\* every workspace, is mapped without a server_arrange.
MapArranges(o) == \/ o \notin Connected /\ UNCHANGED frame
                  \/ o # None /\ Arranged

\* Mutant of handle_map: a window that comes back is still closing.
MapStillCloses(v, b, o) ==
    /\ view[v].state = "idle" /\ view[v].surface
    /\ \E r \in Animated([view[v] EXCEPT !.state = "mapped", !.output = o]) :
       \E s \in Bordered(Cache(r, b)) :
          view' = [view EXCEPT ![v] = s]
    /\ UNCHANGED <<outputs, wallpaper, fade, reloads>>
    /\ MapArranges(o)

(***************************************************************************)
(* handle_map and handle_xwayland_map, with the commit of the first buffer *)
(* that wlroots delivers at once.  A window of a hidden workspace, or one  *)
(* that finds no output, is on none, and asks for no frame.                *)
(***************************************************************************)
handle_map(v, b, o) ==
    /\ view[v].state = "idle" /\ view[v].surface
    /\ LET found == IF IsX11(v) THEN view[v] ELSE Dropped(view[v])
       IN  \E r \in Animated([found EXCEPT !.state = "mapped", !.output = o]) :
           \E s \in Bordered(Cache(r, b)) :
              view' = [view EXCEPT ![v] = s]
    /\ UNCHANGED <<outputs, wallpaper, fade, reloads>>
    /\ MapArranges(o)

(***************************************************************************)
(* handle_unmap and handle_xwayland_unmap: sized says that the window has  *)
(* been given a size, made that the snapshot could be made.                *)
(***************************************************************************)
handle_unmap(v, sized, made) ==
    LET r    == [view[v] EXCEPT !.state = "idle", !.output = None]
        left == CASE sized /\ made /\ r.close_buffer # None ->
                       Animated([r EXCEPT !.closing = TRUE,
                                          !.closing_output = view[v].output,
                                          !.scene = TRUE, !.snapshots = @ + 1])
                  [] sized /\ ~made -> {[r EXCEPT !.closing = FALSE,
                                                  !.scene = FALSE]}
                  [] OTHER -> {r}
    IN  /\ view[v].state = "mapped"
        /\ view[v].snapshots < MaxNodes
        /\ \E s \in left : \E t \in IF IsX11(v) THEN {s} ELSE Bordered(s) :
              view' = [view EXCEPT ![v] = t]
        /\ UNCHANGED <<outputs, wallpaper, fade, reloads>>
        /\ Arranged

\* wlroots unmaps the window first.  The snapshot's node is left to the tree.
handle_xwayland_dissociate(v) ==
    /\ IsX11(v) /\ view[v].state = "idle" /\ view[v].surface
    /\ view' = [view EXCEPT ![v] = [NotClosing(@) EXCEPT !.surface = FALSE]]
    /\ UNCHANGED <<outputs, frame, wallpaper, fade, reloads>>

\* wlroots unmaps the window first, and takes an X11 window's surface away.
view_destroy(v) ==
    /\ view[v].state = "idle" /\ (IsX11(v) => ~view[v].surface)
    /\ view' = [view EXCEPT ![v] = [Gone EXCEPT !.locks = Dropped(view[v]).locks]]
    /\ UNCHANGED <<outputs, wallpaper, fade, reloads>>
    /\ Arranged

\* A mapped window changes workspace or output, or its workspace is hidden or
\* shown; the layout moves it.
Relocate(v, o) ==
    /\ view[v].state = "mapped" /\ o # view[v].output
    /\ \E r \in Animated([view[v] EXCEPT !.output = o]) :
          view' = [view EXCEPT ![v] = r]
    /\ UNCHANGED <<outputs, wallpaper, fade, reloads>>
    /\ Arranged
-----------------------------------------------------------------------------
(* Outputs                                                                 *)

\* The windows that wait for an output are given this one.
output_create(o) ==
    /\ o \notin Connected
    /\ outputs' = [outputs EXCEPT ![o] = "on"]
    /\ \E waiting \in SUBSET {v \in Views : view[v].state # "gone"
                                            /\ view[v].output = None} :
          view' = [v \in Views |-> IF v \in waiting
                                   THEN [view[v] EXCEPT !.output = o] ELSE view[v]]
    /\ fade' = [fade EXCEPT ![o] = NoFade]
    /\ Arranged
    /\ UNCHANGED <<wallpaper, reloads>>

(***************************************************************************)
(* The closings on the output end.  workspace_hide takes the windows of    *)
(* its workspace off it; a window that is not mapped, or is on every       *)
(* workspace, keeps the pointer.                                           *)
(***************************************************************************)
output_destroy(o) ==
    /\ o \in Connected
    /\ outputs' = [outputs EXCEPT ![o] = "freed"]
    /\ LET ended(v) == IF view[v].closing_output = o THEN Dropped(view[v])
                       ELSE view[v]
       IN  \E hidden \in SUBSET {v \in Views : view[v].state = "mapped"
                                               /\ view[v].output = o} :
              view' = [v \in Views |-> IF v \in hidden
                                       THEN [ended(v) EXCEPT !.output = None]
                                       ELSE ended(v)]
    /\ fade' = [fade EXCEPT ![o] = NoFade]
    /\ Arranged
    /\ UNCHANGED <<wallpaper, reloads>>

Faded(f, done) ==
    IF f.left = 0 THEN f
    ELSE IF done \/ f.left = 1 THEN [f EXCEPT !.node = FALSE, !.left = 0]
    ELSE [f EXCEPT !.left = @ - 1]

Drawn(v, o) == o \in {view[v].output, view[v].closing_output}

\* Mutant of handle_frame: a wallpaper that fades asks for no further frame.
FrameFadeOnce(o) ==
    /\ o \in frame /\ outputs[o] = "on"
    /\ \E done \in SUBSET (Views \cup {o}) :
          /\ view' = [v \in Views |-> IF Drawn(v, o)
                                      THEN FrameUpdate(view[v], v \in done)
                                      ELSE view[v]]
          /\ fade' = [fade EXCEPT ![o] = Faded(@, o \in done)]
    /\ frame' = IF \E v \in Views : Drawn(v, o) /\ view[v].left > 0
                THEN frame ELSE frame \ {o}
    /\ UNCHANGED <<outputs, wallpaper, reloads>>

\* Mutant of handle_frame: only a wallpaper that fades asks for a further frame.
FrameFadeOnly(o) ==
    /\ o \in frame /\ outputs[o] = "on"
    /\ \E done \in SUBSET (Views \cup {o}) :
          /\ view' = [v \in Views |-> IF Drawn(v, o)
                                      THEN FrameUpdate(view[v], v \in done)
                                      ELSE view[v]]
          /\ fade' = [fade EXCEPT ![o] = Faded(@, o \in done)]
    /\ frame' = IF fade[o].left > 0 THEN frame ELSE frame \ {o}
    /\ UNCHANGED <<outputs, wallpaper, reloads>>

(***************************************************************************)
(* Every window drawn on the output, or closing on it, goes on; done are   *)
(* the animations whose time is over.  While one is active the output asks *)
(* for another frame; a direct scan-out has one to come in any case.       *)
(***************************************************************************)
handle_frame(o) ==
    /\ o \in frame /\ outputs[o] = "on"
    /\ \E done \in SUBSET (Views \cup {o}) :
          /\ view' = [v \in Views |-> IF Drawn(v, o)
                                      THEN FrameUpdate(view[v], v \in done)
                                      ELSE view[v]]
          /\ fade' = [fade EXCEPT ![o] = Faded(@, o \in done)]
    /\ frame' = IF \/ \E v \in Views : Drawn(v, o) /\ view[v].left > 0
                   \/ fade[o].left > 0
                THEN frame ELSE frame \ {o}
    /\ UNCHANGED <<outputs, wallpaper, reloads>>

\* The scene asks for a frame of its own: a client drew, a node moved.
Damage(o) ==
    /\ outputs[o] = "on" /\ o \notin frame
    /\ frame' = frame \cup {o}
    /\ UNCHANGED <<outputs, view, wallpaper, fade, reloads>>

\* Outputs are switched on and off by the configuration or by a client.
Switched ==
    \E on \in SUBSET Connected :
       outputs' = [o \in Outputs |-> CASE o \in on        -> "on"
                                       [] o \in Connected \ on -> "off"
                                       [] OTHER           -> outputs[o]]

handle_output_manager_apply ==
    /\ Switched /\ outputs' # outputs
    /\ Arranged
    /\ UNCHANGED <<view, wallpaper, fade, reloads>>

(***************************************************************************)
(* The old wallpaper fades out if there is a new one, on the outputs made  *)
(* where its node can be made; frames is what animation_duration_ms gives. *)
(***************************************************************************)
reload_config(there, made, frames) ==
    /\ reloads < MaxReloads
    /\ reloads' = reloads + 1
    /\ wallpaper' = there
    /\ fade' = [o \in Outputs |->
                  IF ~(wallpaper /\ there) \/ o \notin Connected THEN fade[o]
                  ELSE IF o \in made
                  THEN [node |-> TRUE, left |-> frames, instant |-> frames = 0]
                  ELSE [fade[o] EXCEPT !.node = FALSE]]
    /\ \E on \in SUBSET Views :
          view' = [v \in Views |->
                     [view[v] EXCEPT !.border = v \in on /\ (view[v].closing
                                              \/ view[v].state = "mapped")]]
    /\ Switched
    /\ Arranged

Next ==
    \/ \E v \in Views :
          \/ \E type \in {"xdg", "x11"} : view_create(v, type)
          \/ view_destroy(v)
          \/ handle_xwayland_associate(v) \/ handle_xwayland_dissociate(v)
          \/ \E b \in Buffers :
                \/ handle_commit(v, b)
                \/ \E o \in Places : handle_map(v, b, o)
          \/ \E sized, made \in BOOLEAN : handle_unmap(v, sized, made)
          \/ \E o \in Places : Relocate(v, o)
    \/ \E o \in Outputs :
          output_create(o) \/ output_destroy(o) \/ handle_frame(o) \/ Damage(o)
    \/ handle_output_manager_apply
    \/ \E there \in BOOLEAN, made \in SUBSET Connected, frames \in {0, FadeLen} :
          reload_config(there, made, frames)

\* An output that is on sends the frame it was asked for.
Fairness == \A o \in Outputs : WF_vars(handle_frame(o))

Spec == Init /\ [][Next]_vars /\ Fairness
-----------------------------------------------------------------------------
(* Properties                                                              *)

TypeOK ==
    /\ outputs \in [Outputs -> {"none", "off", "on", "freed"}]
    /\ frame \subseteq Connected
    /\ view \in [Views -> ViewType]
    /\ wallpaper \in BOOLEAN
    /\ fade \in [Outputs -> FadeType]
    /\ reloads \in 0..MaxReloads

(***************************************************************************)
(* Exactly the cached buffer of a window is locked, and once: the commits, *)
(* the end of a closing by a frame, a map, an unplugged output or the      *)
(* window's end neither leak a client's buffer nor give one back twice.    *)
(***************************************************************************)
BufferLockedOnce ==
    \A v \in Views, b \in Buffers :
        view[v].locks[b] = IF view[v].close_buffer = b THEN 1 ELSE 0

(***************************************************************************)
(* An xdg window has a snapshot on the screen exactly while it closes, and *)
(* only then: it is gone when the window is mapped again, and two never    *)
(* pile up.  (An X11 window leaves its snapshot behind.)                   *)
(***************************************************************************)
OneSnapshot ==
    \A v \in Views : LET r == view[v] IN r.type = "xdg" =>
        /\ r.snapshots = IF r.closing THEN 1 ELSE 0
        /\ r.scene = r.closing
        /\ r.closing => r.state = "idle"

(***************************************************************************)
(* The border of an xdg window goes with it: when no window and no closing *)
(* is left to frame, the border is off.  Only an unplugged output, which   *)
(* ends the closings on it, leaves the border on the screen.               *)
(***************************************************************************)
Unframed(v) == view[v].state # "mapped" /\ ~view[v].closing

BorderGoes ==
    [][\A v \in Views : ~IsX11(v) /\ Unframed(v)' /\ view[v].border'
             => \/ Unframed(v) /\ view[v].border
                \/ \E o \in Connected : o \notin Connected']_vars

(***************************************************************************)
(* Closing ends: the snapshot of an xdg window that closed on an output is *)
(* taken away, unless the output is switched off.  A window that closed on *)
(* no output, or on one that was freed, has no frame to wait for.          *)
(***************************************************************************)
ClosingEnds ==
    \A v \in Views, o \in Outputs :
        ~IsX11(v) /\ view[v].closing_output = o /\ o \in Connected
            ~> view[v].closing_output # o \/ outputs[o] = "off"

(***************************************************************************)
(* The old wallpaper goes: what fades on an output is taken away, unless   *)
(* the output is switched off.  With animation_duration_ms = 0 it stays.   *)
(***************************************************************************)
FadeEnds ==
    \A o \in Outputs :
        fade[o].node /\ ~fade[o].instant
            ~> ~fade[o].node \/ fade[o].instant \/ outputs[o] = "off"
=============================================================================
