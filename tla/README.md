# Specifications of wyoWM

wyoWM is a tiling Wayland compositor in C on top of wlroots. It is one thread
around an event loop: every handler runs to its end, but clients, keys, the
pointer, monitors and the command socket call the handlers in any order, and
each handler updates by hand pointers and flags that several others rely on.
That is what this project is about: not races, but long sequences of legal
events that leave the server's structures contradicting each other.

The modules model `src/src/*.c` (paths below are relative to `src/src/`). TLC
checks them on small instances; TLAPS proves theorems about nine of them
(Workspaces, ExtWorkspace, Dwindle, Geometry, Compositor, Ipc, Config, Seat, Scene)
for every number of outputs, workspaces, windows, surfaces, heap cells, bytes
and lines.

## The system

| component | files | state | operations |
|---|---|---|---|
| Workspaces and outputs | `workspace.c`, `output.c`, `server.c` | `Workspace.output`, `Workspace.last_output`, `Output.active_workspace`, `Server.active_output` | switch, release of an empty workspace, creation and destruction of an output |
| Dwindle layout | `dwindle.c`, `layout.c` | a heap of nodes with view, parent and children, root, focused leaf, ratios, boxes | add, remove, focus, move focus, move and swap a view, place a dropped view, arrange, resize |
| Windows and focus | `view.c`, `server.c` | `Server.views`, the fields of `View`, `Server.focused_view` | create, map, unmap, destroy, full screen, rules, sticky, focus, surfaces of layers |
| Keys and the pointer | `input.c` | `Server.drag`, bindings, cursor | key actions, pointer focus, drag of a window |
| IPC socket | `ipc.c`, `tools/wyoctl.c` | a buffer per client | connect, read and run commands, reply, hang up |
| ext-workspace protocol | `ext_workspace.c` | which workspace's handle is set active | activate; report to panels |
| Layer shell | `layer.c`, `server.c` | layer surfaces per output, exclusive zones, the focused surface | create, map, commit, unmap, destroy, click |
| Closing and fading | `animation.c`, `view.c`, `output.c`, `server.c` | progress of animations, closing snapshots and the buffers locked for them, borders, the fading wallpaper, frames asked for | commit, map, unmap, frame, reload |
| Pointer constraints | `server.c`, `workspace.c` | the active constraint and its listener, the hidden cursor | new, destroy, forget |
| Configuration, reload | `config.c`, `input.c`, `server.c` | the list of binds, tables of rules | parse, defaults, reload, match a key |
| Rendering, blur, wallpaper | `render.c`, `blur.c`, `wallpaper.c` | OpenGL objects | draw |
| Arena, NetBSD shim, start-up | `arena.c`, `server_netbsd.c`, `main.c` | | |

How they interact. A key, a command on the socket and a panel all end in
`server_switch_workspace`, which rewrites the assignment of workspaces to
outputs and hides and shows windows. A client's map, unmap and destroy requests
move its window into and out of the layout of its workspace, may release the
workspace and pass the focus on. An unplugged output hides its workspace, and
every pointer to it has to be found. A drag keeps a pointer to a window across
all of that. A closing window, and an old wallpaper, live on as scene nodes that
only the frames of an output can take away, and an output has a frame only if
somebody asked for it.

What is hard: the order of events from independent sources; state kept twice
(`Workspace.output` against `Output.active_workspace`; `View.workspace` and
`View.tiled` against the tree that holds the leaf; `View.output` against
`Workspace.output`); raw pointers to views and outputs that are freed while a
drag, a focus, a layout or a workspace refers to them; flags
(`tiled`, `floating`, `fullscreen`, `saved_tiled`, `sticky`, `enabled` of the
scene node) that nine handlers set; three notions of the keyboard focus (the
window, the layer surface, the seat's); boxes rounded to integers; a byte stream cut up anywhere. There is no
concurrency inside the process, nothing is persisted, and no message is lost.

What makes each component correct is stated by the properties below;
`PROJECT.json` lists the hazards, each at its line, with the properties that
would catch it.

## The modules

```
 ExtWorkspace (ExtWorkspaceProofs)
 |  extends
 v
 Workspaces <--- refined by --- Compositor                 Seat   (SeatProofs)
 (WorkspacesProofs)                 | (CompositorProofs)   Scene  (SceneProofs)
                                    |                      Config (ConfigProofs)
              abstracts each tree to|                      Ipc    (IpcProofs)
                                    v
 Dwindle  ------- implements ->  Layout
 ^
 |  refined by
 Geometry (GeometryProofs, about Dwindle too)
```

**Workspaces** - the assignment of workspaces to outputs. An assignment is a
record; `Hide`, `Show`, `Withdraw`, `Open`, `Destination` are the helpers of
`workspace.c` and `server.c` as operators on it; `SwitchWorkspace`,
`ReleaseIfEmpty`, `OutputCreate` and `OutputDestroy` are the handlers.
The windows are abstracted to the set of workspaces that hold one
(`workspace_empty`); `ViewsChange` lets it and the active output change at any
time.

**ExtWorkspace** - what panels are told. Each handler of Workspaces and, beside it,
whether it ends in `ext_workspace_sync`: `told` is the workspace whose handle was
last set active. `ViewsChangeTold` has both cases, since the pointer moves the active
output without a sync and a change of the focus has one.

**Layout** - what a layout promises, whatever tree it keeps: the set of views it
holds, and a focused view exactly when it holds one.

**Dwindle** - the tree of `dwindle.c`, cell by cell: `alloc` is what `calloc`
handed out, `view`, `parent`, `left`, `right` are the fields of a node. `calloc`
fails when the cells run out, and then nothing changes: the code frees the first
node if it cannot have the second. Which leaf a directional search finds, and on
which half a view is dropped, is open: both are decided by geometry. Its
property `ImplementsLayout` is the refinement of Layout.

**Geometry** - the same tree with its boxes. It extends Dwindle: every action is
an action of Dwindle and, beside it, what happens to `split`, `ratio` and `box`.
`Arrange` is `dwindle_arrange` on the tree the step leaves, `Toward` the two
directional searches, `Drop` the half of a window the pointer is on. The choices
Dwindle leaves open are computed here, which `ImplementsDwindle` checks. Ratios
are kept in hundredths where the code has doubles. `Settle` arranges only a
workspace that is on show, as `server_arrange` does.

**Compositor** - the windows. A handler is a chain of C calls on one server; here
each call is an operator from a server record to the set of records it may leave
(a set, because geometry, the order of a list and the shape of a tree are
abstracted), and an action is the chain, ended by `Becomes`. Each layout is what
Layout promises. `WS` is an instance of Workspaces whose `occupied` is computed
from the windows, so `ImplementsWorkspaces` says that the two fit together, and
Compositor uses the operators of Workspaces for what `server_switch_workspace`
does to the assignment. `WindowNext`, `KeyNext`, `PointerNext` and `OutputNext`
group the actions by who causes them.

| actions | code |
|---|---|
| `Create`, `MapXdg`, `MapXwayland`, `Unmap`, `Destroy` | `view_create_xdg`, `handle_map`, `handle_xwayland_map`, `handle_unmap`, `view_destroy`, with `server_view_mapped`, `_unmapped`, `_destroyed` and the window rules |
| `SetAppId`, `RequestFullscreen`, `Activate` | the requests of a client, and of a task bar |
| `SwitchWorkspace`, `FocusDirection`, `ToggleFloating`, `CenterView`, `MoveDirection`, `MoveOutputDirection` | `handle_keybind_action` and what it calls; `SwitchWorkspace` is also the command `ws` of the socket and the activate request of a panel |
| `Beside` | `find_output_in_direction`, over the positions in `Arrangements` |
| `MovePointer`, `StartDrag`, `EndDrag` | `process_cursor`, `handle_cursor_button` |
| `FocusSurface`, `SurfaceDestroyed` | `server_focus_surface` for a layer surface, and its end |
| `OutputCreate`, `OutputDestroy` | `output_create`, `output_destroy` |

**Ipc** - the framing of `ipc_client_fd`: bytes sent, bytes not yet read, the
buffer of the client and the commands that ran. Outside of `src/` and modelled from how
it is used: the client (`Write`, `HangUp`) and the socket.

**Config** - from the lines of a file to what a key press does: the list of binds
(each put at its head), the built-in binds when the file has none, the digits,
the tables of rules with their limits, the file that is written at the first
start, a reload; then `handle_keybind_event` and `handle_key`, which look the
chord up by keycode and by keysym on a keyboard layout. A line is a record; names of
keys and layouts are data. `UsAssumption` says what the layout "us" is: a key alone
gives the keysym of its name.

**Seat** - who gets the keys and the pointer: `server_focus_view` and
`server_focus_surface` on the three notions of the focus, keyboards, layer
surfaces with the room they reserve, their menus, outputs that come and go below
them, and the active pointer constraint with its single listener. The listener
is in as many lists as `wl_signal_add` put it in (`linked`), and
`listener_remove` takes it out of the last. Which window
gets the focus is Compositor's matter.

**Scene** - what goes on from frame to frame. For each window its snapshot, the
client buffers locked for it, its border and the frames its animations have
left; for each output the fade of the wallpaper, whether it is on or was freed, and whether a
frame is to come. A window may be moved to any output that ever was (`Places`), freed ones included, as
in Compositor. `handle_frame` is the only action with fairness.

| module | code |
|---|---|
| ExtWorkspace | `ext_workspace.c`; the calls of `ext_workspace_sync` and `ipc_notify_workspaces` in `workspace.c`, `server.c`, `output.c` |
| Config | `config.c`, `handle_keybind_event`, `handle_key`, the loading in `server_init` and `reload_config` |
| Seat | `layer.c`, `server_focus_view`, `server_focus_surface`, `handle_focused_surface_destroy`, `handle_new_constraint`, `handle_constraint_destroy`, `keyboard_create`, `handle_keyboard_destroy`, `process_cursor` over the background |
| Scene | `view_cache_buffer`, `handle_commit`, `handle_map`, `handle_unmap`, their X11 counterparts, `view_destroy`, `view_frame_update`, `handle_frame`, `output_destroy`, `reload_config`, `handle_output_manager_apply` |

The `MC...` modules give the constants values for TLC. A mutant of an operator
(`HideForgets` of `Hide`, ...) is kept beside it: replacing the operator
with it makes the property that names it in `PROJECT.json` fail, so the property does depend on what the code does there.

## What the runs check

| run | instance | states | shows |
|---|---|---|---|
| `workspaces` | 3 outputs, 4 workspaces, of Workspaces with ExtWorkspace | 36 k | both sides of the relation agree (`SidesAgree`), no output is blank (`NeverBlank`), no pointer to a freed output (`NoDanglingOutput`), and three action properties on where workspaces return to (`OccupiedRemembersHome`, `FallbackSparesHomes`, `SwitchKeepsHomes`); what a panel shows is on some screen (`PanelShowsVisible`) |
| `dwindle` | 4 views, 7 cells | 32 k | the pointers form a tree (`TreeShape`), nothing leaks or dangles (`NoLeak`), windows keep their order, and the refinement `ImplementsLayout` |
| `geometry` | 3 views, 5 cells, 2 usable areas, 2 spots | 87 k | on a workspace on show the windows have room, lie inside the area and apart (`WindowsTile`), the focus keys lead from any window to any other (`KeysReachAll`), a window lands under the pointer that drops it (`LandsUnderPointer`), and the refinement `ImplementsDwindle` |
| `compositor` | 2 windows, 2 outputs that come and go, 3 workspaces, no full screen, at most one floating window | 126 k | while windows map in time (`Timely`): `WindowOnItsOutput`, `LayoutHoldsItsWindows`, `DragIsLive`, `NoneLeftWaiting`, and the refinement `ImplementsWorkspaces` |
| `rules` | an XDG and an X11 window, 1 output that comes and goes, 2 workspaces, seven lists of window rules, full screen | 126 k | while windows map in time (`Timely`): `FocusIsShown`, `SwitchFocusesInside` |
| `sticky` | 1 window that may become sticky in three ways, 2 outputs, 2 workspaces, mapped once | 437 k | `StickyStaysShown` |
| `seat` | 2 keyboards, 2 windows, 2 panels, 1 menu, 2 outputs, 2 constraints | 694 k | the keys go where the server says (`KeysGoToTheFocus`), no freed surface has the focus (`FocusedSurfaceLives`), panels get their room and no more (`RoomBetweenPanels`), the end of the active constraint is heard (`ConstraintIsHeard`), a hidden cursor comes back (`CursorComesBack`) |
| `scene` | 1 window, 2 outputs, 2 buffers, animations of 2 frames, 1 reload | 143 k | buffers are locked once (`BufferLockedOnce`), one snapshot (`OneSnapshot`), the border goes (`BorderGoes`), and the liveness properties `ClosingEnds`, `FadeEnds` |
| `config` | files of 3 lines out of 18, 27 chords, 2 keyboard layouts | 12 k | a key does what the last line for it says (`KeysDoWhatTheFileSays`), the first good rules count (`FirstRulesCount`) |
| `ipc` | 1 client, a buffer of 3 bytes, 6 bytes sent | 17 k | `RunsWhatWasSent`, `RunsTailsOfLines`, `HangUpRunsTheRest`, and the liveness property `CommandsRun` |

Two more runs each find a disagreement between the code and the README of
wyoWM; see Findings. The definitions `TypeOK`, `ActiveOutputExists`, `OneLeafPerView`
and `FocusIsLeaf` of Workspaces, Dwindle, Compositor, Seat, Scene and Ipc are theorems, so no run repeats them.

### Bounds, and why they are enough

- `workspaces`: there must be more workspaces than outputs (`EnoughWorkspaces`;
  ten in the code, which never checks it). Three outputs give a switch between
  two of them a bystander, and four workspaces leave exactly one hidden when all
  three outputs are on, the tightest case. The main properties are proved
  for all sizes.
- `dwindle`: a tree of four views takes seven cells, which has inner nodes that
  are root, first and second child, a leaf whose grandparent exists, and a
  sibling that is itself an inner node; every case of `dwindle_remove_view` and
  `dwindle_place_view` is reached. Views are symmetric. A
  `calloc` that fails leaves the layout as it was, so in the model the window is
  not added, or in `PlaceView` only the focus moves; the theorems cover
  heaps that are too small.
- `compositor`, `rules`, `sticky`: the whole system on two windows,
  two outputs, full screen, rules and unplugging at once takes hours, so each run leaves something out and the three overlap.
  `compositor` has no full screen, at most one floating window, and drags of floating
  windows only (`WindowedSpec`); `rules` has one output, `sticky` one window that is mapped
  once (`MappedOnce`). Full screen and the drag of a tiled window are in `rules`
  and `sticky`, a window that is mapped again in `compositor` and `rules`. Two windows
  are what one handler ever looks at (the one it acts on and the one it takes
  the focus from, covers or lands on). Three workspaces on two outputs
  leave one hidden. `rules` has one output, where windows of two workspaces
  compete for it, and adds full screen and unplugging to the rules. The rules
  are those whose order matters, alone and in pairs. `Arrangements` puts the
  outputs side by side and one above the other, so that every direction occurs.
- `geometry`: three windows give a tree with an inner child. One area is roomy
  and wider than high, the other, 30 pixels wide with gaps of 4 and 8, leaves some
  windows a few pixels and others none. The area does not change while the
  workspace is hidden (`ShownSpec`): it would change no box until the workspace is shown
  again. The two spots lie on different
  halves of the roomy area. A resize asks for a whole width at once, which drives
  ratios to their clamp.
- `seat`: two of everything that can replace each other (keyboards, windows, panels,
  outputs, constraints). One panel wants the keyboard, one constraint locks, the
  other confines and ends when it is deactivated. Outputs, which are alike to
  everything here, are symmetric.
- `scene`: `Len` and `FadeLen` (frames of an animation) are 2, so that there is
  a frame in the middle; an animation may also be over at any frame, as time
  has it. `MaxNodes` = 2 bounds the snapshots an X11 window leaves behind;
  `MaxReloads` = 1, since a reload during a fade starts it over. Windows share nothing here but
  the frame of an output, so one is enough.
- `config`: `MaxLines` = 3 fits two lines about one chord and one between;
  `MaxRules` = 2 (16 to 64 in the code) is reached and passed. Two keyboard
  layouts, one on which keys change places. One line names a shifted key by its
  keysym. The proofs have none of these bounds.
- `ipc`: a buffer of three bytes is the smallest in which a line with its
  newline fits with room for a partial one; six bytes fill it twice. Clients do
  not share anything, so one is enough. `BufSize` is 4096 in the code; the proofs
  are for any.

### Deadlock, fairness

No run turns the deadlock check off. Two modules have liveness properties.
`CommandsRun` assumes weak fairness of `Event` alone: the loop of libwayland is
level-triggered (epoll or kqueue), so a socket with unread data is handled
again and again until it has none. Clients owe nothing: a line that is never
finished is never run. `ClosingEnds` and `FadeEnds` assume weak fairness of
`handle_frame` for each output: `handle_frame` is enabled while the output is on and a frame was asked
for, and the backend then sends one (`wlr_output_schedule_frame`). Nothing is assumed about who asks: that
the code asks often enough is what is checked. The other modules have no fairness: what a user,
a client or a monitor does next is not the compositor's to promise.

### What the code does not guarantee

These are exceptions that the properties state, met while modelling:

- A sticky window may keep the output it was on when that is unplugged
  (`output_destroy` only visits the windows of the workspace), and when it is
  given a workspace again it may be in a tree that is not its own.
  `ImplementsWorkspaces`, `FocusIsShown`, `LayoutHoldsItsWindows` are therefore
  checked without sticky windows.
- A window that `output_create` adopted before it mapped keeps that output when it is
  unplugged, and maps on it (the finding `visible_belongs`). It is then
  mapped without a workspace, and may make the freed output the active one. The actions
  have no guard against this; `Timely` is the hypothesis that it does not happen, and every run
  and theorem that needs it names it: the theorems are about `TimelySpec`, `WindowedSpec` includes it, and `rules` has it as its action constraint.
- No handler asks whether the output or the window a pointer leads to was freed. The model
  follows such a pointer: it reads what was freed as it was left (an output that shows
  no workspace, a blank window), or, when the address is used again, what was put there. A crash
  ends the behaviour; that freed memory holds anything else is not modelled.
- An X11 window keeps its full-screen flag, with `saved_tiled`, over an unmap
  (`handle_xwayland_unmap`), and may end up tiled and floating.
- A resize drag of a tiled window that ends on another output takes the window
  out of its tree and leaves `tiled` set, so "a tiled window is in the tree of
  its workspace" is false. Only the other direction, `LayoutHoldsItsWindows`,
  is an invariant.
- Panels may show a workspace that is not the active one: the pointer that crosses to
  another output (`process_cursor`), a key that goes to an empty output, and
  a focus that does not change (`server_focus_view`, early return) move
  `active_output` without a sync. A panel that then asks for the workspace that is active already is
  not corrected, as the switch returns early. `PanelShowsVisible` is what is left: the
  workspace is at least on a screen.
- With as many outputs as workspaces an output can be left without a workspace;
  this needs ten monitors.
- A window or a launcher that is given the focus while no keyboard is plugged
  in never gets its enter event, and no handler makes up for it
  (`KeysGoToTheFocus` sets this apart as `deaf`).
- A switch away from a full-screen window forgets the pointer constraint and
  leaves its listener linked; the next constraint links it again
  (`ConstraintIsHeard` sets this apart as `switched`).
- A layer surface keeps the output that was unplugged, and its room is then in
  no output.
- With `gaps_in = 0`, or where a node has no more room than the gap and
  `arrange_node` leaves the gap out, a window that touches another only at a corner is
  as near as the one beside it, and `search_direction_edge` keeps the first in the
  tree: of four windows in a square the keys never lead to the last. `KeysReachAll`
  is stated for a gap in every node (`Spaced`).
- A window dropped where no window of the tree is joins beside the focused one,
  and need not be under the pointer; `LandsUnderPointer` is about drops on a window.
- When the room of a node is one pixel more than the gap, its first child gets
  none, and what lies under an empty node keeps the box it had (`Cramped`).
- On a keyboard layout other than the one the names of keys are meant for a key
  can match two binds, by code and by keysym, and a digit can hide a line of the file.
  `KeysDoWhatTheFileSays` is about "us".
- A wallpaper that fades with `animation_duration_ms = 0` is never taken away
  (`instant` in `FadeEnds`); a window that closes on no output, or on one that was freed, stays
  (`view_frame_update` is only called from a frame of its output), and so does anything on an output
  that is switched off meanwhile. A window that closes on an
  output that is unplugged leaves its border (`BorderGoes`).
- An X11 window leaves its snapshot behind: `handle_xwayland_dissociate`
  forgets the node, and `handle_xwayland_map` does not clear the closing.
  `OneSnapshot`, `BorderGoes` and `ClosingEnds` are about XDG windows.
- Seen while modelling, without a property: an *empty* workspace that another output shows is pulled
  to the active one and the other gets a replacement (`server_switch_workspace`), while the README says "both outputs keep their
  workspaces"; an empty workspace that is hidden forgets
  its output, while the README says "Hidden workspace remembers last output";
  a sticky window whose rules say `workspace N` first opens hidden; a window that is mapped
  again while its workspace is hidden is drawn; `togglefloating` leaves a sticky
  window neither tiled nor floating; `exec-once` commands run from the last line of the file to the first;
  of two output rules for one name `output_create` takes the first and a reload the last.

### Findings

| run | what the README of wyoWM says | what happens |
|---|---|---|
| `move_output` | "Move window to adjacent output" | the keys for up and right never find the output that lies exactly there: `find_output_in_direction` tests the overlap of the other axis |
| `visible_belongs` | "Visible workspace belongs to its output" | a workspace is shown on an output that was unplugged: a window that was created without an output gets one at `output.c:269`, the output goes, the window maps on it all the same, is activated, and the next switch opens its workspace there |

## What is proved

`WorkspacesProofs` proves, for any finite set of outputs and any number of
workspaces:

| theorem | statement |
|---|---|
| `Inductive` | `EnoughWorkspaces => (Spec => []IInv)` |
| `TypeCorrect` | `TypeOK` |
| `SidesAlwaysAgree` | `SidesAgree` |
| `OutputsNeverBlank` | `NeverBlank` |
| `NoOutputDangles` | `NoDanglingOutput` |
| `ActiveOutputAlwaysExists` | `ActiveOutputExists` |

under `NumWorkspacesAssumption` (at least one workspace), `OutputsAssumption` (a
finite set, and NULL is not in it) and the hypothesis `EnoughWorkspaces` (more
workspaces than outputs).

The argument. `SidesAgree` alone is not inductive: the release of a workspace
gives its output "the first hidden workspace", and that is a workspace at all
only if one is hidden; a pigeonhole argument (`SomeHidden`) finds it, which in
turn needs that different visible workspaces are on different connected outputs
and that no disconnected output shows one. `IInv` is the conjunction of types, agreement,
no dangling output, no blank output and the active output. It is stated of an
*assignment* (`Good(s, C)`) rather than of the variables, so that the lemmas
`OpenGood` and `WithdrawGood` can be about one C helper each and the actions, which
call several in turn, only chain them: `FirstIn` (what `wl_list_for_each`
finds), one `...Fields` lemma per helper, then one `...Inv` lemma per action.

`WorkspacesProofs` also proves, under the same assumptions, what a step of
Workspaces may never do:

| theorem | statement |
|---|---|
| `SwitchesKeepHomes` | `SwitchKeepsHomes` |
| `HomesRemembered` | `OccupiedRemembersHome` |
| `FallbacksSpareHomes` | `FallbackSparesHomes` |

They follow from `IInv`, in which `Good` says for their sake that a visible
workspace has its output for `last_output` too. `OpenKeeps` and `WithdrawKeeps`
say what the two helpers do to the workspaces they are *not* about, and one
`...Keeps` lemma per handler chains them.

`ExtWorkspaceProofs` proves, under the same assumptions:

| theorem | statement |
|---|---|
| `PanelsShowVisible` | `PanelShowsVisible` |

Every action of ExtWorkspace is one of Workspaces with the sync added to it, so `IInv` holds of
`PanelSpec` as well (`StepProjects`, `PanelSpecProjects`; they hold by definition). A step that syncs then tells of the workspace
of the active output, which is shown (`SyncTells`); one that does not changes no
assignment (`StepTells`).

`GeometryProofs` proves about Dwindle, for any set of views and any set of heap cells, with
`calloc` failing whenever they run out:

| theorem | statement |
|---|---|
| `Inductive` | `Spec => []IInv` |
| `TypeCorrect` | `TypeOK` |
| `AlwaysATree` | `TreeShape` |
| `NothingLeaks` | `NoLeak` |
| `AlwaysOneLeaf` | `OneLeafPerView` |
| `FocusAlwaysALeaf` | `FocusIsLeaf` |
| `Implements` | `ImplementsLayout`, the refinement of Layout |
| `OrderAlwaysKept` | `OrderKept` (for finitely many cells) |

under `NoViewAssumption` and `NodesAssumption` (NULL is neither a view nor a
cell). The argument. When the focused leaf is removed the focus goes to the first
leaf below its sibling; that this is not the removed leaf itself needs the tree to be
free of cycles, which `TreeShape`, being about neighbours only, does not say.
`NoLeak` says it, but of a walk; `Reach` is the same fact as a statement about
sets ("no closed set of cells that holds the root misses a cell in use"),
which makes every use of it one instance: `NoCycle` (a set that holds the
parents of its members and not the root is empty) and `SiblingApart`. `Clean` is
needed because a new cell is used with the parent it has: `calloc` zeroes it, and
in the model a freed cell is cleared. Then one lemma for each way to change the
tree (`PlantInv`, `SplitInv`, `ExchangeInv`, `SiblingsInv`, `UprootInv`,
`PromoteInv`, `FocusInv`), from which the operations of `dwindle.c` are put
together; and for the refinement one `...Implements` lemma for each.

`GeometryProofs` proves about Geometry, for any set of views, any finite set of heap cells, any
usable areas, gaps and border, any pixels a resize asks for and any spots:

| theorem | statement |
|---|---|
| `GeometryImplements` | `ImplementsDwindle` |
| `AlwaysLaidOut` | `GeometrySpec => []GeometryInv` |
| `AlwaysTiled` | `WindowsTile` |
| `DropsLand` | `LandsUnderPointer` |
| `KeysAlwaysReach` | `KeysReachAll` |

under `GeometryAssumption` (gaps are not negative, an area has a pixel, the heap
is finite) and those of Dwindle. The argument. By `GeometryImplements` the
invariant of Dwindle holds here too (`TreeInvariant`). `WindowsTile` is
not inductive as it stands: that two windows lie apart says nothing of the inner
nodes, whose boxes decide where the windows go next. `Laid` says it of each node:
the root has the usable area less the outer gap, and below a node that
`arrange_node` was told and that is not empty each child has its `Part`. It is
proved of every step without a look at the boxes before it, since every step on
a workspace on show ends in `server_arrange`; what has to be shown instead is that
`Arrange`, a recursive function on the tree, is what it says it is. The prover has no
induction over data, so `TreeRecursion` shows, for any rooted tree of finitely many
cells, that there is such a function, as the union of those that are defined
on the nodes below some set (`PartialsReach`). From `Laid` to the tiling: no inner node
is empty unless one is `Cramped` (`LaidFits`); the parts of one box lie apart
and inside it (`PartsApart`, `PartFits`); so a leaf keeps apart from every node it is not
below (`LeafApart`: the nodes where that fails hold their parents, and
not the root, so there are none). `DropsLand` adds where the split goes: the
new inner node takes the box of the leaf it replaces (`GraftKeeps`), or, when that
was the only window (`LoneIsRoot`, by counting cells) and the outer gap changes
with it, one of the same centre (`TopIsCentred`), so in both cases the half of the pointer is the new window's
(`HalfMissed`).

`KeysAlwaysReach` takes any set of windows that is neither empty nor all of them and
finds a key that leads out of it. Some inner node has all windows
below one child in the set and all below the other outside it (`CutNode`, again by
`Deepest`). The windows in the same corner of the two children face each other with
just the gap between them (`CornerLeaf`, `ChildrenFace`). The search adds to the
distance ahead four times the distance aside, so it picks a window that costs no more than
that gap, and no window outside the other child is as near (`NearIsFar`, `KeyCrosses`).
That needs a gap of its own in every
node, `Spaced`: in a room too small for one, four windows can be laid out so
that the keys do not reach all of them, which is why `KeysReachAll` supposes it.

`CompositorProofs` proves, for any finite set of outputs, any windows, any number
of workspaces, any lists of window rules and any arrangement of the outputs:

| theorem | statement |
|---|---|
| `ServerTypes` | `TypeOK` |
| `DragAlwaysLive` | `DragIsLive` |
| `StickyAlwaysShown` | `StickyStaysShown` |

under the assumptions of Compositor (`RulesAssumption`: no rule names workspace 0,
which `config.c` turns into 10), and, with more workspaces than outputs
(`EnoughWorkspaces`), no sticky windows (`NeverSticky`) and windows that map in time
(of `TimelySpec`),

| theorem | statement |
|---|---|
| `WindowsKeepWorkspaces` | `ImplementsWorkspaces`, the refinement of Workspaces |
| `WindowsOnTheirOutput` | `WindowOnItsOutput` |
| `LayoutsHoldTheirWindows` | `LayoutHoldsItsWindows` |
| `NoneEverLeftWaiting` | `NoneLeftWaiting` |
| `VisibleBelongsInTime` | `VisibleBelongs` |
| `FocusAlwaysShown` | `FocusIsShown` |
| `SwitchesFocusInside` | `SwitchFocusesInside` |

Both hypotheses are needed: with a sticky window, or one that maps on a freed output, some of these are false (see
above), and the code has no invariant to put in their place. `VisibleBelongsInTime` says of the
finding `visible_belongs` that nothing else leads to it. The argument. There
are two invariants. `Live` (types; mapped and dragged windows are on the list of
windows) needs no hypothesis. `Sound` is `Live`, the invariant of
WorkspacesProofs, taken over through the instance `WP`, and `Whole`: every
window has the output that shows its workspace, every layout holds mapped windows of its
workspace only, the focused window is on an output on show, and outputs and
workspaces agree. None of these is inductive without the others: `FocusIsShown`
needs to know that the window that is focused is at home, homes need the
assignment to be sound when an output is unplugged, and what the layouts hold
decides which window gets the focus. In the middle of a handler `Whole` is often false: a
window has left its old workspace and not joined the new one. So the
lemmas about one C call each, in the first half of CompositorProofs, do not say that a call keeps an
invariant but what it changes and of whom (`Handles`, `Carries`, `Shifts`: "one window
may change in any way, all others and the screens stay"), and `WholeBut(s, v)`
is `Whole` but for the window that is on its way. `Timely` is used in `MapXdgStays` and `MapXwaylandStays` alone. One `...Stays` lemma
for each action chains the calls and arrives at `Whole` again. The calls that
rewrite the assignment are shown to be the operators of Workspaces, whose `NextInv` then does the rest.

`SeatProofs` proves, for any sets of keyboards, windows, surfaces, outputs and
constraints:

| theorem | statement |
|---|---|
| `Inductive` | `Spec => []IInv` |
| `TypeCorrect` | `TypeOK` |
| `KeysArrive` | `KeysGoToTheFocus` |
| `SurfaceAlive` | `FocusedSurfaceLives` |
| `RoomIsRight` | `RoomBetweenPanels` |
| `ListenerInPlace` | `ConstraintIsHeard` |
| `CursorBack` | `CursorComesBack` |

under `SeatAssumption` (windows, panels and menus are different things, and neither
NULL nor a freed pointer is one). The invariant has three parts that do not depend on each other
(`FocusInv` for the keyboard, `RoomInv` for the panels, `PointerRight` for
the constraint and the cursor), and most actions touch one of them.

`SceneProofs` proves, for any sets of windows, outputs and buffers:

| theorem | statement |
|---|---|
| `Inductive` | `Spec => []IInv` |
| `TypeCorrect` | `TypeOK` |
| `BuffersLockedOnce` | `BufferLockedOnce` |
| `SnapshotsGo` | `OneSnapshot` |
| `BordersGo` | `BorderGoes` |

under `SceneAssumption` (NULL is no output and no buffer; the bounds are positive).
The invariant is about one window at a time: its record is consistent by itself
(`Sound`: exactly the cached buffer is locked, `closing_scene` points to a snapshot
there is, an XDG window has a snapshot exactly while it closes), which the lemmas
show of each C helper. Where the window is does not matter: it may be on any output, a freed one included.

`IpcProofs` proves, for any number of clients, any letters, any size of the buffer
from two bytes on and any length of what is sent:

| theorem | statement |
|---|---|
| `AlwaysSound` | `Spec => []IInv` |
| `TypeCorrect` | `TypeOK` |
| `LinesRun` | `RunsWhatWasSent` |
| `OnlyTailsRun` | `RunsTailsOfLines` |
| `HangUpRuns` | `HangUpRunsTheRest` |

under `BytesAssumption` (newline, blank and letters differ) and `SizesAssumption`. The
argument. What is to be shown is about a text, what the code does is about a
buffer and a read of any length. `Serves(rest, commands, text)` relates the two at every
byte: what is in the buffer is the unfinished last line of the text read so far, or
its tail when the buffer was thrown away, and the commands that ran are the finished
lines, or tails of them. `Take` is the work done for one byte; it extends `Serves`
to the text with that byte (`TakeServes`), and `Drain` is that many `Take`s
(`DrainServes`: the function exists, and the first byte at which it is wrong cannot
be). `Spill` is the only place at which a line loses its beginning, and only when the
buffer is full: then a stretch of `BufSize` bytes without a newline was read, which is
what `Fits` excludes. A read of length zero never happens to an open
connection, since `TypeOK` leaves room in the buffer.

`ConfigProofs` proves, for any lines, any number of them, any chords and tables of
any size:

| theorem | statement |
|---|---|
| `AlwaysRead` | `Spec => []IInv` |
| `KeysObey` | `KeysDoWhatTheFileSays` |
| `RulesInOrder` | `FirstRulesCount` |

under `ConfigAssumption` and `UsAssumption`. The argument. `IInv` only says that the
configuration is what was loaded from the file; the work is in `Load`, three loops
one after the other. `Iterates` shows that such a loop is a function and `CountUp`
follows it. What is kept is not the list but what is found in it: `Says(list, said, ...)`
says that a chord finds the bind of the greatest number in `said`, and nothing if
`said` is empty. A bind put at the head that fits becomes the greatest, one that does not
changes nothing (`SaysMore`), for the lines of the file (`LineRead`) as for the table of
defaults (`DefaultAdded`). The digits come last and in front of everything, so for
them it has to be shown that they hide nothing: a digit is only added when no bind claims
it, and on "us" a bind claims the digit exactly if its chord finds it (`DigitFits`);
`HasDigits` says that what was found is found still. The tables of rules are
followed beside, by `AreFirst`, which a good line extends if there is room (`WithFirst`).

Only model-checked: liveness (`CommandsRun`, `ClosingEnds`, `FadeEnds`), which is out of
reach of the prover. Every other property of the passing runs is a theorem.

How the theorems fit together. Compositor takes its layouts to be what Layout
promises; Dwindle implements Layout (`Implements`), and Geometry implements
Dwindle (`GeometryImplements`). Compositor implements Workspaces
(`WindowsKeepWorkspaces`) as long as no window is sticky and windows map in time, so the theorems of
WorkspacesProofs hold of it too; otherwise they do not carry over.
ExtWorkspace adds the reports to the panels to Workspaces, action by action.

## What is not modelled

- Floating geometry: where a floating window stands. In Compositor the pointer
  is over any window it could be over, and the neighbour in a direction is any
  neighbour; Geometry computes both for tiled windows.
- Text: trimming, colours, numbers and comments of the configuration file, JSON
  of the replies. Options that only change looks.
- `render.c`, `blur.c` and the drawing in `wallpaper.c`: OpenGL. Easing curves are floating point.
- Popups of windows, decorations beyond the border, foreign-toplevel handles,
  data drag-and-drop: they follow the window and decide nothing here.
- In `ext_workspace.c` the handles of outputs and workspaces, set up once, and the
  end of the manager at shutdown.
- `arena.c`, a bump allocator; `server_netbsd.c`, a shim; the protocol headers,
  which are generated.
- Failing allocations outside the layout and the snapshot (the code gives up on
  the window or exits).
- Start-up and shutdown beyond loading the configuration: straight sequences of library calls.

## Plan

1. `Workspaces`, `Layout`, `Dwindle`, the proofs about them; `Compositor`; `Ipc` -
   done.
2. `Geometry` over `Dwindle`; `Scene` for closing, fading and frames; `Seat` for
   layer surfaces, keyboards and pointer constraints; `Config` for the file, the
   binds and reload; hotplug and directions between outputs in `Compositor` - done.
3. `ExtWorkspace`, what panels are told against what is active; `SceneProofs`,
   `SeatProofs`, `ExtWorkspaceProofs`, the action properties of `Workspaces` - done.
4. `CompositorProofs`, all safety properties of `Compositor`;
   `GeometryProofs`, the refinement, the tiling, the drop, the focus keys and the
   order of the windows - done.
5. `IpcProofs` and `ConfigProofs`, all safety properties of `Ipc` and `Config` - done.
6. Still open: what remains true of `LayoutHoldsItsWindows` and `FocusIsShown` when
   windows are sticky.
