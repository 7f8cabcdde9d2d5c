---------------------------- MODULE ExtWorkspace ----------------------------
(***************************************************************************)
(* What panels are told through the ext-workspace protocol                 *)
(* (src/src/ext_workspace.c): which workspace is the active one.  Nothing  *)
(* recomputes it: it is what the last ext_workspace_sync found, and each   *)
(* handler has to call that by itself, after it is done.  Not all do.      *)
(***************************************************************************)
EXTENDS Workspaces

VARIABLE
    told    \* the workspace whose handle is set active, or NoWorkspace

panelVars == <<vars, told>>

\* active_ws of ext_workspace_sync: what the active output shows.
ActiveWorkspace ==
    IF active_output = NoOutput THEN NoWorkspace ELSE active[active_output]

\* ext_workspace_sync, also under the name of ipc_notify_workspaces.
Sync == told' = ActiveWorkspace'

(***************************************************************************)
(* handle_commit: a panel asks for w.  Keys and the IPC socket make the    *)
(* same switch.  A request for the workspace that is active already does   *)
(* nothing, and does not tell a panel that shows another one.              *)
(***************************************************************************)
Activate(w) == SwitchWorkspace(w) /\ Sync

\* server_view_destroyed, of the last view of a workspace.
LastViewDestroyed(w) == ReleaseIfEmpty(w) /\ Sync

OutputAdded(o) == OutputCreate(o) /\ Sync

\* Mutant of OutputRemoved: nobody is told.
OutputRemovedSilently(o) == OutputDestroy(o) /\ told' = told

OutputRemoved(o) == OutputDestroy(o) /\ Sync

(***************************************************************************)
(* A view that is mapped or unmapped, and one that gets the focus, ends in *)
(* a sync.  The pointer that crosses to another output, a key that goes to *)
(* an empty one while nothing has the focus, and a focus that stays where  *)
(* it is, change the active output without one.                            *)
(***************************************************************************)
ViewsChangeTold == ViewsChange /\ (Sync \/ told' = told)

PanelInit == Init /\ told = NoWorkspace

PanelNext ==
    \/ \E w \in Workspaces : Activate(w) \/ LastViewDestroyed(w)
    \/ \E o \in Outputs : OutputAdded(o) \/ OutputRemoved(o)
    \/ ViewsChangeTold

PanelSpec == PanelInit /\ [][PanelNext]_panelVars
-----------------------------------------------------------------------------
(* Properties                                                              *)

\* What a panel shows as active may be out of date, but it is always a
\* workspace that is on some screen: every handler that hides a workspace, or
\* unplugs the output it is on, tells the panels (ext_workspace_sync).
PanelShowsVisible ==
    connected # {} => told \in Workspaces /\ output[told] \in connected
=============================================================================
