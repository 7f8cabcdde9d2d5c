------------------------- MODULE ExtWorkspaceProofs -------------------------
(***************************************************************************)
(* That panels never show a workspace that is on no screen, for any number *)
(* of workspaces and of outputs below it.  It rests on what                *)
(* WorkspacesProofs proves of the handlers, which ExtWorkspace only adds   *)
(* the sync to, by definition.                                             *)
(***************************************************************************)
EXTENDS ExtWorkspace, WorkspacesProofs

\* Whoever syncs when the relation is whole tells of a workspace that is shown.
LEMMA SyncTells ==
    ASSUME IInv', Sync
    PROVE  PanelShowsVisible'
<1> SUFFICES ASSUME connected' # {}
             PROVE  told' \in Workspaces /\ output'[told'] \in connected'
  BY DEF PanelShowsVisible
<1>1. active_output' \in connected' /\ active_output' # NoOutput
  BY DEF IInv
<1>2. told' = active'[active_output']
  BY <1>1 DEF Sync, ActiveWorkspace
<1>3. NeverBlank' /\ SidesAgree'
  BY DEF IInv, TypeOK, Good, Current, NeverBlank, SidesAgree
<1>4. told' \in Workspaces
  BY <1>1, <1>2, <1>3 DEF NeverBlank
<1>5. active'[active_output'] # NoWorkspace
  BY <1>2, <1>4 DEF NoWorkspace, Workspaces
<1> QED
  BY <1>1, <1>2, <1>3, <1>4, <1>5 DEF SidesAgree

\* A step of the panels is a step of the workspaces.
LEMMA StepProjects == [PanelNext]_panelVars => [Next]_vars
<1> SUFFICES ASSUME [PanelNext]_panelVars PROVE [Next]_vars
  OBVIOUS
<1>1. CASE PanelNext
  BY <1>1 DEF PanelNext, Activate, LastViewDestroyed, OutputAdded, OutputRemoved,
              ViewsChangeTold, Next
<1>2. CASE UNCHANGED panelVars
  BY <1>2 DEF panelVars
<1> QED
  BY <1>1, <1>2

\* A step that does not sync leaves alone what is shown where.
LEMMA StepTells ==
    ASSUME IInv', PanelShowsVisible, [PanelNext]_panelVars
    PROVE  PanelShowsVisible'
<1>1. CASE Sync
  BY <1>1, SyncTells
<1>2. CASE ViewsChangeTold /\ told' = told
  BY <1>2 DEF ViewsChangeTold, ViewsChange, assignment, PanelShowsVisible
<1>3. CASE UNCHANGED panelVars
  BY <1>3 DEF panelVars, vars, PanelShowsVisible
<1>4. Sync \/ (ViewsChangeTold /\ told' = told) \/ UNCHANGED panelVars
  BY DEF PanelNext, Activate, LastViewDestroyed, OutputAdded, OutputRemoved,
         ViewsChangeTold
<1> QED
  BY <1>1, <1>2, <1>3, <1>4

\* Each action is one of Workspaces with a sync added to it.
LEMMA PanelSpecProjects == PanelSpec => Spec
<1>1. PanelInit => Init
  BY DEF PanelInit
<1> QED
  BY <1>1, StepProjects, PTL DEF PanelSpec, Spec

(***************************************************************************)
(* A panel always shows a workspace that is on some screen, whatever       *)
(* switches, releases, plugs and unplugs come in whatever order.           *)
(***************************************************************************)
THEOREM PanelsShowVisible ==
    ASSUME EnoughWorkspaces
    PROVE  PanelSpec => []PanelShowsVisible
<1>1. PanelSpec => []IInv
  BY PanelSpecProjects, Inductive, PTL
<1>2. PanelInit => PanelShowsVisible
  BY DEF PanelInit, Init, PanelShowsVisible
<1>3. IInv' /\ PanelShowsVisible /\ [PanelNext]_panelVars => PanelShowsVisible'
  BY StepTells
<1> QED
  BY <1>1, <1>2, <1>3, PTL DEF PanelSpec

=============================================================================
