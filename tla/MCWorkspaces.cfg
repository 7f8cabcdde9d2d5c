CONSTANTS
  o1 = o1
  o2 = o2
  o3 = o3
  Outputs <- ThreeOutputs
  NumWorkspaces = 4
  NoOutput = NoOutput
SPECIFICATION PanelSpec
INVARIANT SidesAgree
INVARIANT NeverBlank
INVARIANT NoDanglingOutput
INVARIANT PanelShowsVisible
PROPERTY OccupiedRemembersHome
PROPERTY FallbackSparesHomes
PROPERTY SwitchKeepsHomes
