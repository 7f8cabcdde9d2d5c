CONSTANTS
  v1 = v1
  v2 = v2
  o1 = o1
  o2 = o2
  Views <- OneView
  NoView = NoView
  Xwayland <- NoViews
  Outputs <- TwoOutputs
  NoOutput = NoOutput
  Arrangements <- Neighbours
  NumWorkspaces = 2
  RuleLists <- StickyRules
  StickyApps <- OneView
SPECIFICATION Spec
ACTION_CONSTRAINT MappedOnce
PROPERTIES
  StickyStaysShown
SYMMETRY Symmetric
