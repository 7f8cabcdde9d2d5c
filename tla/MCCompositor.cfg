CONSTANTS
  v1 = v1
  v2 = v2
  o1 = o1
  o2 = o2
  Views <- TwoViews
  NoView = NoView
  Xwayland <- NoViews
  Outputs <- TwoOutputs
  NoOutput = NoOutput
  Arrangements <- Neighbours
  NumWorkspaces = 3
  RuleLists <- NoRules
  StickyApps <- NoViews
SPECIFICATION WindowedSpec
INVARIANTS
  WindowOnItsOutput
  LayoutHoldsItsWindows
  DragIsLive
  NoneLeftWaiting
PROPERTIES
  ImplementsWorkspaces
SYMMETRY Symmetric
