CONSTANTS
  v1 = v1
  v2 = v2
  o1 = o1
  o2 = o2
  Views <- OneView
  NoView = NoView
  Xwayland <- NoViews
  Outputs <- OneOutput
  NoOutput = NoOutput
  Arrangements <- Alone
  NumWorkspaces = 2
  RuleLists <- NoRules
  StickyApps <- NoViews
SPECIFICATION Spec
INVARIANTS
  VisibleBelongs
