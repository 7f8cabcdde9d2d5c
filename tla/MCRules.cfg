CONSTANTS
  v1 = v1
  v2 = v2
  o1 = o1
  o2 = o2
  Views <- TwoViews
  NoView = NoView
  Xwayland <- SecondView
  Outputs <- OneOutput
  NoOutput = NoOutput
  Arrangements <- Alone
  NumWorkspaces = 2
  RuleLists <- PlainRules
  StickyApps <- NoViews
SPECIFICATION Spec
ACTION_CONSTRAINT Timely
INVARIANTS
  FocusIsShown
PROPERTIES
  SwitchFocusesInside
