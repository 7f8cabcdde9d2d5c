CONSTANTS
  v1 = v1
  v2 = v2
  v3 = v3
  v4 = v4
  Views <- FourViews
  NoView = NoView
  Nodes <- SevenNodes
  NoNode <- Null
SPECIFICATION Spec
INVARIANT TreeShape
INVARIANT NoLeak
PROPERTY OrderKept
PROPERTY ImplementsLayout
SYMMETRY Symmetric
