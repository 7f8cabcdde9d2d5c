CONSTANTS
  v1 = v1
  v2 = v2
  v3 = v3
  Views <- ThreeViews
  NoView = NoView
  Nodes <- FiveNodes
  NoNode <- Null
  Areas <- TwoAreas
  GapsIn = 4
  GapsOut = 8
  SmartGaps = TRUE
  Border = 2
  Spots <- TwoSpots
  Deltas <- Keys
SPECIFICATION ShownSpec
INVARIANT WindowsTile
INVARIANT KeysReachAll
PROPERTY LandsUnderPointer
PROPERTY ImplementsDwindle
SYMMETRY Symmetric
