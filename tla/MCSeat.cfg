CONSTANTS
  Keyboards = {k1, k2}
  Views = {v1, v2}
  Panels = {p1, p2}
  Menus = {m1}
  Interactive = {p1}
  Outputs = {o1, o2}
  Constraints = {c1, c2}
  Locks = {c1}
  OneShots = {c2}
  None = None
  Dangling = Dangling
SPECIFICATION Spec
INVARIANTS
  KeysGoToTheFocus
  FocusedSurfaceLives
  RoomBetweenPanels
  ConstraintIsHeard
  CursorComesBack
SYMMETRY Symmetric
