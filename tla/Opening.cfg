SPECIFICATION Spec
CONSTANTS
  Starters = {p1, p2, p3}
  Newest = 3
  None = None
SYMMETRY Symmetry
INVARIANTS ServesTheData
PROPERTIES CopiedBeforeChange
CHECK_DEADLOCK FALSE
