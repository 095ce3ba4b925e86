SPECIFICATION Spec
CONSTANTS
  Chunks = {a, b, c, d}
  MaxAt = 2
  MaxEdges = 3
  MaxTxns = 2
SYMMETRY Symmetry
CHECK_DEADLOCK FALSE
INVARIANTS
  StandingGraphSound
  GoneLeavesNothing
  HeldPrerequisitesDone
PROPERTIES
  FoldKeepsEdges
