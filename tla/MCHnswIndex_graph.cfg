\* Four slots; lists overflow for M = 1.
SPECIFICATION Spec
CONSTANTS
  Marks = {0, 1, 4, 6}
  Points = {0, 1, 4, 6}
  Ms = {1, 2}
  Efs = {2}
  Distance <- MCDistance
  Params <- MCParams
  Queries = {4}
  TopLevel = 1
  MaxSlots = 4
INVARIANTS GraphOK SearchFillsK WideSearchExact
PROPERTY DroppedLinkCovered
