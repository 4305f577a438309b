\* Room for every link: only tombstones are in the way.
SPECIFICATION Spec
CONSTANTS
  Marks = {0, 1, 4, 6}
  Points = {0, 1, 4, 6}
  Ms = {2}
  Efs = {4}
  Distance <- MCDistance
  Params <- MCParams
  Queries = {0, 4}
  TopLevel = 1
  MaxSlots = 4
INVARIANT LiveFindable
