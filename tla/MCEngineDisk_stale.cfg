\* An old piece of the log comes back over a newer snapshot.
SPECIFICATION DiskSpec
CONSTANTS
    ExtIds = {x1}
    Vecs = {v1, v2}
    BadVecs = {}
    NoVec = NoVec
    Metas = {m0, m1}
    EmptyMeta = m0
    NoMeta = NoMeta
    Absent = Absent
    NoOp = NoOp
    Policies = {"GroupCommit"}
    MaxLog = 2
    FaultKinds = {"kill", "io", "power"}
    MaxFaults = 0
    MaxMay <- MCMaxMayWide
SYMMETRY Symmetry
INVARIANTS
    RecoveryNeverMixes
