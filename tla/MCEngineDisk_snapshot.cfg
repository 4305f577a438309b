\* A snapshot nobody synced replaces a log that was.
SPECIFICATION DiskSpec
CONSTANTS
    ExtIds = {x1}
    Vecs = {v1, v2}
    BadVecs = {}
    NoVec = NoVec
    Metas = {m0}
    EmptyMeta = m0
    NoMeta = NoMeta
    Absent = Absent
    NoOp = NoOp
    Policies = {"Always"}
    MaxLog = 2
    FaultKinds = {"kill", "io", "power"}
    MaxFaults = 0
    MaxMay <- MCMaxMayWide
SYMMETRY Symmetry
INVARIANTS
    AlwaysIsDurable
