\* A machine that can lose power, under each policy that syncs.
SPECIFICATION DiskSpec
CONSTANTS
    ExtIds = {x1}
    Vecs = {v1, v2}
    BadVecs = {}
    NoVec = NoVec
    Metas = {m0}
    EmptyMeta = m0
    NoMeta = NoMeta
    Absent = Absent
    NoOp = NoOp
    Policies = {"Always", "GroupCommit"}
    MaxLog = 2
    FaultKinds = {"kill", "io", "power"}
    MaxFaults = 2
    MaxMay <- MCMaxMay
SYMMETRY Symmetry
INVARIANTS
    
    PowerLossKeepsSynced
    Durable
