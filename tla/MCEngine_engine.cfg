\* Two ids, wrong dimensions, kills and failed calls, the map it implements, liveness.
SPECIFICATION FairSpec
CONSTANTS
    ExtIds = {x1, x2}
    Vecs = {v1}
    BadVecs = {b1}
    Metas = {m0, m1}
    Policies = {"Always"}
    MaxLog = 2
    FaultKinds = {"kill", "io"}
    MaxFaults = 1
    NoVec = NoVec
    EmptyMeta = m0
    NoMeta = NoMeta
    Absent = Absent
    NoOp = NoOp
INVARIANTS
    TypeOK
    StoreConsistent
    IndexMirrorsStore
PROPERTIES
    Implements
    Reopens
