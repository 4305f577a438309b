\* A kill tears a record; the engine goes on writing behind it.
SPECIFICATION Spec
CONSTANTS
    ExtIds = {x1, x2}
    Vecs = {v1, v2}
    BadVecs = {}
    Metas = {m0, m1}
    Policies = {"Always"}
    MaxLog = 2
    FaultKinds = {"kill"}
    MaxFaults = 1
    NoVec = NoVec
    EmptyMeta = m0
    NoMeta = NoMeta
    Absent = Absent
    NoOp = NoOp
PROPERTIES
    RecoveryRestores
