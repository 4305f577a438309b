\* A vector of the wrong dimension, no fault.
SPECIFICATION Spec
CONSTANTS
    ExtIds = {x1, x2}
    Vecs = {v1, v2}
    BadVecs = {b1}
    Metas = {m0, m1}
    Policies = {"Always"}
    MaxLog = 2
    FaultKinds = {"kill", "io"}
    MaxFaults = 0
    NoVec = NoVec
    EmptyMeta = m0
    NoMeta = NoMeta
    Absent = Absent
    NoOp = NoOp
INVARIANTS
    RecoveryNeverThrows
