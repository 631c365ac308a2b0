CONSTANTS
    Seeds = {0}
    StateMod = 5
    VelocityEvery = 2
    DamageEvery = 3
    Recorders = {w1, w2}
    Readers = {r1}
    MaxTicks = 3
    MaxFileBytes = 132
    MaxRecords = 2
    Nobody = Nobody
    Absent = Absent
SPECIFICATION Spec
SYMMETRY Symmetry
INVARIANTS
    PublishedWhole
    NoLeftovers
    VerdictExact
CHECK_DEADLOCK FALSE
