CONSTANTS
    Dt = 2
    CatchUp = 5
    Deltas = {0, 1, 3, 6}
    SlotCount = 2
    Entities = {e1, e2}
    Positions = {0, 3}
    MaxTime = 7
    Keys = {esc, f1, other}
    KeyCodes = {esc, f1}
    Esc = esc
    F1 = f1
    Scenarios <- MCScenarios
SPECIFICATION SandboxSpec
INVARIANTS
    TimeAccounted
    UnitsDrawn
    HeldKeysAreHeld
    ReleasedInOrder
PROPERTIES
    PresentedTimeMonotone
    CloseExits
CHECK_DEADLOCK FALSE
