CONSTANTS
    MaxEntities = 2
    UnitCount = 2
    MaxUnits = 2
    EventCapacities = {1, 2}
    GenMax = 2
    ValueMod = 2
    ByteBase = 4
    Mixes <- MCMixes
SPECIFICATION WorldsSpec
INVARIANTS
    HashTellsContentsApart
    FirstDivergence
    HashDecidesFuture
CHECK_DEADLOCK FALSE
