CONSTANTS
    Capacity = 3
    GenMax = 2
    Ids = {a, b, c}
    Names = {n1, n2}
    Sizes = {1, 2}
    LevelRoom = 3
    GlobalRoom = 2
    TextureMax = 2
    RefMax = 2
    IoRoom = 5
    MaxFile = 3
    Scenarios <- MCScenarios
SPECIFICATION FilesSpec
SYMMETRY Symmetry
INVARIANTS
    PayloadsDisjoint
    TexturesOwned
    RegistryConsistent
    LoadedAsBaked
PROPERTY GlobalsOutliveOthers
CHECK_DEADLOCK FALSE
