CONSTANTS
    MaxEntities = 2
    UnitCount = 1
    MaxUnits = 2
    GenMax = 2
    QueueCapacity = 1
    MaxCommands = 1
    MaxHealth = 1
    Cooldown = 0
    Amounts = {1}
    Displacements = {}
    PosMod = 1
    TickMod = 1
    FreeCaller = TRUE
SPECIFICATION Spec
INVARIANT NeverAborts
