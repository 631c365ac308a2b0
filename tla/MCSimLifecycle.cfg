CONSTANTS
    MaxEntities = 2
    UnitCount = 1
    MaxUnits = 2
    GenMax = 2
    QueueCapacity = 2
    MaxCommands = 2
    MaxHealth = 3
    Cooldown = 0
    Amounts = {2}
    Displacements = {0, 1}
    PosMod = 2
    TickMod = 1
    FreeCaller = FALSE
SPECIFICATION Spec
INVARIANTS
    HashableBetweenTicks
    DamageSettledSameTick
    MovedByLatestVelocity
PROPERTY PendingDestroyed
