CONSTANTS
    Capacity = 3
    GenMax = 3
    EntityCapacity = 4
    PoolCapacity = 3
    Gens = {1, 2}
    Values = {v1, v2}
    Zero = Zero
    QueueCapacity = 3
    Event = {e1, e2}
    NoEvent = NoEvent
SPECIFICATION PartsSpec
SYMMETRY Interchangeable
INVARIANTS
    SlotsAccounted
    StaleRejected
    SparseDenseInverse
PROPERTIES
    LifecycleSpec
    MapSpec
    MailboxSpec
