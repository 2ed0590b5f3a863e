\* Size mode: LRU.set with real sizes and dict assignment, no set_size.
CONSTANTS
    Keys = {k1, k2, k3}
    Values = {v1, v2}
    Sizes = {0, 1, 2, 3}
    Capacities = {3}
    NewSizes = {}
    MaxStat = 2
    NoKey = NoKey
SPECIFICATION SizeModeSpec
SYMMETRY Symmetry
INVARIANTS
    IndexMatchesList
    MemoryAccounting
    CapacityRespected
    VacuumHasVictim
    SetKeyNotSelfEvicted
PROPERTY
    ImplementsAbstract
