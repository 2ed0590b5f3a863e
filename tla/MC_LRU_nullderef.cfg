\* Mixed modes: LRU.set with real sizes, then set_size shrinking the cache.
CONSTANTS
    Keys = {k1, k2, k3}
    Values = {v1}
    Sizes = {0, 1, 2}
    Capacities = {2}
    NewSizes = {1}
    MaxStat = 2
    NoKey = NoKey
SPECIFICATION Spec
INVARIANT VacuumHasVictim
