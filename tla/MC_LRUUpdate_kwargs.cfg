\* LRU.update in count mode, with a dict argument and keyword arguments.
CONSTANTS
    Keys = {k1, k2}
    Values = {v1}
    Sizes = {0}
    Capacities = {2}
    NewSizes = {}
    MaxStat = 2
    NoKey = NoKey
    ArgKinds = {"none", "dict"}
SPECIFICATION USpec
INVARIANT
    UpdateStoresAll
