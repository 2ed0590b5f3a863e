\* LRU.update in count mode, with an iterable of pairs as argument.
CONSTANTS
    Keys = {k1, k2}
    Values = {v1}
    Sizes = {0}
    Capacities = {2}
    NewSizes = {}
    MaxStat = 2
    NoKey = NoKey
    ArgKinds = {"none", "pairs"}
SPECIFICATION USpec
INVARIANT
    UpdateStoresAll
