\* One unhashable key beside the hashable ones, in size mode.
CONSTANTS
    Keys = {k1, k2}
    BadKeys = {b1}
    Values = {v1}
    Sizes = {0, 1}
    Capacities = {2}
    NewSizes = {}
    MaxStat = 2
    NoKey = NoKey
SPECIFICATION HostSpec
INVARIANT
    ListWithinDict
