\* get_stats after set_size has evicted a node (count mode, no overflow).
CONSTANTS
    Keys = {k1, k2}
    Values = {v1}
    Sizes = {0}
    Capacities = {2}
    NewSizes = {1, 2}
    MaxStat = 1
    NoKey = NoKey
    NoAnswer = NoAnswer
    IntBits = 4
SPECIFICATION QSpec
INVARIANT StatsReported
