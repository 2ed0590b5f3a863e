\* Count mode with set_size under weak fairness of both loops. A loop that cannot
\* step is reported by ShrinkReturns, so deadlock is left to the count run.
CONSTANTS
    Keys = {k1, k2, k3}
    Values = {v1, v2}
    Sizes = {0}
    Capacities = {2}
    NewSizes = {0, 1, 2, 3}
    MaxStat = 2
    NoKey = NoKey
SPECIFICATION FairSpec
PROPERTY
    ShrinkReturns
CHECK_DEADLOCK FALSE
