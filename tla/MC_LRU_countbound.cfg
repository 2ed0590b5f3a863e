\* Count mode as the class docstring uses it: LRU(2) filled by dict assignment.
CONSTANTS
    Keys = {k1, k2, k3}
    Values = {v1}
    Sizes = {0}
    Capacities = {2}
    NewSizes = {}
    MaxStat = 2
    NoKey = NoKey
SPECIFICATION Spec
INVARIANT CountBounded
