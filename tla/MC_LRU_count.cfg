\* Count mode: dict assignment only (size 0) and set_size.
CONSTANTS
    Keys = {k1, k2, k3}
    Values = {v1, v2}
    Sizes = {0}
    Capacities = {2}
    NewSizes = {0, 1, 2, 3}
    MaxStat = 2
    NoKey = NoKey
SPECIFICATION Spec
SYMMETRY Symmetry
INVARIANTS
    TypeOK
    IndexMatchesList
PROPERTY
    ImplementsAbstract
