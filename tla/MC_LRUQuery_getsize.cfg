\* get_size after set_size with a capacity beyond the range of a C int,
\* with the int scaled down to 4 bits (TLC's own integers are 32 bits wide).
CONSTANTS
    Keys = {k1}
    Values = {v1}
    Sizes = {0}
    Capacities = {2}
    NewSizes = {3, 9}
    MaxStat = 1
    NoKey = NoKey
    NoAnswer = NoAnswer
    IntBits = 4
SPECIFICATION QSpec
INVARIANT SizeReported
