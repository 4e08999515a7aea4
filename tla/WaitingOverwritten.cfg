SPECIFICATION Spec
CONSTANTS
    t = t
    a = a
    b = b
    c = c
    d = d
    j = j
    k = k
    None = None
    Nodes = {t, a, b, c, d, j, k}
    Workflows <- OnlyFeeders
    MaxRestarts = 0
INVARIANT NothingLost
CHECK_DEADLOCK FALSE
