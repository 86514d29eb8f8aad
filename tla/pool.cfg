SPECIFICATION Spec
CONSTANTS
    Threads = {t1, t2}
    Buffers = {b1, b2, b3, b4, b5, b6}
    MaxPoolSize = 2
    MaxGets = 6
    MaxCleanups = 1
    None = None
SYMMETRY PoolSymmetry
INVARIANTS
    ResultIntact
    PoolBounded
CHECK_DEADLOCK FALSE
