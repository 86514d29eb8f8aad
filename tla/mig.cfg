SPECIFICATION Spec
CONSTANTS
    r1 = r1
    r2 = r2
    Runners <- MCRunners
    Setups <- MCSetups
    MaxClock = 3
    MaxFaults = 2
INVARIANT DriftBounded
PROPERTIES
    InOrder
    SuccessMeansApplied
    DownRevertsLatest
