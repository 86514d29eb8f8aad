SPECIFICATION Spec
CONSTANTS
    w1 = w1
    w2 = w2
    r = r
    p1 = p1
    p2 = p2
    Dialect = "postgres"
    Workers <- MCWorkers
    Readers <- MCReaders
    Producers <- MCProducers
    Setups <- MCSetups
    NJobs = 2
    MaxFailures = 1
INVARIANTS
    NoJobTwice
    ClaimersNeverWait
    IdempotentCreate
PROPERTIES
    SharedRowsDontChange
    EveryJobDone
