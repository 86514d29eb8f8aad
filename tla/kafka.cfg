SPECIFICATION FairSpec
CONSTANTS
    w1 = w1
    w2 = w2
    u1 = u1
    u2 = u2
    Workers <- MCWorkers
    Users <- MCUsers
    Setups <- MCSetups
    NumMsgs = 3
    ChanCap = 2
    MaxRestarts = 1
INVARIANTS
    BoundedLoss
    InOrder
PROPERTIES
    DeliversOnce
    CommittedOnlyGrows
    ProcessedIsCommitted
    EventuallyProcessed
    ConsumeEnds
