SPECIFICATION FairSpec
CONSTANTS
    w1 = w1
    w2 = w2
    u1 = u1
    u2 = u2
    Workers <- MCWorkers
    Users <- MCUsers
    Setups <- MCParallel
    NumMsgs = 2
    ChanCap = 2
    MaxRestarts = 0
INVARIANT NoLoss
