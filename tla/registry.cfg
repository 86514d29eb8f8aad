SPECIFICATION Spec
CONSTANTS
    p1 = p1
    p2 = p2
    r = r
    l = l
    Clients = {"A", "B"}
    Threads <- MCThreads
    ClientOf <- MCClientOf
    Producers <- MCProducers
    Reader = r
    Lookers <- MCLookers
    Subjects = {"s", "s2"}
    Schemas = {"S1", "S2"}
    Setups <- MCSetups
    MaxId = 3
    MaxFaults = 2
INVARIANTS
    CachesAgree
    MessagesNameTheirSchema
    ReadAsWritten
PROPERTIES
    EveryMessageArrives
