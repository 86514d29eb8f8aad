SPECIFICATION Spec
CONSTANTS
    MiB = 4
    MinPartSize = 0
    LimitPartCount = 10000
    MaxObjectSize = 20971520
    Uploads = {u1, u2}
    Active = {u1}
    Sizes = {0, 30}
    ExpiryDuration = 1
    OlderThan = 1
    MaxTime = 3
    MaxFaults = 2
    NChunks = 2
INVARIANTS
    FilesCut
    ObjectWhole
    ExpiredMeansExpired
    WholeOrError
PROPERTIES
    NoUploadLeaks
    StreamEnds
