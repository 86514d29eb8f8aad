SPECIFICATION SessionSpec
CONSTANTS
    Callers = {g1}
    MaxOutages = 1
    Users = {u1}
    TxClosers = {u1}
    Together = FALSE
INVARIANTS
    PanicNeedsCaller
    ClosedOnlyByShutdown
PROPERTIES
    StopTerminates
    ManagedSafely
    ManagedLive
    Heals
