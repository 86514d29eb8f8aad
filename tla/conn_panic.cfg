SPECIFICATION Spec
CONSTANTS
    Callers = {g1}
    MaxOutages = 1
INVARIANT NoSendOnClosed
