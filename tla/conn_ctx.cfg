SPECIFICATION Spec
CONSTANTS
    Callers = {}
    MaxOutages = 1
INVARIANT MonitoringUntilShutdown
