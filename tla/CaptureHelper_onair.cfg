SPECIFICATION Spec
CONSTANTS
    Captures = {c1, c2, c3}
    Invokers = {app}
    Absent = Absent
    Torn = Torn
    WorkerRuns = FALSE
    MaxFaults = 0
INVARIANT OneCaptureOnAir
