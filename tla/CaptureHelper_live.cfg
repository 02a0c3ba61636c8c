SPECIFICATION FairSpec
CONSTANTS
    Captures = {c1, c2}
    Invokers = {app, shell}
    Absent = Absent
    Torn = Torn
    WorkerRuns = FALSE
    MaxFaults = 0
PROPERTY EveryCaptureIsPublished
