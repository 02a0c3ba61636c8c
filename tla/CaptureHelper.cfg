SPECIFICATION Spec
CONSTANTS
    Captures = {c1, c2}
    Invokers = {app, shell}
    Absent = Absent
    Torn = Torn
    WorkerRuns = TRUE
    MaxFaults = 2
SYMMETRY Symmetry
PROPERTY KeepsOutbox
INVARIANTS
    TypeOK
    PublishedIsComplete
    FinishedMeansPublished
    PublishRaceSafe
    EveryCaptureIsWatched
