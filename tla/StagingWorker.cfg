SPECIFICATION FairSpec
CONSTANTS
    RadioNames = {r}
    LocalNames = {l}
    Nothing = Nothing
    MaxCaptures = 3
    Size <- Sizes
    MaxAge = 1
    MaxBytes = 2
    Horizon = 2
    MaxFaults = 2
INVARIANTS
    TypeOK
    OnlyAuthorizedIsAnalysed
    ReportedAtMostOnce
PROPERTIES
    RawOutlivesPartialCopy
    EvictionIsNeeded
    RetentionIsRestored
    RawLeavesStaging
    EveryCaptureIsReported
