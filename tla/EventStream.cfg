SPECIFICATION FairSpec
CONSTANTS
    Tabs = {t}
    Calls = {c1, c2}
    Parts = {status, captures}
    Loads = {l1, l2}
    BufferSize = 1
    WireSize = 1
    MaxFaults = 1
INVARIANTS
    TypeOK
    NoChangeIsForgotten
PROPERTIES
    TabsCatchUp
    CallsReturn
