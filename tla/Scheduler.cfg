SPECIFICATION Spec
CONSTANTS
    MinutesPerDay = 6
    DaysPerWeek = 2
    MaxDuration = 3
    Candidates <- MCCandidates
    DemoWindow <- MCDemoWindow
    Horizon = 9
    StepsBack = {2}
    MaxStepsBack = 1
    MaxSchedules = 2
INVARIANTS
    TypeOK
    NoSameDayOverlap
    OneWindowPerMinute
    OneStartPerMinute
    SameDayStartsDisjoint
