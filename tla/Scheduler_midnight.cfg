SPECIFICATION Spec
CONSTANTS
    MinutesPerDay = 6
    DaysPerWeek = 2
    MaxDuration = 3
    Candidates <- DaytimeCandidates
    DemoWindow <- MCDemoWindow
    Horizon = 2
    StepsBack = {2}
    MaxStepsBack = 0
    MaxSchedules = 3
INVARIANT WindowsDisjointInTheWeek
