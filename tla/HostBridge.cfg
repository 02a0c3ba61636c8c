SPECIFICATION Spec
CONSTANTS
    Channels = {2}
    MaxCommands = 4
    MaxMinute = 1
    MaxFaults = 1
INVARIANTS
    TypeOK
    StopFollowsCanceledStart
    SettledNotExecuted
    ResultMatchesCommand
    StopOutlivesEarlierStarts
    StopsMeetNoCapture
PROPERTY SessionsAreOver
