SPECIFICATION FairSpec
CONSTANTS
    Channels = {2}
    MaxCommands = 3
    MaxMinute = 0
    MaxFaults = 1
PROPERTIES
    EveryCommandSettles
    StopTakesEffect
    KeepsRequests
