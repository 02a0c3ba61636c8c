SPECIFICATION FairSpec
CONSTANTS
    Channels = {2, 36}
    MaxCommands = 2
    MaxMinute = 0
    MaxFaults = 0
PROPERTY SessionEventuallyCloses
