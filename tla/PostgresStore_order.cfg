SPECIFICATION Spec
CONSTANTS
    Clients = {h1, h2}
    Ticker = Ticker
    Channels = {2}
    Reports = {r1}
    Windows = {w1}
    DemoWindow = w1
    NoRow = NoRow
    MaxCalls = 2
    MaxMinute = 1
    MaxFaults = 0
INVARIANT AnsweredMeansPersisted
