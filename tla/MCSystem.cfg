SPECIFICATION FairSystemSpec
CONSTANTS
    g1 = g1
    i1 = i1
    i2 = i2
    ActionIds = {i1}
    Games = {g1}
    ModGame = g1
    NoGame = NoGame
    NoId = NoId
    MaxOutbox = 20
    MaxSessions = 3
    MaxTracked = 4
    Writes = {}
    MaxLaunches = 2
    MaxFaults = 1
INVARIANTS AnsweredOnce
PROPERTIES ActionsAnswered Settles
CHECK_DEADLOCK FALSE
