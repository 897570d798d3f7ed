SPECIFICATION SystemSpec
CONSTANTS
    g1 = g1
    i1 = i1
    i2 = i2
    ActionIds = {i1}
    Games = {g1}
    ModGame = g1
    NoGame = NoGame
    NoId = NoId
    MaxOutbox = 6
    MaxSessions = 2
    MaxTracked = 4
    Writes = {}
    MaxLaunches = 2
    MaxFaults = 2
INVARIANT ResultAnswersItsConnection
CHECK_DEADLOCK FALSE
