SPECIFICATION Spec
CONSTANTS
    g1 = g1
    g2 = g2
    i1 = i1
    i2 = i2
    ActionIds = {}
    Games = {g1}
    NoGame = NoGame
    NoId = NoId
    MaxOutbox = 4
    MaxSessions = 2
    MaxTracked = 4
    Writes <- ForceWrites
PROPERTY DroppedWasSent
CHECK_DEADLOCK FALSE
