SPECIFICATION MCSpec
CONSTANTS
    g1 = g1
    g2 = g2
    i1 = i1
    i2 = i2
    ActionIds = {i1}
    Games = {g1, g2}
    NoGame = NoGame
    NoId = NoId
    MaxOutbox = 4
    MaxSessions = 2
    MaxTracked = 2
    Writes <- AnyWrites
INVARIANTS
    TypeOK OneResultPerConnection NoStaleResult InboxInSessions CatalogueFresh
    OneLaunchPerConnection StopUnregistersAll
    NoReplay ForceCheckpointed NoContextPassed CursorNotOnTag
CHECK_DEADLOCK FALSE
