SPECIFICATION Spec
CONSTANTS
    f1 = f1
    f2 = f2
    f3 = f3
    Inodes = {f1, f2, f3}
    Gone = Gone
    FileCap = 1
    MaxLines = 5
    MaxRotations = 3
    MaxRewinds = 1
CONSTRAINT LagsBriefly
INVARIANTS RotatedWhole
PROPERTIES ImplementsLog ClearsUpToStartup
CHECK_DEADLOCK FALSE
