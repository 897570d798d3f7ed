SPECIFICATION Spec
CONSTANTS
    Relays = {r1, r2}
    Dirs = {"ipc", "other"}
    Default = "ipc"
    Environments <- Machines
    Roots = {"mod", "cwd"}
    Installed = "mod"
    MaxSession = 2
INVARIANTS NumbersKept
PROPERTIES FreshNumbers SameDirectory TaskEnds
CHECK_DEADLOCK FALSE
