\* Three commands that start, stop and rename one service, and a failure.
SPECIFICATION Spec
CONSTANTS
    A = A
    Names = {1, 2}
    Dirs = {A}
    OwnName <- OneService
    Priorities <- OnePriority
    NoDir = NoDir
    Junk = Junk
    Pids = {p}
    NoPid = NoPid
    MAX_SERVICES = 4
    Clients = {c1, c2}
    Commands = {"priority", "start", "stop"}
    MaxCommands = 3
    MaxEvents = 1
SYMMETRY ClientSymmetry
INVARIANTS
    TypeOK
    
    
