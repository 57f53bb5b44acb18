\* A start that waits for a monitor, beside a stop of the same service.
SPECIFICATION FairSpec
CONSTANTS
    A = A
    Names = {1, 2}
    Dirs = {A}
    OwnName <- OneService
    Priorities <- OnePriority
    NoDir = NoDir
    Junk = Junk
    Pids = {p}
    NoPid = NoPid
    MAX_SERVICES = 4
    Clients = {c1, c2}
    Commands = {"start", "stop"}
    MaxCommands = 2
    MaxEvents = 0
PROPERTIES
    EveryCommandReturns
