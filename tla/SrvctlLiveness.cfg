\* Two commands for one service, with those that wait for its monitor.
SPECIFICATION FairSpec
CONSTANTS
    A = A
    Names = {1, 2}
    Dirs = {A}
    OwnName <- OneService
    Priorities <- OnePriority
    NoDir = NoDir
    Junk = Junk
    Pids = {p}
    NoPid = NoPid
    MAX_SERVICES = 4
    Clients = {c1, c2}
    Commands = {"start", "stop", "restart", "killall"}
    MaxCommands = 2
    MaxEvents = 0
PROPERTIES
    StartRuns
    CommandReturns
