\* Two services under three names, with room for all.
SPECIFICATION FairSpec
CONSTANTS
    A = A
    B = B
    C = C
    Names = {1, 2, 3}
    Dirs = {A, B}
    Links <- OwnNames
    NoDir = NoDir
    Junk = Junk
    Pids = {p1, p2, p3}
    NoPid = NoPid
    MAX_SERVICES = 4
    MaxEvents = 2
PROPERTIES
    ServiceMonitored
