\* A name is taken over by another service while its monitor starts.
SPECIFICATION FairSpec
CONSTANTS
    A = A
    B = B
    C = C
    Names = {1, 2}
    Dirs = {A, B}
    Links <- SharedNames
    NoDir = NoDir
    Junk = Junk
    Pids = {p1, p2, p3}
    NoPid = NoPid
    MAX_SERVICES = 4
    MaxEvents = 3
PROPERTIES
    ServiceMonitored
