\* Three services under four names and a table for two.
SPECIFICATION Spec
CONSTANTS
    A = A
    B = B
    C = C
    Names = {1, 2, 3, 4}
    Dirs = {A, B, C}
    Links <- ThreeDirs
    NoDir = NoDir
    Junk = Junk
    Pids = {p1, p2, p3}
    NoPid = NoPid
    MAX_SERVICES = 2
    MaxEvents = 2
SYMMETRY PidSymmetry
INVARIANTS
    TypeOK
    MonitorsTracked
    WithinCapacity
    RecordedMonitorServes
