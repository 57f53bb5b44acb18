\* Every interleaving of two children, commands, signals, edits and failures.
SPECIFICATION Spec
CONSTANTS
    p1 = p1
    p2 = p2
    Pids = {p1, p2}
    NoPid = NoPid
    CHILD_MAXSTARTS = 1
    CHILD_SUSPENSION = 1
    Attempts = 2
    CallsFail = TRUE
    MaxEvents = 2
SYMMETRY PidSymmetry
INVARIANTS
    TypeOK
    SuspensionTimed
    UntimedAttempts
    ChildrenTracked
    ForwardingIntact
    AbortsOnlyOnSurvivor
    StatusTruthful
    CleanExit
    InterruptRemembered
PROPERTIES
    Supervises
