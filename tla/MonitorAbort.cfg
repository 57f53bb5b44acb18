\* A log that survives SIGKILL makes the monitor fail an assertion.
SPECIFICATION Spec
CONSTANTS
    p1 = p1
    p2 = p2
    Pids = {p1, p2}
    NoPid = NoPid
    CHILD_MAXSTARTS = 1
    CHILD_SUSPENSION = 2
    Attempts = 2
    CallsFail = TRUE
    MaxEvents = 2
INVARIANT
    NeverAborts
