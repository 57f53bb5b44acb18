\* Liveness without failing system calls; the environment may still do two
\* things to the monitor, and children die as they like.
SPECIFICATION LiveSpec
CONSTANTS
    p1 = p1
    p2 = p2
    Pids = {p1, p2}
    NoPid = NoPid
    CHILD_MAXSTARTS = 1
    CHILD_SUSPENSION = 2
    Attempts = 2
    CallsFail = FALSE
    MaxEvents = 1
PROPERTIES
    StopObeyed
    RunRestarted
    LogRestarted
