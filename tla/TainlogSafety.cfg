\* Two loggers, one archive kept, lines that fit and lines that never do; two
\* events while a logger runs alone, one when two share the directory.
SPECIFICATION SafetySpec
CONSTANTS
    l1 = l1
    l2 = l2
    Loggers = {l1, l2}
    arg_keep = 1
    arg_file = 2
    DEFAULT_KEEPNUM = 3
    MAX_KEEPNUM = 4
    DEFAULT_FILESIZE = 4
    MIN_FILESIZE = 3
    MAX_FILESIZE = 4
    MIN_BUFSIZE = 1
    NotGiven = NotGiven
    Lengths = {1, 3}
    MaxLines = 4
    MaxEvents = 2
SYMMETRY LoggerSymmetry
INVARIANTS
    TypeOK
    SizeKnown
    NothingLost
    ArchiveOrder
    OldestFlushed
    OneWriter
PROPERTIES
    KeepsEnough
