\* A second logger, without the lock, archives the file of the first.
SPECIFICATION Spec
CONSTANTS
    l1 = l1
    l2 = l2
    Loggers = {l1, l2}
    arg_keep = 1
    arg_file = 2
    DEFAULT_KEEPNUM = 3
    MAX_KEEPNUM = 4
    DEFAULT_FILESIZE = 4
    MIN_FILESIZE = 3
    MAX_FILESIZE = 4
    MIN_BUFSIZE = 1
    NotGiven = NotGiven
    Lengths = {1}
    MaxLines = 3
    MaxEvents = 0
PROPERTIES
    ArchivesOwnFile
