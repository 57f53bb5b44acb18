\* limiter with up to four parameters and one failing call, then taiconv on all
\* short texts and on stamps, and dates at the limits of their fields.
SPECIFICATION ToolsSpec
CONSTANTS
    Options <- AllOptions
    ResourceOf <- TwoOfOne
    MemoryResources = {"AS", "DATA"}
    LimitArgs <- Limits
    PriorityArgs <- Priorities
    Names = {"root", "www", "ghost"}
    IdOf <- ByRoot
    FirstLimits <- AtFirst
    Starters <- Starting
    PRIO_MIN <- Lowest
    PRIO_MAX = 2
    NoArg = NoArg
    MaxOptions = 4
    MaxFaults = 1
    Base = 16
    SecDigits = 1
    NanoDigits = 2
    Micro = 3
    Nano = 4
    Epoch = 2
    AprLimit = 12
    Texts <- ShortTexts
    Clock <- Readings
    OutputFails = TRUE
    Exps <- AtLimits
INVARIANTS
    LimiterTypeOK
    LimitsAsAsked
    IdentityAsAsked
    PrivilegeLasts
    TaiconvTypeOK
    OutputAsReference
    OutputIsPrefix
    StampsTold
    DateSays
    DateFits
