SPECIFICATION MCSpec
CONSTANTS
    a1 = a1
    a2 = a2
    b = b
    c = c
    Channels = {a1, a2, b, c}
    EventOf <- MCEventOf
    LeagueOf <- MCLeagueOf
    LeagueStart <- MCNoStart
    Orders <- MCOneOrder
    Settings <- MCModes
    Externals <- MCExternals
    MaxChanges = 0
    ArmsInWindow = FALSE
    Builtin = {"b"}
    Seed = {"b"}
    Custom = {"x"}
    Found = {"s"}
    MaxId = 2
    Added = {1}
    Manual = {"m"}
    Daily = {"d"}
    LeagueRequests = {"q"}
    LeagueChanges = 1
    LeagueFaults = 1
    Callers = {"t1", "t2"}
    Accounts = {"u", "v"}
    MaxRetries = 1
    MaxCalls = 2
    AccountChanges = 1
    CallFaults = 2
    MaxCount = 1
    MaxTime = 3
    MaxVersion = 3
    MaxRequests = 3
    BackupFaults = 1
    reader1 = reader1
    reader2 = reader2
    Readers <- MCReaders
    Flushers = {"timer"}
    EventTtl = 2
    Window = 1
    ListTtl = 1
    LongTtl = 2
    CacheTime = 2
    MaxLookups = 2
    CacheFaults = 1
INVARIANTS TypesOK NumbersAreUnique LaidOutInOrder ResetMatchesSticky
    DirectoryIsKept CallsSurvive OneFreshAnswer
PROPERTIES StickyNumbersStay BackupsHold
SYMMETRY Alike
CHECK_DEADLOCK FALSE
