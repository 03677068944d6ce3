SPECIFICATION MCSpec
CONSTANTS
    e1 = e1
    e2 = e2
    i1 = i1
    i2 = i2
    i3 = i3
    i4 = i4
    NoId = NoId
    NoEvent = NoEvent
    Events <- TwoEvents
    Ids <- FourIds
    Reconciles = TRUE
    MaxFaults = 2
    FaultsEnd = TRUE
    Streams = {1, 2, 3}
    Slot <- MCSlot
    Rankings <- MCRankings
    LiveFrom = 1
    LiveTo = 1
    MaxTime = 2
    StreamEdits = 1
    StreamFaults = 1
    Profiles = {1, 2}
    All = 0
    ProfileEdits = 2
    ProfileFaults = 2
    Labelled = {1, 2}
    Keywords = {"es", "fr"}
    Main = "main"
    Ignored = "ignored"
    Numbers = {1, 2, 3}
    KeywordEdits = 1
    KeywordFaults = 2
INVARIANTS
    TypesOK
    OneRowPerEvent
    OnlyFailuresLeak
    OrphansAreUntracked
    OnlyFailuresLinger
    NumbersStayApart
PROPERTIES
    ChannelsConverge
    InOrderAfterPass
