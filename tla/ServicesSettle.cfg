SPECIFICATION MCSpec
CONSTANTS
    full = full
    group = group
    cleanup = cleanup
    endpoint = endpoint
    Runs <- MCRuns
    Groups <- MCGroups
    Clearers <- MCClearers
    SubTasks = {"backup"}
    Handlers = {1}
    MaxLoops = 5
    MaxSaves = 3
    Streams = {1}
    Events = {1, 2}
    TeamStreams = {1}
    MatchRuns = {"full", "preview"}
    Back = 1
    Ahead = 1
    PurgeAfter = 1
    MaxChanges = 2
    From = {34, 42, 57, 62, 64, 76, 84}
    Rebuilt = {"detection_keywords", "stream_match_cache"}
    MaxStops = 2
    Sources = {1, 2}
    Types = {"name", "epg"}
    Accounts = {"a"}
    M3UIds = {"m1", "m2"}
    M3UNames = {"x"}
    Requests = {1}
    MaxEdits = 2
    MaxFaults = 1
INVARIANTS
    TypesOK
    CountedOnce
    RebuildsKeepData
PROPERTIES
    LoopsFollowSettings
    MatchesAreKept
    UpgradeCompletes
    SourcesSettle
CHECK_DEADLOCK FALSE
