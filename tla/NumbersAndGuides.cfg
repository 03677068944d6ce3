SPECIFICATION SumSpec
CONSTANTS
    a1 = a1
    a2 = a2
    b = b
    c = c
    Channels = {a1, b}
    EventOf <- MCEventOf
    LeagueOf <- MCLeagueOf
    LeagueStart <- MCNoStart
    Orders <- MCOrders
    Settings <- MCSwitch
    Externals <- MCNoForeign
    MaxChanges = 2
    ArmsInWindow = FALSE
INVARIANTS TypesOK SettingsTakeEffect DispatcharrShowsNumbers
    GuidesAreWhole MatchesAreTrue TextsAreTold
CHECK_DEADLOCK FALSE
