SPECIFICATION Spec
CONSTANTS
    a1 = a1
    a2 = a2
    b = b
    c = c
    Channels = {a1, b}
    EventOf <- MCEventOf
    LeagueOf <- MCLeagueOf
    LeagueStart <- MCNoStart
    Orders <- MCOrders
    Settings <- MCSwitch
    Externals <- MCNoForeign
    MaxChanges = 1
    ArmsInWindow = TRUE
INVARIANT SettingsTakeEffect
