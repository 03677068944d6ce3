SPECIFICATION FairSpec
CONSTANTS
    e1 = e1
    e2 = e2
    i1 = i1
    i2 = i2
    i3 = i3
    NoId = NoId
    NoEvent = NoEvent
    Events <- TwoEvents
    Ids <- ThreeIds
    Reconciles = FALSE
    MaxFaults = 2
    FaultsEnd = TRUE
PROPERTIES
    EventuallyConsistent
