SPECIFICATION FairSpec
CONSTANTS
    s1 = s1
    s2 = s2
    k1 = k1
    k2 = k2
    Slots = {s1}
    Keys = {k1, k2}
    Home <- SameHome
    Groups = {k1}
    Strict = FALSE
    AgentsFail = TRUE
    ContextLimit = 1
    CrashLimit = 2
    EventCap = 2
    MaxMsgs = 2
    MaxUpdates = 1
    MaxExits = 1
INVARIANTS
    NothingDiscarded
    InConversationOrder
PROPERTIES
    RoutedFirst
    UpdatesRouteBack
    MessagesAreRead
CHECK_DEADLOCK FALSE
