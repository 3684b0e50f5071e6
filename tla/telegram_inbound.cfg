SPECIFICATION FairSpec
CONSTANTS
    Chats = {group}
    Groups = {group}
    Options = {yes}
    Lifecycle = "remove"
    MaxMessages = 2
    MaxPrompts = 1
    MaxTaps = 2
INVARIANT AckNotEarlier
PROPERTY UserIsHeard
CHECK_DEADLOCK FALSE
