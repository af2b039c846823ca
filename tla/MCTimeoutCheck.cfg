CONSTANTS
    UserIds = {1, 2}
    MaxCount <- MCMaxCount
    MaxLogins <- MCMaxLogins
    MaxLogouts <- MCMaxLogouts
SPECIFICATION FairSpec
PROPERTIES
    OnlineKept
    FreshSessionKept
    SilentLoggedOut
    ShutdownSeen
CHECK_DEADLOCK FALSE
