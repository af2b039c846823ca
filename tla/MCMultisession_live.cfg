CONSTANTS
    u1 = u1
    Users = {u1}
    h1 = h1
    Hosts = {h1}
    t1 = t1
    t2 = t2
    SureThreads = {t1, t2}
    DefinedGaming = 2
    MaxGaming = 1
    DriverErrors = FALSE
    AlreadyRunning = {0, 1, u1}
    NoUser = NoUser
    NoHost = NoHost
    NoDomain = NoDomain
SPECIFICATION FairSpec
PROPERTIES
    RemovedGoesDown
CHECK_DEADLOCK FALSE
