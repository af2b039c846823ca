CONSTANTS
    u1 = u1
    u2 = u2
    Users = {u1, u2}
    h1 = h1
    Hosts = {h1}
    t1 = t1
    SureThreads = {t1}
    DefinedGaming = 2
    MaxGaming = 1
    DriverErrors = TRUE
    AlreadyRunning = {0, 1, u1}
    NoUser = NoUser
    NoHost = NoHost
    NoDomain = NoDomain
SPECIFICATION Spec
SYMMETRY Symmetry
INVARIANTS
    LinksAgree
    UsedIsReady
PROPERTIES
    PoolBehaviour
CHECK_DEADLOCK FALSE
