CONSTANTS
    u1 = u1
    u2 = u2
    u3 = u3
    Users = {u1, u2, u3}
    h1 = h1
    Hosts = {h1}
    t1 = t1
    SureThreads = {t1}
    DefinedGaming = 2
    MaxGaming = 2
    DriverErrors = FALSE
    AlreadyRunning = {0, u1}
    NoUser = NoUser
    NoHost = NoHost
    NoDomain = NoDomain
SPECIFICATION Spec
SYMMETRY Symmetry
INVARIANTS
    TypeOK
    EnoughSessions
    NoneForgotten
CHECK_DEADLOCK FALSE
