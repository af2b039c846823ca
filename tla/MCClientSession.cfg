CONSTANTS
    u1 = u1
    u2 = u2
    Users = {u1, u2}
    s1 = s1
    s2 = s2
    Sessions = {s1, s2}
    t1 = t1
    t2 = t2
    Threads = {t1, t2}
    g1 = g1
    g2 = g2
    Games = {g1, g2}
    MaxPackets = 3
    None = None
SPECIFICATION Spec
SYMMETRY Symmetry
CONSTRAINT Calm
INVARIANTS
    LoginOwn
    ServerAgrees
    NoIdleSession
PROPERTIES
    StreamOwn
CHECK_DEADLOCK FALSE
