CONSTANTS
    Sessions = {0, 1}
    Threads = {1, 2}
    Packets = 1
    Tries = 2
    One = 8
    Two = 3
    NoAddress = NoAddress
SPECIFICATION MCSpec
INVARIANTS
    FullyOperational
PROPERTIES
    StartupEnds
CHECK_DEADLOCK FALSE
