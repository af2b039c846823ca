CONSTANTS
    CommandLines <- MCCommandLines
    ConfFiles <- MCConfFiles
    HostConfs <- MCHostConfs
    Library <- MCLibrary
    Modes <- MCModes
    Versions = {7, 8}
    MAX_INPUTS = 6
    MaxRuns = 3
    MaxMade = 3
SPECIFICATION Spec
INVARIANTS
    SameClient
    SaveRestores
PROPERTIES
    KeysUsable
    PairedAgree
    FailedPairUndone
    PairKeepsPairing
CHECK_DEADLOCK FALSE
