CONSTANTS
    CommandLines <- MCCommandLines
    ConfFiles <- MCConfFiles
    HostConfs <- MCHostConfs
    Library <- MCLibrary
    Modes <- MCModes
    Versions = {7, 8}
    MAX_INPUTS = 6
    MaxRuns = 2
    MaxMade = 3
SPECIFICATION Spec
PROPERTIES
    RefusedNotStreamed
CHECK_DEADLOCK FALSE
