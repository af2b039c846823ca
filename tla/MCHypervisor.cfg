CONSTANTS
    Work = {1, 2}
    Gaming = {3}
    Defined = 11
    None = None
    DomainError = DomainError
SPECIFICATION HypervisorSpec
INVARIANTS
    ClosedIsDown
    PickIsFirstGap
PROPERTIES
    UsedIsAsked
    CloseEnds
CHECK_DEADLOCK FALSE
