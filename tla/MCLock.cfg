SPECIFICATION FairSpec
CONSTANTS
    Process = {p1, p2, p3}
    Nobody = Nobody
    Verb <- Commands
    Attempts = 2
    MaxCrashes = 2
INVARIANTS
    WritersExclude
    ReportedOwnerIsCurrentOrDead
PROPERTIES
    EveryoneEnds
CHECK_DEADLOCK FALSE
