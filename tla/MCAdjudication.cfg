SPECIFICATION Spec
CONSTANTS
    a = a
    b = b
    None = None
    Candidates = {a, b}
    Dispositions = {"supported", "dismissed"}
    Inferred <- Assessments
    MaxBasis = 3
    MaxRevisions = 2
    MaxFaults = 2
    MaxCrashes = 1
SYMMETRY Interchangeable
INVARIANTS
    CommittedFirst
    FailureLeavesReadable
PROPERTIES
    FindingsFollowJournals
    JournalsOnlyGrow
