SPECIFICATION FairSpec
CONSTANTS
    r1 = r1
    r2 = r2
    f1 = f1
    f2 = f2
    sA = sA
    sB = sB
    s1 = s1
    s2 = s2
    Record = {r1, r2}
    NL = NL
    NoSession = NoSession
    SessionOf <- NoSessions
    File = {f1, f2}
    NoFile = NoFile
    NoRow = NoRow
    Stem <- OwnStem
    Kind <- Readers
    PrefixBytes = 2
    AlarmRuns = 2
    MaxObservations = 1
    Limit = 1
    Priced = {r1, r2}
    InitialTree <- CorruptBeside
    Chunk <- HalfChunks
    Rewrite <- OneGeneration
    AppendRacesScan = FALSE
    ReplaceRacesVisit = FALSE
    MaxLength = 6
    MaxWrites = 2
    MaxOps = 1
INVARIANTS
    CursorOnLineBoundary
    EventsAreCommittedLines
    ObservationsAsFromScratch
PROPERTIES
    EventuallyCaughtUp
    TornTailAlarms
    ImplementsEvidence
