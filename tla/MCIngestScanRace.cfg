SPECIFICATION Spec
CONSTANTS
    r1 = r1
    r2 = r2
    f1 = f1
    f2 = f2
    sA = sA
    sB = sB
    s1 = s1
    s2 = s2
    Record = {r1, r2}
    NL = NL
    NoSession = NoSession
    SessionOf <- NoSessions
    File = {f1}
    NoFile = NoFile
    NoRow = NoRow
    Stem <- OwnStem
    Kind <- Readers
    PrefixBytes = 2
    AlarmRuns = 3
    MaxObservations = 2
    Limit = 1
    Priced = {r1}
    InitialTree <- Start1
    Chunk <- SmallChunks
    Rewrite <- NoRewrite
    AppendRacesScan = TRUE
    ReplaceRacesVisit = FALSE
    MaxLength = 7
    MaxWrites = 1
    MaxOps = 0
INVARIANT CursorOnLineBoundary
