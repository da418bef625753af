SPECIFICATION Spec
CONSTANTS
    r1 = r1
    r2 = r2
    f1 = f1
    f2 = f2
    sA = sA
    sB = sB
    s1 = s1
    s2 = s2
    Record = {r1, r2}
    NL = NL
    NoSession = NoSession
    SessionOf <- Switches
    File = {f1, f2}
    NoFile = NoFile
    NoRow = NoRow
    Stem <- OwnStem
    Kind <- Mixed
    PrefixBytes = 2
    AlarmRuns = 2
    MaxObservations = 2
    Limit = 1
    Priced = {r1}
    InitialTree <- Start1
    Chunk <- PairChunks
    Rewrite <- OneGeneration
    AppendRacesScan = TRUE
    ReplaceRacesVisit = TRUE
    MaxLength = 7
    MaxWrites = 2
    MaxOps = 1
INVARIANTS
    NoLineLost UsageFollowsSession
