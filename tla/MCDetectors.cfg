SPECIFICATION Spec
CONSTANTS
    s1 = s1  s2 = s2  Null = Null
    sqlite = sqlite  build = build  test = test  ssh = ssh  page = page
    refused = refused  notFound = notFound  broken = broken
    guard = guard  hole = hole  ruleDoc = ruleDoc
    Sessions = {s1, s2}
    Suites <- MCSuites
    Contents <- MCContents
    NotFound <- MCNotFound
    Named <- MCNamed
    Short <- MCShort
    MaxDay = 3
    DaysPerWeek = 2
    MaxObs <- MCMaxObs
SYMMETRY Symmetric
CHECK_DEADLOCK FALSE
INVARIANTS HitsNameEverySession WeeklyAddsUp
PROPERTY PruneKeepsFindings
