SPECIFICATION Spec
CONSTANTS
    stale = stale  gate = gate
    k1 = k1  k2 = k2  s1 = s1  s2 = s2  noise = noise  known = known  NoRow = NoRow
    Detectors = {stale, gate}
    Place <- MCPlace
    External = {gate}
    Replayed = {gate}
    Autonomy = {stale}
    Keys = {k1, k2}
    Loud <- MCLoud
    Quiet <- MCQuiet
    Sessions = {s1, s2}
    Windows = {1}
    DefaultWindow = 1
    History = 2
    Shas = {1, 2}
    Reasons = {noise, known}
    Redeployed = {stale}
    Reviewed <- MCReviewed
    MaxWeek = 2
    MaxHits = 2
    MaxVersion = 2
    MaxRuns = 2
    MaxIncidents = 1
    FirstSha = 1
SYMMETRY Symmetric
CHECK_DEADLOCK FALSE
INVARIANTS TablesAgree OneCallPerWeek
PROPERTIES ReviewOutlivesRefresh SemanticsAreKept CompletePassSplitsOnce
