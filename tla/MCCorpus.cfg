SPECIFICATION Spec
CONSTANTS
    ruleA = ruleA  ruleB = ruleB  other = other  key = key
    None = None  NoRow = NoRow
    N = 3
    Contents = {ruleA, ruleB, other}
    Keys = {key}
    Mentions <- MCMentions
    Layers = {memory, skill}
    MaxTime = 2
    MaxReads = 1
    MaxEdits = 3
SYMMETRY Symmetric
CHECK_DEADLOCK FALSE
INVARIANT DeletionsAreSafe
PROPERTIES CoverageFollowsMoves MovesKeepHistory MarkersOnlyAdvance StaleMeansGone
