SPECIFICATION PubSpec
CONSTANTS
    Layer = {hook, retrieval}
    Hook = hook
    Retrieval = retrieval
    Gate = gate
    Bead = {b}
    Text = {t1, t2}
    None = None
    Lessons = {l1}
    Absent = Absent
    Torn = Torn
    MaxCrashes = 1
    MaxFaults = 1
    MaxEdits = 1
    MaxCommands = 3
    MaxCommits = 1
SYMMETRY Symmetry
INVARIANTS
    CommitsAreSnapshots
