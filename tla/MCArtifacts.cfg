SPECIFICATION Spec
CONSTANTS
    Layer = {hook, retrieval}
    Hook = hook
    Retrieval = retrieval
    Gate = gate
    Bead = {b}
    Text = {t1, t2}
    None = None
    Lessons = {l1, l2}
    Absent = Absent
    Torn = Torn
    MaxCrashes = 1
    MaxFaults = 1
    MaxEdits = 1
    MaxCommands = 4
CONSTRAINT EditsComeAlone
SYMMETRY Symmetry
INVARIANTS
    FailureRestoresFiles
    LessonsLoad
PROPERTIES
    ImplementsLifecycle
