SPECIFICATION Spec
CONSTANTS
    Projects = {p1}
    Keys = {k1}
    Ops = {o1, o2, o3}
    Tools = {t1}
    Audiences = {a1}
    Helped = {a1}
    Preset = {a1}
    Users = {u1}
    MaxRunning = 2
    MaxFailures = 1
SYMMETRY Symmetry
CHECK_DEADLOCK FALSE
INVARIANTS ReferencesResolve KeyRegistered RefusalIsClean
PROPERTIES  DeletionComplete
