SPECIFICATION Spec
CONSTANTS
    r1 = r1
    r2 = r2
    s1 = s1
    Runs = {r1}
    Sessions = {s1}
    SessionOf <- OneSession
    TextRuns = {r1}
    AudioRuns = {}
    ExecutorsOf <- AnyExecutor
    MaxCancels = 1
    MaxFaults = 1
    HasTimeout = TRUE
    MaxLines = 2
    MaxCrashes = 1
CHECK_DEADLOCK FALSE
INVARIANT SystemInv
PROPERTY OverIsOver
