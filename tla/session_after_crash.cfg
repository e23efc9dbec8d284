SPECIFICATION Spec
CONSTANTS
    r1 = r1
    r2 = r2
    s1 = s1
    Runs = {r1}
    Sessions = {s1}
    SessionOf <- OneSession
    TextRuns = {r1}
    AudioRuns = {}
    ExecutorsOf <- ShellOnly
    MaxCancels = 0
    MaxFaults = 0
    HasTimeout = TRUE
    MaxLines = 0
    MaxCrashes = 1
CHECK_DEADLOCK FALSE
INVARIANT SessionShowsItsRun
