SPECIFICATION Spec
CONSTANTS
    r1 = r1
    r2 = r2
    s1 = s1
    Runs = {r1}
    Sessions = {s1}
    SessionOf <- OneSession
    TextRuns = {}
    AudioRuns = {r1}
    ExecutorsOf <- AnyExecutor
    MaxCancels = 1
    MaxFaults = 0
    HasTimeout = TRUE
    MaxLines = 1
    MaxCrashes = 0
CHECK_DEADLOCK FALSE
INVARIANTS
    CancelMarksLive
    DatabaseFollowsMemory
    RunningHasOwner
PROPERTY TerminalStaysTerminal
