SPECIFICATION FairStreamedSpec
CONSTANTS
    r1 = r1
    s1 = s1
    Runs = {r1}
    Sessions = {s1}
    SessionOf <- OneSession
    TextRuns = {r1}
    AudioRuns = {}
    ExecutorsOf <- AgentOnly
    MaxCancels = 1
    MaxFaults = 0
    HasTimeout = FALSE
    MaxLines = 0
    MaxCrashes = 1
CHECK_DEADLOCK FALSE
INVARIANT EndedStreamIsWhole
PROPERTIES
    StreamsTheLog
    StreamEnds
