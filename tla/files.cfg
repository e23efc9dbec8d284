SPECIFICATION FilesSpec
CONSTANTS
    Phones = {p1, p2}
    Threads = {t1, t2}
    Nobody = Nobody
    MaxClients = 1
    MaxCodes = 3
    MaxTokens = 5
    MaxFaults = 1
    PairThreads = {u1, u2}
    AttemptLimit = 2
    Minute = 2
    MaxTime = 5
    MaxAttempts = 5
    LanUrls = {"lan1"}
    PublicUrls = {"pub1", "pub2"}
    MaxStarts = 3
    Requests = {q1, q2}
    Secrets = {x1, x2}
    NoSecret = NoSecret
    MaxStorageFaults = 1
    MaxServiceStops = 1
    MemoryRuns = {1, 2, 3}
    Workdirs = {w1, w2}
    MaxNotes = 2
    TruncationMark = cut
    DefaultNote = default
    MaxMemoryStops = 1
SYMMETRY Symmetric
CHECK_DEADLOCK FALSE
INVARIANTS
    CodeRedeemedOnce
    PhonesAreKept
    NoForgottenSecret
    TakesWhatWasAccepted
    UrlsAreSteady
PROPERTIES
    AttemptsAreLimited
    ClosedStaysClosed
    MemoryIsKept
