SPECIFICATION ConversationSpec
CONSTANTS
    SettingCallers = {c1, c2}
    SessionDirs = {d1}
    SettingValues = {v1}
    NoSetting = NoSetting
    Unset = Unset
    DefaultExecutor = "codex"
    MaxChanges = 2
    MaxLatest = 1
    ChatRuns = {r1, r2, r3}
    NoSession = NoSession
    LegacyThread = LegacyThread
    MaxSessions = 2
    MaxBoots = 1
    MaxAges = 1
    Sayings = {"a", "b"}
    Noise = {"n"}
    MaxPrinted = 4
    MaxBuffer = 1
    Limits = {1, 3}
    MaxEvents = 5
    OldRuns = {o1, o2}
    DamagedRuns = {o2}
    MaxDeaths = 2
    MaxTextLines = 4
    EventLimits = {400, 900, 16000}
    BodyLengths = {100, 1500, 30000}
    MaxListed = 30
    MaxFindLines = 3
    MaxFileChanges = 2
    MaxRan = 3
    MaxWarned = 4
    MaxFileBytes = 4
    PageSizes = {0, 1, 9}
    MaxPageBytes = 3
    MaxSearchBytes = 3
    MaxMatches = 1
    Entries = {1, 2, 3, 4}
    Uploads = 2
    MaxEntries = 2
    Creators = {m1, m2}
CHECK_DEADLOCK FALSE
INVARIANTS
    OutputIsShown
    TextStaysUnderItsTitle
    ChangesCanBeOpened
    
    FirstSectionIsKept
    PagesFit
    PreviewIsFaithful
    UpgradeIsSafe
PROPERTIES
    SettingsAreKept
    ContinuesConversation
    EdgesAreTold
    MoreIsHonest
    DirectoryIsAsTold
