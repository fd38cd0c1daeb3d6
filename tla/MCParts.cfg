SPECIFICATION PartsFairSpec
CONSTANTS
    s1 = s1
    s2 = s2
    c1 = c1
    c2 = c2
    c3 = c3
    p1 = p1
    p2 = p2
    a1 = a1
    a2 = a2
    \* OutcomeLog
    OutCalls = {c1, c2, c3}
    Processes = {p1, p2}
    ProcessOf <- MCProcessOf
    AdviceOf <- MCAdviceOf
    Tries = 2
    LogMax = 2
    MaxFaults = 1
    NoFile = NoFile
    \* ScoutRun
    Scouts = {s1, s2}
    NoScout = NoScout
    \* StreamUpdates
    Interval = 2
    MaxChunks = 3
    MaxTime = 5
    Unset = Unset
    \* ScoutContext
    Alphabet <- MCAlphabet
    MaxEntries = 4
    Invocations <- MCInvocations
    ScoutCaps <- MCScoutCaps
    SelectionMax = 2
    Wrapper = 3
    NoId = NoId
    \* GateProtocol
    Lines <- MCLines
    MaxLines = 4
    NoFence = NoFence
    \* Activation
    Models = {"m1", "m2", "m3"}
    Usable = {"m1", "m2"}
    NoModel = NoModel
    Malformed = Malformed
    NotLoaded = NotLoaded
    ArgSets <- MCArgs
    FirstFiles <- MCFiles
    MaxEdits = 1
    MaxCommands = 2
    \* Disclosure
    LineLengths = {0, 9}
    MaxLinesOf = 5
    TextLengths = {0, 3, 20}
    MaxItems = 3
    FileLengths = {0, 3, 8, 20}
    ResultCaps <- MCResultCaps
    ContextLimits = {4, 15, 32, 60}
    GitLimits = {5, 40}
    Changes <- MCChanges
    Markups <- MCMarkups
    Marker = 4
    Zero = 6
    Older = 6
    Newest = 5
    Label = 3
    Notice = 8
    FileMax = 8
    FilesTotal = 20
    \* BenchCampaign
    Plans <- MCPlans
    Cap = 6
    MaxRetries = 1
    Requests <- MCRequests
    MaxRequests = 2
    Charges = {1, 3}
    \* BenchVerdict
    Tasks <- MCTasks
    MaxTasks = 3
    Seeds = 3
    MinTrivial = 1
    Quality <- MCQuality
    Unavailable = Unavailable
INVARIANTS
    PartsTypeOK
    OneWriter
    RecordedOnce
    OneVerdict
    CurationShown
    UpdatesAreCoalesced
    ContextIsWhole
    GateNeverFailsOpen
    SavesAreChosen
    LimitsAreKept
    LeaseFitsTheCap
    VerdictIsThePools
PROPERTIES
    EveryWaitEnds
CHECK_DEADLOCK FALSE
