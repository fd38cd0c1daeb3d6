SPECIFICATION PluginFairSpec
CONSTANTS
    \* SessionGate
    Slots = {s1, s2}
    Signatures = {x, y}
    None = None
    Threshold = 2
    MaxConsumed = 3
    Configs <- MCConfigs
    \* LedgerFile
    Instances = {p}
    Ops = {o1, o2, o3}
    NoFile = NoFile
    LooksRace = FALSE
INVARIANTS
    TypeOK
    CallLimitHolds
    RepeatsAreGated
    FileTypeOK
PROPERTIES
    SequentialBlockHolds
    BudgetNeverBlocks
    EveryCallEnds
    SavedIsNeverLost
    JournalSpec
    ChainNeverWedges
CHECK_DEADLOCK FALSE
