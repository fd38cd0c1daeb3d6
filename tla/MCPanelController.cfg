SPECIFICATION FairSpec
CONSTANTS
    m1 = m1
    m2 = m2
    e1 = e1
    e2 = e2
    n1 = n1
    bad = bad
    Models = {m1, m2}
    Efforts = {e1, e2}
    Limits = {n1, bad}
    InvalidLimits = {bad}
    Blank = Blank
    Undefined = Undefined
    NoWish = NoWish
    Accepts <- MCAccepts
    Documents <- MCDocuments
    Defaults <- MCDefaults
    OthersKeys = {"advisorEnabled", "advisorEffort"}
    MaxEdits = 2
    MaxChanges = 1
INVARIANTS
    TypeOK
    NoEditIsLost
PROPERTIES
    SavesOnlyWhatChanged
    SavedMeansSaved
    CleanPageCatchesUp
CHECK_DEADLOCK FALSE
