SPECIFICATION FileSpec
CONSTANTS
    Instances = {p}
    Ops = {o1, o2, o3}
    NoFile = NoFile
    LooksRace = TRUE
PROPERTY
    SavedIsNeverLost
CHECK_DEADLOCK FALSE
