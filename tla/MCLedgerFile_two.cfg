SPECIFICATION FileSpec
CONSTANTS
    Instances = {p, q}
    Ops = {o1, o2, o3}
    NoFile = NoFile
    LooksRace = FALSE
PROPERTY
    SavedIsNeverLost
CHECK_DEADLOCK FALSE
