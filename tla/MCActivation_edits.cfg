SPECIFICATION ActSpec
CONSTANTS
    Models = {"m1", "m2", "m3"}
    Usable = {"m1", "m2"}
    NoModel = NoModel
    Malformed = Malformed
    NotLoaded = NotLoaded
    ArgSets <- MCArgs
    FirstFiles <- MCFiles
    MaxEdits = 1
    MaxCommands = 1
INVARIANT ExternalEditsSurvive
CHECK_DEADLOCK FALSE
