SPECIFICATION Spec
CONSTANTS
    Slots = {s1, s2}
    Signatures = {x, y}
    None = None
    Threshold = 2
    MaxConsumed = 3
    Configs <- MCConfigs
PROPERTY
    NothingStartsWhileBlocked
CHECK_DEADLOCK FALSE
