SPECIFICATION PiFairSpec
CONSTANTS
    s1 = s1
    s2 = s2
    m1 = m1
    m2 = m2
    Slots = {s1, s2}
    Manuals = {m1, m2}
    Hosts <- MCHosts
    Signatures = {x, y}
    None = None
    Threshold = 2
    Configs <- MCConfigs
INVARIANTS
    PiTypeOK
    LimitIsExact
    HerdrIsHonest
    RepeatsAreGated
PROPERTIES
    SupersededIsSilent
    EveryCallEnds
CHECK_DEADLOCK FALSE
