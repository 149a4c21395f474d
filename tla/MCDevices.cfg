SPECIFICATION MCSpec
CONSTANTS
    None = None
    U16 = 16
    Active = 4
    Total = 8
    SECOND = 2
    MaxPolls = 2
    TUNE_MAX_PHCODE = 6
    TAP_WINDOW_THLD = 2
    Writers = {w1, w2}
    MaxBringups = 2
    PixClocks = {74250, 25175}
    DEBOUNCE = 3
    LONG = 6
    TIMEOUT = 14
    BOUNCE = 2
    MaxHeld = 9
    MaxGap = 3
    MaxPresses = 2
    Badges <- ThreeBadges
    Clients <- TwoClients
    At <- TwoAndThree
    Tree <- Chain
    n1 = n1
    n2 = n2
    n3 = n3
    c1 = c1
    c2 = c2
    Chunks = 1
    MaxMoves = 1
INVARIANTS
    ButtonSound
    BringupSound
PROPERTIES
    DisplayComesUp
    StarvationSound
    SdHostsSound
    CacheSound
CHECK_DEADLOCK FALSE
