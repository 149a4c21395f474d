SPECIFICATION VideoSpec
CONSTANTS
    Bufs = {b1, b2}
    DB_N = 1
    MAX_HELD = 3
    NPages = 1
    NAU = 2
    DRY_LIMIT = 2
    Routes = {"shm", "dmabuf", "zero"}
    MaxFrames = 3
    MaxInFlight = 1
    FrameDone = FrameDone
    None = None
    U16 = 64
    RenderWrap = 15
    MAXREF = 8
    Ks = {1, 3, 5}
    Extras = {0, 2}
    StreamFrames = 80
    Bytes = {0, 1, 3, 4}
    WORD = 2
    MaxLen = 5
    t1 = t1
    t2 = t2
    t3 = t3
    i1 = i1
    i2 = i2
    d1 = d1
    d2 = d2
    Threads <- ThreeThreads
    IonBufs <- TwoIonBufs
    Dbs <- TwoDbs
    Sizes <- OneOrTwoPages
    Budget = 3
    MaxFiles = 2
    Null = Null
INVARIANTS
    BuffersOwned
    StreamDecodes
    IonTypes
    HeldMemoryStays
    UsedBytesExact
    ExitLeavesNothing
PROPERTIES
    FrameOrder
    StopExits
    Reclaimed
