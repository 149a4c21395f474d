SPECIFICATION Spec
CONSTANTS
    Bufs = {b1, b2}
    CREDIT_MAX = 1
    STALL = 2
    MaxIn = 1
    NoFrame = NoFrame
    Stale = Stale
INVARIANTS
    PlayerSafe
PROPERTIES
    PlayerLive
CHECK_DEADLOCK TRUE
