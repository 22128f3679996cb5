\* The closed loop with a lossy link and measurements in between; no failures.
CONSTANTS
    Readings <- ByHandOrNoise
    LOWER = 2
    UPPER = 9
    STEP = 2
    Shaft = {9}
    InboxSize = 2
    SocketSize = 1
    Polling = TRUE
    ReadsFail = FALSE
    Crashing = {}
    MaxCrashes = 0

SPECIFICATION Spec

INVARIANTS TypeOK ClosedAtRest OpenAtRest
PROPERTIES MovesOnDemand NoiseCloses
