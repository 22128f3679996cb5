\* Two failures of any kind, and queries that fail.
CONSTANTS
    Readings <- ByAlarm
    LOWER = 2
    UPPER = 9
    STEP = 2
    Shaft = {9}
    InboxSize = 1
    SocketSize = 1
    Polling = FALSE
    ReadsFail = TRUE
    Crashing = {"controller", "node", "recvfrom"}
    MaxCrashes = 2

SPECIFICATION Spec

PROPERTY AlarmOpens
