\* One restart of the controller.
CONSTANTS
    Readings <- ByAlarm
    LOWER = 2
    UPPER = 9
    STEP = 2
    Shaft = {9}
    InboxSize = 1
    SocketSize = 1
    Polling = FALSE
    ReadsFail = FALSE
    Crashing = {"controller"}
    MaxCrashes = 1

SPECIFICATION Spec

PROPERTY NoiseCloses
