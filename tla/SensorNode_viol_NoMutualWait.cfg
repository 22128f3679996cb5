\* The node outside hears the commands for the window.
CONSTANTS
    IsIn = FALSE
    Received = {"GET_All", "PUT_Win/Open", "PUT_Win/Close"}
    LOWER = 1800
    UPPER = 2500
    STEP = 10
    Shaft = {2150}
    InboxSize = 2
    MayFail = FALSE
    MayReboot = FALSE

SPECIFICATION Spec

INVARIANT NoMutualWait

CHECK_DEADLOCK FALSE
