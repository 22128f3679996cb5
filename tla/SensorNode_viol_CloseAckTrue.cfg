\* After a start the window is taken to be closed.
CONSTANTS
    IsIn = TRUE
    Received = {"GET_All", "PUT_Win/Open", "PUT_Win/Close"}
    LOWER = 1800
    UPPER = 2500
    STEP = 10
    Shaft = {1800}
    InboxSize = 2
    MayFail = FALSE
    MayReboot = FALSE

SPECIFICATION Spec

INVARIANT CloseAckTrue

CHECK_DEADLOCK FALSE
