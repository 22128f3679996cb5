\* The node inside the window, without failures: it answers everything.
CONSTANTS
    IsIn = TRUE
    Received = {"GET_All", "PUT_Win/Open", "PUT_Win/Close"}
    LOWER = 1800
    UPPER = 2500
    STEP = 10
    Shaft = {1800, 2150, 2500}
    InboxSize = 2
    MayFail = FALSE
    MayReboot = FALSE

SPECIFICATION Spec

INVARIANT NoMutualWait
PROPERTY KeepsPromise

