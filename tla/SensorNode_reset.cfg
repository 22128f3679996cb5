\* Reset at any moment, with devices that may fail and a command that the build
\* does not know.
CONSTANTS
    IsIn = TRUE
    Received = {"GET_All", "PUT_Win/Open", "PUT_Win/Close", "PUT_Win/Stop"}
    LOWER = 1800
    UPPER = 2500
    STEP = 10
    Shaft = {1800, 2150, 2500}
    InboxSize = 2
    MayFail = TRUE
    MayReboot = TRUE

SPECIFICATION Spec

INVARIANTS TypeOK OneMeasurement OpenAckTrue

