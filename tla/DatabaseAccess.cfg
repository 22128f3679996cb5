\* The decision loop reads a table that the receive loop writes.
CONSTANTS
    Readers = {"decisionLoop"}
    Writers = {"receiveLoop"}
    Values = {"0", "1"}
    Nothing = "nothing"
    Limit = 2
    MaxRows = 4
    MaxFailures = 3

SPECIFICATION Spec

INVARIANTS TypeOK LeaksExplained
PROPERTIES KeepsPromise ReadsRecover
