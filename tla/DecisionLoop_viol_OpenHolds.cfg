\* Documented, and not what the code does.
CONSTANTS
    Readings <- ControlReadings
    FailingWrites = {}

SPECIFICATION Spec

PROPERTY OpenHolds
