\* The state chart and the display under every mix of mode, buttons, window,
\* priority and room; the INSERTs of the humidity state can fail.
CONSTANTS
    Readings <- ControlReadings
    FailingWrites = {"Humidity"}

SPECIFICATION Spec

INVARIANTS TypeOK OneState RestingOpen TemperatureShown
PROPERTIES KeepsPromise RowLeftThroughInit PriorityHonoured ComfortEndsOpening
