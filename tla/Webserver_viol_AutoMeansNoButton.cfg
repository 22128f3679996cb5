\* Clicks that may follow each other within a second.
CONSTANTS
    Forms = {1, 2}
    Defaults = 1
    MayMiss = {}
    Spaced = FALSE

SPECIFICATION Spec

INVARIANT AutoMeansNoButton
