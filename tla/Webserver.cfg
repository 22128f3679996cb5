\* A patient user, who sometimes leaves fields of the form empty.
CONSTANTS
    Forms = {1, 2}
    Defaults = 1
    MayMiss = {1, 3, 8}
    Spaced = TRUE

SPECIFICATION Spec

INVARIANTS TypeOK ButtonsExclusive AutoMeansNoButton
PROPERTY CompleteFormHeals
