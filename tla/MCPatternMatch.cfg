CONSTANTS
    Chars = {"X", "0", "a", "x", ")"}
    MaxLen = 3
SPECIFICATION Spec
INVARIANT MatchesAgreesWithReference
CHECK_DEADLOCK FALSE
