SPECIFICATION Spec
CONSTANTS
    InvalidStart = {"1"}
    Paths <- ManyPaths
    Texts <- ManyTexts
INVARIANT NeverPanics
CHECK_DEADLOCK FALSE
