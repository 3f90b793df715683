SPECIFICATION Spec
CONSTANTS
    Scripts <- MCScripts
    Windows <- MCWindows
    Scalars = {2}
    Mishandled = TRUE
    MaxCalls = 2
INVARIANT AnswersAreRight
CHECK_DEADLOCK FALSE
