SPECIFICATION WindowSpec
CONSTANTS
    MaxContext = 3
    MaxLength = 9
    PartlyFilled = TRUE
INVARIANT
    RightWindow
