\* Requests of up to four lines are enough: one of header, one blank, two of body.
SPECIFICATION Spec
CONSTANTS
    Inputs <- MCInputs
    MaxLines = 4
    Sizes = {2}
    IntMax = 3
    DefaultUTF8 = TRUE
INVARIANT BodyIsRest
CHECK_DEADLOCK FALSE
