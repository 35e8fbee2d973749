\* Requests of up to five lines, enough for two paragraphs of body; a Java int
\* of three bits, which the sizes 5 and 9 overflow to a negative and to a
\* positive number; a default charset that spoils all but ASCII.
SPECIFICATION Spec
CONSTANTS
    Inputs <- MCInputs
    MaxLines = 5
    Sizes = {0, 2, 5, 9}
    IntMax = 3
    DefaultUTF8 = FALSE
INVARIANTS TypeOK LoopInvariant BodyOfSingleLines ChecksPrecedeFile PageIsWhole
CHECK_DEADLOCK FALSE
