SPECIFICATION Spec
CONSTANTS
    Columns = 3
    Pitch = 4
    Height = 14
    CharSize = 2
    Letters = {"a", "p", "q"}
    Keys = {"a"}
    Texts <- TextsDef
    Numbers = {0, 9, 10, 255, 256, 999999999, 1000000000}
    Registers = {10}
    MaxLine = 3
    MaxSteps = 6
INVARIANTS
    DrawnInside
    ScreenIsText
    NumberTold
CHECK_DEADLOCK FALSE
