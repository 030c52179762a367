SPECIFICATION Spec
CONSTANTS
    Sections <- LargeMap
    PageBits = 16
    ByteBits = 2
    Requests = {1, 2}
INVARIANT
    KmallocEnds
CHECK_DEADLOCK FALSE
