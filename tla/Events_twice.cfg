SPECIFICATION Spec
CONSTANTS
    Event = {e1, e2, e3}
    NoEvent = NoEvent
    Cells = {c1, c2, c3}
INVARIANT
    ReceivedOnce
CHECK_DEADLOCK FALSE
