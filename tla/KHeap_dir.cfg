SPECIFICATION Spec
CONSTANTS
    Header = 3
    Page = 8
    Memory = 32
    Requests <- AllRequests
CHECK_DEADLOCK FALSE
INVARIANT
    HeadersIntact
