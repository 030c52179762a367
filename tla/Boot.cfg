SPECIFICATION BSpec
CONSTANTS
    N = 6
    Ms = 10
    Machines <- MachinesDef
INVARIANTS
    OneAtATime
    NoFault
    OwnStacks
    TableEnumerated
    InterruptsHandled
PROPERTY
    BootGoesOn
CHECK_DEADLOCK FALSE
