SPECIFICATION FairSpec
CONSTANTS
    Tasks = {"shell", "program"}
    Cells = {"c1", "c2"}
    Characters = {"a"}
    MaxRoom = 2
    Nobody = Nobody
INVARIANTS NoOverrun KeepsKeyboard LineIntact
PROPERTY ReadEnds
CONSTRAINT Modest
CHECK_DEADLOCK FALSE
