CONSTANTS
    B = 2
    Drives = {"D", "R", "Q"}
    Archive <- ArchiveDef
    Paths <- PathsDef
    Fds = {3}
    NumResources = 4
    MaxInodes = 20
    MaxDepth = 3
    MaxSize = 3
    MaxWrites = 1
SPECIFICATION FairSpec
INVARIANTS
    DirectoriesWhole
    ReadsBack
PROPERTIES
    TreePromise
    BootEnds
CHECK_DEADLOCK FALSE
