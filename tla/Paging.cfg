SPECIFICATION PSpec
CONSTANTS
    Sections <- MixedMap
    PageBits = 32
    ByteBits = 2
    Requests = {0, 3, 5}
    Fan = 6
    Levels = 3
    PageSize = 2
    Hhdm = 108
    KernelImage <- KernelImageDef
    KernelStack = 213
    UserStack = 70
    Argv = 73
    StackPages = 2
    Apics <- ApicsDef
    Programs <- ProgramsDef
    Lengths = {0, 1, 3}
    Fixed = {71, 214}
    MaxTrees = 3
INVARIANTS
    TablesPrivate
    ImageSeen
PROPERTIES
    AllocatorPromise
    SpacePromise
CHECK_DEADLOCK FALSE
