SPECIFICATION FairSpec
CONSTANTS
    MaxTasks = 4
    Page0Kinds = {"clear"}
PROPERTY
    AllTasksEnd
CHECK_DEADLOCK FALSE
