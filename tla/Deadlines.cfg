CONSTANTS
    MaxVersion = 3
    MaxTasks = 3
SPECIFICATION FairSpec
INVARIANTS
    TimersFollowRoom
PROPERTIES
    DeadlineSettles
CHECK_DEADLOCK FALSE
