CONSTANTS
    MaxLines = 3
    Burst = 2
SPECIFICATION FairSpec
INVARIANTS ShownIsReturned ErrorIsLastResort
PROPERTIES StopEndsJob
CHECK_DEADLOCK FALSE
