CONSTANTS
    MaxLines = 3
    Burst = 3
    MaxRaw = 5
SPECIFICATION FairSpec
INVARIANTS NothingLost OvershootBounded FailureSurfaces
PROPERTIES StopOrFullEnds ImplementsBoundedCapture
CHECK_DEADLOCK FALSE
