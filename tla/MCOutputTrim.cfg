CONSTANTS
    FailedTail = 2
    MaxShown = 3
    MaxLines = 5
SPECIFICATION TrimSpec
INVARIANTS ValidateKeepsDiagnostics BuildLeavesOutOnlyNoise CutIsTold
PROPERTIES PollsOnlyAdd
CHECK_DEADLOCK FALSE
