CONSTANTS
    Method <- AllMethods
    MaxLines = 3
    MaxJunk = 2
SPECIFICATION FairSpec
INVARIANTS WorkDoneOnce FlashOnlyCompiled SuccessIsReal ReturnedMatchesStreamed
PROPERTIES CallEnds
CHECK_DEADLOCK FALSE
