CONSTANTS
    Method <- RunOnly
    MaxLines = 2
    MaxJunk = 0
SPECIFICATION Spec
INVARIANT FallbackBeforeOutput
CHECK_DEADLOCK FALSE
