CONSTANTS
    Contexts = {0, 1, 2}
    MaxInput = 7
SPECIFICATION FilterSpec
INVARIANTS HeldEntryIsThere KeptExactly AsGrep
CHECK_DEADLOCK FALSE
