CONSTANTS
    Client = {c1, c2, c3}
    Original = Original
    Absent = Absent
    Torn = Torn
SPECIFICATION Spec
SYMMETRY ClientSymmetry
INVARIANTS OutcomeIsTrue OnlyCrashesLitter
PROPERTIES ModeKept CreateSparesOwner ImplementsAtomicFile
CHECK_DEADLOCK FALSE
