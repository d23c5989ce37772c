CONSTANTS
    Client = {c1, c2, c3}
    Key = {k1, k2, on}
    Converted = {on}
    Owner = Owner
SPECIFICATION Spec
SYMMETRY Symmetry
INVARIANTS TypeOK BrokenOnlyByCutLine LaterInsertRefused
PROPERTIES SecretsKept
CHECK_DEADLOCK FALSE
