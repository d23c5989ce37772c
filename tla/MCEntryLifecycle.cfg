CONSTANTS
    Entry = {e1, e2}
    Flow = {f1, f2}
    Unset = Unset
    MaxParts = 3
SPECIFICATION EntrySpec
SYMMETRY Symmetry
INVARIANTS SingleEntry ApiFollowsEntry LastChoiceInForce FilesAsChosen
