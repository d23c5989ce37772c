CONSTANTS
    c1 = c1
    c2 = c2
    stable = stable
    beta = beta
    admin = admin
    guest = guest
    NoAddon = NoAddon
    NoUser = NoUser
    NoTarget = NoTarget
    Call = {c1, c2}
    Addon = {stable, beta}
    Channel <- ChannelOf
    User = {admin, guest}
    Admins = {admin}
    MaxChanges = 1
SPECIFICATION Spec
INVARIANTS RightAddon MadeAsCaller
SYMMETRY CallSymmetry
