SPECIFICATION Spec
CONSTANTS
    Workers = {w1, w2}
    Names = {admin, bob, x}
    Passwords = {p, q}
    p = p
    q = q
    WirePerms = {1, 3}
    NewAccounts <- NewAccountsMC
    BadLength = {x}
    DefaultUser = admin
    DefaultPassword = p
    Ids = {i1, i2, i3}
    NoId = NoId
    Unused = Unused
    Freed = Freed
    NoRight = NoRight
    NoName = NoName
    Broken = Broken
    NoHash = NoHash
CHECK_DEADLOCK FALSE
SYMMETRY Symmetry
INVARIANTS
    TypeOK
    FreedOnlyUnderOlder
PROPERTIES
    CeilingsHold
    ImplementsPolicy
