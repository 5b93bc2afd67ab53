SPECIFICATION Spec
CONSTANTS
    alice = alice
    Token = {t1}
    Username = {alice}
    UserOf <- OneUser
    Request = {r1, r2}
    Extra = {x, y}
    None = None
    IdleTimeout = 2
    AbsoluteTimeout = 3
    Second = 2
    Faults = {"touch"}
    MaxNow = 5
INVARIANT CacheCoherent
SYMMETRY Symmetry
CHECK_DEADLOCK FALSE
