SPECIFICATION Spec
CONSTANTS
    Tabs = {t1, t2}
    Users = {u1, u2}
    None = None
    MaxPending = 2
INVARIANTS
    TokenMeansId
    OneUserPerTab
    ClearsOwnSession
    GuardedMeansToken
SYMMETRY Symmetry
