SPECIFICATION Spec
SYMMETRY Symmetry
CONSTANTS
    key = key
    dao = dao
    Admins = {key, dao}
    NoAdmin = NoAdmin
    NumAuthorities = 2
    MIN_EPOCH_DURATION = 1
    MAX_MINTERS = 1
    U64_MAX = 2
    Amounts = {1}
    Caps = {1, 2}
    Durations = {0, 1, 2}
    Steps = {1}
    Horizon = 2
INVARIANTS
    TypeOK
    SupplyReconciles
    BurnNeverBlocked
PROPERTIES
    IssuanceWithinCap
