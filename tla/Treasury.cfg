SPECIFICATION Spec
SYMMETRY Symmetry
CONSTANTS
    ann = ann
    dao = dao
    successor = successor
    Executors = {dao, successor}
    Beneficiaries = {ann}
    NoBeneficiary = NoBeneficiary
    MIN_EPOCH_DURATION = 1
    MAX_EPOCH_DURATION = 2
    MIN_STREAM_DURATION = 2
    U64_MAX = 4
    I64_MAX = 7
    DepositAmounts = {3}
    SpendAmounts = {1}
    StreamAmounts = {2}
    Fees = {1}
    Caps = {1, 2}
    Durations = {1, 2, 3}
    Schedules <- MCSchedules
    Steps = {1}
    Horizon = 3
    MaxStreams = 2
INVARIANTS
    TypeOK
    StreamsFunded
    EpochBudgetHolds
    ClaimNeverBlocked
PROPERTIES
    VestedNeverClawedBack
    ImplementsEscrow
CHECK_DEADLOCK FALSE
