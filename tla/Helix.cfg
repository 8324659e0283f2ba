SPECIFICATION Spec
CONSTANTS
    k = k
    dao = dao
    ann = ann
    Keys = {k}
    Executor = dao
    Nobody = Nobody
    Guardian = k
    Beneficiaries = {ann}
    NumAuthorities = 1
    MIN_EPOCH_DURATION = 1
    MAX_EPOCH_DURATION = 2
    MIN_STREAM_DURATION = 1
    MAX_REWARD_RATE = 1
    MAX_MINTERS = 1
    U64_MAX = 2
    I64_MAX = 7
    DepositAmounts = {2}
    SpendAmounts = {1}
    StreamAmounts = {2}
    Caps = {1}
    Durations = {2}
    Schedules <- MCSchedules
    Rates = {1}
    PeriodEnds = {2}
    MaxStreams = 1
    Steps = {1}
    Horizon = 2
    ProposalIds = {0, 1}
    Acts <- MCActs
    NoAct <- MCNoAct
    MIN_TIMELOCK_DELAY = 1
    MAX_TIMELOCK_DELAY = 1
    EXECUTION_GRACE_PERIOD = 1
INVARIANTS
    TypeOK
    ExactlyAsApproved
    KeysOnlyByMandate
CHECK_DEADLOCK FALSE
