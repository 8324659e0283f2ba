SPECIFICATION SharesSpec
SYMMETRY Symmetry
CONSTANTS
    a1 = a1
    a2 = a2
    Accounts = {a1, a2}
    Nobody = Nobody
    SECONDS_PER_DAY = 1
    PRECISION = 8
    SCALE = 2520
    MAX_REWARD_RATE = 2
    MIN_STAKE_AMOUNT = 4
    U64_MAX = 100000
    Tiers = {"Flexible", "Bronze"}
    Amounts = {5}
    Donations = {1}
    Fundings = {60}
    Withdrawals = {2}
    Fees = {1}
    Rates = {1}
    PeriodEnds = {45}
    TimeSteps = {30}
    MaxTime = 60
    MaxPositions = 2
    MaxFunded = 60
    MaxDonated = 1
INVARIANTS
    TypeOK
    BooksBalance
    EveryClaimIsPayable
    Solvent
    LiabilityCoversClaims
    ExitNeverBlocked
PROPERTIES
    SharesExactToDust
    ImplementsElectorate
