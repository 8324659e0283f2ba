SPECIFICATION FairSpec
CONSTANTS
    o1 = o1
    Owners = {o1}
    NoOwner = NoOwner
    Executor = Executor
    Weights = {2}
    Locks = {2}
    Steps = {1}
    Horizon = 4
    Capacity = 2
    MIN_VOTING_PERIOD = 1
    MAX_VOTING_PERIOD = 2
    MIN_TIMELOCK_DELAY = 1
    MAX_TIMELOCK_DELAY = 2
    EXECUTION_GRACE_PERIOD = 1
    ParamChoices <- MCParamChoices
    Actions <- MCActions
    MaxProposals = 1
INVARIANTS
    TypeOK
    TurnoutWithinSnapshot
    VotesStayBacked
    CarriedByMajority
    TimelockServed
PROPERTIES
    LifecycleRespected
    SelfGoverning
    ImplementsMandate
    VotingResolves
CHECK_DEADLOCK FALSE
