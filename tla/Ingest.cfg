SPECIFICATION FairSpec
CONSTANTS
    claim = claim
    revoke = revoke
    stake = stake
    Signatures = {claim, revoke, stake}
    NoSignature = NoSignature
    NumAddresses = 2
    Touches <- TreasuryTouches
    Limit = 2
    MaxSlot = 2
    MaxBlock = 2
    MaxRollbacks = 2
    MaxCrashes = 1
INVARIANTS
    TypeOK
    FinalizedExactly
    HeadIsFinalizedPlusPending
PROPERTIES
    StoreOnlyExtends
    CatchesUp
