SPECIFICATION BackfillSpec
CHECK_DEADLOCK FALSE
CONSTANTS
    claim = claim
    revoke = revoke
    spam = spam
    Signatures = {claim, revoke, spam}
    Failed = {spam}
    NoSignature = NoSignature
    NumAddresses = 2
    Touches <- MCTouches
    SlotContents <- TwoProgramsInASlot
    Limit = 1
    Page = 2
    MaxSlot = 3
    MaxRollbacks = 1
    MaxCrashes = 1
INVARIANTS
    NothingSteppedOver
