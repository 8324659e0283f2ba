SPECIFICATION Spec
SYMMETRY Symmetry
CONSTANTS
    devnet = devnet
    mainnet = mainnet
    Clusters = {devnet, mainnet}
    w1 = w1
    w2 = w2
    Wallets = {w1, w2}
    NoWallet = NoWallet
    i1 = i1
    i2 = i2
    Inputs = {i1, i2}
    None = None
    MaxCount = 2
    MaxSends = 2
INVARIANT
    AnswersFindTheirFlow
PROPERTY
    SendsWhatWasShown
CHECK_DEADLOCK FALSE
