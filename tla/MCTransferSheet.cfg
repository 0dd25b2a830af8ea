CONSTANTS
    LamportsPerSignature = 1
    PriorityFee = 1
    TokenAccountRent = 4
    SystemAccountRent = 3
    SolDecimals = 1
    Wallets = {w1, w2}
    Strangers = {s1}
    SendsItself = {w2}
    None = None
    Ledgers <- MCLedgers
    Lamports = {0, 5}
    First = w1
    Second = w2
    Stranger = s1
    Connected = {w1, w2}
    Typed <- MCTyped
    TokenDecimals = 2
    ExtensionRent = 1
    MaxReviews = 1
    MaxSends = 2
    MaxChanges = 1

SPECIFICATION Spec
INVARIANTS OfferedIsSendable MaxIsMost SentAsShown AgainOnlyIfFailed

\* Reviews, sends and changes are numbered: the model runs out of steps.
CHECK_DEADLOCK FALSE
