SPECIFICATION Spec
CONSTANTS
    Wallets = {w1, w2}
    None = None
    MaxRequests = 3
    MaxReloads = 1
INVARIANTS ConsentFirst WaitsOnScreen
PROPERTY AnswersCurrent
CHECK_DEADLOCK FALSE
