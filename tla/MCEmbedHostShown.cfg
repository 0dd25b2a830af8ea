SPECIFICATION Spec
CONSTANTS
    Wallets = {w1, w2}
    None = None
    MaxRequests = 2
    MaxReloads = 0
INVARIANT ToldAsShown
CHECK_DEADLOCK FALSE
