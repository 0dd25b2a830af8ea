SPECIFICATION Spec

CONSTANTS
    Wallets = {w1, w2}
    None = None
    MaxTaps = 1

INVARIANT NothingWasChanged

\* The accessory's taps are numbered; once linked, the page is done.
CHECK_DEADLOCK FALSE
