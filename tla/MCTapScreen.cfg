SPECIFICATION Spec
CONSTANTS
    ChallengeTTL = 8
    RefreshAfter = 6
    Calls = {1, 2}
    Taps = {1, 2}
    NoChallenge = NoChallenge
INVARIANTS OfferedIsGood OneTapAtATime
PROPERTY ComesToContinue
CHECK_DEADLOCK FALSE
