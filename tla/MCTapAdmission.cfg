SPECIFICATION Spec

CONSTANTS
    ChallengeIds = {c1, c2}
    Namespaces = {"resume", "login"}
    Messages = {"opaque"}
    ChallengeTTL = 1
    MaxTime = 1
    Identifiers = {i1, i2}
    Addresses = {p1, p2}
    Requests = {r1, r2}
    NoAddress = NoAddress
    NoIdentifier = NoIdentifier
    NoInput = NoInput
    MaxCounter = 2
    MaxTaps = 1

SYMMETRY Symmetry
INVARIANTS AdmittedOnce UnusedUrlStaysValid
PROPERTIES AdmitsTheTapped ResumedFresh

\* Requests are numbered and chips and clocks bounded: the model runs out of steps.
CHECK_DEADLOCK FALSE
