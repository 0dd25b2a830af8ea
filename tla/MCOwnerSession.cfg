SPECIFICATION Spec

CONSTANTS
    ChallengeIds = {c1}
    Namespaces = {"login"}
    Messages = {w1, w2}
    ChallengeTTL = 1
    MaxTime = 1
    Wallets = {w1, w2}
    Addresses = {p1}
    Requests = {r1, r2}
    Nobody = Nobody
    NoCookie = NoCookie
    NoInput = NoInput
    BrowseTTL = 1
    OwnerTTL = 2

SYMMETRY Symmetry
INVARIANTS OneAdmit ClaimNeedsTap ViewNeedsTapOrOwner LoginProvesWallet OpensForThisWallet LogoutLasts

\* Requests are numbered and time is bounded: the model runs out of steps.
CHECK_DEADLOCK FALSE
