\* Two accounts and the twin of a key; an accessory tapped twice, also silently; slots
\* enough to expire; accounts closed and created again: replays, reordering, substitution.
SPECIFICATION Spec
CONSTANTS
    Pubkeys = {p1, p2, p3}
    DefaultKey = DefaultKey
    NoConfig = NoConfig
    k1 = k1
    k1odd = k1odd
    k2 = k2
    k2odd = k2odd
    t1 = t1
    t2 = t2
    PublicKeys = {k1, k1odd, k2}
    Accessories = {k1}
    Addresses = {t1, t2}
    Pda <- MCPda
    Identifiers = {i1}
    Mints = {}
    MessageHashes = {m1}
    RpIds <- TwoSites
    Origins <- TwoOrigins
    Contexts <- SilentContexts
    Window = 1
    NoToken = NoToken
    MaxSignCount = 2
    MaxSlot = 2
    MaxIncarnation = 2
SYMMETRY KeySymmetry
INVARIANTS
    RolesSeparate
    OwnerNamedByNewestTransfer
    NextTapIsNewer
    SpentOnOneToken
PROPERTIES
    SingleUse
    TransferAsTapped
    LockedStays
    OwnershipKept
\* Once the bounded taps, slots and accounts are used up, nothing may be left to do.
CHECK_DEADLOCK FALSE
