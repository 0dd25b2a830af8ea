SPECIFICATION Spec
CONSTANTS
    Wallets <- MCWallets
    Keys <- MCKeys
    Identifiers <- MCIdentifiers
    Arrays <- Filled
    MaxSignatures = 3
    MaxCalls = 2
INVARIANTS
    ArrivesAsMeant
    ReadAsRun
    EventTellsChange
    ErrorsNamedRight
    AccountsReadTrue
    TapIsFound

\* Calls are numbered: the model runs out of steps.
CHECK_DEADLOCK FALSE
