SPECIFICATION SearchSpec

CONSTANTS
    Capacity = 5
    SlotNumbers = {0, 1, 2, 3, 4, 5, 6}
    Pending = Pending
    Failed = Failed

PROPERTIES IsLookup Answers

\* The search ends.
CHECK_DEADLOCK FALSE
