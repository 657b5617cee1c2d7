SPECIFICATION TruncationSpec
CONSTANTS
    Sizes = {1, 9}
    Budgets = {12, 22}
    MaxMessages = 3
INVARIANT
    LastUserKept
CHECK_DEADLOCK FALSE
