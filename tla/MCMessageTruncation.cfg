SPECIFICATION TruncationSpec
CONSTANTS
    Sizes = {1, 9}
    Budgets = {0, 12, 22, 30, 38}
    MaxMessages = 4
INVARIANTS
    LongestSuffixKept
    FitsWhenProtectedFit
PROPERTIES
    ForgottenStaysForgotten
CHECK_DEADLOCK FALSE
