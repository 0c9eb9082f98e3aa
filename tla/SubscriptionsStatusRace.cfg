CONSTANTS
    one = one
    two = two
    Actors = {one, two}
    StripeIds = {1}
    Days <- MCDays
    TrialDays = 1
    InOrder = TRUE
    TrialMayFail = FALSE
    MaxNow = 4
    MaxRequests = 1
    MaxErrors = 0
    MaxCrashes = 0
    MaxRepeats = 0
SPECIFICATION Spec
INVARIANT PaidIsPremium
CHECK_DEADLOCK FALSE
