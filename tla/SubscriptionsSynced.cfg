CONSTANTS
    one = one
    two = two
    Actors = {one}
    StripeIds = {1, 2}
    Days <- MCDays
    TrialDays = 1
    InOrder = TRUE
    TrialMayFail = FALSE
    MaxNow = 3
    MaxRequests = 4
    MaxErrors = 0
    MaxCrashes = 0
    MaxRepeats = 0
SPECIFICATION Spec
INVARIANTS TypeOK PaidIsPremium FailureShown MirrorsStripe
CHECK_DEADLOCK FALSE
