CONSTANTS
    one = one
    two = two
    Actors = {one}
    StripeIds = {1}
    Days <- MCDays
    TrialDays = 1
    InOrder = FALSE
    TrialMayFail = TRUE
    MaxNow = 3
    MaxRequests = 2
    MaxErrors = 1
    MaxCrashes = 1
    MaxRepeats = 1
SPECIFICATION FairSpec
INVARIANT NoFreeRide
PROPERTY PaymentLinks
CHECK_DEADLOCK FALSE
