CONSTANTS
    one = one
    two = two
    Actors = {one}
    StripeIds = {1}
    Days <- MCDays
    TrialDays = 1
    InOrder = TRUE
    TrialMayFail = FALSE
    MaxNow = 3
    MaxRequests = 2
    MaxErrors = 0
    MaxCrashes = 0
    MaxRepeats = 0
SPECIFICATION FairSpec
PROPERTY DowngradeHappens
CHECK_DEADLOCK FALSE
