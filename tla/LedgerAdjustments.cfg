CONSTANTS
    alice = alice
    bob = bob
    carol = carol
    Users <- MCUsers
    ActiveUsers <- MCActive
    Accounts = {1}
    Owner <- MCOwner
    Balances = {0}
    Inputs <- AdjustmentInputs
    ArchiveFlags = {TRUE, FALSE}
    NoUser = NoUser
    NoAmount = NoAmount
    NoDate = NoDate
    MaxTx = 3
    MaxBalance = 1
    MaxNow = 2
SPECIFICATION Spec
INVARIANT BalanceReportReplays
PROPERTIES AdjustmentTargetFixed ReconcileSettles
CHECK_DEADLOCK FALSE
