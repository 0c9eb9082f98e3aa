CONSTANTS
    alice = alice
    bob = bob
    carol = carol
    Users <- MCUsers
    ActiveUsers <- MCActive
    Accounts = {1}
    Owner <- MCOwner
    Balances = {0}
    Inputs <- AdjustmentInputs
    ArchiveFlags = {FALSE}
    NoUser = NoUser
    NoAmount = NoAmount
    NoDate = NoDate
    MaxTx = 3
    MaxBalance = 3
    MaxNow = 1
SPECIFICATION Spec
PROPERTY ReconcileIdempotent
CHECK_DEADLOCK FALSE
