CONSTANTS
    alice = alice
    bob = bob
    carol = carol
    Users <- MCUsers
    ActiveUsers <- MCActive
    Accounts = {1, 2, 3}
    Owner <- MCOwner
    Balances = {0}
    Inputs <- TransferInputs
    ArchiveFlags = {FALSE}
    NoUser = NoUser
    NoAmount = NoAmount
    NoDate = NoDate
    MaxTx = 3
    MaxBalance = 2
    MaxNow = 1
SPECIFICATION Spec
INVARIANTS TypeOK OwnershipInv LinkSymmetry
PROPERTIES NoCrossUserWrite DeadRowsFrozen SettledAfterEdit NoDriftWithoutAdjustment
CHECK_DEADLOCK FALSE
