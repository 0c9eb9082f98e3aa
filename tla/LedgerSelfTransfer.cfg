CONSTANTS
    alice = alice
    bob = bob
    carol = carol
    Users <- MCUsers
    ActiveUsers <- MCActive
    Accounts = {1, 2, 3}
    Owner <- MCOwner
    Balances = {0}
    Inputs <- TransferInputs
    ArchiveFlags = {FALSE}
    NoUser = NoUser
    NoAmount = NoAmount
    NoDate = NoDate
    MaxTx = 2
    MaxBalance = 3
    MaxNow = 1
SPECIFICATION Spec
INVARIANT NoSelfTransfer
CHECK_DEADLOCK FALSE
