CONSTANTS
    alice = alice
    Users = {alice}
    ActiveUsers = {alice}
    Accounts = {1, 2}
    Owner <- MCOwner
    Balances = {0}
    Inputs <- MCInputs
    ArchiveFlags = {FALSE}
    NoUser = NoUser
    NoAmount = NoAmount
    NoDate = NoDate
    MaxTx = 6
    MaxBalance = 12
    MaxNow = 1
    v = v
    w = w
    Workers = {v, w}
    MaxRequests = 3
    MaxFaults = 1
SPECIFICATION MCSpec
INVARIANTS EditRepairs
PROPERTIES ImplementsLedger
SYMMETRY Symmetry
CHECK_DEADLOCK FALSE
