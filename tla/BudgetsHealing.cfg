CONSTANTS
    alice = alice
    bob = bob
    worker1 = worker1
    worker2 = worker2
    row1 = row1
    Users = {alice}
    Actors = {worker1}
    Slots = {row1}
    Expenses <- AliceExpenses
    Bodies <- MCBodies
    Days <- MCDays
    NoExpense = NoExpense
    NoUser = NoUser
    MaxRetry = 1
    MaxRequests = 2
    MaxFaults = 1
SPECIFICATION FairSpec
INVARIANTS TypeOK FreshWhenIdle SingleCopy
PROPERTIES   CopyContinues
CHECK_DEADLOCK FALSE
