CONSTANTS
    alice = alice
    nobody = nobody
    one = one
    two = two
    Emails = {alice}
    Admins = {alice}
    Nobody = nobody
    Actors = {one, two}
    MaxRetry = 1
    MaxNow = 2
    MaxRequests = 3
    MaxFaults = 1
    MaxStops = 1
SPECIFICATION FairSpec
INVARIANTS TypeOK OnlyOwnersGetIn NotLockedOut ReadyAtLogin OneActivationMail
PROPERTIES NothingSetBack ImplementsMembership MailInTheEnd
CHECK_DEADLOCK FALSE
