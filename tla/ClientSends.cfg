SPECIFICATION Spec
CONSTANTS
    alice = alice
    none = none
    NoUser = none
    Accounts = {alice}
    Kinds = {"login", "command"}
    RetryMax = 1
    MaxBatch = 2
    MayDisconnect = FALSE
    MayQuit = TRUE
    Hurried = FALSE
    MaxSecond = 2
    MaxRequests = 2
    MaxForeign = 0
INVARIANTS
    TypeOK
    SuccessMeansHandled
    MenuMeansAccepted

    
CHECK_DEADLOCK FALSE
