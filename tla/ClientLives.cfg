SPECIFICATION FairSpec
CONSTANTS
    alice = alice
    none = none
    NoUser = none
    Accounts = {alice}
    Kinds = {"login"}
    RetryMax = 1
    MaxBatch = 2
    MayDisconnect = TRUE
    MayQuit = FALSE
    Hurried = FALSE
    MaxSecond = 2
    MaxRequests = 1
    MaxForeign = 1
PROPERTIES
    Settles
    
CHECK_DEADLOCK FALSE
