SPECIFICATION FairSpec
CONSTANTS
    alice = alice
    none = none
    NoUser = none
    Accounts = {alice}
    Kinds = {"login", "reg"}
    RetryMax = 1
    MaxBatch = 2
    MayDisconnect = FALSE
    MayQuit = FALSE
    Hurried = FALSE
    MaxSecond = 2
    MaxRequests = 2
    MaxForeign = 0
PROPERTIES
    LoginReturns
CHECK_DEADLOCK FALSE
