SPECIFICATION AccountsFairSpec
CONSTANTS
    t1 = t1
    t2 = t2
    Worker = Worker
    MaxPush = 4
    MaxCopies = 2
    MaxRequests = 3
    MaxFaults = 1
    FirstUsers <- MCFirstUsers
    Threads <- MCThreads
    Request <- MCRequest
    Task <- MCTask
INVARIANTS
    NoLostWakeup
    AccountsTypeOK
    OwnAccount
    FriendsMutual
    AnsweredIsOnRecord
    EffectsBounded
    ViewIsConsistent
PROPERTIES
    LogSpec
    
    EveryTaskExecuted
    RecordedInTheEnd
CHECK_DEADLOCK FALSE
