SPECIFICATION Spec
CONSTANTS
    s1 = s1
    s2 = s2
    alice = alice
    bob = bob
    carol = carol
    c1 = c1
    c2 = c2
    c3 = c3
    m1 = m1
    m2 = m2
    NoUser = NoUser
    NoConn = NoConn
    NoMsg = NoMsg
    Servers = {s1}
    Users = {alice, bob, carol}
    Conns = {c1, c2}
    Msgs = {m1}
    GroupMsgs = {}
    Patient = {}
    Steady = {c1}
    RacyRedis = TRUE
    RetryMax = 0
    MaxLogins = 2
    MaxFaults = 1
    MaxCrashes = 1
    host <- OneHost
    LoginAs <- SharedClient
    From <- FromAlice
    Addressees <- ToBob
INVARIANTS
    TypeOK
    AckedIsKept
    

    
CHECK_DEADLOCK FALSE
