SPECIFICATION FairSpec
CONSTANTS
    s1 = s1
    s2 = s2
    alice = alice
    bob = bob
    carol = carol
    c1 = c1
    c2 = c2
    c3 = c3
    m1 = m1
    m2 = m2
    NoUser = NoUser
    NoConn = NoConn
    NoMsg = NoMsg
    Servers = {s1}
    Users = {alice, bob, carol}
    Conns = {c1, c2}
    Msgs = {m1}
    GroupMsgs = {m1}
    Patient = {}
    Steady = {c1}
    RacyRedis = FALSE
    RetryMax = 1
    MaxLogins = 1
    MaxFaults = 1
    MaxCrashes = 0
    host <- OneHost
    LoginAs <- OwnClients
    From <- FromAlice
    Addressees <- ToBoth
INVARIANTS
    GroupAckedIsKept
PROPERTIES
    CustodySpec
    MapFrozenByGroup
    GroupEnds
CHECK_DEADLOCK FALSE
