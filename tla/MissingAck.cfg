SPECIFICATION Spec
CONSTANTS
    s1 = s1
    s2 = s2
    alice = alice
    bob = bob
    carol = carol
    c1 = c1
    c2 = c2
    c3 = c3
    m1 = m1
    m2 = m2
    NoUser = NoUser
    NoConn = NoConn
    NoMsg = NoMsg
    Servers = {s1}
    Users = {alice, bob}
    Conns = {c1, c2}
    Msgs = {m1}
    GroupMsgs = {}
    Patient = {}
    Steady = {c1}
    RacyRedis = FALSE
    RetryMax = 1
    MaxLogins = 1
    MaxFaults = 0
    MaxCrashes = 0
    host <- OneHost
    LoginAs <- OwnClients
    From <- FromAlice
    Addressees <- ToBob
INVARIANTS
    HandledIsAcked
CHECK_DEADLOCK FALSE
