SPECIFICATION Spec
CONSTANTS
    s1 = s1
    s2 = s2
    alice = alice
    bob = bob
    carol = carol
    c1 = c1
    c2 = c2
    c3 = c3
    m1 = m1
    m2 = m2
    NoUser = NoUser
    NoConn = NoConn
    NoMsg = NoMsg
    Servers = {s1, s2}
    Users = {alice, bob}
    Conns = {c1, c2, c3}
    Msgs = {m1}
    GroupMsgs = {}
    Patient = {bob}
    Steady = {c1}
    RacyRedis = TRUE
    RetryMax = 0
    MaxLogins = 2
    MaxFaults = 0
    MaxCrashes = 0
    host <- TwoHosts
    LoginAs <- OwnClients
    From <- FromAlice
    Addressees <- ToBob
INVARIANTS
    NoAmplification
CHECK_DEADLOCK FALSE
