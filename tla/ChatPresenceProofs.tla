-------------------------- MODULE ChatPresenceProofs --------------------------
(***************************************************************************)
(* What is proved of presence: a client in session is served on its        *)
(* connection, and MySQL, Redis and the connection map agree once nothing  *)
(* is under way.                                                           *)
(***************************************************************************)
EXTENDS ChatServiceProofs, SequenceTheorems

-----------------------------------------------------------------------------
(* Sessions.  An account whose owner waits until the server has dealt with *)
(* the last connection is in use on one connection at a time.              *)

\* Every account has a patient owner, or only clients that stay.
Careful ==
    \A u \in Users : u \in Patient \/ \A c \in Conns \ Steady : u \notin LoginAs[c]

\* c uses u, or is still taking leave of it.
Busy(c, u) == account[c] = u \/ (pc[c] \in LeavePc /\ user[c] = u)

SteadyStays == \A c \in Steady : account[c] # NoUser \/ link[c] = "closed"

AccountOK == \A c \in Conns : account[c] # NoUser =>
                account[c] \in LoginAs[c] /\ link[c] \in {"open", "closing"}

LeaverOK == \A c \in Conns : pc[c] \in LeavePc =>
                account[c] = NoUser /\ user[c] \in LoginAs[c]

OneBusy == \A u \in Users, c, d \in Conns : Busy(c, u) /\ Busy(d, u) => c = d

\* The map has no entry of an account before its login inserts one, and
\* this one from then on.
EntryOK ==
    \A c \in Conns : account[c] # NoUser =>
        /\ pc[c] = "insert" => \A s \in Servers : userConnMap[s][account[c]] = NoConn
        /\ pc[c] # "insert" => userConnMap[host[c]][account[c]] = c

SessionInv == SteadyStays /\ AccountOK /\ LeaverOK /\ OneBusy /\ EntryOK

(* The steps that neither begin nor end the use of an account. *)
Aside ==
    /\ UNCHANGED <<account, userConnMap>>
    /\ \A c \in Conns :
          /\ \/ link'[c] = link[c]
             \/ link[c] = "none" /\ link'[c] = "open"
             \/ link[c] = "open" /\ link'[c] = "closing"
          /\ pc'[c] = "insert" <=> pc[c] = "insert"
          /\ pc'[c] \in LeavePc => pc[c] \in LeavePc /\ user'[c] = user[c]

LEMMA LoginAside ==
    ASSUME TypeOK, NEW c \in Conns, Login(c), ~LoginInsert(c)
    PROVE  Aside
<1> USE DEF Aside, TypeOK, HandlerTypes, At, Goto, LeavePc, client, process, server, work
<1>1. CASE LoginSubscribe(c) \/ LoginSet(c) \/ LoginOnline(c)
  BY <1>1 DEF LoginSubscribe, LoginSet, LoginOnline
<1>2. CASE LoginQuery(c)
  BY <1>2 DEF LoginQuery
<1>3. CASE LoginRemove(c) \/ LoginReply(c)
  BY <1>3 DEF LoginRemove, LoginReply
<1> QED
  BY <1>1, <1>2, <1>3 DEF Login

LEMMA LeaveAside ==
    ASSUME TypeOK, NEW c \in Conns, Leave(c)
    PROVE  Aside
  BY DEF Aside, TypeOK, HandlerTypes, At, Goto, LeavePc, client, process, server, work,
     Leave, LeaveUnsubscribe, LeaveDelete, LeaveOffline

LEMMA ChatAside ==
    ASSUME TypeOK, NEW c \in Conns, OneChat(c) \/ GroupChat(c)
    PROVE  Aside
<1> USE DEF Aside, TypeOK, HandlerTypes, At, Goto, LeavePc, client, process, server, work
<1>1. ASSUME NEW m \in Msgs, ChatBegin(c, m) \/ GroupBegin(c, m) PROVE Aside
  BY <1>1 DEF ChatBegin, GroupBegin, Take
<1>2. CASE ChatGet(c) \/ ChatState(c)
  BY <1>2 DEF ChatGet, ChatState
<1>3. CASE ChatPublish(c) \/ ChatStore(c)
  BY <1>3 DEF ChatPublish, ChatStore, Finish
<1>4. CASE GroupLock(c)
  BY <1>4 DEF GroupLock
<1>5. CASE GroupMember(c)
  BY <1>5 DEF GroupMember
<1>6. CASE GroupPublish(c) \/ GroupStore(c)
  BY <1>6 DEF GroupPublish, GroupStore, NextMember
<1>7. CASE GroupEnd(c)
  BY <1>7 DEF GroupEnd, Finish
<1> QED
  BY <1>1, <1>2, <1>3, <1>4, <1>5, <1>6, <1>7 DEF OneChat, GroupChat

LEMMA ClientAside ==
    ASSUME TypeOK,
           \/ \E c \in Conns : Connect(c) \/ ClientExit(c) \/ \E m \in Msgs : Send(c, m)
           \/ \E m \in Msgs : Resend(m)
           \/ \E u \in Users : KeyExpire(u)
    PROVE  Aside
  BY DEF Connect, ClientExit, Send, Resend, KeyExpire, Aside, TypeOK, ClientTypes, client,
     process, server, handler, work

LEMMA ServerAside ==
    ASSUME NEW s \in Servers, Background(s) \/ ResetState(s) \/ Restart(s)
    PROVE  Aside
  BY DEF Background, Worker, RedisSubscriber, Observe, ResetState, Restart, Aside, client,
     process, server, handler, work

LEMMA AsideSession ==
    ASSUME SessionInv, Aside
    PROVE  SessionInv'
<1>1. \A c \in Conns : /\ account'[c] = account[c]
                       /\ link[c] \in {"open", "closing"} => link'[c] \in {"open", "closing"}
                       /\ link[c] = "closed" => link'[c] = "closed"
  BY DEF Aside
<1>2. SteadyStays' /\ AccountOK'
  BY <1>1, ChatAssumption DEF SessionInv, SteadyStays, AccountOK
<1>3. LeaverOK'
  BY <1>1 DEF Aside, SessionInv, LeaverOK
<1>4. \A u : \A c \in Conns : Busy(c, u)' => Busy(c, u)
  BY <1>1 DEF Aside, Busy
<1>5. OneBusy'
  BY <1>4 DEF SessionInv, OneBusy
<1>6. EntryOK'
  BY DEF Aside, SessionInv, EntryOK
<1> QED
  BY <1>2, <1>3, <1>5, <1>6 DEF SessionInv

(* The account of a login that begins is in use nowhere. *)
LEMMA AcceptIsAlone ==
    ASSUME Careful, SessionInv, NEW c \in Conns, NEW u \in Users, LoginAccept(c, u)
    PROVE  Settled(u)
<1>1. link[c] = "open" /\ account[c] = NoUser /\ u \in LoginAs[c]
  BY DEF LoginAccept
<1>2. c \notin Steady
  BY <1>1 DEF SessionInv, SteadyStays
<1> QED
  BY <1>1, <1>2 DEF Careful, LoginAccept

LEMMA AcceptSession ==
    ASSUME Careful, IInv, SessionInv, NEW c \in Conns, NEW u \in Users, LoginAccept(c, u)
    PROVE  SessionInv'
<1>1. /\ account' = [account EXCEPT ![c] = u] /\ user' = [user EXCEPT ![c] = u]
      /\ pc' = [pc EXCEPT ![c] = "insert"] /\ link' = link /\ userConnMap' = userConnMap
      /\ link[c] = "open" /\ account[c] = NoUser /\ u \in LoginAs[c] /\ pc[c] = "idle"
  BY DEF LoginAccept, Goto, At, process, server
<1>2. /\ account'[c] = u /\ pc'[c] = "insert" /\ u # NoUser
      /\ \A d \in Conns \ {c} : account'[d] = account[d] /\ pc'[d] = pc[d] /\ user'[d] = user[d]
  BY <1>1, ChatAssumption DEF IInv, TypeOK, HandlerTypes, ClientTypes
<1>3. Settled(u)
  BY AcceptIsAlone
<1>4. SteadyStays' /\ AccountOK'
  BY <1>1, <1>2, ChatAssumption DEF SessionInv, SteadyStays, AccountOK
<1>5. LeaverOK'
  BY <1>1, <1>2 DEF SessionInv, LeaverOK, LeavePc
<1>6. \A d \in Conns \ {c} : ~Busy(d, u)
  BY <1>3 DEF Settled, Busy
<1>7. /\ \A d \in Conns \ {c}, v \in Users : Busy(d, v)' <=> Busy(d, v)
      /\ \A v \in Users : Busy(c, v)' => v = u
  BY <1>2 DEF Busy, LeavePc
<1>8. OneBusy'
  BY <1>6, <1>7 DEF SessionInv, OneBusy
<1>9. EntryOK'
  <2>1. \A s \in Servers : userConnMap[s][u] = NoConn
    BY <1>3 DEF Settled
  <2> QED
    BY <1>1, <1>2, <2>1 DEF SessionInv, EntryOK
<1> QED
  BY <1>4, <1>5, <1>8, <1>9 DEF SessionInv

LEMMA InsertSession ==
    ASSUME IInv, SessionInv, NEW c \in Conns, LoginInsert(c)
    PROVE  SessionInv'
<1>1. /\ pc' = [pc EXCEPT ![c] = "subscribe"] /\ pc[c] = "insert"
      /\ UNCHANGED <<link, account, user>>
      /\ MapInsert(host[c], user[c], c)
  BY DEF LoginInsert, Goto, At, work, client
<1>2. user[c] \in Users /\ account[c] = user[c] /\ host[c] \in Servers
  BY <1>1, HostType DEF IInv, WorkOK, LoginPc
<1>3. PICK u \in Users : u = user[c]
  BY <1>2
<1>4. /\ \A s \in Servers, v \in Users :
            v # u => userConnMap'[s][v] = userConnMap[s][v]
      /\ userConnMap'[host[c]][u] = IF userConnMap[host[c]][u] = NoConn
                                    THEN c ELSE userConnMap[host[c]][u]
  <2>1. userConnMap \in [Servers -> [Users -> Conns \cup {NoConn}]]
    BY DEF IInv, TypeOK, ProcessTypes
  <2>2. userConnMap' = [userConnMap EXCEPT ![host[c]][u] =
                            IF userConnMap[host[c]][u] = NoConn
                            THEN c ELSE userConnMap[host[c]][u]]
    BY <1>1, <1>3 DEF MapInsert
  <2> QED
    BY <1>2, <2>1, <2>2
<1>5. pc'[c] = "subscribe" /\ \A d \in Conns \ {c} : pc'[d] = pc[d]
  BY <1>1 DEF IInv, TypeOK, HandlerTypes
<1>6. SteadyStays' /\ AccountOK'
  BY <1>1 DEF SessionInv, SteadyStays, AccountOK
<1>7. LeaverOK'
  BY <1>1, <1>5 DEF SessionInv, LeaverOK, LeavePc
<1>8. \A v : \A d \in Conns : Busy(d, v)' <=> Busy(d, v)
  BY <1>1, <1>5 DEF Busy, LeavePc
<1>9. OneBusy'
  BY <1>8 DEF SessionInv, OneBusy
<1>10. EntryOK'
  <2>1. u # NoUser
    BY ChatAssumption
  <2>2. userConnMap[host[c]][u] = NoConn
    BY <1>1, <1>2, <1>3, <2>1 DEF SessionInv, EntryOK
  <2>3. ASSUME NEW d \in Conns \ {c}, account[d] # NoUser
        PROVE  account[d] # u /\ account[d] \in Users
    <3>1. account[d] \in Users
      BY <2>3 DEF IInv, TypeOK, ClientTypes
    <3> QED
      BY <1>2, <1>3, <3>1 DEF SessionInv, OneBusy, Busy
  <2>4. ASSUME NEW d \in Conns \ {c}, account[d] # NoUser
        PROVE  \A s \in Servers : userConnMap'[s][account[d]] = userConnMap[s][account[d]]
    BY <1>4, <2>3, <2>4
  <2>5. ASSUME NEW d \in Conns \ {c}, account'[d] # NoUser
        PROVE  /\ pc'[d] = "insert" => \A s \in Servers : userConnMap'[s][account'[d]] = NoConn
               /\ pc'[d] # "insert" => userConnMap'[host[d]][account'[d]] = d
    BY <1>1, <1>5, <2>4, <2>5, HostType DEF SessionInv, EntryOK
  <2>6. userConnMap'[host[c]][account'[c]] = c
    BY <1>1, <1>2, <1>3, <1>4, <2>2
  <2> QED
    BY <1>5, <2>5, <2>6 DEF EntryOK
<1> QED
  BY <1>6, <1>7, <1>9, <1>10 DEF SessionInv

(* The end of the use of an account: its entry goes, and its connection    *)
(* takes leave of it, unless it had none.                                  *)
LEMMA EndSession ==
    ASSUME IInv, SessionInv, NEW c \in Conns, pc[c] = "idle",
           account' = [account EXCEPT ![c] = NoUser],
           \A d \in Conns \ {c} : link'[d] = link[d] /\ pc'[d] = pc[d] /\ user'[d] = user[d],
           c \in Steady => link'[c] = "closed",
           \/ /\ account[c] \in Users
              /\ userConnMap' = [userConnMap EXCEPT ![host[c]][account[c]] = NoConn]
              /\ pc'[c] = "unsubscribe" /\ user'[c] = account[c]
           \/ account[c] = NoUser /\ userConnMap' = userConnMap /\ pc'[c] = "idle"
    PROVE  SessionInv'
<1>1. account'[c] = NoUser /\ \A d \in Conns \ {c} : account'[d] = account[d]
  BY DEF IInv, TypeOK, ClientTypes
<1>2. SteadyStays'
  BY <1>1, ChatAssumption DEF SessionInv, SteadyStays
<1>3. AccountOK'
  BY <1>1 DEF SessionInv, AccountOK
<1>4. LeaverOK'
  BY <1>1, ChatAssumption DEF SessionInv, LeaverOK, AccountOK, LeavePc
<1>5. \A d \in Conns, v \in Users : Busy(d, v)' => Busy(d, v)
  BY <1>1, ChatAssumption DEF Busy, LeavePc
<1>6. OneBusy'
  BY <1>5 DEF SessionInv, OneBusy
<1>7. ASSUME NEW d \in Conns \ {c}, account[d] # NoUser, NEW s \in Servers
      PROVE  userConnMap'[s][account[d]] = userConnMap[s][account[d]]
  <2>1. account[d] \in Users
    BY <1>7 DEF IInv, TypeOK, ClientTypes
  <2>2. account[c] \in Users => account[c] # account[d]
    BY <2>1 DEF SessionInv, OneBusy, Busy
  <2>3. userConnMap \in [Servers -> [Users -> Conns \cup {NoConn}]] /\ host[c] \in Servers
    BY HostType DEF IInv, TypeOK, ProcessTypes
  <2> QED
    BY <2>1, <2>2, <2>3
<1>8. EntryOK'
  BY <1>1, <1>7, HostType DEF SessionInv, EntryOK
<1> QED
  BY <1>2, <1>3, <1>4, <1>6, <1>8 DEF SessionInv

LEMMA LogoutSession ==
    ASSUME IInv, SessionInv, NEW c \in Conns, LogoutBegin(c)
    PROVE  SessionInv'
<1>1. /\ account[c] \in Users /\ pc[c] = "idle" /\ c \notin Steady
      /\ account' = [account EXCEPT ![c] = NoUser] /\ link' = link
      /\ userConnMap' = [userConnMap EXCEPT ![host[c]][account[c]] = NoConn]
      /\ pc' = [pc EXCEPT ![c] = "unsubscribe"] /\ user' = [user EXCEPT ![c] = account[c]]
  BY DEF LogoutBegin, At, Goto, Evict, IInv, TypeOK, ClientTypes
<1>2. /\ \A d \in Conns \ {c} : link'[d] = link[d] /\ pc'[d] = pc[d] /\ user'[d] = user[d]
      /\ pc'[c] = "unsubscribe" /\ user'[c] = account[c]
  BY <1>1 DEF IInv, TypeOK, HandlerTypes
<1> QED
  BY <1>1, <1>2, EndSession

(* The close callback finds the entry of the account in use. *)
LEMMA CloseFinds ==
    ASSUME IInv, SessionInv, NEW c \in Conns, CloseBegin(c)
    PROVE  \/ /\ account[c] \in Users
              /\ userConnMap' = [userConnMap EXCEPT ![host[c]][account[c]] = NoConn]
              /\ pc' = [pc EXCEPT ![c] = "unsubscribe"]
              /\ user' = [user EXCEPT ![c] = account[c]]
           \/ account[c] = NoUser /\ UNCHANGED <<userConnMap, pc, user>>
<1>1. pc[c] = "idle" /\ host[c] \in Servers
  BY HostType DEF CloseBegin, At
<1>2. ASSUME NEW u \in Users, Serves(c, u) PROVE account[c] = u
  BY <1>1, <1>2, ChatAssumption DEF Serves, IInv, MapOK
<1>3. account[c] # NoUser => account[c] \in Users /\ Serves(c, account[c])
  BY <1>1 DEF Serves, SessionInv, EntryOK, IInv, TypeOK, ClientTypes
<1> QED
  BY <1>2, <1>3 DEF CloseBegin, Evict, Goto

LEMMA CloseSession ==
    ASSUME IInv, SessionInv, NEW c \in Conns, CloseBegin(c)
    PROVE  SessionInv'
<1>1. /\ pc[c] = "idle" /\ link' = [link EXCEPT ![c] = "closed"]
      /\ account' = [account EXCEPT ![c] = NoUser]
  BY DEF CloseBegin, At
<1>2. link'[c] = "closed" /\ \A d \in Conns \ {c} : link'[d] = link[d]
  BY <1>1 DEF IInv, TypeOK, ClientTypes
<1>3. /\ \A d \in Conns \ {c} : pc'[d] = pc[d] /\ user'[d] = user[d]
      /\ \/ /\ account[c] \in Users
            /\ userConnMap' = [userConnMap EXCEPT ![host[c]][account[c]] = NoConn]
            /\ pc'[c] = "unsubscribe" /\ user'[c] = account[c]
         \/ account[c] = NoUser /\ userConnMap' = userConnMap /\ pc'[c] = "idle"
  BY <1>1, CloseFinds DEF IInv, TypeOK, HandlerTypes
<1> QED
  BY <1>1, <1>2, <1>3, EndSession

LEMMA StopSession ==
    ASSUME IInv, SessionInv, NEW s \in Servers, Stop(s)
    PROVE  SessionInv'
<1>1. /\ \A c \in Conns : host[c] = s =>
            /\ account'[c] = NoUser /\ pc'[c] = "idle"
            /\ link[c] # "none" => link'[c] = "closed"
            /\ link[c] = "none" => link'[c] = "none"
      /\ \A c \in Conns : host[c] # s =>
            /\ account'[c] = account[c] /\ pc'[c] = pc[c] /\ user'[c] = user[c]
            /\ link'[c] = link[c]
  BY DEF Stop
<1>2. /\ \A u \in Users : userConnMap'[s][u] = NoConn
      /\ \A t \in Servers \ {s} : userConnMap'[t] = userConnMap[t]
  BY DEF Stop, IInv, TypeOK, ProcessTypes
<1>3. SteadyStays'
  <2> SUFFICES ASSUME NEW c \in Steady PROVE account'[c] # NoUser \/ link'[c] = "closed"
    BY DEF SteadyStays
  <2>1. c \in Conns /\ (account[c] # NoUser \/ link[c] = "closed")
    BY ChatAssumption DEF SessionInv, SteadyStays
  <2>2. account[c] # NoUser => link[c] # "none"
    BY <2>1 DEF SessionInv, AccountOK
  <2> QED
    BY <1>1, <2>1, <2>2
<1>4. AccountOK'
  BY <1>1 DEF SessionInv, AccountOK
<1>5. LeaverOK'
  BY <1>1 DEF SessionInv, LeaverOK, LeavePc
<1>6. \A d \in Conns, v \in Users : Busy(d, v)' => Busy(d, v)
  BY <1>1, ChatAssumption DEF Busy, LeavePc
<1>7. OneBusy'
  BY <1>6 DEF SessionInv, OneBusy
<1>8. EntryOK'
  <2> SUFFICES ASSUME NEW c \in Conns, account'[c] # NoUser
               PROVE  /\ pc'[c] = "insert" =>
                            \A t \in Servers : userConnMap'[t][account'[c]] = NoConn
                      /\ pc'[c] # "insert" => userConnMap'[host[c]][account'[c]] = c
    BY DEF EntryOK
  <2>1. host[c] # s /\ host[c] \in Servers /\ account'[c] = account[c] /\ pc'[c] = pc[c]
    BY <1>1, HostType
  <2>2. account[c] \in Users
    BY <2>1 DEF IInv, TypeOK, ClientTypes
  <2> QED
    BY <1>2, <2>1, <2>2 DEF SessionInv, EntryOK
<1> QED
  BY <1>3, <1>4, <1>5, <1>7, <1>8 DEF SessionInv

LEMMA NextSession ==
    ASSUME Careful, IInv, SessionInv, [Next]_vars
    PROVE  SessionInv'
<1>1. CASE UNCHANGED vars
  BY <1>1, AsideSession DEF Aside, vars, handler, work, client, process, server
<1>2. CASE Aside
  BY <1>2, AsideSession
<1>3. TypeOK
  BY DEF IInv
<1>4. ASSUME NEW c \in Conns, LoginInsert(c) PROVE SessionInv'
  BY <1>4, InsertSession
<1>5. ASSUME NEW c \in Conns, Handler(c), ~LoginInsert(c) PROVE SessionInv'
  BY <1>2, <1>3, <1>5, LoginAside, LeaveAside, ChatAside, CloseSession DEF Handler
<1>6. ASSUME NEW s \in Servers,
             Background(s) \/ Crash(s) \/ ResetState(s) \/ Exit(s) \/ Restart(s)
      PROVE  SessionInv'
  BY <1>2, <1>6, ServerAside, StopSession DEF Crash, Exit
<1> QED
  BY <1>1, <1>2, <1>3, <1>4, <1>5, <1>6, ClientAside, AcceptSession, LogoutSession DEF Next

LEMMA InitSession == Init => SessionInv
<1> SUFFICES ASSUME Init PROVE SessionInv
  OBVIOUS
<1>1. /\ \A c \in Conns : /\ pc[c] = "idle"
                          /\ account[c] = IF c \in Steady THEN Owner(c) ELSE NoUser
                          /\ link[c] = IF c \in Steady THEN "open" ELSE "none"
      /\ \A c \in Steady : c \in Conns /\ Owner(c) \in Users /\ Owner(c) # NoUser
  BY SteadyOwner, ChatAssumption DEF Init
<1>2. \A c \in Steady : Owner(c) \in LoginAs[c]
  BY ChatAssumption DEF Owner
<1>3. SteadyStays /\ AccountOK /\ LeaverOK
  BY <1>1, <1>2 DEF SteadyStays, AccountOK, LeaverOK, LeavePc
<1>4. \A c \in Conns, u \in Users : Busy(c, u) => c \in Steady /\ Owner(c) = u
  BY <1>1, ChatAssumption DEF Busy, LeavePc
<1>5. OneBusy
  BY <1>4, SteadyOwner DEF OneBusy
<1>6. ASSUME NEW c \in Steady PROVE userConnMap[host[c]][Owner(c)] = c
  <2>1. Owner(c) \in SteadyOn(host[c]) /\ host[c] \in Servers /\ Owner(c) \in Users
    BY <1>1, HostType DEF SteadyOn
  <2>2. (CHOOSE d \in Steady : Owner(d) = Owner(c)) = c
    BY SteadyOwner
  <2> QED
    BY <2>1, <2>2 DEF Init
<1>7. EntryOK
  BY <1>1, <1>6 DEF EntryOK
<1> QED
  BY <1>3, <1>5, <1>7 DEF SessionInv

(* A client in session is served on its connection: the map names it, on   *)
(* the server it reaches, whatever fails and whichever process stops, as   *)
(* long as no account is used by two clients at once.                      *)
THEOREM SessionCorrect == Careful /\ Spec => []SessionIsMapped
<1> SUFFICES ASSUME Careful PROVE Spec => []SessionIsMapped
  OBVIOUS
<1>1. SessionInv => SessionIsMapped
  <2> SUFFICES ASSUME SessionInv, NEW c \in Conns, NEW u \in Users, InSession(c, u)
               PROVE  userConnMap[host[c]][u] = c
    BY DEF SessionIsMapped
  <2>1. account[c] = u /\ pc[c] # "insert" /\ u # NoUser
    BY ChatAssumption DEF InSession, LoginPc
  <2> QED
    BY <2>1 DEF SessionInv, EntryOK
<1>2. IInv /\ SessionInv /\ [Next]_vars => SessionInv'
  BY NextSession
<1> QED
  BY <1>1, <1>2, InitIInv, InitSession, NextStep, PTL DEF Spec

-----------------------------------------------------------------------------
(* Presence.  Tasks and commands take effect in the order they were        *)
(* written, so that what a record will be is what the last one says.       *)

\* An account's clients reach one server.
Homed == \A c, d \in Conns : LoginAs[c] \cap LoginAs[d] # {} => host[c] = host[d]

\* No statement fails, no process stops, no command is disturbed.
Undisturbed == MaxFaults = 0 /\ MaxCrashes = 0 /\ RacyRedis = FALSE

\* The places in the queue q of the items in K, and the last such item.
Places(q, K) == {i \in DOMAIN q : q[i] \in K}
Silent(q, K) == Places(q, K) = {}
Ends(q, K, x) == \E i \in Places(q, K) : q[i] = x /\ \A j \in Places(q, K) : j <= i

LEMMA EndsAppend ==
    ASSUME NEW S, NEW q \in Seq(S), NEW y \in S, NEW K
    PROVE  /\ y \notin K => \A x : Ends(Append(q, y), K, x) => Ends(q, K, x)
           /\ y \in K => \A x : Ends(Append(q, y), K, x) => x = y
           /\ Silent(Append(q, y), K) => y \notin K /\ Silent(q, K)
<1> DEFINE t == Append(q, y)
           n == Len(q) + 1
<1>1. /\ Len(q) \in Nat /\ DOMAIN q = 1..Len(q) /\ DOMAIN t = 1..n
      /\ t[n] = y /\ \A i \in DOMAIN q : t[i] = q[i]
  BY AppendProperties, LenProperties
<1> HIDE DEF t
<1>2. y \notin K => Places(t, K) = Places(q, K)
  BY <1>1 DEF Places
<1>3. y \in K => n \in Places(t, K)
  BY <1>1 DEF Places
<1>4. Places(q, K) \subseteq Places(t, K)
  BY <1>1 DEF Places
<1>5. ASSUME y \notin K, NEW x, Ends(t, K, x) PROVE Ends(q, K, x)
  BY <1>1, <1>2, <1>5 DEF Ends, Places
<1>6. ASSUME y \in K, NEW x, Ends(t, K, x) PROVE x = y
  <2>1. PICK i \in Places(t, K) : t[i] = x /\ \A j \in Places(t, K) : j <= i
    BY <1>6 DEF Ends
  <2>2. i \in 1..n /\ n <= i
    BY <1>1, <1>3, <1>6, <2>1 DEF Places
  <2> QED
    BY <1>1, <2>1, <2>2
<1>7. Silent(t, K) => y \notin K /\ Silent(q, K)
  BY <1>3, <1>4 DEF Silent
<1> QED
  BY <1>5, <1>6, <1>7 DEF t

LEMMA EndsTail ==
    ASSUME NEW S, NEW q \in Seq(S), q # <<>>, NEW K
    PROVE  /\ \A x : Ends(Tail(q), K, x) => Ends(q, K, x)
           /\ Silent(Tail(q), K) /\ Head(q) \in K => Ends(q, K, Head(q))
           /\ Silent(Tail(q), K) /\ Head(q) \notin K => Silent(q, K)
<1> DEFINE t == Tail(q)
<1>1. /\ Len(q) \in Nat \ {0} /\ DOMAIN q = 1..Len(q) /\ Head(q) = q[1]
      /\ DOMAIN t = 1..(Len(q) - 1) /\ \A i \in DOMAIN t : t[i] = q[i + 1]
  BY EmptySeq, LenProperties, HeadTailProperties
<1> HIDE DEF t
<1>2. \A i \in Places(t, K) : i + 1 \in Places(q, K) /\ i \in Nat
  BY <1>1 DEF Places
<1>3. \A j \in Places(q, K) : j = 1 \/ (j - 1 \in Places(t, K) /\ j \in Nat)
  <2> TAKE j \in Places(q, K)
  <2>1. j \in 1..Len(q) /\ q[j] \in K
    BY <1>1 DEF Places
  <2>2. CASE j # 1
    <3>1. j - 1 \in DOMAIN t /\ t[j - 1] = q[(j - 1) + 1] /\ (j - 1) + 1 = j
      BY <1>1, <2>1, <2>2
    <3> QED
      BY <2>1, <3>1 DEF Places
  <2> QED
    BY <2>2
<1>4. ASSUME NEW x, Ends(t, K, x) PROVE Ends(q, K, x)
  <2>1. PICK i \in Places(t, K) : t[i] = x /\ \A j \in Places(t, K) : j <= i
    BY <1>4 DEF Ends
  <2>2. i + 1 \in Places(q, K) /\ q[i + 1] = x /\ i \in Nat
    BY <1>1, <1>2, <2>1 DEF Places
  <2>3. \A j \in Places(q, K) : j <= i + 1
    BY <1>3, <2>1, <2>2
  <2> QED
    BY <2>2, <2>3 DEF Ends
<1>5. ASSUME Silent(t, K) PROVE \A j \in Places(q, K) : j = 1
  BY <1>3, <1>5 DEF Silent
<1>6. Silent(t, K) /\ Head(q) \in K => Ends(q, K, Head(q))
  <2>1. 1 \in DOMAIN q
    BY <1>1
  <2> QED
    BY <1>1, <1>5, <2>1 DEF Ends, Places
<1>7. Silent(t, K) /\ Head(q) \notin K => Silent(q, K)
  BY <1>1, <1>5 DEF Silent, Places
<1> QED
  BY <1>4, <1>6, <1>7 DEF t

LEMMA SilentEmpty == \A K : Silent(<<>>, K)
  BY DEF Silent, Places

(* The part c has in the presence of u: in MySQL, in Redis' subscriptions  *)
(* and in its key.                                                         *)
OnBy(c, u) == \/ account[c] = u /\ pc[c] \notin {"insert", "subscribe", "set", "online"}
              \/ user[c] = u /\ pc[c] \in LeavePc
SubBy(c, u) == \/ account[c] = u /\ pc[c] \notin {"insert", "subscribe"}
               \/ user[c] = u /\ pc[c] = "unsubscribe"
KeyBy(c, u) == \/ account[c] = u
               \/ user[c] = u /\ pc[c] \in {"unsubscribe", "delete"}

On(u) == \E c \in Conns : OnBy(c, u)
Sub(s, u) == \E c \in Conns : host[c] = s /\ SubBy(c, u)
Key(u) == \E c \in Conns : KeyBy(c, u)

Same(v) == /\ On(v)' <=> On(v)
           /\ \A s \in Servers : Sub(s, v)' <=> Sub(s, v)
           /\ Key(v)' <=> Key(v)

(* One connection moves, which is the only one its account is busy on. *)
LEMMA OneMoves ==
    ASSUME NEW c \in Conns, NEW u \in Users,
           \A d \in Conns \ {c} : /\ account'[d] = account[d] /\ pc'[d] = pc[d]
                                  /\ user'[d] = user[d] /\ ~Busy(d, u),
           \A v \in Users \ {u} : ~Busy(c, v) /\ ~Busy(c, v)'
    PROVE  /\ \A v \in Users \ {u} : Same(v)
           /\ (On(u) <=> OnBy(c, u)) /\ (On(u)' <=> OnBy(c, u)')
           /\ \A s \in Servers : /\ Sub(s, u) <=> host[c] = s /\ SubBy(c, u)
                                 /\ Sub(s, u)' <=> host[c] = s /\ SubBy(c, u)'
           /\ (Key(u) <=> KeyBy(c, u)) /\ (Key(u)' <=> KeyBy(c, u)')
<1>1. /\ \A d, v : (OnBy(d, v) \/ SubBy(d, v) \/ KeyBy(d, v)) => Busy(d, v)
      /\ \A d, v : (OnBy(d, v)' \/ SubBy(d, v)' \/ KeyBy(d, v)') => Busy(d, v)'
  BY DEF OnBy, SubBy, KeyBy, Busy, LeavePc
<1>2. \A v : \A d \in Conns \ {c} : /\ OnBy(d, v)' <=> OnBy(d, v)
                                    /\ SubBy(d, v)' <=> SubBy(d, v)
                                    /\ KeyBy(d, v)' <=> KeyBy(d, v)
                                    /\ Busy(d, v)' <=> Busy(d, v)
  BY DEF OnBy, SubBy, KeyBy, Busy
<1>3. \A v \in Users \ {u} : Same(v)
  BY <1>1, <1>2 DEF Same, On, Sub, Key
<1>4. (On(u) <=> OnBy(c, u)) /\ (On(u)' <=> OnBy(c, u)')
  BY <1>1, <1>2 DEF On
<1>5. \A s \in Servers : /\ Sub(s, u) <=> host[c] = s /\ SubBy(c, u)
                         /\ Sub(s, u)' <=> host[c] = s /\ SubBy(c, u)'
  BY <1>1, <1>2 DEF Sub
<1>6. (Key(u) <=> KeyBy(c, u)) /\ (Key(u)' <=> KeyBy(c, u)')
  BY <1>1, <1>2 DEF Key
<1> QED
  BY <1>3, <1>4, <1>5, <1>6

\* The tasks and the commands about u.
StateOf(u) == {StateTask(u, "Online"), StateTask(u, "Offline")}
CommandOf(u) == {<<"subscribe", u>>, <<"unsubscribe", u>>}

TasksOK ==
    \A s \in Servers : \A i \in DOMAIN dbQueue[s] : dbQueue[s][i].type = "state" =>
        \E c \in Conns : host[c] = s /\ \E u \in LoginAs[c] : dbQueue[s][i] \in StateOf(u)

\* The state in MySQL, once the tasks queued are done.
StateOK ==
    /\ \A c \in Conns : \A u \in LoginAs[c] :
          /\ Ends(dbQueue[host[c]], StateOf(u), StateTask(u, "Online")) => On(u)
          /\ Ends(dbQueue[host[c]], StateOf(u), StateTask(u, "Offline")) => ~On(u)
          /\ Silent(dbQueue[host[c]], StateOf(u)) => (userState[u] = "Online" <=> On(u))
    /\ \A u \in Users : (\A c \in Conns : u \notin LoginAs[c]) => userState[u] = "Offline"

\* The subscriptions, once the commands written are processed.
SubOK ==
    \A s \in Servers, u \in Users :
        /\ Ends(subPipe[s], CommandOf(u), <<"subscribe", u>>) => Sub(s, u)
        /\ Ends(subPipe[s], CommandOf(u), <<"unsubscribe", u>>) => ~Sub(s, u)
        /\ Silent(subPipe[s], CommandOf(u)) => (u \in subscribed[s] <=> Sub(s, u))

KeyOK == \A u \in Users : onlineKey[u] => Key(u)

AllUp == \A s \in Servers : running[s] = "up"

Presences == AllUp /\ TasksOK /\ StateOK /\ SubOK /\ KeyOK

LEMMA AboutOne ==
    /\ \A u, v, st : StateTask(u, st) \in StateOf(v) => u = v
    /\ \A u, v, m : OfflineTask(v, m) \notin StateOf(u) /\ OfflineTask(v, m).type # "state"
    /\ \A u, v, op : <<op, u>> \in CommandOf(v) => u = v
    /\ \A u : StateTask(u, "Online") # StateTask(u, "Offline")
    /\ \A u : <<"subscribe", u>> # <<"unsubscribe", u>>
<1>1. \A u, st : StateTask(u, st).user = u /\ StateTask(u, st).state = st
                    /\ StateTask(u, st).type = "state"
  BY DEF StateTask
<1>2. \A u, v, st : StateTask(u, st) \in StateOf(v) => u = v
  <2> SUFFICES ASSUME NEW u, NEW v, NEW st, StateTask(u, st) \in StateOf(v) PROVE u = v
    OBVIOUS
  <2>1. StateTask(u, st) = StateTask(v, "Online") \/ StateTask(u, st) = StateTask(v, "Offline")
    BY DEF StateOf
  <2>2. StateTask(u, st).user = v
    BY <1>1, <2>1
  <2> QED
    BY <1>1, <2>2
<1>3. \A v, m : OfflineTask(v, m).type = "offline"
  BY DEF OfflineTask
<1>4. \A u, v, m : OfflineTask(v, m) \notin StateOf(u)
  <2> SUFFICES ASSUME NEW u, NEW v, NEW m, OfflineTask(v, m) \in StateOf(u) PROVE FALSE
    OBVIOUS
  <2>1. OfflineTask(v, m) = StateTask(u, "Online") \/ OfflineTask(v, m) = StateTask(u, "Offline")
    BY DEF StateOf
  <2>2. OfflineTask(v, m).type = "state"
    BY <1>1, <2>1
  <2> QED
    BY <1>3, <2>2
<1>5. \A u : StateTask(u, "Online") # StateTask(u, "Offline")
  <2> SUFFICES ASSUME NEW u, StateTask(u, "Online") = StateTask(u, "Offline") PROVE FALSE
    OBVIOUS
  <2>1. StateTask(u, "Online").state = "Online" /\ StateTask(u, "Offline").state = "Offline"
    BY <1>1
  <2> QED
    BY <2>1
<1>6. \A u, v, op : <<op, u>> \in CommandOf(v) => u = v
  BY DEF CommandOf
<1> QED
  BY <1>2, <1>3, <1>4, <1>5, <1>6

(* A task more in one queue, and none of another kind. *)
LEMMA PushTasks ==
    ASSUME IInv, TasksOK, NEW s \in Servers, NEW t \in DbTaskArgs, PushTask(s, t),
           t.type = "state" => \E c \in Conns : host[c] = s /\ \E u \in LoginAs[c] : t \in StateOf(u)
    PROVE  /\ TasksOK'
           /\ \A z \in Servers : dbQueue'[z] = IF z = s THEN Append(dbQueue[s], t) ELSE dbQueue[z]
<1>1. \A z \in Servers : dbQueue[z] \in Seq(DbTaskArgs)
  BY DEF IInv, TypeOK, ProcessTypes
<1>2. \A z \in Servers : dbQueue'[z] = IF z = s THEN Append(dbQueue[s], t) ELSE dbQueue[z]
  BY DEF PushTask, IInv, TypeOK, ProcessTypes
<1>3. ASSUME NEW z \in Servers, NEW i \in DOMAIN dbQueue'[z]
      PROVE  (i \in DOMAIN dbQueue[z] /\ dbQueue'[z][i] = dbQueue[z][i])
             \/ (z = s /\ dbQueue'[z][i] = t)
  <2>1. CASE z = s
    <3>1. dbQueue'[s] = Append(dbQueue[s], t) /\ dbQueue[s] \in Seq(DbTaskArgs)
      BY <1>1, <1>2
    <3>2. /\ DOMAIN dbQueue[s] = 1..Len(dbQueue[s]) /\ Len(dbQueue[s]) \in Nat
          /\ DOMAIN dbQueue'[s] = 1..(Len(dbQueue[s]) + 1)
          /\ dbQueue'[s][Len(dbQueue[s]) + 1] = t
          /\ \A j \in DOMAIN dbQueue[s] : dbQueue'[s][j] = dbQueue[s][j]
      BY <3>1, AppendProperties, LenProperties
    <3> QED
      BY <1>3, <2>1, <3>2
  <2>2. CASE z # s
    BY <1>2, <1>3, <2>2
  <2> QED
    BY <2>1, <2>2
<1>4. TasksOK'
  <2> SUFFICES ASSUME NEW z \in Servers, NEW i \in DOMAIN dbQueue'[z], dbQueue'[z][i].type = "state"
               PROVE  \E c \in Conns : host[c] = z /\ \E u \in LoginAs[c] : dbQueue'[z][i] \in StateOf(u)
    BY DEF TasksOK, StateOf, StateTask
  <2>1. CASE i \in DOMAIN dbQueue[z] /\ dbQueue'[z][i] = dbQueue[z][i]
    BY <2>1 DEF TasksOK
  <2>2. CASE z = s /\ dbQueue'[z][i] = t
    BY <2>2
  <2> QED
    BY <1>3, <2>1, <2>2
<1> QED
  BY <1>2, <1>4

(* The steps that leave the state alone and say nothing about it. *)
LEMMA StateSame ==
    ASSUME IInv, TasksOK, StateOK, userState' = userState, \A v \in Users : On(v)' <=> On(v),
           \/ dbQueue' = dbQueue
           \/ \E s \in Servers, v \in Users \cup {NoUser}, m \in Msgs :
                  PushTask(s, OfflineTask(v, m))
    PROVE  TasksOK' /\ StateOK'
<1>0. \A c \in Conns : \A u \in LoginAs[c] : u \in Users
  BY ChatAssumption
<1>1. CASE dbQueue' = dbQueue
  <2>1. TasksOK'
    BY <1>1 DEF TasksOK, StateOf, StateTask
  <2>2. StateOK'
    BY <1>0, <1>1 DEF StateOK, StateOf, StateTask
  <2> QED
    BY <2>1, <2>2
<1>2. ASSUME NEW s \in Servers, NEW v \in Users \cup {NoUser}, NEW m \in Msgs,
             PushTask(s, OfflineTask(v, m))
      PROVE  TasksOK' /\ StateOK'
  <2>1. OfflineTask(v, m) \in DbTaskArgs
    BY TaskTypes
  <2> DEFINE t == OfflineTask(v, m)
  <2>2. t.type # "state" /\ \A u : t \notin StateOf(u)
    BY AboutOne
  <2> HIDE DEF t
  <2>3. TasksOK' /\ \A z \in Servers : dbQueue'[z] = IF z = s THEN Append(dbQueue[s], t) ELSE dbQueue[z]
    BY <1>2, <2>1, <2>2, PushTasks DEF t
  <2>4. \A z \in Servers : dbQueue[z] \in Seq(DbTaskArgs)
    BY DEF IInv, TypeOK, ProcessTypes
  <2>5. ASSUME NEW z \in Servers, NEW u
        PROVE  /\ \A x : Ends(dbQueue'[z], StateOf(u), x) => Ends(dbQueue[z], StateOf(u), x)
               /\ Silent(dbQueue'[z], StateOf(u)) => Silent(dbQueue[z], StateOf(u))
    <3>1. CASE z = s
      <4>1. t \in DbTaskArgs /\ t \notin StateOf(u) /\ dbQueue[s] \in Seq(DbTaskArgs)
        BY <2>1, <2>2, <2>4 DEF t
      <4>2. dbQueue'[s] = Append(dbQueue[s], t)
        BY <2>3
      <4> QED
        BY <3>1, <4>1, <4>2, EndsAppend
    <3>2. CASE z # s
      BY <2>3, <3>2
    <3> QED
      BY <3>1, <3>2
  <2>6. ASSUME NEW c \in Conns, NEW u \in LoginAs[c]
        PROVE  /\ Ends(dbQueue'[host[c]], StateOf(u), StateTask(u, "Online")) => On(u)'
               /\ Ends(dbQueue'[host[c]], StateOf(u), StateTask(u, "Offline")) => ~On(u)'
               /\ Silent(dbQueue'[host[c]], StateOf(u)) => (userState'[u] = "Online" <=> On(u)')
    <3>1. host[c] \in Servers /\ u \in Users
      BY <1>0, HostType
    <3> QED
      BY <2>5, <3>1 DEF StateOK
  <2>7. StateOK'
    BY <2>6 DEF StateOK, StateOf, StateTask
  <2> QED
    BY <2>3, <2>7
<1> QED
  BY <1>1, <1>2

(* A task that says what the state will be. *)
LEMMA StatePush ==
    ASSUME Homed, IInv, TasksOK, StateOK, userState' = userState,
           NEW c \in Conns, NEW u \in LoginAs[c], NEW st \in {"Online", "Offline"},
           PushTask(host[c], StateTask(u, st)),
           \A v \in Users \ {u} : On(v)' <=> On(v), On(u)' <=> st = "Online"
    PROVE  TasksOK' /\ StateOK'
<1> DEFINE s == host[c]
           t == StateTask(u, st)
<1>0. u \in Users /\ s \in Servers /\ \A d \in Conns : \A v \in LoginAs[d] : v \in Users
  BY ChatAssumption, HostType
<1>1. t \in DbTaskArgs /\ t \in StateOf(u)
  BY <1>0, TaskTypes DEF StateOf
<1> HIDE DEF t
<1>2. /\ TasksOK'
      /\ \A z \in Servers : dbQueue'[z] = IF z = s THEN Append(dbQueue[s], t) ELSE dbQueue[z]
  BY <1>0, <1>1, PushTasks DEF t
<1>3. \A z \in Servers : dbQueue[z] \in Seq(DbTaskArgs)
  BY DEF IInv, TypeOK, ProcessTypes
<1>4. dbQueue'[s] = Append(dbQueue[s], t) /\ dbQueue[s] \in Seq(DbTaskArgs)
  BY <1>0, <1>2, <1>3
<1>5. ASSUME NEW z \in Servers, NEW v, v # u
      PROVE  /\ \A x : Ends(dbQueue'[z], StateOf(v), x) => Ends(dbQueue[z], StateOf(v), x)
             /\ Silent(dbQueue'[z], StateOf(v)) => Silent(dbQueue[z], StateOf(v))
  <2>1. t \notin StateOf(v)
    BY <1>5, AboutOne DEF t
  <2>2. CASE z = s
    <3>1. /\ \A x : Ends(Append(dbQueue[s], t), StateOf(v), x) => Ends(dbQueue[s], StateOf(v), x)
          /\ Silent(Append(dbQueue[s], t), StateOf(v)) => Silent(dbQueue[s], StateOf(v))
      BY <1>1, <1>4, <2>1, EndsAppend
    <3> QED
      BY <1>4, <2>2, <3>1
  <2>3. CASE z # s
    BY <1>2, <2>3
  <2> QED
    BY <2>2, <2>3
<1>6. /\ \A x : Ends(dbQueue'[s], StateOf(u), x) => x = t
      /\ ~Silent(dbQueue'[s], StateOf(u))
  BY <1>1, <1>4, EndsAppend
<1>7. ASSUME NEW d \in Conns, NEW v \in LoginAs[d]
      PROVE  /\ Ends(dbQueue'[host[d]], StateOf(v), StateTask(v, "Online")) => On(v)'
             /\ Ends(dbQueue'[host[d]], StateOf(v), StateTask(v, "Offline")) => ~On(v)'
             /\ Silent(dbQueue'[host[d]], StateOf(v)) => (userState'[v] = "Online" <=> On(v)')
  <2>1. host[d] \in Servers /\ v \in Users
    BY <1>0, HostType
  <2>2. CASE v = u
    <3>1. host[d] = s
      BY <2>2 DEF Homed
    <3>2. StateTask(u, "Online") = t => st = "Online"
      BY AboutOne DEF t
    <3>3. StateTask(u, "Offline") = t => st = "Offline"
      BY AboutOne DEF t
    <3> QED
      BY <1>6, <2>2, <3>1, <3>2, <3>3
  <2>3. CASE v # u
    BY <1>5, <2>1, <2>3 DEF StateOK
  <2> QED
    BY <2>2, <2>3
<1>8. \A v \in Users : (\A d \in Conns : v \notin LoginAs[d]) => userState'[v] = "Offline"
  BY DEF StateOK
<1> QED
  BY <1>2, <1>7, <1>8 DEF StateOK, StateOf, StateTask

(* The worker does the oldest task of its queue. *)
LEMMA StateWork ==
    ASSUME Homed, Undisturbed, IInv, TasksOK, StateOK, NEW s \in Servers, Worker(s),
           \A v \in Users : On(v)' <=> On(v)
    PROVE  TasksOK' /\ StateOK'
<1> DEFINE q == dbQueue[s]
           t == Head(dbQueue[s])
<1>1. ~Fault
  BY DEF Undisturbed, Fault, IInv, TypeOK, BoundTypes
<1>2. q # <<>> /\ Apply(t) /\ dbQueue' = [dbQueue EXCEPT ![s] = Tail(q)]
  BY <1>1 DEF Worker
<1>3. \A z \in Servers : dbQueue[z] \in Seq(DbTaskArgs)
  BY DEF IInv, TypeOK, ProcessTypes
<1>4. \A z \in Servers : dbQueue'[z] = IF z = s THEN Tail(q) ELSE dbQueue[z]
  BY <1>2 DEF IInv, TypeOK, ProcessTypes
<1>5. /\ q \in Seq(DbTaskArgs) /\ Len(q) \in Nat \ {0} /\ DOMAIN q = 1..Len(q)
      /\ t = q[1] /\ 1 \in DOMAIN q
      /\ DOMAIN Tail(q) = 1..(Len(q) - 1) /\ \A i \in DOMAIN Tail(q) : Tail(q)[i] = q[i + 1]
  BY <1>2, <1>3, EmptySeq, LenProperties, HeadTailProperties
<1>6. \A i \in DOMAIN Tail(q) : i + 1 \in DOMAIN q
  BY <1>5
<1>7. ASSUME NEW z \in Servers, NEW i \in DOMAIN dbQueue'[z]
      PROVE  \E j \in DOMAIN dbQueue[z] : dbQueue'[z][i] = dbQueue[z][j]
  <2>1. CASE z = s
    <3>1. dbQueue'[z] = Tail(q) /\ dbQueue[z] = q
      BY <1>4, <2>1
    <3>2. i + 1 \in DOMAIN q /\ Tail(q)[i] = q[i + 1]
      BY ONLY <1>5, <1>6, <1>7, <3>1
    <3> QED
      BY ONLY <3>1, <3>2
  <2>2. CASE z # s
    BY <1>4, <1>7, <2>2
  <2> QED
    BY <2>1, <2>2
<1>8. TasksOK'
  <2> SUFFICES ASSUME NEW z \in Servers, NEW i \in DOMAIN dbQueue'[z], dbQueue'[z][i].type = "state"
               PROVE  \E c \in Conns : host[c] = z /\ \E u \in LoginAs[c] : dbQueue'[z][i] \in StateOf(u)
    BY DEF TasksOK, StateOf, StateTask
  <2>1. PICK j \in DOMAIN dbQueue[z] : dbQueue'[z][i] = dbQueue[z][j]
    BY <1>7
  <2> QED
    BY <2>1 DEF TasksOK
<1> HIDE DEF q, t
<1>9. \A K : /\ \A x : Ends(Tail(q), K, x) => Ends(q, K, x)
             /\ Silent(Tail(q), K) /\ Head(q) \in K => Ends(q, K, Head(q))
             /\ Silent(Tail(q), K) /\ Head(q) \notin K => Silent(q, K)
  BY <1>2, <1>5, EndsTail
<1>10. t = Head(q) /\ q = dbQueue[s]
  BY DEF q, t
<1>11. \/ /\ t.type # "state" /\ userState' = userState
       \/ \E c \in Conns : \E u \in LoginAs[c] : \E st \in {"Online", "Offline"} :
              /\ host[c] = s /\ t = StateTask(u, st) /\ userState' = [userState EXCEPT ![u] = st]
  <2>1. CASE t.type = "state"
    <3>1. PICK c \in Conns : host[c] = s /\ \E u \in LoginAs[c] : t \in StateOf(u)
      BY <1>5, <1>10, <2>1 DEF TasksOK
    <3>2. PICK u \in LoginAs[c] : t \in StateOf(u)
      BY <3>1
    <3>3. PICK st \in {"Online", "Offline"} : t = StateTask(u, st)
      BY <3>2 DEF StateOf
    <3>4. t.user = u /\ t.state = st
      BY <3>3 DEF StateTask
    <3>5. userState' = [userState EXCEPT ![t.user] = t.state]
      BY <1>2, <2>1 DEF Apply
    <3> QED
      BY <3>1, <3>3, <3>4, <3>5
  <2>2. CASE t.type # "state"
    BY <1>2, <2>2 DEF Apply, mysql
  <2> QED
    BY <2>1, <2>2
<1>12. ASSUME NEW d \in Conns, NEW v \in LoginAs[d]
       PROVE  /\ Ends(dbQueue'[host[d]], StateOf(v), StateTask(v, "Online")) => On(v)'
              /\ Ends(dbQueue'[host[d]], StateOf(v), StateTask(v, "Offline")) => ~On(v)'
              /\ Silent(dbQueue'[host[d]], StateOf(v)) => (userState'[v] = "Online" <=> On(v)')
  <2>1. host[d] \in Servers /\ v \in Users
    BY ChatAssumption, HostType
  <2>2. \A x : Ends(dbQueue'[host[d]], StateOf(v), x) => Ends(dbQueue[host[d]], StateOf(v), x)
    <3>1. CASE host[d] = s
      <4>1. dbQueue'[host[d]] = Tail(q) /\ dbQueue[host[d]] = q
        BY <1>4, <1>10, <3>1
      <4> QED
        BY <1>9, <4>1
    <3>2. CASE host[d] # s
      BY <1>4, <2>1, <3>2
    <3> QED
      BY <3>1, <3>2
  <2>3. ASSUME Silent(dbQueue'[host[d]], StateOf(v)) PROVE userState'[v] = "Online" <=> On(v)'
    <3>0. userState \in [Users -> {"Online", "Offline"}]
      BY DEF IInv, TypeOK, MySQLTypes
    <3>1. CASE host[d] = s /\ t \in StateOf(v)
      <4>1. dbQueue'[host[d]] = Tail(q) /\ dbQueue[host[d]] = q
        BY <1>4, <1>10, <3>1
      <4>2. Ends(dbQueue[host[d]], StateOf(v), t)
        BY <1>9, <1>10, <2>3, <3>1, <4>1
      <4>3. t.type = "state"
        BY <3>1 DEF StateOf, StateTask
      <4>4. PICK u \in UNION {LoginAs[c] : c \in Conns}, st \in {"Online", "Offline"} :
                t = StateTask(u, st) /\ userState' = [userState EXCEPT ![u] = st]
        BY <1>11, <4>3
      <4>5. u = v
        BY <3>1, <4>4, AboutOne
      <4>6. userState'[v] = st
        BY <2>1, <3>0, <4>4, <4>5
      <4>7. CASE st = "Online"
        BY <2>1, <4>2, <4>4, <4>5, <4>6, <4>7 DEF StateOK
      <4>8. CASE st = "Offline"
        BY <2>1, <4>2, <4>4, <4>5, <4>6, <4>8 DEF StateOK
      <4> QED
        BY <4>7, <4>8
    <3>2. CASE host[d] # s \/ t \notin StateOf(v)
      <4>1. Silent(dbQueue[host[d]], StateOf(v))
        <5>1. CASE host[d] = s
          <6>1. dbQueue'[host[d]] = Tail(q) /\ dbQueue[host[d]] = q
            BY <1>4, <1>10, <5>1
          <6> QED
            BY <1>9, <1>10, <2>3, <3>2, <5>1, <6>1
        <5>2. CASE host[d] # s
          BY <1>4, <2>1, <2>3, <5>2
        <5> QED
          BY <5>1, <5>2
      <4>2. userState'[v] = userState[v]
        <5>1. CASE userState' = userState
          BY <5>1
        <5>2. CASE \E c \in Conns : \E u \in LoginAs[c] : \E st \in {"Online", "Offline"} :
              /\ host[c] = s /\ t = StateTask(u, st) /\ userState' = [userState EXCEPT ![u] = st]
          <6>0. PICK c \in Conns : \E u \in LoginAs[c] : \E st \in {"Online", "Offline"} :
              /\ host[c] = s /\ t = StateTask(u, st) /\ userState' = [userState EXCEPT ![u] = st]
            BY <5>2
          <6>1. PICK u \in LoginAs[c], st \in {"Online", "Offline"} :
              /\ host[c] = s /\ t = StateTask(u, st) /\ userState' = [userState EXCEPT ![u] = st]
            BY <6>0
          <6>2. u # v
            <7>1. t \in StateOf(u)
              BY <6>1 DEF StateOf
            <7>2. u = v => host[d] = s
              BY <6>1 DEF Homed
            <7> QED
              BY <3>2, <7>1, <7>2
          <6> QED
            BY <2>1, <3>0, <6>1, <6>2
        <5> QED
          BY <1>11, <5>1, <5>2
      <4> QED
        BY <2>1, <4>1, <4>2 DEF StateOK
    <3> QED
      BY <3>1, <3>2
  <2> QED
    BY <2>1, <2>2, <2>3 DEF StateOK
<1>13. \A v \in Users : (\A d \in Conns : v \notin LoginAs[d]) => userState'[v] = "Offline"
  BY <1>11 DEF StateOK, IInv, TypeOK, MySQLTypes
<1> QED
  BY <1>8, <1>12, <1>13 DEF StateOK, StateOf, StateTask

-----------------------------------------------------------------------------
LEMMA SubSame ==
    ASSUME SubOK, UNCHANGED <<subPipe, subscribed>>, \A v \in Users : Same(v)
    PROVE  SubOK'
  BY DEF SubOK, Same, CommandOf

(* A command that says what the subscription will be. *)
LEMMA SubWrite ==
    ASSUME IInv, SubOK, NEW c \in Conns, NEW u \in Users,
           NEW op \in {"subscribe", "unsubscribe"},
           subscribed' = subscribed,
           subPipe' = [subPipe EXCEPT ![host[c]] = Append(@, <<op, u>>)],
           \A v \in Users \ {u} : Same(v),
           \A s \in Servers \ {host[c]} : Sub(s, u)' <=> Sub(s, u),
           Sub(host[c], u)' <=> op = "subscribe"
    PROVE  SubOK'
<1> DEFINE x == <<op, u>>
           S == {"subscribe", "unsubscribe"} \X Users
<1>1. /\ host[c] \in Servers /\ x \in S /\ x \in CommandOf(u)
      /\ \A v : v # u => x \notin CommandOf(v)
  BY HostType, AboutOne DEF CommandOf
<1>2. /\ \A s \in Servers : subPipe[s] \in Seq(S)
      /\ \A s \in Servers : subPipe'[s] = IF s = host[c] THEN Append(subPipe[s], x) ELSE subPipe[s]
  BY <1>1 DEF IInv, TypeOK, RedisTypes
<1>3. /\ x = <<"subscribe", u>> => op = "subscribe"
      /\ x = <<"unsubscribe", u>> => op = "unsubscribe"
  OBVIOUS
<1> HIDE DEF x, S
<1>4. ASSUME NEW s \in Servers, NEW v \in Users, s # host[c] \/ v # u
      PROVE  /\ \A y : Ends(subPipe'[s], CommandOf(v), y) => Ends(subPipe[s], CommandOf(v), y)
             /\ Silent(subPipe'[s], CommandOf(v)) => Silent(subPipe[s], CommandOf(v))
             /\ Sub(s, v)' <=> Sub(s, v)
  <2>1. Sub(s, v)' <=> Sub(s, v)
    BY <1>4 DEF Same
  <2>2. CASE s = host[c]
    <3>1. x \notin CommandOf(v)
      BY <1>1, <1>4, <2>2
    <3>2. /\ \A y : Ends(Append(subPipe[s], x), CommandOf(v), y) => Ends(subPipe[s], CommandOf(v), y)
          /\ Silent(Append(subPipe[s], x), CommandOf(v)) => Silent(subPipe[s], CommandOf(v))
      BY <1>1, <1>2, <3>1, EndsAppend
    <3> QED
      BY <1>2, <2>1, <2>2, <3>2
  <2>3. CASE s # host[c]
    BY <1>2, <2>1, <2>3
  <2> QED
    BY <2>2, <2>3
<1>5. /\ \A y : Ends(subPipe'[host[c]], CommandOf(u), y) => y = x
      /\ ~Silent(subPipe'[host[c]], CommandOf(u))
  <2>1. /\ \A y : Ends(Append(subPipe[host[c]], x), CommandOf(u), y) => y = x
        /\ ~Silent(Append(subPipe[host[c]], x), CommandOf(u))
    BY <1>1, <1>2, EndsAppend
  <2> QED
    BY <1>1, <1>2, <2>1
<1>6. ASSUME NEW s \in Servers, NEW v \in Users
      PROVE  /\ Ends(subPipe'[s], CommandOf(v), <<"subscribe", v>>) => Sub(s, v)'
             /\ Ends(subPipe'[s], CommandOf(v), <<"unsubscribe", v>>) => ~Sub(s, v)'
             /\ Silent(subPipe'[s], CommandOf(v)) => (v \in subscribed'[s] <=> Sub(s, v)')
  <2>1. CASE s # host[c] \/ v # u
    BY <1>4, <2>1 DEF SubOK
  <2>2. CASE s = host[c] /\ v = u
    BY <1>3, <1>5, <2>2
  <2> QED
    BY <2>1, <2>2
<1> QED
  BY <1>6 DEF SubOK, CommandOf

(* Redis processes the oldest command. *)
LEMMA SubProcess ==
    ASSUME IInv, SubOK, NEW s \in Servers, RedisSubscriber(s), \A v \in Users : Same(v)
    PROVE  SubOK'
<1> DEFINE q == subPipe[s]
           x == Head(subPipe[s])
           S == {"subscribe", "unsubscribe"} \X Users
<1>1. /\ q \in Seq(S) /\ q # <<>> /\ x \in S
      /\ subPipe' = [subPipe EXCEPT ![s] = Tail(q)]
      /\ subscribed' = [subscribed EXCEPT ![s] = IF x[1] = "subscribe"
                                                 THEN @ \cup {x[2]} ELSE @ \ {x[2]}]
  <2>1. q \in Seq(S) /\ q # <<>>
    BY DEF RedisSubscriber, IInv, TypeOK, RedisTypes
  <2>2. x \in S
    BY <2>1, HeadTailProperties
  <2> QED
    BY <2>1, <2>2 DEF RedisSubscriber
<1>2. PICK op \in {"subscribe", "unsubscribe"}, u \in Users : x = <<op, u>>
  BY <1>1
<1>3. /\ \A z \in Servers : subPipe'[z] = IF z = s THEN Tail(q) ELSE subPipe[z]
      /\ \A z \in Servers \ {s} : subscribed'[z] = subscribed[z]
      /\ subscribed'[s] = IF op = "subscribe" THEN subscribed[s] \cup {u} ELSE subscribed[s] \ {u}
  <2>1. x[1] = op /\ x[2] = u
    BY <1>2
  <2>2. subPipe' = [subPipe EXCEPT ![s] = Tail(q)]
    BY <1>1
  <2>3. subscribed' = [subscribed EXCEPT ![s] = IF op = "subscribe"
                                               THEN @ \cup {u} ELSE @ \ {u}]
    BY <1>1, <2>1
  <2> HIDE DEF x, q
  <2> QED
    BY <2>2, <2>3 DEF IInv, TypeOK, RedisTypes
<1>4. q = subPipe[s] /\ x = Head(q)
  OBVIOUS
<1> HIDE DEF x, S, q
<1>5. \A K : /\ \A y : Ends(Tail(q), K, y) => Ends(q, K, y)
             /\ Silent(Tail(q), K) /\ Head(q) \in K => Ends(q, K, Head(q))
             /\ Silent(Tail(q), K) /\ Head(q) \notin K => Silent(q, K)
  BY <1>1, EndsTail
<1>6. ASSUME NEW v \in Users
      PROVE  /\ Ends(Tail(q), CommandOf(v), <<"subscribe", v>>) => Sub(s, v)
             /\ Ends(Tail(q), CommandOf(v), <<"unsubscribe", v>>) => ~Sub(s, v)
             /\ Silent(Tail(q), CommandOf(v)) => (v \in subscribed'[s] <=> Sub(s, v))
  <2>1. CASE v = u
    <3>1. x \in CommandOf(u)
      BY <1>2 DEF CommandOf
    <3>2. Silent(Tail(q), CommandOf(u)) => Ends(q, CommandOf(u), <<op, u>>)
      BY <1>2, <1>4, <1>5, <3>1
    <3>3. CASE op = "subscribe"
      BY <1>3, <1>4, <1>5, <2>1, <3>2, <3>3 DEF SubOK
    <3>4. CASE op = "unsubscribe"
      BY <1>3, <1>4, <1>5, <2>1, <3>2, <3>4 DEF SubOK
    <3> QED
      BY <3>3, <3>4
  <2>2. CASE v # u
    <3>1. x \notin CommandOf(v)
      BY <1>2, <2>2, AboutOne
    <3> QED
      BY <1>3, <1>4, <1>5, <2>2, <3>1 DEF SubOK
  <2> QED
    BY <2>1, <2>2
<1>7. ASSUME NEW z \in Servers, NEW v \in Users
      PROVE  /\ Ends(subPipe'[z], CommandOf(v), <<"subscribe", v>>) => Sub(z, v)'
             /\ Ends(subPipe'[z], CommandOf(v), <<"unsubscribe", v>>) => ~Sub(z, v)'
             /\ Silent(subPipe'[z], CommandOf(v)) => (v \in subscribed'[z] <=> Sub(z, v)')
  <2>1. Sub(z, v)' <=> Sub(z, v)
    BY DEF Same
  <2>2. CASE z = s
    BY <1>3, <1>6, <2>1, <2>2
  <2>3. CASE z # s
    BY <1>3, <2>1, <2>3 DEF SubOK
  <2> QED
    BY <2>2, <2>3
<1> QED
  BY <1>7 DEF SubOK, CommandOf

(* The handlers on a connection that is not at one of the steps of a login *)
(* or a leave that write a presence.                                       *)
Phases == {"insert", "subscribe", "set", "online"} \cup LeavePc

Rest ==
    /\ account' = account
    /\ \A c \in Conns : \/ pc'[c] = pc[c] /\ user'[c] = user[c]
                        \/ pc[c] \notin Phases /\ pc'[c] \notin Phases

LEMMA RestSame ==
    ASSUME Rest
    PROVE  \A v \in Users : Same(v)
<1>1. \A v : \A c \in Conns : /\ OnBy(c, v)' <=> OnBy(c, v)
                              /\ SubBy(c, v)' <=> SubBy(c, v)
                              /\ KeyBy(c, v)' <=> KeyBy(c, v)
  BY DEF Rest, Phases, OnBy, SubBy, KeyBy, LeavePc
<1> QED
  BY <1>1 DEF Same, On, Sub, Key

\* What these steps may do to the records.
Harmless ==
    /\ UNCHANGED <<userState, subscribed, subPipe>>
    /\ \A s \in Servers : running[s] = "up" => running'[s] = "up"
    /\ \A v \in Users : onlineKey'[v] => onlineKey[v] \/ Key(v)
    /\ \/ dbQueue' = dbQueue
       \/ \E s \in Servers, v \in Users \cup {NoUser}, m \in Msgs : PushTask(s, OfflineTask(v, m))

LEMMA RestPresences ==
    ASSUME IInv, Presences, Rest, Harmless
    PROVE  Presences'
<1>1. \A v \in Users : Same(v)
  BY RestSame
<1>2. TasksOK' /\ StateOK'
  BY <1>1, StateSame DEF Presences, Harmless, Same
<1>3. SubOK'
  BY <1>1, SubSame DEF Presences, Harmless
<1>4. KeyOK' /\ AllUp'
  BY <1>1 DEF Presences, Harmless, Same, KeyOK, AllUp
<1> QED
  BY <1>2, <1>3, <1>4 DEF Presences

(***************************************************************************)
(* The steps that are at rest.                                             *)
(***************************************************************************)
LEMMA LoginRest ==
    ASSUME IInv, NEW c \in Conns, LoginQuery(c) \/ LoginRemove(c) \/ LoginReply(c)
    PROVE  Rest /\ Harmless
<1> USE DEF Rest, Harmless, Phases, LeavePc, At, Goto, IInv, TypeOK, HandlerTypes,
            client, process, server, work, redis, pubsub, mysql
<1>1. CASE LoginQuery(c)
  BY <1>1 DEF LoginQuery
<1>2. CASE LoginRemove(c) \/ LoginReply(c)
  BY <1>2 DEF LoginRemove, LoginReply
<1> QED
  BY <1>1, <1>2

LEMMA ChatRest ==
    ASSUME IInv, NEW c \in Conns, OneChat(c) \/ GroupChat(c)
    PROVE  Rest /\ Harmless
<1> USE DEF Rest, Harmless, Phases, LeavePc, At, Goto, client, process, server, work, redis,
            pubsub, mysql
<1>0. TypeOK /\ HandlerTypes
  BY DEF IInv, TypeOK
<1>1. ASSUME NEW m \in Msgs, ChatBegin(c, m) \/ GroupBegin(c, m) PROVE Rest /\ Harmless
  BY <1>0, <1>1 DEF ChatBegin, GroupBegin, Take, HandlerTypes
<1>2. CASE ChatGet(c) \/ ChatState(c)
  BY <1>0, <1>2 DEF ChatGet, ChatState, HandlerTypes
<1>3. CASE ChatPublish(c)
  BY <1>0, <1>3 DEF ChatPublish, Finish, HandlerTypes
<1>4. CASE ChatStore(c)
  <2>1. host[c] \in Servers /\ user[c] \in Users \cup {NoUser} /\ msg[c] \in Msgs
    BY <1>4, HostType DEF ChatStore, IInv, WorkOK, OneChatPc, TypeOK, HandlerTypes
  <2> QED
    BY <1>0, <1>4, <2>1 DEF ChatStore, KeepOffline, Finish, HandlerTypes
<1>5. CASE GroupLock(c) \/ GroupEnd(c)
  BY <1>0, <1>5 DEF GroupLock, GroupEnd, Finish, HandlerTypes
<1>6. CASE GroupMember(c)
  BY <1>0, <1>6 DEF GroupMember, HandlerTypes
<1>7. CASE GroupPublish(c)
  BY <1>0, <1>7 DEF GroupPublish, NextMember, HandlerTypes
<1>8. CASE GroupStore(c)
  <2>1. host[c] \in Servers /\ user[c] \in Users \cup {NoUser} /\ msg[c] \in Msgs
    BY <1>8, HostType, ChatAssumption DEF GroupStore, IInv, WorkOK, GroupPc, TypeOK, HandlerTypes
  <2> QED
    BY <1>0, <1>8, <2>1 DEF GroupStore, KeepOffline, NextMember, HandlerTypes
<1> QED
  BY <1>1, <1>2, <1>3, <1>4, <1>5, <1>6, <1>7, <1>8 DEF OneChat, GroupChat

LEMMA ClientRest ==
    ASSUME IInv,
           \/ \E c \in Conns : Connect(c) \/ ClientExit(c) \/ \E m \in Msgs : Send(c, m)
           \/ \E m \in Msgs : Resend(m)
           \/ \E u \in Users : KeyExpire(u)
           \/ \E s \in Servers : Restart(s)
    PROVE  Rest /\ Harmless
<1>1. ASSUME NEW u \in Users, KeyExpire(u) PROVE Rest /\ Harmless
  BY <1>1 DEF KeyExpire, Rest, Harmless, IInv, TypeOK, RedisTypes, client,
     process, server, handler, work, redis, pubsub, mysql
<1>2. ASSUME NEW s \in Servers, Restart(s) PROVE Rest /\ Harmless
  BY <1>2 DEF Restart, Rest, Harmless, IInv, TypeOK, ProcessTypes, client,
     process, server, handler, work, redis, pubsub, mysql
<1> QED
  BY <1>1, <1>2 DEF Connect, ClientExit, Send, Resend, Rest, Harmless, client,
     process, server, handler, work, redis, pubsub, mysql

LEMMA ObserveRest ==
    ASSUME IInv, NEW s \in Servers, Observe(s)
    PROVE  Rest /\ Harmless
<1>1. /\ UNCHANGED <<userState, subscribed, subPipe, running, dbQueue, account, pc, user>>
      /\ channel[s] \in Seq(Users \X Msgs) /\ channel[s] # <<>>
  BY DEF Observe, process, server, handler, work, client, mysql, IInv, TypeOK, RedisTypes
<1>2. PICK u \in Users, m \in Msgs : Head(channel[s]) = <<u, m>>
  BY <1>1, HeadTailProperties
<1>3. \/ onlineKey' = onlineKey
      \/ userConnMap[s][u] # NoConn /\ onlineKey' = [onlineKey EXCEPT ![u] = TRUE]
  BY <1>2 DEF Observe
<1>4. ASSUME userConnMap[s][u] # NoConn PROVE Key(u)
  <2>1. userConnMap[s][u] \in Conns /\ account[userConnMap[s][u]] = u
    BY <1>4 DEF IInv, MapOK, TypeOK, ProcessTypes
  <2> QED
    BY <2>1 DEF Key, KeyBy
<1>5. \A v \in Users : onlineKey'[v] => onlineKey[v] \/ Key(v)
  BY <1>3, <1>4 DEF IInv, TypeOK, RedisTypes
<1> QED
  BY <1>1, <1>5 DEF Rest, Harmless

(***************************************************************************)
(* The steps that move a connection's part in a presence.                  *)
(***************************************************************************)
Moves(c, u) ==
    /\ \A v \in Users \ {u} : Same(v)
    /\ (On(u) <=> OnBy(c, u)) /\ (On(u)' <=> OnBy(c, u)')
    /\ \A s \in Servers : /\ Sub(s, u) <=> host[c] = s /\ SubBy(c, u)
                          /\ Sub(s, u)' <=> host[c] = s /\ SubBy(c, u)'
    /\ (Key(u) <=> KeyBy(c, u)) /\ (Key(u)' <=> KeyBy(c, u)')

LEMMA PhaseMoves ==
    ASSUME IInv, SessionInv, NEW c \in Conns, NEW u \in Users,
           pc[c] \in LoginPc \cup LeavePc, user[c] = u, account' = account,
           \A d \in Conns \ {c} : pc'[d] = pc[d] /\ user'[d] = user[d],
           pc'[c] \in LeavePc => user'[c] = u
    PROVE  /\ Moves(c, u)
           /\ pc[c] \in LoginPc => account[c] = u
           /\ pc[c] \in LeavePc => account[c] = NoUser
<1>1. /\ pc[c] \in LoginPc => account[c] = u
      /\ pc[c] \in LeavePc => account[c] = NoUser
  BY DEF IInv, WorkOK, SessionInv, LeaverOK
<1>2. \A d \in Conns \ {c} : ~Busy(d, u)
  BY <1>1 DEF Busy, SessionInv, OneBusy
<1>3. pc[c] \in LoginPc => pc[c] \notin LeavePc
  BY DEF LoginPc, LeavePc
<1>4. \A v \in Users \ {u} : ~Busy(c, v) /\ ~Busy(c, v)'
  BY <1>1, <1>3, ChatAssumption DEF Busy
<1> QED
  BY <1>1, <1>2, <1>4, OneMoves DEF Moves

LEMMA AcceptPresences ==
    ASSUME Careful, IInv, SessionInv, Presences, NEW c \in Conns, NEW u \in Users, LoginAccept(c, u)
    PROVE  Presences'
<1>1. /\ pc[c] = "idle" /\ account[c] = NoUser
      /\ pc' = [pc EXCEPT ![c] = "insert"] /\ account' = [account EXCEPT ![c] = u]
      /\ user' = [user EXCEPT ![c] = u]
      /\ UNCHANGED <<userState, dbQueue, subscribed, subPipe, onlineKey, running>>
  BY DEF LoginAccept, At, Goto, mysql, redis, pubsub, process, server
<1>2. /\ pc'[c] = "insert" /\ account'[c] = u
      /\ \A d \in Conns \ {c} : pc'[d] = pc[d] /\ account'[d] = account[d] /\ user'[d] = user[d]
  BY <1>1 DEF IInv, TypeOK, HandlerTypes, ClientTypes
<1>3. Settled(u)
  BY AcceptIsAlone
<1>4. \A d \in Conns \ {c} : ~Busy(d, u)
  BY <1>3 DEF Settled, Busy
<1>5. \A v \in Users \ {u} : ~Busy(c, v) /\ ~Busy(c, v)'
  BY <1>1, <1>2, ChatAssumption DEF Busy, LeavePc
<1>6. Moves(c, u)
  BY <1>2, <1>4, <1>5, OneMoves DEF Moves
<1>7. ~OnBy(c, u) /\ ~OnBy(c, u)' /\ ~SubBy(c, u) /\ ~SubBy(c, u)' /\ KeyBy(c, u)'
  BY <1>1, <1>2, ChatAssumption DEF OnBy, SubBy, KeyBy, LeavePc
<1>8. \A v \in Users : /\ On(v)' <=> On(v)
                       /\ \A s \in Servers : Sub(s, v)' <=> Sub(s, v)
                       /\ Key(v) => Key(v)'
  BY <1>6, <1>7 DEF Moves, Same
<1>9. TasksOK' /\ StateOK'
  BY <1>1, <1>8, StateSame DEF Presences
<1>10. SubOK'
  BY <1>1, <1>8 DEF Presences, SubOK, CommandOf
<1>11. KeyOK' /\ AllUp'
  BY <1>1, <1>8 DEF Presences, KeyOK, AllUp
<1> QED
  BY <1>9, <1>10, <1>11 DEF Presences

LEMMA LoginPresences ==
    ASSUME Homed, Undisturbed, IInv, SessionInv, Presences, NEW c \in Conns,
           LoginInsert(c) \/ LoginSubscribe(c) \/ LoginSet(c) \/ LoginOnline(c)
    PROVE  Presences'
<1>1. /\ pc[c] \in {"insert", "subscribe", "set", "online"}
      /\ UNCHANGED <<account, user, userState, subscribed, running>>
  BY DEF LoginInsert, LoginSubscribe, LoginSet, LoginOnline, At, mysql, redis, pubsub, process,
     server, work, client
<1>2. PICK u \in Users : u = user[c]
  BY <1>1 DEF IInv, WorkOK, LoginPc
<1>3. /\ pc'[c] \in {"subscribe", "set", "online", "query"}
      /\ \A d \in Conns \ {c} : pc'[d] = pc[d]
      /\ pc[c] = "insert" <=> pc'[c] = "subscribe"
      /\ pc[c] = "subscribe" <=> pc'[c] = "set"
      /\ pc[c] = "set" <=> pc'[c] = "online"
      /\ pc[c] = "online" <=> pc'[c] = "query"
  BY DEF LoginInsert, LoginSubscribe, LoginSet, LoginOnline, At, Goto, IInv, TypeOK, HandlerTypes
<1>4. Moves(c, u) /\ account[c] = u
  BY <1>1, <1>2, <1>3, PhaseMoves DEF LoginPc, LeavePc
<1>5. /\ ~OnBy(c, u) /\ (OnBy(c, u)' <=> pc[c] = "online")
      /\ SubBy(c, u) <=> pc[c] \in {"set", "online"}
      /\ SubBy(c, u)' <=> pc[c] \in {"subscribe", "set", "online"}
      /\ KeyBy(c, u) /\ KeyBy(c, u)'
  BY <1>1, <1>3, <1>4 DEF OnBy, SubBy, KeyBy, LeavePc
<1>6. /\ ~On(u) /\ (On(u)' <=> pc[c] = "online")
      /\ \A s \in Servers : /\ Sub(s, u) <=> host[c] = s /\ pc[c] \in {"set", "online"}
                            /\ Sub(s, u)' <=> host[c] = s /\ pc[c] \in {"subscribe", "set", "online"}
      /\ Key(u) /\ Key(u)'
      /\ \A v \in Users \ {u} : Same(v)
  BY <1>4, <1>5 DEF Moves
<1>7. TasksOK' /\ StateOK'
  <2>1. CASE LoginOnline(c)
    <3>1. pc[c] = "online" /\ PushTask(host[c], StateTask(u, "Online"))
      BY <1>2, <2>1 DEF LoginOnline, At
    <3>2. u \in LoginAs[c]
      BY <1>4, ChatAssumption DEF SessionInv, AccountOK
    <3>3. \A v \in Users \ {u} : On(v)' <=> On(v)
      BY <1>6 DEF Same
    <3>4. "Online" \in {"Online", "Offline"} /\ (On(u)' <=> "Online" = "Online")
      BY <1>6, <3>1
    <3> QED
      BY <1>1, <3>1, <3>2, <3>3, <3>4, StatePush DEF Presences
  <2>2. CASE LoginInsert(c) \/ LoginSubscribe(c) \/ LoginSet(c)
    <3>1. pc[c] # "online" /\ dbQueue' = dbQueue
      BY <2>2 DEF LoginInsert, LoginSubscribe, LoginSet, At, process
    <3>2. \A v \in Users : On(v)' <=> On(v)
      BY <1>6, <3>1 DEF Same
    <3> QED
      BY <1>1, <3>1, <3>2, StateSame DEF Presences
  <2> QED
    BY <2>1, <2>2
<1>8. SubOK'
  <2>1. CASE LoginSubscribe(c)
    <3>1. pc[c] = "subscribe"
      BY <2>1 DEF LoginSubscribe, At
    <3>2. subPipe' = [subPipe EXCEPT ![host[c]] = Append(@, <<"subscribe", u>>)]
      BY <1>2, <2>1 DEF LoginSubscribe, WriteCommand, Undisturbed
    <3>3. /\ \A s \in Servers \ {host[c]} : Sub(s, u)' <=> Sub(s, u)
          /\ Sub(host[c], u)'
      BY <1>6, <3>1, HostType
    <3> QED
      BY <1>1, <1>6, <3>2, <3>3, SubWrite DEF Presences
  <2>2. CASE LoginInsert(c) \/ LoginSet(c) \/ LoginOnline(c)
    <3>1. pc[c] # "subscribe" /\ subPipe' = subPipe
      BY <2>2 DEF LoginInsert, LoginSet, LoginOnline, At, redis, pubsub
    <3>2. \A v \in Users, s \in Servers : Sub(s, v)' <=> Sub(s, v)
      BY <1>6, <3>1 DEF Same
    <3> QED
      BY <1>1, <3>1, <3>2 DEF Presences, SubOK, CommandOf
  <2> QED
    BY <2>1, <2>2
<1>9. KeyOK' /\ AllUp'
  <2>1. \A v \in Users \ {u} : onlineKey'[v] = onlineKey[v]
    BY <1>2 DEF LoginInsert, LoginSubscribe, LoginSet, LoginOnline, redis, IInv, TypeOK, RedisTypes
  <2> QED
    BY <1>1, <1>6, <2>1 DEF Presences, Same, KeyOK, AllUp
<1> QED
  BY <1>7, <1>8, <1>9 DEF Presences

LEMMA LeavePresences ==
    ASSUME Homed, Undisturbed, IInv, SessionInv, Presences, NEW c \in Conns, Leave(c)
    PROVE  Presences'
<1>1. /\ pc[c] \in LeavePc
      /\ UNCHANGED <<account, userState, subscribed, running>>
  BY DEF Leave, LeaveUnsubscribe, LeaveDelete, LeaveOffline, At, mysql, redis, pubsub, process,
     server, work, client, LeavePc
<1>2. PICK u \in Users : u = user[c]
  BY <1>1 DEF IInv, WorkOK
<1>3. /\ \A d \in Conns \ {c} : pc'[d] = pc[d] /\ user'[d] = user[d]
      /\ pc[c] = "unsubscribe" <=> pc'[c] = "delete"
      /\ pc[c] = "delete" <=> pc'[c] = "offline"
      /\ pc[c] = "offline" <=> pc'[c] = "idle"
      /\ pc'[c] \in {"delete", "offline", "idle"}
      /\ pc'[c] \in LeavePc => user'[c] = u
  BY <1>2 DEF Leave, LeaveUnsubscribe, LeaveDelete, LeaveOffline, At, Goto, IInv, TypeOK,
     HandlerTypes, work, LeavePc
<1>4. Moves(c, u) /\ account[c] = NoUser
  BY <1>1, <1>2, <1>3, PhaseMoves
<1>5. /\ OnBy(c, u) /\ (OnBy(c, u)' <=> pc[c] # "offline")
      /\ SubBy(c, u) <=> pc[c] = "unsubscribe"
      /\ ~SubBy(c, u)'
      /\ KeyBy(c, u) <=> pc[c] \in {"unsubscribe", "delete"}
      /\ KeyBy(c, u)' <=> pc[c] = "unsubscribe"
  BY <1>1, <1>2, <1>3, <1>4, ChatAssumption DEF OnBy, SubBy, KeyBy, LeavePc
<1>6. /\ On(u) /\ (On(u)' <=> pc[c] # "offline")
      /\ \A s \in Servers : /\ Sub(s, u) <=> host[c] = s /\ pc[c] = "unsubscribe"
                            /\ ~Sub(s, u)'
      /\ Key(u) <=> pc[c] \in {"unsubscribe", "delete"}
      /\ Key(u)' <=> pc[c] = "unsubscribe"
      /\ \A v \in Users \ {u} : Same(v)
  BY <1>4, <1>5 DEF Moves
<1>7. TasksOK' /\ StateOK'
  <2>1. CASE LeaveOffline(c)
    <3>1. pc[c] = "offline" /\ PushTask(host[c], StateTask(u, "Offline"))
      BY <1>2, <2>1 DEF LeaveOffline, MarkOffline, At
    <3>2. u \in LoginAs[c]
      BY <1>1, <1>2 DEF SessionInv, LeaverOK
    <3>3. \A v \in Users \ {u} : On(v)' <=> On(v)
      BY <1>6 DEF Same
    <3>4. "Offline" \in {"Online", "Offline"} /\ (On(u)' <=> "Offline" = "Online")
      BY <1>6, <3>1
    <3> QED
      BY <1>1, <3>1, <3>2, <3>3, <3>4, StatePush DEF Presences
  <2>2. CASE LeaveUnsubscribe(c) \/ LeaveDelete(c)
    <3>1. pc[c] # "offline" /\ dbQueue' = dbQueue
      BY <2>2 DEF LeaveUnsubscribe, LeaveDelete, At, process
    <3>2. \A v \in Users : On(v)' <=> On(v)
      BY <1>6, <3>1 DEF Same
    <3> QED
      BY <1>1, <3>1, <3>2, StateSame DEF Presences
  <2> QED
    BY <2>1, <2>2 DEF Leave
<1>8. SubOK'
  <2>1. CASE LeaveUnsubscribe(c)
    <3>1. pc[c] = "unsubscribe"
      BY <2>1 DEF LeaveUnsubscribe, At
    <3>2. subPipe' = [subPipe EXCEPT ![host[c]] = Append(@, <<"unsubscribe", u>>)]
      BY <1>2, <2>1 DEF LeaveUnsubscribe, WriteCommand, Undisturbed
    <3>3. /\ \A s \in Servers \ {host[c]} : Sub(s, u)' <=> Sub(s, u)
          /\ ~Sub(host[c], u)'
      BY <1>6, <3>1, HostType
    <3>4. "unsubscribe" \in {"subscribe", "unsubscribe"}
          /\ (Sub(host[c], u)' <=> "unsubscribe" = "subscribe")
      BY <3>3
    <3> QED
      BY <1>1, <1>6, <3>2, <3>3, <3>4, SubWrite DEF Presences
  <2>2. CASE LeaveDelete(c) \/ LeaveOffline(c)
    <3>1. pc[c] # "unsubscribe" /\ subPipe' = subPipe
      BY <2>2 DEF LeaveDelete, LeaveOffline, At, redis, pubsub
    <3>2. \A v \in Users, s \in Servers : Sub(s, v)' <=> Sub(s, v)
      BY <1>6, <3>1 DEF Same
    <3> QED
      BY <1>1, <3>1, <3>2 DEF Presences, SubOK, CommandOf
  <2> QED
    BY <2>1, <2>2 DEF Leave
<1>9. KeyOK' /\ AllUp'
  <2>1. /\ \A v \in Users \ {u} : onlineKey'[v] = onlineKey[v]
        /\ pc[c] = "delete" => ~onlineKey'[u]
        /\ pc[c] # "delete" => onlineKey'[u] = onlineKey[u]
    BY <1>2 DEF Leave, LeaveUnsubscribe, LeaveDelete, LeaveOffline, At, redis, IInv, TypeOK, RedisTypes
  <2>2. onlineKey'[u] => Key(u)'
    BY <1>1, <1>6, <2>1 DEF Presences, KeyOK, LeavePc
  <2> QED
    BY <1>1, <1>6, <2>1, <2>2 DEF Presences, Same, KeyOK, AllUp
<1> QED
  BY <1>7, <1>8, <1>9 DEF Presences

(* A logout or a close whose leave is still to come. *)
LEMMA EndPresences ==
    ASSUME IInv, SessionInv, Presences, NEW c \in Conns, LogoutBegin(c) \/ CloseBegin(c)
    PROVE  Presences'
<1>1. /\ pc[c] = "idle" /\ account' = [account EXCEPT ![c] = NoUser]
      /\ UNCHANGED <<userState, dbQueue, subscribed, subPipe, onlineKey, running>>
  BY DEF LogoutBegin, CloseBegin, At, mysql, redis, pubsub
<1>2. \/ /\ account[c] \in Users
         /\ pc' = [pc EXCEPT ![c] = "unsubscribe"] /\ user' = [user EXCEPT ![c] = account[c]]
      \/ account[c] = NoUser /\ UNCHANGED <<pc, user>>
  <2>1. CASE LogoutBegin(c)
    BY <2>1 DEF LogoutBegin, Goto, IInv, TypeOK, ClientTypes
  <2>2. CASE CloseBegin(c)
    BY <2>2, CloseFinds
  <2> QED
    BY <2>1, <2>2
<1>3. \A v \in Users : Same(v)
  <2>1. CASE account[c] = NoUser /\ UNCHANGED <<pc, user>>
    <3>1. account' = account
      BY <1>1, <2>1 DEF IInv, TypeOK, ClientTypes
    <3> QED
      BY <2>1, <3>1, RestSame DEF Rest
  <2>2. ASSUME NEW u \in Users, account[c] = u, pc' = [pc EXCEPT ![c] = "unsubscribe"],
               user' = [user EXCEPT ![c] = u]
        PROVE  \A v \in Users : Same(v)
    <3>1. /\ pc'[c] = "unsubscribe" /\ account'[c] = NoUser /\ user'[c] = u
          /\ \A d \in Conns \ {c} : pc'[d] = pc[d] /\ account'[d] = account[d] /\ user'[d] = user[d]
      BY <1>1, <2>2 DEF IInv, TypeOK, HandlerTypes, ClientTypes
    <3>2. \A d \in Conns \ {c} : ~Busy(d, u)
      BY <2>2 DEF SessionInv, OneBusy, Busy
    <3>3. \A v \in Users \ {u} : ~Busy(c, v) /\ ~Busy(c, v)'
      BY <1>1, <2>2, <3>1, ChatAssumption DEF Busy, LeavePc
    <3>4. Moves(c, u)
      BY <3>1, <3>2, <3>3, OneMoves DEF Moves
    <3>5. /\ OnBy(c, u) /\ OnBy(c, u)' /\ SubBy(c, u) /\ SubBy(c, u)'
          /\ KeyBy(c, u) /\ KeyBy(c, u)'
      BY <1>1, <2>2, <3>1 DEF OnBy, SubBy, KeyBy, LeavePc
    <3> QED
      BY <3>4, <3>5 DEF Moves, Same
  <2> QED
    BY <1>2, <2>1, <2>2
<1>4. TasksOK' /\ StateOK'
  BY <1>1, <1>3, StateSame DEF Presences, Same
<1>5. SubOK'
  BY <1>1, <1>3, SubSame DEF Presences
<1>6. KeyOK' /\ AllUp'
  BY <1>1, <1>3 DEF Presences, Same, KeyOK, AllUp
<1> QED
  BY <1>4, <1>5, <1>6 DEF Presences

(***************************************************************************)
(* Every step.                                                             *)
(***************************************************************************)
LEMMA HandlerPresences ==
    ASSUME Homed, Undisturbed, IInv, SessionInv, Presences, NEW c \in Conns, Handler(c)
    PROVE  Presences'
<1>1. CASE Login(c)
  BY <1>1, LoginPresences, LoginRest, RestPresences DEF Login
<1>2. CASE Leave(c) \/ CloseBegin(c)
  BY <1>2, LeavePresences, EndPresences
<1>3. CASE OneChat(c) \/ GroupChat(c)
  BY <1>3, ChatRest, RestPresences
<1> QED
  BY <1>1, <1>2, <1>3 DEF Handler

LEMMA ServerPresences ==
    ASSUME Homed, Undisturbed, IInv, SessionInv, Presences, NEW s \in Servers,
           Background(s) \/ Crash(s) \/ ResetState(s) \/ Exit(s)
    PROVE  Presences'
<1>1. CASE Worker(s)
  <2>1. UNCHANGED <<account, pc, user, running, onlineKey, subscribed, subPipe>>
    BY <1>1 DEF Worker, client, handler, work, server, redis, pubsub
  <2>2. \A v \in Users : Same(v)
    BY <2>1, RestSame DEF Rest
  <2>3. TasksOK' /\ StateOK'
    BY <1>1, <2>2, StateWork DEF Presences, Same
  <2>4. SubOK' /\ KeyOK' /\ AllUp'
    BY <2>1, <2>2, SubSame DEF Presences, Same, KeyOK, AllUp
  <2> QED
    BY <2>3, <2>4 DEF Presences
<1>2. CASE RedisSubscriber(s)
  <2>1. UNCHANGED <<account, pc, user, running, onlineKey, userState, dbQueue>>
    BY <1>2 DEF RedisSubscriber, client, handler, work, process, server, mysql
  <2>2. \A v \in Users : Same(v)
    BY <2>1, RestSame DEF Rest
  <2>3. TasksOK' /\ StateOK'
    BY <2>1, <2>2, StateSame DEF Presences, Same
  <2>4. SubOK' /\ KeyOK' /\ AllUp'
    BY <1>2, <2>1, <2>2, SubProcess DEF Presences, Same, KeyOK, AllUp
  <2> QED
    BY <2>3, <2>4 DEF Presences
<1>3. CASE Observe(s)
  BY <1>3, ObserveRest, RestPresences
<1>4. ~Crash(s) /\ ~ResetState(s) /\ ~Exit(s)
  BY DEF Crash, ResetState, Exit, Undisturbed, Presences, AllUp, IInv, TypeOK, BoundTypes
<1> QED
  BY <1>1, <1>2, <1>3, <1>4 DEF Background

LEMMA NextPresences ==
    ASSUME Careful, Homed, Undisturbed, IInv, SessionInv, Presences, [Next]_vars
    PROVE  Presences'
<1>1. CASE UNCHANGED vars
  <2>1. Rest /\ Harmless
    BY <1>1 DEF Rest, Harmless, vars, handler, work, client, process, server, mysql, redis, pubsub
  <2> QED
    BY <2>1, RestPresences
<1>2. ASSUME NEW c \in Conns, NEW u \in Users, LoginAccept(c, u) PROVE Presences'
  BY <1>2, AcceptPresences
<1>3. ASSUME NEW c \in Conns, LogoutBegin(c) \/ Handler(c) PROVE Presences'
  BY <1>3, EndPresences, HandlerPresences
<1>4. CASE \/ \E c \in Conns : Connect(c) \/ ClientExit(c) \/ \E m \in Msgs : Send(c, m)
           \/ \E m \in Msgs : Resend(m)
           \/ \E u \in Users : KeyExpire(u)
           \/ \E s \in Servers : Restart(s)
  BY <1>4, ClientRest, RestPresences
<1>5. ASSUME NEW s \in Servers, Background(s) \/ Crash(s) \/ ResetState(s) \/ Exit(s)
      PROVE  Presences'
  BY <1>5, ServerPresences
<1> QED
  BY <1>1, <1>2, <1>3, <1>4, <1>5 DEF Next

LEMMA InitPresences == Init => Presences
<1> SUFFICES ASSUME Init PROVE Presences
  OBVIOUS
<1>1. /\ \A c \in Conns : /\ pc[c] = "idle"
                          /\ account[c] = IF c \in Steady THEN Owner(c) ELSE NoUser
      /\ \A c \in Steady : c \in Conns /\ Owner(c) \in Users /\ Owner(c) # NoUser
      /\ \A s \in Servers : dbQueue[s] = <<>> /\ subPipe[s] = <<>>
  BY SteadyOwner, ChatAssumption DEF Init
<1>2. \A u \in Users : On(u) <=> u \in SteadyUsers
  BY <1>1, ChatAssumption DEF On, OnBy, LeavePc, SteadyUsers
<1>3. \A s \in Servers, u \in Users : Sub(s, u) <=> u \in SteadyOn(s)
  BY <1>1, ChatAssumption DEF Sub, SubBy, SteadyOn
<1>4. \A u \in Users : u \in SteadyUsers => Key(u)
  BY <1>1 DEF Key, KeyBy, SteadyUsers
<1>5. \A K : \A s \in Servers : Silent(dbQueue[s], K) /\ Silent(subPipe[s], K)
  BY <1>1, SilentEmpty
<1>6. \A q, K, x : Ends(q, K, x) => ~Silent(q, K)
  BY DEF Ends, Silent
<1>7. TasksOK
  BY <1>1 DEF TasksOK
<1>8. StateOK
  <2>1. ASSUME NEW c \in Conns, NEW u \in LoginAs[c]
        PROVE  u \in Users /\ host[c] \in Servers
    BY ChatAssumption, HostType
  <2>2. \A u \in Users : userState[u] = "Online" <=> u \in SteadyUsers
    BY DEF Init
  <2>3. \A u \in Users : (\A c \in Conns : u \notin LoginAs[c]) => userState[u] = "Offline"
    <3>1. \A c \in Steady : c \in Conns /\ Owner(c) \in LoginAs[c]
      BY ChatAssumption DEF Owner
    <3> QED
      BY <3>1 DEF Init, SteadyUsers
  <2> QED
    BY <1>2, <1>5, <1>6, <2>1, <2>2, <2>3 DEF StateOK
<1>9. SubOK
  BY <1>3, <1>5, <1>6 DEF SubOK, Init
<1>10. KeyOK /\ AllUp
  BY <1>4 DEF KeyOK, AllUp, Init
<1> QED
  BY <1>7, <1>8, <1>9, <1>10 DEF Presences

(* Once nothing is under way, the records say what the connections say.    *)
LEMMA QuietAgrees ==
    ASSUME IInv, SessionInv, Presences, Quiet
    PROVE  PresenceConverges
<1>1. /\ \A c \in Conns : pc[c] = "idle"
      /\ \A s \in Servers : dbQueue[s] = <<>> /\ subPipe[s] = <<>>
  BY DEF Quiet
<1>2. \A K : \A s \in Servers : Silent(dbQueue[s], K) /\ Silent(subPipe[s], K)
  BY <1>1, SilentEmpty
<1>3. \A c \in Conns, u \in Users : /\ OnBy(c, u) <=> account[c] = u
                                    /\ SubBy(c, u) <=> account[c] = u
                                    /\ KeyBy(c, u) <=> account[c] = u
  BY <1>1 DEF OnBy, SubBy, KeyBy, LeavePc
<1>4. \A c \in Conns, u \in Users : account[c] = u => userConnMap[host[c]][u] = c /\ c # NoConn
  BY <1>1, ChatAssumption DEF SessionInv, EntryOK
<1>5. \A s \in Servers, u \in Users : userConnMap[s][u] # NoConn =>
            /\ userConnMap[s][u] \in Conns
            /\ host[userConnMap[s][u]] = s /\ account[userConnMap[s][u]] = u
  BY DEF IInv, MapOK, TypeOK, ProcessTypes
<1>6. \A s \in Servers, u \in Users : Sub(s, u) <=> userConnMap[s][u] # NoConn
  BY <1>3, <1>4, <1>5 DEF Sub
<1>7. \A u \in Users : (On(u) <=> Mapped(u)) /\ (Key(u) <=> Mapped(u))
  BY <1>3, <1>4, <1>5, HostType DEF On, Key, Mapped
<1>8. ASSUME NEW u \in Users PROVE userState[u] = "Online" <=> On(u)
  <2>1. CASE \E c \in Conns : u \in LoginAs[c]
    BY <1>2, <2>1, HostType DEF Presences, StateOK
  <2>2. CASE \A c \in Conns : u \notin LoginAs[c]
    <3>1. userState[u] = "Offline"
      BY <2>2 DEF Presences, StateOK
    <3>2. \A c \in Conns : account[c] # u
      BY <2>2, ChatAssumption DEF SessionInv, AccountOK
    <3> QED
      BY <1>3, <3>1, <3>2 DEF On
  <2> QED
    BY <2>1, <2>2
<1>9. \A s \in Servers, u \in Users : u \in subscribed[s] <=> Sub(s, u)
  BY <1>2 DEF Presences, SubOK
<1> QED
  BY <1>6, <1>7, <1>8, <1>9 DEF PresenceConverges, Presences, KeyOK

(* The four records of a presence agree once nothing is under way: however *)
(* the handlers, the workers and Redis interleave, as long as owners wait, *)
(* an account's clients reach one server, and nothing fails.               *)
THEOREM PresenceCorrect ==
    Careful /\ Homed /\ Undisturbed /\ Spec => []PresenceConverges
<1> SUFFICES ASSUME Careful, Homed, Undisturbed PROVE Spec => []PresenceConverges
  OBVIOUS
<1>1. IInv /\ SessionInv /\ Presences => PresenceConverges
  BY QuietAgrees DEF PresenceConverges
<1>2. IInv /\ SessionInv /\ Presences /\ [Next]_vars => SessionInv' /\ Presences'
  BY NextSession, NextPresences
<1> QED
  BY <1>1, <1>2, InitIInv, InitSession, InitPresences, NextStep, PTL DEF Spec
==============================================================================
