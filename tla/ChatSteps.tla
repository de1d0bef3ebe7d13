------------------------------- MODULE ChatSteps ------------------------------
(***************************************************************************)
(* What every action of ChatService preserves, one lemma for each action:  *)
(* the types, and the other conjuncts of IInv (what handlers work on, what *)
(* the map says, and for whom the messages in the table, the queues and    *)
(* the channels are).                                                      *)
(***************************************************************************)
EXTENDS ChatProperties, TLAPS

-----------------------------------------------------------------------------
(* Types: one step for each group of variables an action changes.          *)

(* Shapes of the values that pass between the parts.                       *)
LEMMA TaskTypes ==
    /\ \A u \in Users \cup {NoUser} : /\ StateTask(u, "Online") \in DbTaskArgs
                                      /\ StateTask(u, "Offline") \in DbTaskArgs
    /\ \A u \in Users \cup {NoUser}, m \in Msgs : OfflineTask(u, m) \in DbTaskArgs
    /\ \A t \in DbTaskArgs : /\ t.user \in Users \cup {NoUser}
                             /\ t.msg \in Msgs \cup {NoMsg}
                             /\ t.state \in {"Online", "Offline"}
  BY SMT DEF StateTask, OfflineTask, DbTaskArgs

LEMMA BagTypes == None \in [Msgs -> Nat] /\ \A m \in Msgs : One(m) \in [Msgs -> Nat]
  BY SMT DEF None, One

LEMMA HostType == \A c \in Conns : host[c] \in Servers
  BY ChatAssumption

(* Sending keeps the types of what is received and lost.                   *)
LEMMA ReceiveTypes ==
    ASSUME TypeOK, NEW c \in Conns, NEW u \in Users \cup {NoUser},
           NEW bag \in [Msgs -> Nat], Receive(c, u, bag)
    PROVE  /\ got' \in [Users -> [Msgs -> Nat]]
           /\ lost' \subseteq (Users \cup {NoUser}) \X Msgs \X Causes
<1>1. CASE link[c] = "open"
  <2>1. got' = [got EXCEPT ![account[c]] = [m \in Msgs |-> @[m] + bag[m]]] /\ lost' = lost
    BY <1>1 DEF Receive
  <2>2. \A v \in Users : [m \in Msgs |-> got[v][m] + bag[m]] \in [Msgs -> Nat]
    BY SMT DEF TypeOK, OutcomeTypes
  <2>3. got' = [v \in Users |-> IF v = account[c]
                                 THEN [m \in Msgs |-> got[v][m] + bag[m]] ELSE got[v]]
    BY <2>1 DEF TypeOK, OutcomeTypes
  <2>4. \A v \in Users : got[v] \in [Msgs -> Nat]
    BY DEF TypeOK, OutcomeTypes
  <2>5. got' \in [Users -> [Msgs -> Nat]]
    BY <2>2, <2>3, <2>4
  <2> QED
    BY <2>1, <2>5 DEF TypeOK, OutcomeTypes
<1>2. CASE link[c] # "open"
  <2>1. got' = got /\ lost' = lost \cup {<<u, m, "closed">> : m \in {k \in Msgs : bag[k] > 0}}
    BY <1>2 DEF Receive
  <2>2. \A m \in Msgs : <<u, m, "closed">> \in (Users \cup {NoUser}) \X Msgs \X Causes
    BY DEF Causes
  <2> QED
    BY <2>1, <2>2 DEF TypeOK, OutcomeTypes
<1> QED
  BY <1>1, <1>2

(* A command written names a user.                                         *)
LEMMA WriteCommandTypes ==
    ASSUME TypeOK, NEW c \in Conns, user[c] \in Users,
           NEW op \in {"subscribe", "unsubscribe"}, WriteCommand(c, op)
    PROVE  subPipe' \in [Servers -> Seq({"subscribe", "unsubscribe"} \X Users)]
<1>1. <<op, user[c]>> \in {"subscribe", "unsubscribe"} \X Users
  OBVIOUS
<1>2. CASE subPipe' = [subPipe EXCEPT ![host[c]] = Append(@, <<op, user[c]>>)]
  BY <1>1, <1>2, HostType, SMT DEF TypeOK, RedisTypes
<1>3. CASE UNCHANGED subPipe
  BY <1>3 DEF TypeOK, RedisTypes
<1> QED
  BY <1>2, <1>3 DEF WriteCommand

(* Ending a connection's use of an account keeps the map typed.            *)
LEMMA EvictTypes ==
    ASSUME TypeOK, NEW s \in Servers, NEW u \in Users, Evict(s, u)
    PROVE  userConnMap' \in [Servers -> [Users -> Conns \cup {NoConn}]]
  BY SMT DEF TypeOK, ProcessTypes, Evict

(* What a stopping process drops.                                          *)
LEMMA StopTypes ==
    ASSUME TypeOK, NEW s \in Servers, Stop(s), AddressOK
    PROVE  OutcomeTypes'
<1> DEFINE L == (Users \cup {NoUser}) \X Msgs \X Causes
<1>1. "crash" \in Causes
  BY DEF Causes
<1>2. {<<t.user, t.msg, "crash">> : t \in {k \in Queued(s) : k.type = "offline"}} \subseteq L
  <2>1. Queued(s) \subseteq DbTaskArgs
    BY SMT DEF Queued, TypeOK, ProcessTypes
  <2>2. \A t \in Queued(s) : t.type = "offline" => t.msg \in Msgs
    BY DEF AddressOK, QueueOK
  <2> QED
    BY <1>1, <2>1, <2>2, TaskTypes
<1>3. {<<d[1], d[2], "crash">> : d \in Travelling(s)} \subseteq L
  <2>1. Travelling(s) \subseteq Users \X Msgs
    BY SMT DEF Travelling, TypeOK, RedisTypes
  <2> QED
    BY <1>1, <2>1
<1>4. UNION {{<<user[c], m, "crash">> : m \in {k \in Msgs : rows[c][k] > 0}} :
                c \in {d \in Conns : host[d] = s /\ pc[d] = "reply"}} \subseteq L
  BY <1>1 DEF TypeOK, HandlerTypes
<1>5. lost' \subseteq L
  BY <1>2, <1>3, <1>4 DEF Stop, TypeOK, OutcomeTypes
<1> QED
  BY <1>5 DEF Stop, TypeOK, OutcomeTypes

(* A task keeps the tables typed.                                          *)
LEMMA ApplyTypes ==
    ASSUME TypeOK, NEW t \in DbTaskArgs, t.msg \in Msgs \/ t.type = "state", Apply(t)
    PROVE  MySQLTypes'
<1>1. /\ t.user \in Users \cup {NoUser} /\ t.state \in {"Online", "Offline"}
  BY TaskTypes
<1>2. CASE t.type = "state"
  <2>1. userState' = [userState EXCEPT ![t.user] = t.state] /\ UNCHANGED offlineMessage
    BY <1>2 DEF Apply
  <2> QED
    BY <1>1, <2>1 DEF TypeOK, MySQLTypes
<1>3. CASE t.type = "offline" /\ t.user # NoUser
  <2>1. /\ offlineMessage' = [offlineMessage EXCEPT ![t.user][t.msg] = @ + 1]
        /\ UNCHANGED userState
    BY <1>3 DEF Apply
  <2>2. \A u \in Users, m \in Msgs :
            [offlineMessage EXCEPT ![u][m] = @ + 1] \in [Users -> [Msgs -> Nat]]
    BY SMT DEF TypeOK, MySQLTypes
  <2> QED
    BY <1>1, <1>3, <2>1, <2>2 DEF TypeOK, MySQLTypes
<1>4. CASE UNCHANGED mysql
  BY <1>4 DEF mysql, TypeOK, MySQLTypes
<1> QED
  BY <1>2, <1>3, <1>4 DEF Apply

-----------------------------------------------------------------------------
(* The initial states.                                                     *)

(* A steady client has one account, and shares it with no other.           *)
LEMMA SteadyOwner ==
    /\ \A c \in Steady : Owner(c) \in Users /\ c \in Conns
    /\ \A c, d \in Steady : Owner(c) = Owner(d) => c = d
<1>1. \A c \in Steady : Owner(c) \in Users /\ LoginAs[c] = {Owner(c)}
  BY ChatAssumption DEF Owner
<1> QED
  BY <1>1, ChatAssumption

(* It is the connection that the map of its server starts with.            *)
LEMMA InitMap ==
    ASSUME Init, NEW s \in Servers, NEW u \in Users
    PROVE  \/ userConnMap[s][u] = NoConn
           \/ \E c \in Steady : host[c] = s /\ Owner(c) = u /\ userConnMap[s][u] = c
<1>1. CASE u \in SteadyOn(s)
  <2>1. PICK c \in Steady : host[c] = s /\ Owner(c) = u
    BY <1>1 DEF SteadyOn
  <2>2. (CHOOSE d \in Steady : Owner(d) = u) = c
    BY <2>1, SteadyOwner
  <2>3. userConnMap[s][u] = CHOOSE d \in Steady : Owner(d) = u
    BY <1>1 DEF Init
  <2> QED
    BY <2>1, <2>2, <2>3
<1>2. CASE u \notin SteadyOn(s)
  BY <1>2 DEF Init
<1> QED
  BY <1>1, <1>2

LEMMA InitTypes ==
    ASSUME Init
    PROVE  TypeOK
<1>1. MySQLTypes
  BY BagTypes DEF Init, MySQLTypes
<1>2. RedisTypes
  BY SteadyOwner DEF Init, RedisTypes, SteadyOn
<1>3. ProcessTypes
  <2>1. userConnMap \in [Servers -> [Users -> Conns \cup {NoConn}]]
    <3>1. \A s \in Servers, u \in Users : userConnMap[s][u] \in Conns \cup {NoConn}
      BY InitMap, SteadyOwner
    <3>2. userConnMap = [s \in Servers |-> [u \in Users |-> userConnMap[s][u]]]
      BY DEF Init
    <3> QED
      BY <3>1, <3>2
  <2> QED
    BY <2>1 DEF Init, ProcessTypes
<1>4. HandlerTypes
  BY BagTypes DEF Init, HandlerTypes, PcValues
<1>5. ClientTypes
  BY BagTypes, SteadyOwner DEF Init, ClientTypes
<1>6. OutcomeTypes
  BY BagTypes DEF Init, OutcomeTypes
<1>7. BoundTypes
  BY DEF Init, BoundTypes
<1> QED
  BY <1>1, <1>2, <1>3, <1>4, <1>5, <1>6, <1>7 DEF TypeOK


-----------------------------------------------------------------------------
(* Steps of clients.                                                       *)

LEMMA ConnectTypes ==
    ASSUME TypeOK, WorkOK, AddressOK, NEW c \in Conns, Connect(c)
    PROVE  TypeOK'
<1>1. (MySQLTypes /\ RedisTypes /\ ProcessTypes /\ HandlerTypes /\ OutcomeTypes /\ BoundTypes)'
  BY DEF Connect, TypeOK, MySQLTypes, RedisTypes, ProcessTypes, HandlerTypes,
       OutcomeTypes, BoundTypes, mysql, redis, process, handler, outcome, bounds, pubsub,
       server, work
<1>2. ClientTypes'
  BY DEF TypeOK, Connect, ClientTypes, traffic
<1> QED
  BY <1>1, <1>2 DEF TypeOK

LEMMA ClientExitTypes ==
    ASSUME TypeOK, WorkOK, AddressOK, NEW c \in Conns, ClientExit(c)
    PROVE  TypeOK'
<1>1. (MySQLTypes /\ RedisTypes /\ ProcessTypes /\ HandlerTypes /\ OutcomeTypes /\ BoundTypes)'
  BY DEF ClientExit, TypeOK, MySQLTypes, RedisTypes, ProcessTypes, HandlerTypes,
       OutcomeTypes, BoundTypes, mysql, redis, process, handler, outcome, bounds, pubsub,
       server, work
<1>2. ClientTypes'
  <2>1. link' \in [Conns -> {"none", "open", "closing", "closed"}]
    BY DEF ClientExit, TypeOK, ClientTypes
  <2>2. inflight' \in [Msgs -> Nat]
    BY SMT DEF ClientExit, TypeOK, ClientTypes
  <2> QED
    BY <2>1, <2>2 DEF ClientExit, TypeOK, ClientTypes
<1> QED
  BY <1>1, <1>2 DEF TypeOK

LEMMA SendTypes ==
    ASSUME TypeOK, WorkOK, AddressOK, NEW c \in Conns, NEW m \in Msgs, Send(c, m)
    PROVE  TypeOK'
<1>1. (MySQLTypes /\ RedisTypes /\ ProcessTypes /\ HandlerTypes /\ OutcomeTypes /\ BoundTypes)'
  BY DEF Send, TypeOK, MySQLTypes, RedisTypes, ProcessTypes, HandlerTypes, OutcomeTypes,
       BoundTypes, mysql, redis, process, handler, outcome, bounds, pubsub, server, work
<1>2. ClientTypes'
  BY DEF TypeOK, Send, ClientTypes
<1> QED
  BY <1>1, <1>2 DEF TypeOK

LEMMA ResendTypes ==
    ASSUME TypeOK, WorkOK, AddressOK, NEW m \in Msgs, Resend(m)
    PROVE  TypeOK'
<1>1. (MySQLTypes /\ RedisTypes /\ ProcessTypes /\ HandlerTypes /\ OutcomeTypes /\ BoundTypes)'
  BY DEF Resend, TypeOK, MySQLTypes, RedisTypes, ProcessTypes, HandlerTypes, OutcomeTypes,
       BoundTypes, mysql, redis, process, handler, outcome, bounds, pubsub, server, work
<1>2. ClientTypes'
  BY DEF TypeOK, Resend, ClientTypes
<1> QED
  BY <1>1, <1>2 DEF TypeOK

-----------------------------------------------------------------------------
(* Steps of login().                                                       *)

LEMMA LoginAcceptTypes ==
    ASSUME TypeOK, WorkOK, AddressOK, NEW c \in Conns, NEW u \in Users, LoginAccept(c, u)
    PROVE  TypeOK'
<1>1. (MySQLTypes /\ RedisTypes /\ ProcessTypes /\ OutcomeTypes)'
  BY DEF LoginAccept, TypeOK, MySQLTypes, RedisTypes, ProcessTypes, OutcomeTypes, mysql,
       redis, process, outcome, pubsub, server
<1>2. HandlerTypes'
  BY DEF TypeOK, LoginAccept, HandlerTypes, Goto, PcValues, LoginPc
<1>3. ClientTypes'
  BY DEF TypeOK, LoginAccept, ClientTypes, traffic
<1>4. BoundTypes'
  BY DEF TypeOK, LoginAccept, BoundTypes
<1> QED
  BY <1>1, <1>2, <1>3, <1>4 DEF TypeOK

LEMMA LoginInsertTypes ==
    ASSUME TypeOK, WorkOK, AddressOK, NEW c \in Conns, LoginInsert(c)
    PROVE  TypeOK'
<1>1. (MySQLTypes /\ RedisTypes /\ ClientTypes /\ OutcomeTypes /\ BoundTypes)'
  BY DEF LoginInsert, TypeOK, MySQLTypes, RedisTypes, ClientTypes, OutcomeTypes,
       BoundTypes, mysql, redis, client, outcome, bounds, pubsub, traffic
<1>2. ProcessTypes'
  BY ChatAssumption DEF TypeOK, LoginInsert, ProcessTypes, WorkOK, At, MapInsert, LoginPc
<1>3. HandlerTypes'
  BY DEF TypeOK, LoginInsert, HandlerTypes, Goto, work, PcValues, LoginPc
<1> QED
  BY <1>1, <1>2, <1>3 DEF TypeOK

LEMMA LoginSubscribeTypes ==
    ASSUME TypeOK, WorkOK, AddressOK, NEW c \in Conns, LoginSubscribe(c)
    PROVE  TypeOK'
<1>1. (MySQLTypes /\ ProcessTypes /\ ClientTypes /\ OutcomeTypes /\ BoundTypes)'
  BY DEF LoginSubscribe, TypeOK, MySQLTypes, ProcessTypes, ClientTypes, OutcomeTypes,
       BoundTypes, mysql, process, client, outcome, bounds, server, traffic
<1>2. RedisTypes'
  <2>1. user[c] \in Users
    BY DEF LoginSubscribe, At, WorkOK, LoginPc
  <2> QED
    BY <2>1, WriteCommandTypes DEF LoginSubscribe, TypeOK, RedisTypes
<1>3. HandlerTypes'
  BY DEF TypeOK, LoginSubscribe, HandlerTypes, Goto, work, PcValues, LoginPc
<1> QED
  BY <1>1, <1>2, <1>3 DEF TypeOK

LEMMA LoginSetTypes ==
    ASSUME TypeOK, WorkOK, AddressOK, NEW c \in Conns, LoginSet(c)
    PROVE  TypeOK'
<1>1. (MySQLTypes /\ ProcessTypes /\ ClientTypes /\ OutcomeTypes /\ BoundTypes)'
  BY DEF LoginSet, TypeOK, MySQLTypes, ProcessTypes, ClientTypes, OutcomeTypes,
       BoundTypes, mysql, process, client, outcome, bounds, server, traffic
<1>2. RedisTypes'
  BY DEF TypeOK, LoginSet, RedisTypes, WorkOK, At, pubsub, LoginPc
<1>3. HandlerTypes'
  BY DEF TypeOK, LoginSet, HandlerTypes, Goto, work, PcValues, LoginPc
<1> QED
  BY <1>1, <1>2, <1>3 DEF TypeOK

LEMMA LoginOnlineTypes ==
    ASSUME TypeOK, WorkOK, AddressOK, NEW c \in Conns, LoginOnline(c)
    PROVE  TypeOK'
<1>1. (MySQLTypes /\ RedisTypes /\ ClientTypes /\ OutcomeTypes /\ BoundTypes)'
  BY DEF LoginOnline, TypeOK, MySQLTypes, RedisTypes, ClientTypes, OutcomeTypes,
       BoundTypes, mysql, redis, client, outcome, bounds, pubsub, traffic
<1>2. ProcessTypes'
  BY ChatAssumption, TaskTypes DEF TypeOK, LoginOnline, ProcessTypes, WorkOK, At, PushTask,
     server, LoginPc
<1>3. HandlerTypes'
  BY DEF TypeOK, LoginOnline, HandlerTypes, Goto, work, PcValues, LoginPc
<1> QED
  BY <1>1, <1>2, <1>3 DEF TypeOK

LEMMA LoginQueryTypes ==
    ASSUME TypeOK, WorkOK, AddressOK, NEW c \in Conns, LoginQuery(c)
    PROVE  TypeOK'
<1>1. (MySQLTypes /\ RedisTypes /\ ProcessTypes /\ ClientTypes /\ OutcomeTypes)'
  BY DEF LoginQuery, TypeOK, MySQLTypes, RedisTypes, ProcessTypes, ClientTypes,
       OutcomeTypes, mysql, redis, process, client, outcome, pubsub, server, traffic
<1>2. HandlerTypes'
  <2>1. offlineMessage[user[c]] \in [Msgs -> Nat]
    BY DEF LoginQuery, At, WorkOK, LoginPc, TypeOK, MySQLTypes
  <2>2. rows' \in [Conns -> [Msgs -> Nat]]
    BY <2>1, BagTypes DEF LoginQuery, TypeOK, HandlerTypes
  <2>3. pc' \in [Conns -> PcValues]
    BY DEF LoginQuery, Goto, TypeOK, HandlerTypes, PcValues, LoginPc
  <2> QED
    BY <2>2, <2>3 DEF LoginQuery, TypeOK, HandlerTypes
<1>3. BoundTypes'
  BY DEF TypeOK, LoginQuery, BoundTypes, Fault
<1> QED
  BY <1>1, <1>2, <1>3 DEF TypeOK

LEMMA LoginRemoveTypes ==
    ASSUME TypeOK, WorkOK, AddressOK, NEW c \in Conns, LoginRemove(c)
    PROVE  TypeOK'
<1>1. (RedisTypes /\ ProcessTypes /\ ClientTypes)'
  BY DEF LoginRemove, TypeOK, RedisTypes, ProcessTypes, ClientTypes, redis, process,
       client, pubsub, server, traffic
<1>2. MySQLTypes'
  BY DEF TypeOK, LoginRemove, MySQLTypes, WorkOK, At, None, LoginPc, LeavePc, GroupPc, Up
<1>3. HandlerTypes'
  BY DEF TypeOK, LoginRemove, HandlerTypes, Goto, work, PcValues, LoginPc
<1>4. OutcomeTypes'
  BY DEF TypeOK, LoginRemove, OutcomeTypes, WorkOK, At, Causes, LoginPc
<1>5. BoundTypes'
  BY DEF TypeOK, LoginRemove, BoundTypes, Fault
<1> QED
  BY <1>1, <1>2, <1>3, <1>4, <1>5 DEF TypeOK

LEMMA LoginReplyTypes ==
    ASSUME TypeOK, WorkOK, AddressOK, NEW c \in Conns, LoginReply(c)
    PROVE  TypeOK'
<1>1. (MySQLTypes /\ RedisTypes /\ ProcessTypes /\ ClientTypes /\ BoundTypes)'
  BY DEF LoginReply, TypeOK, MySQLTypes, RedisTypes, ProcessTypes, ClientTypes,
       BoundTypes, mysql, redis, process, client, bounds, pubsub, server, traffic
<1>2. HandlerTypes'
  BY DEF TypeOK, LoginReply, HandlerTypes, None, Goto, PcValues
<1>3. OutcomeTypes'
  <2>1. rows[c] \in [Msgs -> Nat] /\ user[c] \in Users \cup {NoUser}
    BY DEF TypeOK, HandlerTypes
  <2> QED
    BY <2>1, ReceiveTypes DEF LoginReply, TypeOK, OutcomeTypes
<1> QED
  BY <1>1, <1>2, <1>3 DEF TypeOK

-----------------------------------------------------------------------------
(* Steps of logout() and clientCloseException().                           *)

LEMMA LogoutBeginTypes ==
    ASSUME TypeOK, WorkOK, AddressOK, NEW c \in Conns, LogoutBegin(c)
    PROVE  TypeOK'
<1>1. (MySQLTypes /\ RedisTypes /\ OutcomeTypes /\ BoundTypes)'
  BY DEF LogoutBegin, TypeOK, MySQLTypes, RedisTypes, OutcomeTypes, BoundTypes, mysql,
       redis, outcome, bounds, pubsub
<1>2. ProcessTypes'
  <2>1. account[c] \in Users
    BY DEF LogoutBegin, TypeOK, ClientTypes
  <2> QED
    BY <2>1, HostType, EvictTypes DEF LogoutBegin, TypeOK, ProcessTypes
<1>3. HandlerTypes'
  <2>1. account[c] \in Users
    BY DEF LogoutBegin, TypeOK, ClientTypes
  <2>2. pc' \in [Conns -> PcValues]
    BY DEF LogoutBegin, Goto, TypeOK, HandlerTypes, PcValues, LeavePc
  <2> QED
    BY <2>1, <2>2 DEF LogoutBegin, TypeOK, HandlerTypes
<1>4. ClientTypes'
  BY DEF TypeOK, LogoutBegin, ClientTypes, traffic
<1> QED
  BY <1>1, <1>2, <1>3, <1>4 DEF TypeOK

LEMMA CloseBeginTypes ==
    ASSUME TypeOK, WorkOK, AddressOK, NEW c \in Conns, CloseBegin(c)
    PROVE  TypeOK'
<1>1. (MySQLTypes /\ RedisTypes /\ OutcomeTypes /\ BoundTypes)'
  BY DEF CloseBegin, TypeOK, MySQLTypes, RedisTypes, OutcomeTypes, BoundTypes, mysql,
       redis, outcome, bounds, pubsub
<1>2. ProcessTypes'
  <2>1. userConnMap' \in [Servers -> [Users -> Conns \cup {NoConn}]]
    BY HostType, EvictTypes DEF CloseBegin, TypeOK, ProcessTypes
  <2> QED
    BY <2>1 DEF CloseBegin, TypeOK, ProcessTypes
<1>3. HandlerTypes'
  <2>1. pc' \in [Conns -> PcValues] /\ user' \in [Conns -> Users \cup {NoUser}]
    BY DEF CloseBegin, Goto, TypeOK, HandlerTypes, PcValues, LeavePc
  <2> QED
    BY <2>1 DEF CloseBegin, TypeOK, HandlerTypes
<1>4. ClientTypes'
  BY DEF TypeOK, CloseBegin, ClientTypes, traffic
<1> QED
  BY <1>1, <1>2, <1>3, <1>4 DEF TypeOK

LEMMA LeaveUnsubscribeTypes ==
    ASSUME TypeOK, WorkOK, AddressOK, NEW c \in Conns, LeaveUnsubscribe(c)
    PROVE  TypeOK'
<1>1. (MySQLTypes /\ ProcessTypes /\ ClientTypes /\ OutcomeTypes /\ BoundTypes)'
  BY DEF LeaveUnsubscribe, TypeOK, MySQLTypes, ProcessTypes, ClientTypes, OutcomeTypes,
       BoundTypes, mysql, process, client, outcome, bounds, server, traffic
<1>2. RedisTypes'
  <2>1. user[c] \in Users
    BY DEF LeaveUnsubscribe, At, WorkOK, LeavePc
  <2> QED
    BY <2>1, WriteCommandTypes DEF LeaveUnsubscribe, TypeOK, RedisTypes
<1>3. HandlerTypes'
  BY DEF TypeOK, LeaveUnsubscribe, HandlerTypes, Goto, work, PcValues, LeavePc
<1> QED
  BY <1>1, <1>2, <1>3 DEF TypeOK

LEMMA LeaveDeleteTypes ==
    ASSUME TypeOK, WorkOK, AddressOK, NEW c \in Conns, LeaveDelete(c)
    PROVE  TypeOK'
<1>1. (MySQLTypes /\ ProcessTypes /\ ClientTypes /\ OutcomeTypes /\ BoundTypes)'
  BY DEF LeaveDelete, TypeOK, MySQLTypes, ProcessTypes, ClientTypes, OutcomeTypes,
       BoundTypes, mysql, process, client, outcome, bounds, server, traffic
<1>2. RedisTypes'
  BY DEF TypeOK, LeaveDelete, RedisTypes, WorkOK, At, pubsub, LeavePc
<1>3. HandlerTypes'
  BY DEF TypeOK, LeaveDelete, HandlerTypes, Goto, work, PcValues, LeavePc
<1> QED
  BY <1>1, <1>2, <1>3 DEF TypeOK

LEMMA LeaveOfflineTypes ==
    ASSUME TypeOK, WorkOK, AddressOK, NEW c \in Conns, LeaveOffline(c)
    PROVE  TypeOK'
<1>1. (MySQLTypes /\ RedisTypes /\ ClientTypes /\ OutcomeTypes /\ BoundTypes)'
  BY DEF LeaveOffline, TypeOK, MySQLTypes, RedisTypes, ClientTypes, OutcomeTypes,
       BoundTypes, mysql, redis, client, outcome, bounds, pubsub, traffic
<1>2. ProcessTypes'
  BY ChatAssumption, TaskTypes DEF TypeOK, LeaveOffline, ProcessTypes, WorkOK, At, MarkOffline,
     server, LeavePc, PushTask
<1>3. HandlerTypes'
  BY DEF TypeOK, LeaveOffline, HandlerTypes, Goto, PcValues
<1> QED
  BY <1>1, <1>2, <1>3 DEF TypeOK

-----------------------------------------------------------------------------
(* Steps of oneChat().                                                     *)

LEMMA ChatBeginTypes ==
    ASSUME TypeOK, WorkOK, AddressOK, NEW c \in Conns, NEW m \in Msgs, ChatBegin(c, m)
    PROVE  TypeOK'
<1>1. (MySQLTypes /\ RedisTypes /\ ProcessTypes /\ BoundTypes)'
  BY DEF ChatBegin, TypeOK, MySQLTypes, RedisTypes, ProcessTypes, BoundTypes, mysql,
       redis, process, bounds, pubsub, server
<1>2. HandlerTypes'
  <2>1. Addressees[m] \subseteq Users
    BY ChatAssumption
  <2>2. pc' \in [Conns -> PcValues]
    BY DEF ChatBegin, Goto, TypeOK, HandlerTypes, PcValues, OneChatPc
  <2>3. user' \in [Conns -> Users \cup {NoUser}] /\ msg' \in [Conns -> Msgs \cup {NoMsg}]
    BY <2>1 DEF ChatBegin, TypeOK, HandlerTypes
  <2> QED
    BY <2>2, <2>3 DEF ChatBegin, TypeOK, HandlerTypes
<1>3. ClientTypes'
  BY DEF TypeOK, ChatBegin, ClientTypes, Take
<1>4. OutcomeTypes'
  <2>1. PICK u \in Addressees[m] :
            \/ userConnMap[host[c]][u] # NoConn /\ HandOver(c, u, m)
            \/ UNCHANGED outcome
    BY DEF ChatBegin
  <2>2. u \in Users /\ userConnMap[host[c]][u] \in Conns \cup {NoConn}
    BY ChatAssumption, HostType DEF TypeOK, ProcessTypes
  <2>3. CASE userConnMap[host[c]][u] # NoConn /\ HandOver(c, u, m)
    BY <2>2, <2>3, BagTypes, ReceiveTypes DEF HandOver, ACKToClient, TypeOK, OutcomeTypes
  <2>4. CASE UNCHANGED outcome
    BY <2>4 DEF TypeOK, OutcomeTypes, outcome
  <2> QED
    BY <2>1, <2>3, <2>4
<1> QED
  BY <1>1, <1>2, <1>3, <1>4 DEF TypeOK

LEMMA ChatGetTypes ==
    ASSUME TypeOK, WorkOK, AddressOK, NEW c \in Conns, ChatGet(c)
    PROVE  TypeOK'
<1>1. (MySQLTypes /\ RedisTypes /\ ProcessTypes /\ ClientTypes /\ OutcomeTypes /\ BoundTypes)'
  BY DEF ChatGet, TypeOK, MySQLTypes, RedisTypes, ProcessTypes, ClientTypes, OutcomeTypes,
       BoundTypes, mysql, redis, process, client, outcome, bounds, pubsub, server, traffic
<1>2. HandlerTypes'
  BY DEF TypeOK, ChatGet, HandlerTypes, Goto, work, PcValues, OneChatPc
<1> QED
  BY <1>1, <1>2 DEF TypeOK

LEMMA ChatStateTypes ==
    ASSUME TypeOK, WorkOK, AddressOK, NEW c \in Conns, ChatState(c)
    PROVE  TypeOK'
<1>1. (MySQLTypes /\ RedisTypes /\ ProcessTypes /\ ClientTypes)'
  BY DEF ChatState, TypeOK, MySQLTypes, RedisTypes, ProcessTypes, ClientTypes, mysql,
       redis, process, client, pubsub, server, traffic
<1>2. HandlerTypes'
  <2>1. pc' \in [Conns -> PcValues]
    BY DEF ChatState, Goto, TypeOK, HandlerTypes, PcValues, OneChatPc
  <2>2. user' \in [Conns -> Users \cup {NoUser}]
    BY DEF ChatState, TypeOK, HandlerTypes
  <2> QED
    BY <2>1, <2>2 DEF ChatState, TypeOK, HandlerTypes
<1>3. OutcomeTypes'
  <2>1. user[c] \in Users \cup {NoUser} /\ msg[c] \in Msgs
    BY DEF ChatState, At, TypeOK, HandlerTypes, WorkOK, OneChatPc
  <2>2. <<user[c], msg[c], "fault">> \in (Users \cup {NoUser}) \X Msgs \X Causes
    BY <2>1 DEF Causes
  <2> QED
    BY <2>2 DEF ChatState, TypeOK, OutcomeTypes
<1>4. BoundTypes'
  BY DEF TypeOK, ChatState, BoundTypes, Fault
<1> QED
  BY <1>1, <1>2, <1>3, <1>4 DEF TypeOK

LEMMA ChatPublishTypes ==
    ASSUME TypeOK, WorkOK, AddressOK, NEW c \in Conns, ChatPublish(c)
    PROVE  TypeOK'
<1>1. (MySQLTypes /\ ProcessTypes /\ ClientTypes /\ BoundTypes)'
  BY DEF ChatPublish, TypeOK, MySQLTypes, ProcessTypes, ClientTypes, BoundTypes, mysql,
       process, client, bounds, server, traffic
<1>2. RedisTypes'
  BY DEF TypeOK, ChatPublish, RedisTypes, WorkOK, At, Publish, OneChatPc
<1>3. HandlerTypes'
  BY DEF TypeOK, ChatPublish, HandlerTypes, Finish, PcValues, Goto
<1>4. OutcomeTypes'
  BY ChatAssumption DEF TypeOK, ChatPublish, OutcomeTypes, WorkOK, At, Publish, AfterPublish,
     Causes, OneChatPc
<1> QED
  BY <1>1, <1>2, <1>3, <1>4 DEF TypeOK

LEMMA ChatStoreTypes ==
    ASSUME TypeOK, WorkOK, AddressOK, NEW c \in Conns, ChatStore(c)
    PROVE  TypeOK'
<1>1. (MySQLTypes /\ RedisTypes /\ ClientTypes /\ BoundTypes)'
  BY DEF ChatStore, TypeOK, MySQLTypes, RedisTypes, ClientTypes, BoundTypes, mysql, redis,
       client, bounds, pubsub, traffic
<1>2. ProcessTypes'
  BY ChatAssumption, TaskTypes DEF TypeOK, ChatStore, ProcessTypes, WorkOK, At, KeepOffline,
     ACKToClient, server, LoginPc, LeavePc, OneChatPc, GroupPc, Up, PushTask, pubsub
<1>3. HandlerTypes'
  BY DEF TypeOK, ChatStore, HandlerTypes, Finish, PcValues, Goto
<1>4. OutcomeTypes'
  BY DEF TypeOK, ChatStore, OutcomeTypes, WorkOK, At, ACKToClient, OneChatPc
<1> QED
  BY <1>1, <1>2, <1>3, <1>4 DEF TypeOK

-----------------------------------------------------------------------------
(* Steps of groupChat().                                                   *)

LEMMA GroupBeginTypes ==
    ASSUME TypeOK, WorkOK, AddressOK, NEW c \in Conns, NEW m \in Msgs, GroupBegin(c, m)
    PROVE  TypeOK'
<1>1. (MySQLTypes /\ RedisTypes /\ ProcessTypes)'
  BY DEF GroupBegin, TypeOK, MySQLTypes, RedisTypes, ProcessTypes, mysql, redis, process,
       pubsub, server
<1>2. HandlerTypes'
  <2>1. Addressees[m] \subseteq Users
    BY ChatAssumption
  <2>2. pc' \in [Conns -> PcValues]
    BY DEF GroupBegin, Goto, TypeOK, HandlerTypes, PcValues, GroupPc
  <2>3. todo' \in [Conns -> SUBSET Users] /\ msg' \in [Conns -> Msgs \cup {NoMsg}]
    BY <2>1 DEF GroupBegin, TypeOK, HandlerTypes
  <2> QED
    BY <2>2, <2>3 DEF GroupBegin, TypeOK, HandlerTypes
<1>3. ClientTypes'
  BY DEF TypeOK, GroupBegin, ClientTypes, Take
<1>4. OutcomeTypes'
  BY ChatAssumption DEF TypeOK, GroupBegin, OutcomeTypes, Causes
<1>5. BoundTypes'
  BY DEF TypeOK, GroupBegin, BoundTypes, Fault
<1> QED
  BY <1>1, <1>2, <1>3, <1>4, <1>5 DEF TypeOK

LEMMA GroupLockTypes ==
    ASSUME TypeOK, WorkOK, AddressOK, NEW c \in Conns, GroupLock(c)
    PROVE  TypeOK'
<1>1. (MySQLTypes /\ RedisTypes /\ ClientTypes /\ OutcomeTypes /\ BoundTypes)'
  BY DEF GroupLock, TypeOK, MySQLTypes, RedisTypes, ClientTypes, OutcomeTypes, BoundTypes,
       mysql, redis, client, outcome, bounds, pubsub, traffic
<1>2. ProcessTypes'
  BY ChatAssumption DEF TypeOK, GroupLock, ProcessTypes
<1>3. HandlerTypes'
  BY DEF TypeOK, GroupLock, HandlerTypes, Goto, work, PcValues, GroupPc
<1> QED
  BY <1>1, <1>2, <1>3 DEF TypeOK

LEMMA GroupMemberTypes ==
    ASSUME TypeOK, WorkOK, AddressOK, NEW c \in Conns, GroupMember(c)
    PROVE  TypeOK'
<1>1. (MySQLTypes /\ RedisTypes /\ ProcessTypes /\ ClientTypes)'
  BY DEF GroupMember, TypeOK, MySQLTypes, RedisTypes, ProcessTypes, ClientTypes, mysql,
       redis, process, client, pubsub, server, traffic
<1>2. HandlerTypes'
  <2>1. pc' \in [Conns -> PcValues]
    BY DEF GroupMember, Goto, TypeOK, HandlerTypes, PcValues, GroupPc
  <2>2. todo' \in [Conns -> SUBSET Users] /\ user' \in [Conns -> Users \cup {NoUser}]
    BY DEF GroupMember, TypeOK, HandlerTypes
  <2> QED
    BY <2>1, <2>2 DEF GroupMember, TypeOK, HandlerTypes
<1>3. OutcomeTypes'
  <2>1. PICK u \in todo[c] :
            \/ /\ userConnMap[host[c]][u] # NoConn
               /\ Receive(userConnMap[host[c]][u], u, One(msg[c]))
            \/ UNCHANGED <<got, lost>>
    BY DEF GroupMember
  <2>2. msg[c] \in Msgs /\ acked' = acked
    BY ChatAssumption DEF GroupMember, At, WorkOK, GroupPc
  <2>3. u \in Users /\ userConnMap[host[c]][u] \in Conns \cup {NoConn}
    BY HostType DEF TypeOK, HandlerTypes, ProcessTypes
  <2>4. CASE /\ userConnMap[host[c]][u] # NoConn
             /\ Receive(userConnMap[host[c]][u], u, One(msg[c]))
    BY <2>2, <2>3, <2>4, BagTypes, ReceiveTypes DEF TypeOK, OutcomeTypes
  <2>5. CASE UNCHANGED <<got, lost>>
    BY <2>2, <2>5 DEF TypeOK, OutcomeTypes
  <2> QED
    BY <2>1, <2>4, <2>5
<1>4. BoundTypes'
  BY DEF TypeOK, GroupMember, BoundTypes, Fault
<1> QED
  BY <1>1, <1>2, <1>3, <1>4 DEF TypeOK

LEMMA GroupPublishTypes ==
    ASSUME TypeOK, WorkOK, AddressOK, NEW c \in Conns, GroupPublish(c)
    PROVE  TypeOK'
<1>1. (MySQLTypes /\ ProcessTypes /\ ClientTypes /\ BoundTypes)'
  BY DEF GroupPublish, TypeOK, MySQLTypes, ProcessTypes, ClientTypes, BoundTypes, mysql,
       process, client, bounds, server, traffic
<1>2. RedisTypes'
  BY ChatAssumption DEF TypeOK, GroupPublish, RedisTypes, WorkOK, At, Publish, GroupPc
<1>3. HandlerTypes'
  BY DEF TypeOK, GroupPublish, HandlerTypes, NextMember, PcValues, GroupPc, Goto
<1>4. OutcomeTypes'
  BY ChatAssumption DEF TypeOK, GroupPublish, OutcomeTypes, WorkOK, At, Publish, Causes,
     GroupPc
<1> QED
  BY <1>1, <1>2, <1>3, <1>4 DEF TypeOK

LEMMA GroupStoreTypes ==
    ASSUME TypeOK, WorkOK, AddressOK, NEW c \in Conns, GroupStore(c)
    PROVE  TypeOK'
<1>1. (MySQLTypes /\ RedisTypes /\ ClientTypes /\ OutcomeTypes /\ BoundTypes)'
  BY DEF GroupStore, TypeOK, MySQLTypes, RedisTypes, ClientTypes, OutcomeTypes,
       BoundTypes, mysql, redis, client, outcome, bounds, pubsub, traffic
<1>2. ProcessTypes'
  BY ChatAssumption, TaskTypes DEF TypeOK, GroupStore, ProcessTypes, WorkOK, At, KeepOffline,
     server, GroupPc, PushTask
<1>3. HandlerTypes'
  BY DEF TypeOK, GroupStore, HandlerTypes, NextMember, PcValues, GroupPc, Goto
<1> QED
  BY <1>1, <1>2, <1>3 DEF TypeOK

LEMMA GroupEndTypes ==
    ASSUME TypeOK, WorkOK, AddressOK, NEW c \in Conns, GroupEnd(c)
    PROVE  TypeOK'
<1>1. (MySQLTypes /\ RedisTypes /\ ClientTypes /\ BoundTypes)'
  BY DEF GroupEnd, TypeOK, MySQLTypes, RedisTypes, ClientTypes, BoundTypes, mysql, redis,
       client, bounds, pubsub, traffic
<1>2. ProcessTypes'
  BY ChatAssumption DEF TypeOK, GroupEnd, ProcessTypes
<1>3. HandlerTypes'
  BY DEF TypeOK, GroupEnd, HandlerTypes, Finish, PcValues, Goto
<1>4. OutcomeTypes'
  BY ChatAssumption DEF TypeOK, GroupEnd, OutcomeTypes, WorkOK, At, ACKToClient, GroupPc
<1> QED
  BY <1>1, <1>2, <1>3, <1>4 DEF TypeOK

-----------------------------------------------------------------------------
(* Steps of the other threads, and Redis.                                  *)

LEMMA WorkerTypes ==
    ASSUME TypeOK, WorkOK, AddressOK, NEW s \in Servers, Worker(s)
    PROVE  TypeOK'
<1>1. (RedisTypes /\ HandlerTypes /\ ClientTypes)'
  BY DEF Worker, TypeOK, RedisTypes, HandlerTypes, ClientTypes, redis, handler, client,
       pubsub, work, traffic
<1>2. MySQLTypes'
  <2>1. Head(dbQueue[s]) \in DbTaskArgs /\ Head(dbQueue[s]) \in Queued(s)
    BY SMT DEF Worker, TypeOK, ProcessTypes, Queued
  <2>2. CASE UNCHANGED mysql
    BY <2>2 DEF mysql, TypeOK, MySQLTypes
  <2>3. CASE Apply(Head(dbQueue[s]))
    <3>1. Head(dbQueue[s]).type \in {"state", "offline"}
      BY <2>1 DEF DbTaskArgs
    <3>2. Head(dbQueue[s]).msg \in Msgs \/ Head(dbQueue[s]).type = "state"
      BY <2>1, <3>1 DEF AddressOK, QueueOK
    <3> QED
      BY <2>1, <2>3, <3>2, ApplyTypes
  <2> QED
    BY <2>2, <2>3 DEF Worker
<1>3. ProcessTypes'
  BY DEF TypeOK, Worker, ProcessTypes, server
<1>4. OutcomeTypes'
  <2> DEFINE t == Head(dbQueue[s])
  <2>1. t \in Queued(s) /\ t \in DbTaskArgs
    BY SMT DEF Worker, TypeOK, ProcessTypes, Queued
  <2>2. t.type = "offline" => <<t.user, t.msg, "fault">> \in (Users \cup {NoUser}) \X Msgs \X Causes
    BY <2>1, TaskTypes DEF AddressOK, QueueOK, Causes
  <2>3. \/ lost' = lost
        \/ t.type = "offline" /\ lost' = lost \cup {<<t.user, t.msg, "fault">>}
    BY DEF Worker
  <2> QED
    BY <2>2, <2>3 DEF Worker, TypeOK, OutcomeTypes
<1>5. BoundTypes'
  BY DEF TypeOK, Worker, BoundTypes, Fault
<1> QED
  BY <1>1, <1>2, <1>3, <1>4, <1>5 DEF TypeOK

LEMMA RedisSubscriberTypes ==
    ASSUME TypeOK, WorkOK, AddressOK, NEW s \in Servers, RedisSubscriber(s)
    PROVE  TypeOK'
<1>1. (MySQLTypes /\ ProcessTypes /\ HandlerTypes /\ ClientTypes /\ OutcomeTypes /\ BoundTypes)'
  BY DEF RedisSubscriber, TypeOK, MySQLTypes, ProcessTypes, HandlerTypes, ClientTypes,
       OutcomeTypes, BoundTypes, mysql, process, handler, client, outcome, bounds, server,
       work, traffic
<1>2. RedisTypes'
  BY DEF TypeOK, RedisSubscriber, RedisTypes
<1> QED
  BY <1>1, <1>2 DEF TypeOK

LEMMA ObserveTypes ==
    ASSUME TypeOK, WorkOK, AddressOK, NEW s \in Servers, Observe(s)
    PROVE  TypeOK'
<1>1. (ProcessTypes /\ HandlerTypes /\ ClientTypes)'
  BY DEF Observe, TypeOK, ProcessTypes, HandlerTypes, ClientTypes, process, handler,
       client, server, work, traffic
<1>2. MySQLTypes'
  <2>1. Head(channel[s]) \in Users \X Msgs
    BY SMT DEF Observe, TypeOK, RedisTypes
  <2>2. \A u \in Users, m \in Msgs :
            [offlineMessage EXCEPT ![u][m] = @ + 1] \in [Users -> [Msgs -> Nat]]
    BY SMT DEF TypeOK, MySQLTypes
  <2>3. \/ UNCHANGED mysql
        \/ /\ UNCHANGED userState
           /\ offlineMessage' = [offlineMessage EXCEPT
                                   ![Head(channel[s])[1]][Head(channel[s])[2]] = @ + 1]
    BY DEF Observe
  <2>4. Head(channel[s])[1] \in Users /\ Head(channel[s])[2] \in Msgs
    BY <2>1
  <2>5. offlineMessage' = offlineMessage \/ offlineMessage' \in [Users -> [Msgs -> Nat]]
    BY <2>2, <2>3, <2>4 DEF mysql
  <2> QED
    BY <2>3, <2>5 DEF TypeOK, MySQLTypes, mysql
<1>3. RedisTypes'
  <2>1. Head(channel[s]) \in Users \X Msgs /\ Tail(channel[s]) \in Seq(Users \X Msgs)
    BY SMT DEF Observe, TypeOK, RedisTypes
  <2>2. onlineKey' \in [Users -> BOOLEAN]
    <3>1. onlineKey' = onlineKey \/ onlineKey' = [onlineKey EXCEPT ![Head(channel[s])[1]] = TRUE]
      BY DEF Observe
    <3> QED
      BY <3>1, <2>1 DEF TypeOK, RedisTypes
  <2>3. channel' \in [Servers -> Seq(Users \X Msgs)]
    BY <2>1 DEF Observe, TypeOK, RedisTypes
  <2> QED
    BY <2>2, <2>3 DEF Observe, TypeOK, RedisTypes
<1>4. OutcomeTypes'
  <2> DEFINE u == Head(channel[s])[1]
             m == Head(channel[s])[2]
  <2>1. u \in Users /\ m \in Msgs
    BY SMT DEF Observe, TypeOK, RedisTypes
  <2>2. acked' = acked
    BY DEF Observe
  <2>3. \/ userConnMap[s][u] # NoConn /\ Receive(userConnMap[s][u], u, One(m))
        \/ UNCHANGED <<got, lost>>
        \/ got' = got /\ lost' = lost \cup {<<u, m, "fault">>}
    BY DEF Observe
  <2>4. CASE userConnMap[s][u] # NoConn /\ Receive(userConnMap[s][u], u, One(m))
    <3>1. userConnMap[s][u] \in Conns
      BY <2>1, <2>4 DEF TypeOK, ProcessTypes
    <3> HIDE DEF u, m
    <3> QED
      BY <2>1, <2>2, <2>4, <3>1, BagTypes, ReceiveTypes DEF TypeOK, OutcomeTypes
  <2>5. CASE UNCHANGED <<got, lost>>
    BY <2>2, <2>5 DEF TypeOK, OutcomeTypes
  <2>6. CASE got' = got /\ lost' = lost \cup {<<u, m, "fault">>}
    BY <2>1, <2>2, <2>6 DEF TypeOK, OutcomeTypes, Causes
  <2> QED
    BY <2>3, <2>4, <2>5, <2>6
<1>5. BoundTypes'
  <2>1. logins' = logins /\ crashes' = crashes /\ (faults' = faults \/ faults' = faults + 1)
    BY DEF Observe, Fault
  <2> QED
    BY <2>1, SMT DEF TypeOK, BoundTypes
<1> QED
  BY <1>1, <1>2, <1>3, <1>4, <1>5 DEF TypeOK

LEMMA KeyExpireTypes ==
    ASSUME TypeOK, WorkOK, AddressOK, NEW u \in Users, KeyExpire(u)
    PROVE  TypeOK'
<1>1. (MySQLTypes /\ ProcessTypes /\ HandlerTypes /\ ClientTypes /\ OutcomeTypes /\ BoundTypes)'
  BY DEF KeyExpire, TypeOK, MySQLTypes, ProcessTypes, HandlerTypes, ClientTypes,
       OutcomeTypes, BoundTypes, mysql, process, handler, client, outcome, bounds, server,
       work, traffic
<1>2. RedisTypes'
  BY DEF TypeOK, KeyExpire, RedisTypes, pubsub
<1> QED
  BY <1>1, <1>2 DEF TypeOK

-----------------------------------------------------------------------------
(* Steps of the end of a process.                                          *)

LEMMA CrashTypes ==
    ASSUME TypeOK, WorkOK, AddressOK, NEW s \in Servers, Crash(s)
    PROVE  TypeOK'
<1>1. (MySQLTypes)'
  BY DEF Crash, TypeOK, MySQLTypes, mysql
<1>2. RedisTypes'
  BY DEF TypeOK, Crash, RedisTypes, Stop
<1>3. ProcessTypes'
  BY DEF TypeOK, Crash, ProcessTypes, Stop
<1>4. HandlerTypes'
  BY DEF TypeOK, Crash, HandlerTypes, Stop, PcValues, None
<1>5. ClientTypes'
  BY DEF TypeOK, Crash, ClientTypes, Stop
<1>6. OutcomeTypes'
  BY StopTypes DEF Crash
<1>7. BoundTypes'
  BY DEF TypeOK, Crash, BoundTypes
<1> QED
  BY <1>1, <1>2, <1>3, <1>4, <1>5, <1>6, <1>7 DEF TypeOK

LEMMA ResetStateTypes ==
    ASSUME TypeOK, WorkOK, AddressOK, NEW s \in Servers, ResetState(s)
    PROVE  TypeOK'
<1>1. (RedisTypes /\ HandlerTypes /\ ClientTypes /\ OutcomeTypes)'
  BY DEF ResetState, TypeOK, RedisTypes, HandlerTypes, ClientTypes, OutcomeTypes, redis,
       handler, client, outcome, pubsub, work, traffic
<1>2. MySQLTypes'
  BY DEF TypeOK, ResetState, MySQLTypes
<1>3. ProcessTypes'
  BY DEF TypeOK, ResetState, ProcessTypes
<1>4. BoundTypes'
  BY DEF TypeOK, ResetState, BoundTypes
<1> QED
  BY <1>1, <1>2, <1>3, <1>4 DEF TypeOK

LEMMA ExitTypes ==
    ASSUME TypeOK, WorkOK, AddressOK, NEW s \in Servers, Exit(s)
    PROVE  TypeOK'
<1>1. (MySQLTypes /\ BoundTypes)'
  BY DEF Exit, TypeOK, MySQLTypes, BoundTypes, mysql, bounds
<1>2. RedisTypes'
  BY DEF TypeOK, Exit, RedisTypes, Stop
<1>3. ProcessTypes'
  BY DEF TypeOK, Exit, ProcessTypes, Stop
<1>4. HandlerTypes'
  BY DEF TypeOK, Exit, HandlerTypes, Stop, PcValues, None
<1>5. ClientTypes'
  BY DEF TypeOK, Exit, ClientTypes, Stop
<1>6. OutcomeTypes'
  BY StopTypes DEF Exit
<1> QED
  BY <1>1, <1>2, <1>3, <1>4, <1>5, <1>6 DEF TypeOK

LEMMA RestartTypes ==
    ASSUME TypeOK, WorkOK, AddressOK, NEW s \in Servers, Restart(s)
    PROVE  TypeOK'
<1>1. (MySQLTypes /\ RedisTypes /\ HandlerTypes /\ ClientTypes /\ OutcomeTypes /\ BoundTypes)'
  BY DEF Restart, TypeOK, MySQLTypes, RedisTypes, HandlerTypes, ClientTypes, OutcomeTypes,
       BoundTypes, mysql, redis, handler, client, outcome, bounds, pubsub, work, traffic
<1>2. ProcessTypes'
  BY DEF TypeOK, Restart, ProcessTypes
<1> QED
  BY <1>1, <1>2 DEF TypeOK

-----------------------------------------------------------------------------
(* Addressees.                                                             *)

(* A task pushed for an addressee, and one that changes a state, leave the *)
(* queues addressed.                                                       *)
LEMMA PushTaskAddressed ==
    ASSUME TypeOK, QueueOK, NEW s \in Servers, NEW t, PushTask(s, t),
           t.type = "offline" => t.msg \in Msgs /\ t.user \in Addressees[t.msg] \cup {NoUser}
    PROVE  QueueOK'
<1> SUFFICES ASSUME NEW r \in Servers, NEW k \in 1..Len(dbQueue'[r]),
                    dbQueue'[r][k].type = "offline"
             PROVE  /\ dbQueue'[r][k].msg \in Msgs
                    /\ dbQueue'[r][k].user \in Addressees[dbQueue'[r][k].msg] \cup {NoUser}
  BY DEF QueueOK, Queued
<1>1. \A i \in 1..Len(dbQueue[r]) : dbQueue[r][i].type = "offline" =>
          /\ dbQueue[r][i].msg \in Msgs
          /\ dbQueue[r][i].user \in Addressees[dbQueue[r][i].msg] \cup {NoUser}
  BY DEF QueueOK, Queued
<1>2. dbQueue[r] \in Seq(DbTaskArgs) /\ dbQueue'[r] = IF r = s THEN Append(dbQueue[r], t) ELSE dbQueue[r]
  BY DEF TypeOK, ProcessTypes, PushTask
<1>3. CASE r = s /\ k = Len(dbQueue[r]) + 1
  BY <1>2, <1>3
<1>4. CASE k \in 1..Len(dbQueue[r]) /\ dbQueue'[r][k] = dbQueue[r][k]
  BY <1>1, <1>4
<1> QED
  BY <1>2, <1>3, <1>4

(* A message published for an addressee leaves the channels addressed.     *)
LEMMA PublishAddressed ==
    ASSUME TypeOK, ChannelOK, NEW m \in Msgs, NEW u \in Addressees[m], Publish(u, m)
    PROVE  ChannelOK'
<1> SUFFICES ASSUME NEW r \in Servers, NEW k \in 1..Len(channel'[r])
             PROVE  channel'[r][k][1] \in Addressees[channel'[r][k][2]]
  BY DEF ChannelOK, Travelling
<1>1. \A i \in 1..Len(channel[r]) : channel[r][i][1] \in Addressees[channel[r][i][2]]
  BY DEF ChannelOK, Travelling
<1>2. /\ channel[r] \in Seq(Users \X Msgs)
      /\ \/ channel'[r] = channel[r]
         \/ channel'[r] = Append(channel[r], <<u, m>>)
  BY DEF TypeOK, RedisTypes, Publish
<1>3. CASE channel'[r] = channel[r]
  BY <1>1, <1>3
<1>4. CASE channel'[r] = Append(channel[r], <<u, m>>)
  <2>1. CASE k = Len(channel[r]) + 1
    BY <1>2, <1>4, <2>1
  <2>2. CASE k \in 1..Len(channel[r])
    BY <1>1, <1>2, <1>4, <2>2
  <2> QED
    BY <1>2, <1>4, <2>1, <2>2
<1> QED
  BY <1>2, <1>3, <1>4

(* What is sent on a connection that an addressee uses is not misdelivered.*)
LEMMA ReceiveAddressed ==
    ASSUME TypeOK, NoMisdelivery, NEW c \in Conns, NEW u, NEW bag \in [Msgs -> Nat],
           Receive(c, u, bag),
           \A m \in Msgs : bag[m] > 0 => account[c] \in Addressees[m]
    PROVE  NoMisdelivery'
<1> SUFFICES ASSUME NEW v \in Users, NEW m \in Msgs, got'[v][m] > 0
             PROVE  v \in Addressees[m]
  BY DEF NoMisdelivery
<1>1. got[v][m] \in Nat /\ bag[m] \in Nat /\ got \in [Users -> [Msgs -> Nat]]
  BY DEF TypeOK, OutcomeTypes
<1>2. CASE got'[v][m] = got[v][m]
  BY <1>2 DEF NoMisdelivery
<1>3. CASE v = account[c] /\ got'[v][m] = got[v][m] + bag[m]
  BY <1>1, <1>3 DEF NoMisdelivery
<1> QED
  BY <1>1, <1>2, <1>3 DEF Receive

(* The head of a queue is in it, and what remains was in it.               *)
LEMMA HeadTail ==
    ASSUME NEW S, NEW q \in Seq(S), q # <<>>
    PROVE  /\ Head(q) = q[1] /\ 1 \in 1..Len(q) /\ Head(q) \in S
           /\ Tail(q) \in Seq(S)
           /\ \A k \in 1..Len(Tail(q)) : k + 1 \in 1..Len(q) /\ Tail(q)[k] = q[k + 1]
  OBVIOUS

(* Adding a row for u and m changes that entry of the table alone.         *)
LEMMA OneMore ==
    ASSUME NEW f \in [Users -> [Msgs -> Nat]], NEW u, NEW m,
           NEW g, g = [f EXCEPT ![u][m] = @ + 1]
    PROVE  \A v \in Users, k \in Msgs : g[v][k] = f[v][k] \/ (v = u /\ k = m)
  OBVIOUS

LEMMA OneOnly == \A m, k \in Msgs : One(m)[k] > 0 => k = m
  BY SMT DEF One

LEMMA InitIInv ==
    ASSUME Init
    PROVE  IInv
<1>1. WorkOK
  BY DEF Init, WorkOK, LoginPc, LeavePc, OneChatPc, GroupPc
<1>2. MapOK
  BY InitMap, SteadyOwner DEF Init, MapOK
<1>3. \A m \in Msgs : ~(None[m] > 0)
  BY SMT DEF None
<1>4. AddressOK
  BY <1>3 DEF Init, AddressOK, TableOK, RowsOK, QueueOK, ChannelOK, Queued, Travelling
<1>5. NoMisdelivery
  BY <1>3 DEF Init, NoMisdelivery
<1> QED
  BY <1>1, <1>2, <1>4, <1>5, InitTypes DEF IInv

-----------------------------------------------------------------------------
(* Steps of clients.                                                       *)

LEMMA ConnectAddresses ==
    ASSUME IInv, NEW c \in Conns, Connect(c)
    PROVE  (WorkOK /\ MapOK /\ AddressOK /\ NoMisdelivery)'
<1>1. (WorkOK /\ MapOK /\ TableOK /\ RowsOK /\ QueueOK /\ ChannelOK /\ NoMisdelivery)'
  BY DEF IInv, AddressOK, Connect, WorkOK, MapOK, TableOK, RowsOK, QueueOK, ChannelOK,
       NoMisdelivery, Queued, Travelling, mysql, redis, pubsub, process, server, handler, work,
       outcome
<1> QED
  BY <1>1 DEF AddressOK

LEMMA ClientExitAddresses ==
    ASSUME IInv, NEW c \in Conns, ClientExit(c)
    PROVE  (WorkOK /\ MapOK /\ AddressOK /\ NoMisdelivery)'
<1>1. (WorkOK /\ MapOK /\ TableOK /\ RowsOK /\ QueueOK /\ ChannelOK /\ NoMisdelivery)'
  BY DEF IInv, AddressOK, ClientExit, WorkOK, MapOK, TableOK, RowsOK, QueueOK, ChannelOK,
       NoMisdelivery, Queued, Travelling, mysql, redis, pubsub, process, server, handler, work,
       outcome
<1> QED
  BY <1>1 DEF AddressOK

LEMMA SendAddresses ==
    ASSUME IInv, NEW c \in Conns, NEW m \in Msgs, Send(c, m)
    PROVE  (WorkOK /\ MapOK /\ AddressOK /\ NoMisdelivery)'
<1>1. (WorkOK /\ MapOK /\ TableOK /\ RowsOK /\ QueueOK /\ ChannelOK /\ NoMisdelivery)'
  BY DEF IInv, AddressOK, Send, WorkOK, MapOK, TableOK, RowsOK, QueueOK, ChannelOK,
       NoMisdelivery, Queued, Travelling, mysql, redis, pubsub, process, server, handler, work,
       outcome
<1> QED
  BY <1>1 DEF AddressOK

LEMMA ResendAddresses ==
    ASSUME IInv, NEW m \in Msgs, Resend(m)
    PROVE  (WorkOK /\ MapOK /\ AddressOK /\ NoMisdelivery)'
<1>1. (WorkOK /\ MapOK /\ TableOK /\ RowsOK /\ QueueOK /\ ChannelOK /\ NoMisdelivery)'
  BY DEF IInv, AddressOK, Resend, WorkOK, MapOK, TableOK, RowsOK, QueueOK, ChannelOK,
       NoMisdelivery, Queued, Travelling, mysql, redis, pubsub, process, server, handler, work,
       outcome
<1> QED
  BY <1>1 DEF AddressOK

-----------------------------------------------------------------------------
(* Steps of login().                                                       *)

LEMMA LoginAcceptAddresses ==
    ASSUME IInv, NEW c \in Conns, NEW u \in Users, LoginAccept(c, u)
    PROVE  (WorkOK /\ MapOK /\ AddressOK /\ NoMisdelivery)'
<1>1. (TableOK /\ QueueOK /\ ChannelOK /\ NoMisdelivery)'
  BY DEF IInv, AddressOK, LoginAccept, TableOK, QueueOK, ChannelOK, NoMisdelivery, Queued,
       Travelling, mysql, redis, pubsub, process, outcome
<1>2. WorkOK'
  BY DEF IInv, TypeOK, LoginAccept, WorkOK, Goto, outcome, OneChatPc, GroupPc, HandlerTypes,
     ClientTypes
<1>3. MapOK'
  BY ChatAssumption DEF IInv, LoginAccept, MapOK, process, server
<1>4. RowsOK'
  BY DEF IInv, AddressOK, LoginAccept, RowsOK, At, Goto
<1> QED
  BY <1>1, <1>2, <1>3, <1>4 DEF AddressOK

LEMMA LoginInsertAddresses ==
    ASSUME IInv, NEW c \in Conns, LoginInsert(c)
    PROVE  (WorkOK /\ MapOK /\ AddressOK /\ NoMisdelivery)'
<1>1. (TableOK /\ QueueOK /\ ChannelOK /\ NoMisdelivery)'
  BY DEF IInv, AddressOK, LoginInsert, TableOK, QueueOK, ChannelOK, NoMisdelivery, Queued,
       Travelling, mysql, redis, pubsub, outcome
<1>2. WorkOK'
  BY DEF IInv, LoginInsert, WorkOK, At, Goto, work, client, outcome, LoginPc, OneChatPc,
     GroupPc
<1>3. MapOK'
  <2>1. user[c] \in Users /\ account[c] = user[c] /\ c # NoConn
    BY ChatAssumption DEF LoginInsert, At, IInv, WorkOK, LoginPc
  <2>2. \A s \in Servers, u \in Users :
            \/ userConnMap'[s][u] = userConnMap[s][u]
            \/ s = host[c] /\ u = user[c] /\ userConnMap'[s][u] = c
    BY HostType DEF LoginInsert, MapInsert, IInv, TypeOK, ProcessTypes
  <2>3. account' = account
    BY DEF LoginInsert, client
  <2> QED
    BY <2>1, <2>2, <2>3 DEF IInv, MapOK
<1>4. RowsOK'
  BY DEF IInv, AddressOK, LoginInsert, RowsOK, At, Goto, work
<1> QED
  BY <1>1, <1>2, <1>3, <1>4 DEF AddressOK

LEMMA LoginSubscribeAddresses ==
    ASSUME IInv, NEW c \in Conns, LoginSubscribe(c)
    PROVE  (WorkOK /\ MapOK /\ AddressOK /\ NoMisdelivery)'
<1>1. (MapOK /\ TableOK /\ QueueOK /\ ChannelOK /\ NoMisdelivery)'
  BY DEF IInv, AddressOK, LoginSubscribe, MapOK, TableOK, QueueOK, ChannelOK,
       NoMisdelivery, Queued, Travelling, mysql, process, server, client, outcome
<1>2. WorkOK'
  BY DEF IInv, LoginSubscribe, WorkOK, At, Goto, work, client, outcome, LoginPc, OneChatPc,
     GroupPc
<1>3. RowsOK'
  BY DEF IInv, AddressOK, LoginSubscribe, RowsOK, At, Goto, work
<1> QED
  BY <1>1, <1>2, <1>3 DEF AddressOK

LEMMA LoginSetAddresses ==
    ASSUME IInv, NEW c \in Conns, LoginSet(c)
    PROVE  (WorkOK /\ MapOK /\ AddressOK /\ NoMisdelivery)'
<1>1. (MapOK /\ TableOK /\ QueueOK /\ ChannelOK /\ NoMisdelivery)'
  BY DEF IInv, AddressOK, LoginSet, MapOK, TableOK, QueueOK, ChannelOK, NoMisdelivery,
       Queued, Travelling, mysql, pubsub, process, server, client, outcome
<1>2. WorkOK'
  BY DEF IInv, LoginSet, WorkOK, At, Goto, work, client, outcome, LoginPc, OneChatPc, GroupPc
<1>3. RowsOK'
  BY DEF IInv, AddressOK, LoginSet, RowsOK, At, Goto, work
<1> QED
  BY <1>1, <1>2, <1>3 DEF AddressOK

LEMMA LoginOnlineAddresses ==
    ASSUME IInv, NEW c \in Conns, LoginOnline(c)
    PROVE  (WorkOK /\ MapOK /\ AddressOK /\ NoMisdelivery)'
<1>1. (MapOK /\ TableOK /\ ChannelOK /\ NoMisdelivery)'
  BY DEF IInv, AddressOK, LoginOnline, MapOK, TableOK, ChannelOK, NoMisdelivery,
       Travelling, mysql, redis, pubsub, server, client, outcome
<1>2. WorkOK'
  BY DEF IInv, LoginOnline, WorkOK, At, Goto, work, client, outcome, LoginPc, OneChatPc,
     GroupPc
<1>3. RowsOK'
  BY DEF IInv, AddressOK, LoginOnline, RowsOK, At, Goto, work
<1>4. QueueOK'
  <2>1. StateTask(user[c], "Online").type # "offline"
    BY DEF StateTask
  <2> QED
    BY <2>1, HostType, PushTaskAddressed DEF LoginOnline, IInv, AddressOK
<1> QED
  BY <1>1, <1>2, <1>3, <1>4 DEF AddressOK

LEMMA LoginQueryAddresses ==
    ASSUME IInv, NEW c \in Conns, LoginQuery(c)
    PROVE  (WorkOK /\ MapOK /\ AddressOK /\ NoMisdelivery)'
<1>1. (MapOK /\ TableOK /\ QueueOK /\ ChannelOK /\ NoMisdelivery)'
  BY DEF IInv, AddressOK, LoginQuery, MapOK, TableOK, QueueOK, ChannelOK, NoMisdelivery,
       Queued, Travelling, mysql, redis, pubsub, process, server, client, outcome
<1>2. WorkOK'
  BY DEF IInv, LoginQuery, WorkOK, At, Goto, client, outcome, LoginPc, OneChatPc, GroupPc
<1>3. RowsOK'
  <2>1. user[c] \in Users /\ offlineMessage[user[c]] \in [Msgs -> Nat]
    BY DEF LoginQuery, At, IInv, WorkOK, LoginPc, TypeOK, MySQLTypes
  <2>2. \A m \in Msgs : rows'[c][m] > 0 =>
            rows'[c] # None /\ user[c] \in Addressees[m]
    <3>1. rows'[c] = None \/ rows'[c] = offlineMessage[user[c]]
      BY DEF LoginQuery, IInv, TypeOK, HandlerTypes
    <3>2. \A m \in Msgs : ~(None[m] > 0)
      BY SMT DEF None
    <3> QED
      BY <2>1, <3>1, <3>2 DEF IInv, AddressOK, TableOK
  <2>3. pc'[c] = (IF rows'[c] = None THEN "reply" ELSE "remove") /\ user' = user
    BY DEF LoginQuery, Goto, IInv, TypeOK, HandlerTypes
  <2>4. \A d \in Conns \ {c} : rows'[d] = rows[d] /\ pc'[d] = pc[d]
    BY DEF LoginQuery, Goto, IInv, TypeOK, HandlerTypes
  <2> QED
    BY <2>2, <2>3, <2>4 DEF IInv, AddressOK, RowsOK
<1> QED
  BY <1>1, <1>2, <1>3 DEF AddressOK

LEMMA LoginRemoveAddresses ==
    ASSUME IInv, NEW c \in Conns, LoginRemove(c)
    PROVE  (WorkOK /\ MapOK /\ AddressOK /\ NoMisdelivery)'
<1>1. (MapOK /\ QueueOK /\ ChannelOK /\ NoMisdelivery)'
  BY DEF IInv, AddressOK, LoginRemove, MapOK, QueueOK, ChannelOK, NoMisdelivery, Queued,
       Travelling, redis, pubsub, process, server, client
<1>2. WorkOK'
  BY DEF IInv, LoginRemove, WorkOK, At, Goto, work, client, LoginPc, OneChatPc, GroupPc
<1>3. TableOK'
  <2>1. \A u \in Users : \/ offlineMessage'[u] = offlineMessage[u]
                         \/ offlineMessage'[u] = None
    BY DEF LoginRemove, IInv, TypeOK, MySQLTypes
  <2>2. \A m \in Msgs : ~(None[m] > 0)
    BY SMT DEF None
  <2> QED
    BY <2>1, <2>2 DEF IInv, AddressOK, TableOK
<1>4. RowsOK'
  BY DEF IInv, AddressOK, LoginRemove, RowsOK, Goto, work
<1> QED
  BY <1>1, <1>2, <1>3, <1>4 DEF AddressOK

LEMMA LoginReplyAddresses ==
    ASSUME IInv, NEW c \in Conns, LoginReply(c)
    PROVE  (WorkOK /\ MapOK /\ AddressOK /\ NoMisdelivery)'
<1>1. (MapOK /\ TableOK /\ QueueOK /\ ChannelOK)'
  BY DEF IInv, AddressOK, LoginReply, MapOK, TableOK, QueueOK, ChannelOK, Queued,
       Travelling, mysql, redis, pubsub, process, server, client
<1>2. WorkOK'
  BY DEF IInv, TypeOK, LoginReply, WorkOK, Receive, Goto, client, LoginPc, LeavePc, OneChatPc,
     GroupPc, HandlerTypes
<1>3. RowsOK'
  BY DEF IInv, AddressOK, TypeOK, LoginReply, RowsOK, None, Goto, HandlerTypes
<1>4. NoMisdelivery'
  <2>1. account[c] = user[c] /\ rows[c] \in [Msgs -> Nat]
    BY DEF LoginReply, At, IInv, WorkOK, LoginPc, TypeOK, HandlerTypes
  <2>2. \A m \in Msgs : rows[c][m] > 0 => user[c] \in Addressees[m]
    BY DEF IInv, AddressOK, RowsOK
  <2> QED
    BY <2>1, <2>2, ReceiveAddressed DEF LoginReply, IInv
<1> QED
  BY <1>1, <1>2, <1>3, <1>4 DEF AddressOK

-----------------------------------------------------------------------------
(* Steps of logout() and clientCloseException().                           *)

LEMMA LogoutBeginAddresses ==
    ASSUME IInv, NEW c \in Conns, LogoutBegin(c)
    PROVE  (WorkOK /\ MapOK /\ AddressOK /\ NoMisdelivery)'
<1>1. (TableOK /\ QueueOK /\ ChannelOK /\ NoMisdelivery)'
  BY DEF IInv, AddressOK, LogoutBegin, TableOK, QueueOK, ChannelOK, NoMisdelivery, Queued,
       Travelling, mysql, redis, pubsub, outcome
<1>2. WorkOK'
  BY DEF IInv, TypeOK, LogoutBegin, WorkOK, Goto, outcome, LoginPc, OneChatPc, GroupPc,
     HandlerTypes, ClientTypes
<1>3. MapOK'
  BY DEF IInv, TypeOK, LogoutBegin, MapOK, Evict, ProcessTypes
<1>4. RowsOK'
  BY DEF IInv, AddressOK, LogoutBegin, RowsOK, At, Goto
<1> QED
  BY <1>1, <1>2, <1>3, <1>4 DEF AddressOK

LEMMA CloseBeginAddresses ==
    ASSUME IInv, NEW c \in Conns, CloseBegin(c)
    PROVE  (WorkOK /\ MapOK /\ AddressOK /\ NoMisdelivery)'
<1>1. (TableOK /\ QueueOK /\ ChannelOK /\ NoMisdelivery)'
  BY DEF IInv, AddressOK, CloseBegin, TableOK, QueueOK, ChannelOK, NoMisdelivery, Queued,
       Travelling, mysql, redis, pubsub, outcome
<1>2. WorkOK'
  <2>1. pc[c] = "idle" /\ lost' = lost /\ msg' = msg /\ todo' = todo
    BY DEF CloseBegin, At, outcome
  <2>2. \/ pc' = pc /\ user' = user
        \/ \E u \in Users : /\ pc' = [pc EXCEPT ![c] = "unsubscribe"]
                            /\ user' = [user EXCEPT ![c] = u]
    BY DEF CloseBegin, Goto
  <2>3. \A d \in Conns \ {c} :
            account'[d] = account[d] /\ pc'[d] = pc[d] /\ user'[d] = user[d]
    BY <2>2 DEF CloseBegin, IInv, TypeOK, ClientTypes, HandlerTypes
  <2>4. pc'[c] = "idle" \/ (pc'[c] = "unsubscribe" /\ user'[c] \in Users)
    <3>1. pc \in [Conns -> PcValues] /\ user \in [Conns -> Users \cup {NoUser}]
      BY DEF IInv, TypeOK, HandlerTypes
    <3>2. CASE pc' = pc
      BY <2>1, <3>2
    <3>3. ASSUME NEW u \in Users, pc' = [pc EXCEPT ![c] = "unsubscribe"],
                 user' = [user EXCEPT ![c] = u]
          PROVE  pc'[c] = "unsubscribe" /\ user'[c] \in Users
      BY <3>1, <3>3
    <3> QED
      BY <2>2, <3>2, <3>3
  <2> QED
    BY <2>1, <2>3, <2>4, SMT DEF IInv, WorkOK, LoginPc, LeavePc, OneChatPc, GroupPc
<1>3. MapOK'
  <2>1. \A s \in Servers, u \in Users :
            /\ userConnMap'[s][u] = userConnMap[s][u] \/ userConnMap'[s][u] = NoConn
            /\ userConnMap'[s][u] # c \/ c = NoConn
    <3> SUFFICES ASSUME NEW s \in Servers, NEW u \in Users
                 PROVE  /\ userConnMap'[s][u] = userConnMap[s][u] \/ userConnMap'[s][u] = NoConn
                        /\ userConnMap'[s][u] # c \/ c = NoConn
      OBVIOUS
    <3>1. userConnMap[s][u] = c => s = host[c] /\ account[c] = u
      BY ChatAssumption DEF IInv, MapOK
    <3>2. CASE userConnMap' = userConnMap /\ \A v \in Users : ~Serves(c, v)
      BY <3>1, <3>2 DEF Serves
    <3>3. CASE \E v \in Users : Serves(c, v) /\ Evict(host[c], v)
      <4>1. PICK v \in Users : Serves(c, v) /\ Evict(host[c], v)
        BY <3>3
      <4>2. account[c] = v
        BY <4>1, ChatAssumption, HostType DEF IInv, MapOK, Serves
      <4> QED
        BY <3>1, <4>1, <4>2, ChatAssumption, HostType DEF Evict, IInv, TypeOK, ProcessTypes
    <3> QED
      BY <3>2, <3>3 DEF CloseBegin
  <2>2. \A d \in Conns \ {c} : account'[d] = account[d]
    BY DEF CloseBegin, IInv, TypeOK, ClientTypes
  <2>3. userConnMap \in [Servers -> [Users -> Conns \cup {NoConn}]]
    BY DEF IInv, TypeOK, ProcessTypes
  <2> QED
    BY <2>1, <2>2, <2>3, ChatAssumption DEF IInv, MapOK
<1>4. RowsOK'
  BY DEF IInv, AddressOK, TypeOK, CloseBegin, RowsOK, At, Goto, HandlerTypes
<1> QED
  BY <1>1, <1>2, <1>3, <1>4 DEF AddressOK

LEMMA LeaveUnsubscribeAddresses ==
    ASSUME IInv, NEW c \in Conns, LeaveUnsubscribe(c)
    PROVE  (WorkOK /\ MapOK /\ AddressOK /\ NoMisdelivery)'
<1>1. (MapOK /\ TableOK /\ QueueOK /\ ChannelOK /\ NoMisdelivery)'
  BY DEF IInv, AddressOK, LeaveUnsubscribe, MapOK, TableOK, QueueOK, ChannelOK,
       NoMisdelivery, Queued, Travelling, mysql, process, server, client, outcome
<1>2. WorkOK'
  BY DEF IInv, LeaveUnsubscribe, WorkOK, At, Goto, work, client, outcome, LoginPc, LeavePc,
     OneChatPc, GroupPc
<1>3. RowsOK'
  BY DEF IInv, AddressOK, LeaveUnsubscribe, RowsOK, At, Goto, work
<1> QED
  BY <1>1, <1>2, <1>3 DEF AddressOK

LEMMA LeaveDeleteAddresses ==
    ASSUME IInv, NEW c \in Conns, LeaveDelete(c)
    PROVE  (WorkOK /\ MapOK /\ AddressOK /\ NoMisdelivery)'
<1>1. (MapOK /\ TableOK /\ QueueOK /\ ChannelOK /\ NoMisdelivery)'
  BY DEF IInv, AddressOK, LeaveDelete, MapOK, TableOK, QueueOK, ChannelOK, NoMisdelivery,
       Queued, Travelling, mysql, pubsub, process, server, client, outcome
<1>2. WorkOK'
  BY DEF IInv, LeaveDelete, WorkOK, At, Goto, work, client, outcome, LoginPc, LeavePc,
     OneChatPc, GroupPc
<1>3. RowsOK'
  BY DEF IInv, AddressOK, LeaveDelete, RowsOK, At, Goto, work
<1> QED
  BY <1>1, <1>2, <1>3 DEF AddressOK

LEMMA LeaveOfflineAddresses ==
    ASSUME IInv, NEW c \in Conns, LeaveOffline(c)
    PROVE  (WorkOK /\ MapOK /\ AddressOK /\ NoMisdelivery)'
<1>1. (MapOK /\ TableOK /\ ChannelOK /\ NoMisdelivery)'
  BY DEF IInv, AddressOK, LeaveOffline, MapOK, TableOK, ChannelOK, NoMisdelivery,
       Travelling, mysql, redis, pubsub, server, client, outcome
<1>2. WorkOK'
  BY DEF IInv, TypeOK, LeaveOffline, WorkOK, Goto, client, outcome, LoginPc, LeavePc,
     OneChatPc, GroupPc, HandlerTypes
<1>3. RowsOK'
  BY DEF IInv, AddressOK, LeaveOffline, RowsOK, At, Goto
<1>4. QueueOK'
  <2>1. StateTask(user[c], "Offline").type # "offline"
    BY DEF StateTask
  <2> QED
    BY <2>1, HostType, PushTaskAddressed DEF LeaveOffline, MarkOffline, IInv, AddressOK
<1> QED
  BY <1>1, <1>2, <1>3, <1>4 DEF AddressOK

-----------------------------------------------------------------------------
(* Steps of oneChat().                                                     *)

LEMMA ChatBeginAddresses ==
    ASSUME IInv, NEW c \in Conns, NEW m \in Msgs, ChatBegin(c, m)
    PROVE  (WorkOK /\ MapOK /\ AddressOK /\ NoMisdelivery)'
<1>1. (MapOK /\ TableOK /\ QueueOK /\ ChannelOK)'
  BY DEF IInv, AddressOK, ChatBegin, MapOK, TableOK, QueueOK, ChannelOK, Queued,
       Travelling, mysql, redis, pubsub, process, server
<1>2. WorkOK'
  BY ChatAssumption DEF IInv, TypeOK, ChatBegin, WorkOK, HandOver, Goto, outcome, LoginPc,
     GroupPc, Receive, HandlerTypes
<1>3. RowsOK'
  BY DEF IInv, AddressOK, TypeOK, ChatBegin, RowsOK, Take, Goto, At, HandlerTypes
<1>4. NoMisdelivery'
  <2>1. PICK u \in Addressees[m] :
            \/ userConnMap[host[c]][u] # NoConn /\ HandOver(c, u, m)
            \/ UNCHANGED outcome
    BY DEF ChatBegin
  <2>2. CASE UNCHANGED outcome
    BY <2>2 DEF IInv, NoMisdelivery, outcome
  <2>3. CASE userConnMap[host[c]][u] # NoConn /\ HandOver(c, u, m)
    <3>1. u \in Users /\ userConnMap[host[c]][u] \in Conns
      BY <2>3, ChatAssumption, HostType DEF IInv, TypeOK, ProcessTypes
    <3>2. account[userConnMap[host[c]][u]] = u
      BY <2>3, <3>1, HostType DEF IInv, MapOK
    <3> QED
      BY <2>3, <3>1, <3>2, BagTypes, OneOnly, ReceiveAddressed DEF HandOver, IInv
  <2> QED
    BY <2>1, <2>2, <2>3
<1> QED
  BY <1>1, <1>2, <1>3, <1>4 DEF AddressOK

LEMMA ChatGetAddresses ==
    ASSUME IInv, NEW c \in Conns, ChatGet(c)
    PROVE  (WorkOK /\ MapOK /\ AddressOK /\ NoMisdelivery)'
<1>1. (MapOK /\ TableOK /\ QueueOK /\ ChannelOK /\ NoMisdelivery)'
  BY DEF IInv, AddressOK, ChatGet, MapOK, TableOK, QueueOK, ChannelOK, NoMisdelivery,
       Queued, Travelling, mysql, redis, pubsub, process, server, client, outcome
<1>2. WorkOK'
  BY ChatAssumption DEF IInv, ChatGet, WorkOK, At, Goto, work, client, outcome, LoginPc,
     OneChatPc, GroupPc
<1>3. RowsOK'
  BY DEF IInv, AddressOK, ChatGet, RowsOK, At, Goto, work
<1> QED
  BY <1>1, <1>2, <1>3 DEF AddressOK

LEMMA ChatStateAddresses ==
    ASSUME IInv, NEW c \in Conns, ChatState(c)
    PROVE  (WorkOK /\ MapOK /\ AddressOK /\ NoMisdelivery)'
<1>1. (MapOK /\ TableOK /\ QueueOK /\ ChannelOK /\ NoMisdelivery)'
  BY DEF IInv, AddressOK, ChatState, MapOK, TableOK, QueueOK, ChannelOK, NoMisdelivery,
       Queued, Travelling, mysql, redis, pubsub, process, server, client
<1>2. WorkOK'
  BY ChatAssumption DEF IInv, TypeOK, ChatState, WorkOK, At, Goto, client, LoginPc, LeavePc,
     OneChatPc, GroupPc, HandlerTypes
<1>3. RowsOK'
  BY DEF IInv, AddressOK, TypeOK, ChatState, RowsOK, At, Goto, HandlerTypes
<1> QED
  BY <1>1, <1>2, <1>3 DEF AddressOK

LEMMA ChatPublishAddresses ==
    ASSUME IInv, NEW c \in Conns, ChatPublish(c)
    PROVE  (WorkOK /\ MapOK /\ AddressOK /\ NoMisdelivery)'
<1>1. (MapOK /\ TableOK /\ QueueOK /\ NoMisdelivery)'
  BY DEF IInv, AddressOK, ChatPublish, MapOK, TableOK, QueueOK, NoMisdelivery, Queued,
       mysql, process, server, client
<1>2. WorkOK'
  BY DEF IInv, TypeOK, ChatPublish, WorkOK, Publish, Finish, client, LoginPc, LeavePc,
     OneChatPc, GroupPc, Goto, HandlerTypes
<1>3. RowsOK'
  BY DEF IInv, AddressOK, ChatPublish, RowsOK, At, Finish, Goto
<1>4. ChannelOK'
  <2>1. msg[c] \in Msgs /\ user[c] \in Addressees[msg[c]]
    BY DEF ChatPublish, At, IInv, WorkOK, OneChatPc
  <2> QED
    BY <2>1, PublishAddressed DEF ChatPublish, IInv, AddressOK
<1> QED
  BY <1>1, <1>2, <1>3, <1>4 DEF AddressOK

LEMMA ChatStoreAddresses ==
    ASSUME IInv, NEW c \in Conns, ChatStore(c)
    PROVE  (WorkOK /\ MapOK /\ AddressOK /\ NoMisdelivery)'
<1>1. (MapOK /\ TableOK /\ ChannelOK /\ NoMisdelivery)'
  BY DEF IInv, AddressOK, ChatStore, MapOK, TableOK, ChannelOK, NoMisdelivery, Travelling,
       mysql, redis, pubsub, server, client
<1>2. WorkOK'
  BY DEF IInv, TypeOK, ChatStore, WorkOK, Finish, client, LoginPc, LeavePc, OneChatPc, GroupPc,
     Goto, HandlerTypes
<1>3. RowsOK'
  BY DEF IInv, AddressOK, ChatStore, RowsOK, At, Finish, Goto
<1>4. QueueOK'
  <2>1. msg[c] \in Msgs /\ user[c] \in Addressees[msg[c]] \cup {NoUser}
    BY DEF ChatStore, At, IInv, WorkOK, OneChatPc
  <2>2. /\ OfflineTask(user[c], msg[c]).msg = msg[c]
        /\ OfflineTask(user[c], msg[c]).user = user[c]
    BY DEF OfflineTask
  <2> QED
    BY <2>1, <2>2, HostType, PushTaskAddressed DEF ChatStore, KeepOffline, IInv, AddressOK
<1> QED
  BY <1>1, <1>2, <1>3, <1>4 DEF AddressOK

-----------------------------------------------------------------------------
(* Steps of groupChat().                                                   *)

LEMMA GroupBeginAddresses ==
    ASSUME IInv, NEW c \in Conns, NEW m \in Msgs, GroupBegin(c, m)
    PROVE  (WorkOK /\ MapOK /\ AddressOK /\ NoMisdelivery)'
<1>1. (MapOK /\ TableOK /\ QueueOK /\ ChannelOK /\ NoMisdelivery)'
  BY DEF IInv, AddressOK, GroupBegin, MapOK, TableOK, QueueOK, ChannelOK, NoMisdelivery,
       Queued, Travelling, mysql, redis, pubsub, process, server
<1>2. WorkOK'
  BY DEF IInv, TypeOK, GroupBegin, WorkOK, Goto, LoginPc, LeavePc, OneChatPc, HandlerTypes
<1>3. RowsOK'
  BY DEF IInv, AddressOK, GroupBegin, RowsOK, Take, Goto, At
<1> QED
  BY <1>1, <1>2, <1>3 DEF AddressOK

LEMMA GroupLockAddresses ==
    ASSUME IInv, NEW c \in Conns, GroupLock(c)
    PROVE  (WorkOK /\ MapOK /\ AddressOK /\ NoMisdelivery)'
<1>1. (MapOK /\ TableOK /\ QueueOK /\ ChannelOK /\ NoMisdelivery)'
  BY DEF IInv, AddressOK, GroupLock, MapOK, TableOK, QueueOK, ChannelOK, NoMisdelivery,
       Queued, Travelling, mysql, redis, pubsub, client, outcome
<1>2. WorkOK'
  BY DEF IInv, GroupLock, WorkOK, At, Goto, work, client, outcome, LoginPc, LeavePc, OneChatPc,
     GroupPc
<1>3. RowsOK'
  BY DEF IInv, AddressOK, GroupLock, RowsOK, At, Goto, work
<1> QED
  BY <1>1, <1>2, <1>3 DEF AddressOK

LEMMA GroupMemberAddresses ==
    ASSUME IInv, NEW c \in Conns, GroupMember(c)
    PROVE  (WorkOK /\ MapOK /\ AddressOK /\ NoMisdelivery)'
<1>1. (MapOK /\ TableOK /\ QueueOK /\ ChannelOK)'
  BY DEF IInv, AddressOK, GroupMember, MapOK, TableOK, QueueOK, ChannelOK, Queued,
       Travelling, mysql, redis, pubsub, process, server, client
<1>2. WorkOK'
  <2>1. /\ msg' = msg /\ account' = account /\ c \in Conns
        /\ pc \in [Conns -> PcValues] /\ pc[c] = "member"
    BY DEF GroupMember, client, At, IInv, TypeOK, HandlerTypes
  <2>2. PICK u \in todo[c] :
            \/ pc' = pc /\ user' = user
            \/ user' = [user EXCEPT ![c] = u] /\ (Goto(c, "gpublish") \/ Goto(c, "gstore"))
    BY DEF GroupMember
  <2>3. /\ msg[c] \in GroupMsgs /\ todo[c] \subseteq Addressees[msg[c]]
        /\ user \in [Conns -> Users \cup {NoUser}] /\ todo \in [Conns -> SUBSET Users]
    BY <2>1 DEF IInv, TypeOK, HandlerTypes, WorkOK, GroupPc
  <2>4. todo'[c] \subseteq todo[c] /\ \A d \in Conns \ {c} : todo'[d] = todo[d]
    BY <2>3 DEF GroupMember
  <2>5. ASSUME NEW d \in Conns
        PROVE  \/ pc'[d] = pc[d] /\ user'[d] = user[d]
               \/ d = c /\ user'[d] = u /\ pc'[d] \in {"gpublish", "gstore"}
    BY <2>1, <2>2, <2>3 DEF Goto
  <2>6. WorkOK
    BY DEF IInv
  <2>7. lost \subseteq lost'
    BY DEF GroupMember, Receive
  <2> QED
    BY ONLY <2>1, <2>2, <2>3, <2>4, <2>5, <2>6, <2>7 DEF WorkOK, LoginPc, LeavePc, OneChatPc, GroupPc
<1>3. RowsOK'
  BY DEF IInv, AddressOK, TypeOK, GroupMember, RowsOK, At, Goto, client, pubsub, server,
     traffic, HandlerTypes
<1>4. NoMisdelivery'
  <2>1. PICK u \in todo[c] :
            \/ /\ userConnMap[host[c]][u] # NoConn
               /\ Receive(userConnMap[host[c]][u], u, One(msg[c]))
            \/ UNCHANGED <<got, lost>>
    BY DEF GroupMember
  <2>2. CASE UNCHANGED <<got, lost>>
    BY <2>2 DEF IInv, NoMisdelivery
  <2>3. CASE /\ userConnMap[host[c]][u] # NoConn
             /\ Receive(userConnMap[host[c]][u], u, One(msg[c]))
    <3>1. msg[c] \in Msgs /\ u \in Addressees[msg[c]]
      BY ChatAssumption DEF GroupMember, At, IInv, WorkOK, GroupPc
    <3>2. u \in Users /\ userConnMap[host[c]][u] \in Conns
      BY <2>3, <3>1, ChatAssumption, HostType DEF IInv, TypeOK, ProcessTypes
    <3>3. account[userConnMap[host[c]][u]] = u
      BY <2>3, <3>2, HostType DEF IInv, MapOK
    <3> QED
      BY <2>3, <3>1, <3>2, <3>3, BagTypes, OneOnly, ReceiveAddressed DEF IInv
  <2> QED
    BY <2>1, <2>2, <2>3
<1> QED
  BY <1>1, <1>2, <1>3, <1>4 DEF AddressOK

LEMMA GroupPublishAddresses ==
    ASSUME IInv, NEW c \in Conns, GroupPublish(c)
    PROVE  (WorkOK /\ MapOK /\ AddressOK /\ NoMisdelivery)'
<1>1. (MapOK /\ TableOK /\ QueueOK /\ NoMisdelivery)'
  BY DEF IInv, AddressOK, GroupPublish, MapOK, TableOK, QueueOK, NoMisdelivery, Queued,
       mysql, process, server, client
<1>2. WorkOK'
  BY DEF IInv, TypeOK, GroupPublish, WorkOK, At, Publish, NextMember, client, LoginPc, LeavePc,
     OneChatPc, GroupPc, Goto, HandlerTypes
<1>3. RowsOK'
  BY DEF IInv, AddressOK, GroupPublish, RowsOK, At, NextMember, Goto
<1>4. ChannelOK'
  <2>1. msg[c] \in Msgs /\ user[c] \in Addressees[msg[c]]
    BY ChatAssumption DEF GroupPublish, At, IInv, WorkOK, GroupPc
  <2> QED
    BY <2>1, PublishAddressed DEF GroupPublish, IInv, AddressOK
<1> QED
  BY <1>1, <1>2, <1>3, <1>4 DEF AddressOK

LEMMA GroupStoreAddresses ==
    ASSUME IInv, NEW c \in Conns, GroupStore(c)
    PROVE  (WorkOK /\ MapOK /\ AddressOK /\ NoMisdelivery)'
<1>1. (MapOK /\ TableOK /\ ChannelOK /\ NoMisdelivery)'
  BY DEF IInv, AddressOK, GroupStore, MapOK, TableOK, ChannelOK, NoMisdelivery,
       Travelling, mysql, redis, pubsub, server, client, outcome
<1>2. WorkOK'
  BY DEF IInv, TypeOK, GroupStore, WorkOK, At, NextMember, client, outcome, LoginPc, LeavePc,
     OneChatPc, GroupPc, Goto, HandlerTypes
<1>3. RowsOK'
  BY DEF IInv, AddressOK, GroupStore, RowsOK, At, NextMember, Goto
<1>4. QueueOK'
  <2>1. msg[c] \in Msgs /\ user[c] \in Addressees[msg[c]]
    BY ChatAssumption DEF GroupStore, At, IInv, WorkOK, GroupPc
  <2>2. /\ OfflineTask(user[c], msg[c]).msg = msg[c]
        /\ OfflineTask(user[c], msg[c]).user = user[c]
    BY DEF OfflineTask
  <2> QED
    BY <2>1, <2>2, HostType, PushTaskAddressed DEF GroupStore, KeepOffline, IInv, AddressOK
<1> QED
  BY <1>1, <1>2, <1>3, <1>4 DEF AddressOK

LEMMA GroupEndAddresses ==
    ASSUME IInv, NEW c \in Conns, GroupEnd(c)
    PROVE  (WorkOK /\ MapOK /\ AddressOK /\ NoMisdelivery)'
<1>1. (MapOK /\ TableOK /\ QueueOK /\ ChannelOK /\ NoMisdelivery)'
  BY DEF IInv, AddressOK, GroupEnd, MapOK, TableOK, QueueOK, ChannelOK, NoMisdelivery,
       Queued, Travelling, mysql, redis, pubsub, client
<1>2. WorkOK'
  BY DEF IInv, TypeOK, GroupEnd, WorkOK, Finish, client, LoginPc, LeavePc, OneChatPc, GroupPc,
     Goto, HandlerTypes
<1>3. RowsOK'
  BY DEF IInv, AddressOK, GroupEnd, RowsOK, At, Finish, Goto
<1> QED
  BY <1>1, <1>2, <1>3 DEF AddressOK

-----------------------------------------------------------------------------
(* Steps of the other threads, and Redis.                                  *)

LEMMA WorkerAddresses ==
    ASSUME IInv, NEW s \in Servers, Worker(s)
    PROVE  (WorkOK /\ MapOK /\ AddressOK /\ NoMisdelivery)'
<1>1. (MapOK /\ RowsOK /\ ChannelOK /\ NoMisdelivery)'
  BY DEF IInv, AddressOK, Worker, MapOK, RowsOK, ChannelOK, NoMisdelivery, Travelling,
       redis, pubsub, server, handler, work, client
<1>2. WorkOK'
  BY DEF IInv, Worker, WorkOK, handler, client, work
<1>3. TableOK'
  <2> DEFINE t == Head(dbQueue[s])
  <2>1. t.type = "offline" => t.msg \in Msgs /\ t.user \in Addressees[t.msg] \cup {NoUser}
    <3>1. t \in Queued(s)
      BY HeadTail DEF Worker, Queued, IInv, TypeOK, ProcessTypes
    <3> QED
      BY <3>1 DEF IInv, AddressOK, QueueOK
  <2>2. \/ offlineMessage' = offlineMessage
        \/ /\ t.type = "offline" /\ t.user # NoUser
           /\ offlineMessage' = [offlineMessage EXCEPT ![t.user][t.msg] = @ + 1]
    BY DEF Worker, Apply, mysql
  <2> HIDE DEF t
  <2>3. offlineMessage \in [Users -> [Msgs -> Nat]]
    BY DEF IInv, TypeOK, MySQLTypes
  <2>4. \A u \in Users, m \in Msgs : offlineMessage'[u][m] = offlineMessage[u][m]
                                     \/ (u = t.user /\ m = t.msg /\ t.type = "offline" /\ t.user # NoUser)
    BY <2>2, <2>3, OneMore
  <2> QED
    BY <2>1, <2>4 DEF IInv, AddressOK, TableOK
<1>4. QueueOK'
  <2>1. \A r \in Servers : \A t \in Queued(r)' : t \in Queued(r)
    <3> SUFFICES ASSUME NEW r \in Servers, NEW k \in 1..Len(dbQueue'[r])
                 PROVE  \E i \in 1..Len(dbQueue[r]) : dbQueue'[r][k] = dbQueue[r][i]
      BY DEF Queued
    <3>1. CASE r = s
      <4>1. dbQueue'[s] = Tail(dbQueue[s]) /\ dbQueue[s] # <<>> /\ dbQueue[s] \in Seq(DbTaskArgs)
        BY DEF Worker, IInv, TypeOK, ProcessTypes
      <4> QED
        BY <3>1, <4>1, HeadTail
    <3>2. CASE r # s
      BY <3>2 DEF Worker, IInv, TypeOK, ProcessTypes
    <3> QED
      BY <3>1, <3>2
  <2> QED
    BY <2>1 DEF IInv, AddressOK, QueueOK
<1> QED
  BY <1>1, <1>2, <1>3, <1>4 DEF AddressOK

LEMMA RedisSubscriberAddresses ==
    ASSUME IInv, NEW s \in Servers, RedisSubscriber(s)
    PROVE  (WorkOK /\ MapOK /\ AddressOK /\ NoMisdelivery)'
<1>1. (WorkOK /\ MapOK /\ TableOK /\ RowsOK /\ QueueOK /\ ChannelOK /\ NoMisdelivery)'
  BY DEF IInv, AddressOK, RedisSubscriber, WorkOK, MapOK, TableOK, RowsOK, QueueOK,
       ChannelOK, NoMisdelivery, Queued, Travelling, mysql, process, server, handler, work,
       client, outcome
<1> QED
  BY <1>1 DEF AddressOK

LEMMA ObserveAddresses ==
    ASSUME IInv, NEW s \in Servers, Observe(s)
    PROVE  (WorkOK /\ MapOK /\ AddressOK /\ NoMisdelivery)'
<1>1. (MapOK /\ RowsOK /\ QueueOK)'
  <2>1. UNCHANGED <<userConnMap, host, account, rows, pc, user, dbQueue>>
    BY DEF Observe, process, server, handler, work, client
  <2> QED
    BY <2>1 DEF IInv, AddressOK, MapOK, RowsOK, QueueOK, Queued
<1>2. WorkOK'
  <2>1. UNCHANGED <<pc, user, msg, todo, account>>
    BY DEF Observe, handler, work, client
  <2>2. lost \subseteq lost'
    BY DEF Observe, Receive
  <2> QED
    BY <2>1, <2>2 DEF IInv, WorkOK
<1>3. TableOK'
  <2> DEFINE u == Head(channel[s])[1]
             m == Head(channel[s])[2]
  <2>1. u \in Addressees[m]
    <3>1. Head(channel[s]) \in Travelling(s)
      BY HeadTail DEF Observe, Travelling, IInv, TypeOK, RedisTypes
    <3> QED
      BY <3>1 DEF IInv, AddressOK, ChannelOK
  <2>2. \/ offlineMessage' = offlineMessage
        \/ offlineMessage' = [offlineMessage EXCEPT ![u][m] = @ + 1]
    BY DEF Observe, mysql
  <2> HIDE DEF u, m
  <2>3. offlineMessage \in [Users -> [Msgs -> Nat]]
    BY DEF IInv, TypeOK, MySQLTypes
  <2>4. \A v \in Users, k \in Msgs : offlineMessage'[v][k] = offlineMessage[v][k] \/ (v = u /\ k = m)
    BY <2>2, <2>3, OneMore
  <2> QED
    BY <2>1, <2>4 DEF IInv, AddressOK, TableOK
<1>4. ChannelOK'
  <2>1. \A r \in Servers : \A d \in Travelling(r)' : d \in Travelling(r)
    <3> SUFFICES ASSUME NEW r \in Servers, NEW k \in 1..Len(channel'[r])
                 PROVE  \E i \in 1..Len(channel[r]) : channel'[r][k] = channel[r][i]
      BY DEF Travelling
    <3>1. CASE r = s
      <4>1. channel'[s] = Tail(channel[s]) /\ channel[s] # <<>> /\ channel[s] \in Seq(Users \X Msgs)
        BY DEF Observe, IInv, TypeOK, RedisTypes
      <4> QED
        BY <3>1, <4>1, HeadTail
    <3>2. CASE r # s
      BY <3>2 DEF Observe, IInv, TypeOK, RedisTypes
    <3> QED
      BY <3>1, <3>2
  <2> QED
    BY <2>1 DEF IInv, AddressOK, ChannelOK
<1>5. NoMisdelivery'
  <2> DEFINE u == Head(channel[s])[1]
             m == Head(channel[s])[2]
  <2>1. u \in Users /\ m \in Msgs /\ u \in Addressees[m]
    <3>1. Head(channel[s]) \in Travelling(s) /\ Head(channel[s]) \in Users \X Msgs
      BY HeadTail DEF Observe, Travelling, IInv, TypeOK, RedisTypes
    <3> QED
      BY <3>1 DEF IInv, AddressOK, ChannelOK
  <2>2. \/ userConnMap[s][u] # NoConn /\ Receive(userConnMap[s][u], u, One(m))
        \/ got' = got
    BY DEF Observe
  <2> HIDE DEF u, m
  <2>3. CASE got' = got
    BY <2>3 DEF IInv, NoMisdelivery
  <2>4. CASE userConnMap[s][u] # NoConn /\ Receive(userConnMap[s][u], u, One(m))
    <3>1. userConnMap[s][u] \in Conns /\ account[userConnMap[s][u]] = u
      BY <2>1, <2>4 DEF IInv, TypeOK, ProcessTypes, MapOK
    <3> QED
      BY <2>1, <2>4, <3>1, BagTypes, OneOnly, ReceiveAddressed DEF IInv
  <2> QED
    BY <2>2, <2>3, <2>4
<1> QED
  BY <1>1, <1>2, <1>3, <1>4, <1>5 DEF AddressOK

LEMMA KeyExpireAddresses ==
    ASSUME IInv, NEW u \in Users, KeyExpire(u)
    PROVE  (WorkOK /\ MapOK /\ AddressOK /\ NoMisdelivery)'
<1>1. (WorkOK /\ MapOK /\ TableOK /\ RowsOK /\ QueueOK /\ ChannelOK /\ NoMisdelivery)'
  BY DEF IInv, AddressOK, KeyExpire, WorkOK, MapOK, TableOK, RowsOK, QueueOK, ChannelOK,
       NoMisdelivery, Queued, Travelling, mysql, pubsub, process, server, handler, work,
       client, outcome
<1> QED
  BY <1>1 DEF AddressOK

-----------------------------------------------------------------------------
(* Steps of the end of a process.                                          *)

LEMMA CrashAddresses ==
    ASSUME IInv, NEW s \in Servers, Crash(s)
    PROVE  (WorkOK /\ MapOK /\ AddressOK /\ NoMisdelivery)'
<1>1. (TableOK)'
  BY DEF IInv, AddressOK, Crash, TableOK, mysql
<1>2. WorkOK'
  BY DEF IInv, Crash, WorkOK, Stop, LoginPc, LeavePc, OneChatPc, GroupPc
<1>3. MapOK'
  BY DEF IInv, TypeOK, Crash, MapOK, Stop, ProcessTypes
<1>4. RowsOK'
  BY DEF IInv, AddressOK, Crash, RowsOK, Stop, None
<1>5. QueueOK'
  BY DEF IInv, AddressOK, Crash, QueueOK, Stop, Queued
<1>6. ChannelOK'
  BY DEF IInv, AddressOK, Crash, ChannelOK, Stop, Travelling
<1>7. NoMisdelivery'
  BY DEF IInv, Crash, NoMisdelivery, Stop
<1> QED
  BY <1>1, <1>2, <1>3, <1>4, <1>5, <1>6, <1>7 DEF AddressOK

LEMMA ResetStateAddresses ==
    ASSUME IInv, NEW s \in Servers, ResetState(s)
    PROVE  (WorkOK /\ MapOK /\ AddressOK /\ NoMisdelivery)'
<1>1. (WorkOK /\ MapOK /\ TableOK /\ RowsOK /\ QueueOK /\ ChannelOK /\ NoMisdelivery)'
  BY DEF IInv, AddressOK, ResetState, WorkOK, MapOK, TableOK, RowsOK, QueueOK, ChannelOK,
       NoMisdelivery, Queued, Travelling, redis, pubsub, handler, work, client, outcome
<1> QED
  BY <1>1 DEF AddressOK

LEMMA ExitAddresses ==
    ASSUME IInv, NEW s \in Servers, Exit(s)
    PROVE  (WorkOK /\ MapOK /\ AddressOK /\ NoMisdelivery)'
<1>1. (TableOK)'
  BY DEF IInv, AddressOK, Exit, TableOK, mysql
<1>2. WorkOK'
  BY DEF IInv, Exit, WorkOK, Stop, LoginPc, LeavePc, OneChatPc, GroupPc
<1>3. MapOK'
  BY DEF IInv, TypeOK, Exit, MapOK, Stop, ProcessTypes
<1>4. RowsOK'
  BY DEF IInv, AddressOK, Exit, RowsOK, Stop, None
<1>5. QueueOK'
  BY DEF IInv, AddressOK, Exit, QueueOK, Stop, Queued
<1>6. ChannelOK'
  BY DEF IInv, AddressOK, Exit, ChannelOK, Stop, Travelling
<1>7. NoMisdelivery'
  BY DEF IInv, Exit, NoMisdelivery, Stop
<1> QED
  BY <1>1, <1>2, <1>3, <1>4, <1>5, <1>6, <1>7 DEF AddressOK

LEMMA RestartAddresses ==
    ASSUME IInv, NEW s \in Servers, Restart(s)
    PROVE  (WorkOK /\ MapOK /\ AddressOK /\ NoMisdelivery)'
<1>1. (WorkOK /\ MapOK /\ TableOK /\ RowsOK /\ QueueOK /\ ChannelOK /\ NoMisdelivery)'
  BY DEF IInv, AddressOK, Restart, WorkOK, MapOK, TableOK, RowsOK, QueueOK, ChannelOK,
       NoMisdelivery, Queued, Travelling, mysql, redis, pubsub, handler, work, client, outcome
<1> QED
  BY <1>1 DEF AddressOK
=============================================================================
