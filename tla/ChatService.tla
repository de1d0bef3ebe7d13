------------------------------ MODULE ChatService ------------------------------
(***************************************************************************)
(* The chat servers and everything they share: the handlers of             *)
(* src/src/server/chatservice.cpp that deal with presence and with         *)
(* messages, run by the I/O threads of one or several server processes,    *)
(* the database worker of each process, the subscriber thread of each      *)
(* process, Redis (presence keys and publish/subscribe) and the two MySQL  *)
(* tables they read and write.                                             *)
(*                                                                         *)
(* Each connection is given a thread of its own: its handlers run one      *)
(* after the other, those of different connections interleave at every     *)
(* call that leaves the process or takes a lock.  A server restarts with   *)
(* an empty memory; MySQL and Redis survive it.                            *)
(***************************************************************************)
EXTENDS Naturals, Sequences

CONSTANTS Servers, Users, Conns, Msgs,
          host,         \* the server a connection reaches (load balancer)
          LoginAs,      \* the accounts the person at a client can log in as
          From,         \* the account a message is sent from
          Addressees,   \* the accounts it is for
          GroupMsgs,    \* the messages sent by groupChat; the others: oneChat
          Patient,      \* accounts whose owner logs in again only after the
                        \* previous connection has been dealt with
          Steady,       \* clients logged in before the behaviour starts, who
                        \* neither log out nor leave
          RacyRedis,    \* TRUE: threads disturb each other's Redis commands
          NoUser, NoConn, NoMsg,
          RetryMax,     \* resends of a message (RETRY_MAX of public.hpp)
          MaxLogins,    \* bound: logins accepted in a behaviour
          MaxFaults,    \* bound: MySQL calls that fail
          MaxCrashes    \* bound: server processes that stop

ASSUME ChatAssumption ==
    /\ host \in [Conns -> Servers]
    /\ LoginAs \in [Conns -> SUBSET Users]
    /\ From \in [Msgs -> Users]
    /\ Addressees \in [Msgs -> SUBSET Users]
    /\ GroupMsgs \subseteq Msgs
    /\ \A m \in Msgs \ GroupMsgs : \E u \in Users : Addressees[m] = {u}
    /\ NoUser \notin Users /\ NoConn \notin Conns /\ NoMsg \notin Msgs
    /\ Steady \subseteq Conns
    /\ \A c \in Steady : \E u \in Users : LoginAs[c] = {u}
    /\ \A c, d \in Steady : LoginAs[c] = LoginAs[d] => c = d
    /\ RacyRedis \in BOOLEAN
    /\ {RetryMax, MaxLogins, MaxFaults, MaxCrashes} \subseteq Nat

VARIABLES
    \* MySQL
    userState,      \* user.state
    offlineMessage, \* offlinemessage: rows per user and message
    \* Redis
    onlineKey,      \* the key of the user exists
    subscribed,     \* channels each server process is subscribed to
    subPipe,        \* SUBSCRIBE/UNSUBSCRIBE commands written, not processed
    channel,        \* messages on their way to the subscriber thread
    \* a server process
    running,        \* "up", "stopping" (between reset and exit) or "down"
    userConnMap,    \* _userConnMap
    connMutex,      \* the connection whose groupChat holds _connMutex
    dbQueue,        \* DbTaskQueue
    \* the handler running for a connection
    pc, user, msg,  \* where it is, the account and the message it works on
    todo,           \* members groupChat has still to serve
    rows,           \* offline messages login has read
    \* clients
    link,           \* none, open, closing (client gone), closed
    account,        \* ghost: the account in use on the connection
    sentOn,         \* the connection a message was sent on
    inflight,       \* copies of a message on their way to the server
    tries,          \* copies of a message sent
    acked,          \* messages whose sender has received the ACK
    got,            \* copies of a message received, by account in use
    lost,           \* ghost: <<account, message, cause>> of dropped copies
    \* bounds
    logins, faults, crashes

mysql   == <<userState, offlineMessage>>
pubsub  == <<subscribed, subPipe, channel>>
redis   == <<onlineKey, pubsub>>
server  == <<running, userConnMap, connMutex>>
process == <<server, dbQueue>>
work    == <<user, msg, todo, rows>>
handler == <<pc, work>>
traffic == <<sentOn, inflight, tries>>
client  == <<link, account, traffic>>
outcome == <<acked, got, lost>>
bounds  == <<logins, faults, crashes>>

vars == <<mysql, redis, process, handler, client, outcome, bounds>>

-----------------------------------------------------------------------------
(* Values.                                                                 *)

None == [m \in Msgs |-> 0]
One(m) == [k \in Msgs |-> IF k = m THEN 1 ELSE 0]

StateTask(u, st) == [type |-> "state", user |-> u, state |-> st, msg |-> NoMsg]
OfflineTask(u, m) ==
    [type |-> "offline", user |-> u, state |-> "Offline", msg |-> m]

LoginPc == {"insert", "subscribe", "set", "online", "query", "remove", "reply"}
LeavePc == {"unsubscribe", "delete", "offline"}
OneChatPc == {"get", "state", "publish", "store"}
GroupPc == {"lock", "member", "gpublish", "gstore"}

\* Steps that talk over _publish_context.
PublishContextPc == {"set", "delete", "get", "publish", "gpublish"}

Up(s) == running[s] # "down"
At(c, p) == pc[c] = p /\ Up(host[c])
Goto(c, p) == pc' = [pc EXCEPT ![c] = p]

-----------------------------------------------------------------------------
\* The account of a steady client.
Owner(c) == CHOOSE u \in Users : LoginAs[c] = {u}

SteadyOn(s) == {Owner(c) : c \in {d \in Steady : host[d] = s}}

SteadyUsers == {Owner(c) : c \in Steady}

Init ==
    /\ userState = [u \in Users |-> IF u \in SteadyUsers THEN "Online" ELSE "Offline"]
    /\ offlineMessage = [u \in Users |-> None]
    /\ onlineKey = [u \in Users |-> u \in SteadyUsers]
    /\ subscribed = [s \in Servers |-> SteadyOn(s)]
    /\ subPipe = [s \in Servers |-> <<>>]
    /\ channel = [s \in Servers |-> <<>>]
    /\ running = [s \in Servers |-> "up"]
    /\ userConnMap = [s \in Servers |-> [u \in Users |->
           IF u \in SteadyOn(s) THEN CHOOSE c \in Steady : Owner(c) = u ELSE NoConn]]
    /\ connMutex = [s \in Servers |-> NoConn]
    /\ dbQueue = [s \in Servers |-> <<>>]
    /\ pc = [c \in Conns |-> "idle"]
    /\ user = [c \in Conns |-> NoUser]
    /\ msg = [c \in Conns |-> NoMsg]
    /\ todo = [c \in Conns |-> {}]
    /\ rows = [c \in Conns |-> None]
    /\ link = [c \in Conns |-> IF c \in Steady THEN "open" ELSE "none"]
    /\ account = [c \in Conns |-> IF c \in Steady THEN Owner(c) ELSE NoUser]
    /\ sentOn = [m \in Msgs |-> NoConn]
    /\ inflight = None
    /\ tries = None
    /\ acked = {}
    /\ got = [u \in Users |-> None]
    /\ lost = {}
    /\ logins = 0 /\ faults = 0 /\ crashes = 0

-----------------------------------------------------------------------------
(* What the handlers share.                                                *)

\* conn->send of the messages in bag, for u.  A client that is gone gets
\* nothing, and the server is not told.
Receive(c, u, bag) ==
    IF link[c] = "open"
    THEN /\ got' = [got EXCEPT ![account[c]] =
                       [m \in Msgs |-> @[m] + bag[m]]]
         /\ UNCHANGED lost
    ELSE /\ lost' = lost \cup
                {<<u, m, "closed">> : m \in {k \in Msgs : bag[k] > 0}}
         /\ UNCHANGED got

\* Mutant of ACKToClient: the message id is the one of the last handler.
ACKToClient_Stale(c, m) ==
    acked' = IF link[c] = "open" THEN acked \cup {msg[c]} ELSE acked

\* ACKToClient(conn, msgId), for a chat message.
ACKToClient(c, m) ==
    acked' = IF link[c] = "open" THEN acked \cup {m} ELSE acked

\* Mutant of PushTask: a stack.
PushTask_Front(s, t) == dbQueue' = [dbQueue EXCEPT ![s] = <<t>> \o @]

\* DbTaskQueue::push: at the end of the queue of this process.
PushTask(s, t) == dbQueue' = [dbQueue EXCEPT ![s] = Append(@, t)]

\* Redis hands a published message to every process subscribed; without one
\* it is gone.
Publish(u, m) ==
    LET at == {s \in Servers : u \in subscribed[s]} IN
    /\ channel' = [s \in Servers |-> IF s \in at THEN Append(channel[s], <<u, m>>)
                                                 ELSE channel[s]]
    /\ lost' = IF at = {} THEN lost \cup {<<u, m, "nobody">>} ELSE lost

\* Another thread of the process is in the middle of a command on
\* _publish_context, which hiredis does not protect.
Disturbed(c) ==
    /\ RacyRedis
    /\ \E d \in Conns \ {c} : host[d] = host[c] /\ pc[d] \in PublishContextPc

\* redisAppendCommand and redisBufferWrite on _subscribe_context: the
\* command is on its way, or it is lost to another thread doing the same.
WriteCommand(c, op) ==
    \/ subPipe' = [subPipe EXCEPT ![host[c]] = Append(@, <<op, user[c]>>)]
    \/ /\ RacyRedis
       /\ \E d \in Conns \ {c} : /\ host[d] = host[c]
                                 /\ pc[d] \in {"subscribe", "unsubscribe"}
       /\ UNCHANGED subPipe

\* A MySQL call fails: no connection, or the statement is refused.
Fault == faults < MaxFaults /\ faults' = faults + 1

\* Mutant of MapFree: the lock is not taken.
MapFree_Ignored(s) == TRUE

\* The lock of the connection map is free.
MapFree(s) == connMutex[s] = NoConn

-----------------------------------------------------------------------------
(* Clients.  They act as they please; a chat is only typed in the menu of  *)
(* a session.                                                              *)

Connect(c) ==
    /\ link[c] = "none"
    /\ running[host[c]] = "up"
    /\ link' = [link EXCEPT ![c] = "open"]
    /\ UNCHANGED <<mysql, redis, process, handler, account, traffic, outcome, bounds>>

\* The client process ends; what it sent last may or may not arrive.
ClientExit(c) ==
    /\ link[c] = "open" /\ c \notin Steady
    /\ link' = [link EXCEPT ![c] = "closing"]
    /\ \/ UNCHANGED inflight
       \/ inflight' = [m \in Msgs |-> IF sentOn[m] = c THEN 0 ELSE inflight[m]]
    /\ UNCHANGED <<mysql, redis, process, handler, account, sentOn, tries, outcome, bounds>>

InSession(c, u) == link[c] = "open" /\ account[c] = u /\ pc[c] \notin LoginPc

\* chat() and groupchat() of the client: the frame is registered and sent.
Send(c, m) ==
    /\ InSession(c, From[m])
    /\ tries[m] = 0
    /\ sentOn' = [sentOn EXCEPT ![m] = c]
    /\ inflight' = [inflight EXCEPT ![m] = 1]
    /\ tries' = [tries EXCEPT ![m] = 1]
    /\ UNCHANGED <<mysql, redis, process, handler, link, account, outcome, bounds>>

\* checkTimeOutAndResend, two seconds after the last copy: no bound relates
\* that to the time the server takes.  It goes on after a logout.
Resend(m) ==
    /\ tries[m] \in 1..RetryMax
    /\ m \notin acked
    /\ link[sentOn[m]] = "open"
    /\ inflight' = [inflight EXCEPT ![m] = @ + 1]
    /\ tries' = [tries EXCEPT ![m] = @ + 1]
    /\ UNCHANGED <<mysql, redis, process, handler, link, account, sentOn, outcome, bounds>>

-----------------------------------------------------------------------------
(* login().                                                                *)

\* The server has dealt with every connection u has used.
Settled(u) ==
    /\ \A c \in Conns : account[c] # u /\ ~(pc[c] \in LeavePc /\ user[c] = u)
    /\ \A s \in Servers : userConnMap[s][u] = NoConn

\* No copy sent on c is waiting for its handler: requests keep their order.
Drained(c) == \A m \in Msgs : sentOn[m] = c => inflight[m] = 0

\* The test of the state read with the account.
Accepts(u) == userState[u] # "Online"

\* _userModel.query: the state read here decides; what it costs to refuse
\* (already online, wrong password, failed query) is a reply that changes
\* nothing.
LoginAccept(c, u) ==
    /\ At(c, "idle") /\ link[c] = "open" /\ account[c] = NoUser /\ Drained(c)
    /\ u \in LoginAs[c]
    /\ u \in Patient => Settled(u)
    /\ logins < MaxLogins
    /\ Accepts(u)
    /\ Goto(c, "insert")
    /\ user' = [user EXCEPT ![c] = u]
    /\ account' = [account EXCEPT ![c] = u]
    /\ logins' = logins + 1
    /\ UNCHANGED <<mysql, redis, process, msg, todo, rows, link, traffic, outcome, faults, crashes>>

\* unordered_map::insert keeps the entry that is there.
MapInsert(s, u, c) ==
    userConnMap' = [userConnMap EXCEPT ![s][u] = IF @ = NoConn THEN c ELSE @]

LoginInsert(c) ==
    /\ At(c, "insert")
    /\ MapFree(host[c])
    /\ MapInsert(host[c], user[c], c)
    /\ Goto(c, "subscribe")
    /\ UNCHANGED <<mysql, redis, running, connMutex, dbQueue, work, client, outcome, bounds>>

LoginSubscribe(c) ==
    /\ At(c, "subscribe")
    /\ WriteCommand(c, "subscribe")
    /\ Goto(c, "set")
    /\ UNCHANGED <<mysql, onlineKey, subscribed, channel, process, work, client, outcome, bounds>>

LoginSet(c) ==
    /\ At(c, "set")
    /\ onlineKey' = [onlineKey EXCEPT ![user[c]] = TRUE]
    /\ Goto(c, "online")
    /\ UNCHANGED <<mysql, pubsub, process, work, client, outcome, bounds>>

LoginOnline(c) ==
    /\ At(c, "online")
    /\ PushTask(host[c], StateTask(user[c], "Online"))
    /\ Goto(c, "query")
    /\ UNCHANGED <<mysql, redis, server, work, client, outcome, bounds>>

\* _offlineMsgModel.query; a failed query reads as no row.
LoginQuery(c) ==
    /\ At(c, "query")
    /\ \/ rows' = [rows EXCEPT ![c] = offlineMessage[user[c]]] /\ UNCHANGED faults
       \/ rows' = [rows EXCEPT ![c] = None] /\ Fault
    /\ Goto(c, IF rows'[c] = None THEN "reply" ELSE "remove")
    /\ UNCHANGED <<mysql, redis, process, user, msg, todo, client, outcome, logins, crashes>>

\* _offlineMsgModel.remove deletes by user: rows that came after the query
\* go too.
LoginRemove(c) ==
    /\ At(c, "remove")
    /\ \/ /\ offlineMessage' = [offlineMessage EXCEPT ![user[c]] = None]
          /\ lost' = lost \cup
                {<<user[c], m, "unread">> : m \in
                    {k \in Msgs : offlineMessage[user[c]][k] > rows[c][k]}}
          /\ UNCHANGED faults
       \/ UNCHANGED <<offlineMessage, lost>> /\ Fault
    /\ Goto(c, "reply")
    /\ UNCHANGED <<userState, redis, process, work, client, acked, got, logins, crashes>>

\* The reply, with the offline messages.
LoginReply(c) ==
    /\ At(c, "reply")
    /\ Receive(c, user[c], rows[c])
    /\ rows' = [rows EXCEPT ![c] = None]
    /\ Goto(c, "idle")
    /\ user' = [user EXCEPT ![c] = NoUser]
    /\ UNCHANGED <<mysql, redis, process, msg, todo, client, acked, bounds>>

Login(c) == \/ LoginInsert(c) \/ LoginSubscribe(c) \/ LoginSet(c)
            \/ LoginOnline(c) \/ LoginQuery(c) \/ LoginRemove(c) \/ LoginReply(c)

-----------------------------------------------------------------------------
(* logout() and clientCloseException().                                    *)

\* Mutant of Evict: the entry stays.
Evict_Forgotten(s, u) == UNCHANGED userConnMap

\* Erasing the entry of u.
Evict(s, u) == userConnMap' = [userConnMap EXCEPT ![s][u] = NoConn]

\* logout erases by account, whatever connection the entry names.
LogoutBegin(c) ==
    /\ c \notin Steady
    /\ At(c, "idle") /\ link[c] = "open" /\ account[c] # NoUser /\ Drained(c)
    /\ MapFree(host[c])
    /\ Evict(host[c], account[c])
    /\ Goto(c, "unsubscribe")
    /\ user' = [user EXCEPT ![c] = account[c]]
    /\ account' = [account EXCEPT ![c] = NoUser]
    /\ UNCHANGED <<mysql, redis, running, connMutex, dbQueue, msg, todo, rows, link, traffic, outcome, bounds>>

\* Mutant of Serves: the connection is not compared.
Serves_Any(c, u) == userConnMap[host[c]][u] # NoConn

\* The entry of u names connection c.
Serves(c, u) == userConnMap[host[c]][u] = c

\* The close callback erases the first entry with this connection, and acts
\* for its account; without one it acts for account -1, which nobody has.
CloseBegin(c) ==
    /\ At(c, "idle") /\ link[c] = "closing" /\ Drained(c)
    /\ MapFree(host[c])
    /\ link' = [link EXCEPT ![c] = "closed"]
    /\ account' = [account EXCEPT ![c] = NoUser]
    /\ \/ \E u \in Users :
             /\ Serves(c, u)
             /\ Evict(host[c], u)
             /\ Goto(c, "unsubscribe")
             /\ user' = [user EXCEPT ![c] = u]
       \/ /\ \A u \in Users : ~Serves(c, u)
          /\ UNCHANGED <<userConnMap, pc, user>>
    /\ UNCHANGED <<mysql, redis, running, connMutex, dbQueue, msg, todo, rows, traffic, outcome, bounds>>

LeaveUnsubscribe(c) ==
    /\ At(c, "unsubscribe")
    /\ WriteCommand(c, "unsubscribe")
    /\ Goto(c, "delete")
    /\ UNCHANGED <<mysql, onlineKey, subscribed, channel, process, work, client, outcome, bounds>>

LeaveDelete(c) ==
    /\ At(c, "delete")
    /\ onlineKey' = [onlineKey EXCEPT ![user[c]] = FALSE]
    /\ Goto(c, "offline")
    /\ UNCHANGED <<mysql, pubsub, process, work, client, outcome, bounds>>

\* Mutant of MarkOffline: only a logout changes the state.
MarkOffline_LogoutOnly(c) ==
    IF link[c] = "closed" THEN UNCHANGED dbQueue
                          ELSE PushTask(host[c], StateTask(user[c], "Offline"))

MarkOffline(c) == PushTask(host[c], StateTask(user[c], "Offline"))

LeaveOffline(c) ==
    /\ At(c, "offline")
    /\ MarkOffline(c)
    /\ Goto(c, "idle")
    /\ user' = [user EXCEPT ![c] = NoUser]
    /\ UNCHANGED <<mysql, redis, server, msg, todo, rows, client, outcome, bounds>>

Leave(c) == LeaveUnsubscribe(c) \/ LeaveDelete(c) \/ LeaveOffline(c)

-----------------------------------------------------------------------------
(* oneChat().                                                              *)

\* A handler starts with a copy of m sent on c.
Take(c, m) ==
    /\ At(c, "idle") /\ link[c] \in {"open", "closing"}
    /\ sentOn[m] = c /\ inflight[m] > 0
    /\ inflight' = [inflight EXCEPT ![m] = @ - 1]

\* The recipient is on this server: its frame, then the sender's ACK, under
\* the lock.
HandOver(c, u, m) ==
    /\ Receive(userConnMap[host[c]][u], u, One(m))
    /\ ACKToClient(c, m)

ChatBegin(c, m) ==
    /\ m \notin GroupMsgs
    /\ Take(c, m)
    /\ MapFree(host[c])
    /\ \E u \in Addressees[m] :
          \/ /\ userConnMap[host[c]][u] # NoConn
             /\ HandOver(c, u, m)
             /\ UNCHANGED <<pc, user, msg>>
          \/ /\ userConnMap[host[c]][u] = NoConn
             /\ msg' = [msg EXCEPT ![c] = m]
             /\ user' = [user EXCEPT ![c] = u]
             /\ Goto(c, "get")
             /\ UNCHANGED outcome
    /\ UNCHANGED <<mysql, redis, process, todo, rows, link, account, sentOn, tries, bounds>>

\* _redis.Get: a disturbed command returns the reply to another thread's.
ChatGet(c) ==
    /\ At(c, "get")
    /\ \E hit \in BOOLEAN :
          /\ hit = onlineKey[user[c]] \/ Disturbed(c)
          /\ Goto(c, IF hit THEN "publish" ELSE "state")
    /\ UNCHANGED <<mysql, redis, process, work, client, outcome, bounds>>

\* _userModel.query.  When it fails the account is -1 and its state the
\* default one: the message will be filed for nobody.
ChatState(c) ==
    /\ At(c, "state")
    /\ \/ /\ Goto(c, IF userState[user[c]] = "Online" THEN "publish" ELSE "store")
          /\ UNCHANGED <<user, lost, faults>>
       \/ /\ Fault
          /\ Goto(c, "store")
          /\ user' = [user EXCEPT ![c] = NoUser]
          /\ lost' = lost \cup {<<user[c], msg[c], "fault">>}
    /\ UNCHANGED <<mysql, redis, process, msg, todo, rows, client, acked, got, logins, crashes>>

\* The end of a chat handler.
Finish(c) ==
    /\ Goto(c, "idle")
    /\ user' = [user EXCEPT ![c] = NoUser]
    /\ msg' = [msg EXCEPT ![c] = NoMsg]

\* Mutant of AfterPublish: the ACK the early return leaves out.
AfterPublish_Ack(c) == ACKToClient(c, msg[c])

\* oneChat returns from here without ACKToClient.
AfterPublish(c) == UNCHANGED acked

\* Mutant of ChatPublish: the return after publish is missing.
ChatPublish_FallsThrough(c) ==
    /\ At(c, "publish")
    /\ Publish(user[c], msg[c])
    /\ Goto(c, "store")
    /\ UNCHANGED <<mysql, onlineKey, subscribed, subPipe, process, work, client, acked, got, bounds>>

ChatPublish(c) ==
    /\ At(c, "publish")
    /\ Publish(user[c], msg[c])
    /\ AfterPublish(c)
    /\ Finish(c)
    /\ UNCHANGED <<mysql, onlineKey, subscribed, subPipe, process, todo, rows, client, got, bounds>>

\* Mutant of KeepOffline: only the ACK is sent.
KeepOffline_Dropped(c) == UNCHANGED dbQueue

\* The message is handed to the database worker.
KeepOffline(c) == PushTask(host[c], OfflineTask(user[c], msg[c]))

ChatStore(c) ==
    /\ At(c, "store")
    /\ KeepOffline(c)
    /\ ACKToClient(c, msg[c])
    /\ Finish(c)
    /\ UNCHANGED <<mysql, redis, server, todo, rows, client, got, lost, bounds>>

OneChat(c) == \/ \E m \in Msgs : ChatBegin(c, m)
              \/ ChatGet(c) \/ ChatState(c) \/ ChatPublish(c) \/ ChatStore(c)

-----------------------------------------------------------------------------
(* groupChat().                                                            *)

\* queryGroupUsers; a failed query reads as a group without members.
GroupBegin(c, m) ==
    /\ m \in GroupMsgs
    /\ Take(c, m)
    /\ \/ /\ todo' = [todo EXCEPT ![c] = Addressees[m]]
          /\ UNCHANGED <<lost, faults>>
       \/ /\ Fault
          /\ todo' = [todo EXCEPT ![c] = {}]
          /\ lost' = lost \cup {<<u, m, "fault">> : u \in Addressees[m]}
    /\ msg' = [msg EXCEPT ![c] = m]
    /\ Goto(c, "lock")
    /\ UNCHANGED <<mysql, redis, process, user, rows, link, account, sentOn, tries, acked, got, logins, crashes>>

\* The lock_guard lives to the end of the function, over the queries too.
GroupLock(c) ==
    /\ At(c, "lock")
    /\ MapFree(host[c])
    /\ connMutex' = [connMutex EXCEPT ![host[c]] = c]
    /\ Goto(c, "member")
    /\ UNCHANGED <<mysql, redis, running, userConnMap, dbQueue, work, client, outcome, bounds>>

\* One member: in the map, or else by the state in the database (a failed
\* query reads as not online).
GroupMember(c) ==
    /\ At(c, "member")
    /\ \E u \in todo[c] :
         /\ todo' = [todo EXCEPT ![c] = @ \ {u}]
         /\ \/ /\ userConnMap[host[c]][u] # NoConn
               /\ Receive(userConnMap[host[c]][u], u, One(msg[c]))
               /\ UNCHANGED <<pc, user, faults>>
            \/ /\ userConnMap[host[c]][u] = NoConn
               /\ user' = [user EXCEPT ![c] = u]
               /\ \/ /\ Goto(c, IF userState[u] = "Online" THEN "gpublish"
                                                           ELSE "gstore")
                     /\ UNCHANGED faults
                  \/ Goto(c, "gstore") /\ Fault
               /\ UNCHANGED <<got, lost>>
    /\ UNCHANGED <<mysql, redis, process, msg, rows, client, acked, logins, crashes>>

NextMember(c) ==
    /\ Goto(c, "member")
    /\ user' = [user EXCEPT ![c] = NoUser]

GroupPublish(c) ==
    /\ At(c, "gpublish")
    /\ Publish(user[c], msg[c])
    /\ NextMember(c)
    /\ UNCHANGED <<mysql, onlineKey, subscribed, subPipe, process, msg, todo, rows, client, acked, got, bounds>>

GroupStore(c) ==
    /\ At(c, "gstore")
    /\ KeepOffline(c)
    /\ NextMember(c)
    /\ UNCHANGED <<mysql, redis, server, msg, todo, rows, client, outcome, bounds>>

\* Mutant of GroupEnd: the lock is not released.
GroupEnd_Locked(c) ==
    /\ At(c, "member")
    /\ todo[c] = {}
    /\ ACKToClient(c, msg[c])
    /\ Finish(c)
    /\ UNCHANGED <<mysql, redis, process, todo, rows, client, got, lost, bounds>>

\* Whatever became of the copies, the sender gets its ACK.
GroupEnd(c) ==
    /\ At(c, "member")
    /\ todo[c] = {}
    /\ ACKToClient(c, msg[c])
    /\ connMutex' = [connMutex EXCEPT ![host[c]] = NoConn]
    /\ Finish(c)
    /\ UNCHANGED <<mysql, redis, running, userConnMap, dbQueue, todo, rows, client, got, lost, bounds>>

GroupChat(c) == \/ \E m \in Msgs : GroupBegin(c, m)
                \/ GroupLock(c) \/ GroupMember(c) \/ GroupPublish(c)
                \/ GroupStore(c) \/ GroupEnd(c)

-----------------------------------------------------------------------------
(* The other threads of a server process, and Redis.                       *)

\* Mutant of Apply: the switch has no case for offline messages.
Apply_NoRow(t) ==
    /\ userState' = IF t.type = "state" THEN [userState EXCEPT ![t.user] = t.state]
                                       ELSE userState
    /\ UNCHANGED offlineMessage

\* What a task does to the tables when its statement succeeds.
Apply(t) ==
    \/ /\ t.type = "state"
       /\ userState' = [userState EXCEPT ![t.user] = t.state]
       /\ UNCHANGED offlineMessage
    \/ /\ t.type = "offline" /\ t.user # NoUser
       /\ offlineMessage' = [offlineMessage EXCEPT ![t.user][t.msg] = @ + 1]
       /\ UNCHANGED userState
    \/ /\ t.type = "offline" /\ t.user = NoUser   \* a row nobody reads
       /\ UNCHANGED mysql

\* dbWork: the oldest task, once; a failed one is dropped.
Worker(s) ==
    /\ Up(s) /\ dbQueue[s] # <<>>
    /\ LET t == Head(dbQueue[s]) IN
         \/ Apply(t) /\ UNCHANGED <<lost, faults>>
         \/ /\ Fault
            /\ lost' = IF t.type = "offline" THEN lost \cup {<<t.user, t.msg, "fault">>}
                                             ELSE lost
            /\ UNCHANGED mysql
    /\ dbQueue' = [dbQueue EXCEPT ![s] = Tail(@)]
    /\ UNCHANGED <<redis, server, handler, client, acked, got, logins, crashes>>

\* Redis processes the next command of the subscriber connection of s.
RedisSubscriber(s) ==
    /\ Up(s) /\ subPipe[s] # <<>>
    /\ LET command == Head(subPipe[s]) IN
         subscribed' = [subscribed EXCEPT ![s] =
             IF command[1] = "subscribe" THEN @ \cup {command[2]}
                                         ELSE @ \ {command[2]}]
    /\ subPipe' = [subPipe EXCEPT ![s] = Tail(@)]
    /\ UNCHANGED <<mysql, onlineKey, channel, process, handler, client, outcome, bounds>>

\* Mutant of Observe: what comes for an account that has left is dropped.
Observe_Dropped(s) ==
    /\ Up(s) /\ channel[s] # <<>> /\ MapFree(s)
    /\ LET u == Head(channel[s])[1]
           m == Head(channel[s])[2]
       IN  \/ /\ userConnMap[s][u] # NoConn
              /\ onlineKey' = [onlineKey EXCEPT ![u] = TRUE]
              /\ Receive(userConnMap[s][u], u, One(m))
           \/ userConnMap[s][u] = NoConn /\ UNCHANGED <<onlineKey, got, lost>>
    /\ channel' = [channel EXCEPT ![s] = Tail(@)]
    /\ UNCHANGED <<mysql, subscribed, subPipe, process, handler, client, acked, bounds>>

\* handleRedisSubscribeMessage, all of it under the lock: the account is
\* here, or its message goes to the table (when the statement succeeds).
Observe(s) ==
    /\ Up(s) /\ channel[s] # <<>> /\ MapFree(s)
    /\ LET u == Head(channel[s])[1]
           m == Head(channel[s])[2]
       IN  \/ /\ userConnMap[s][u] # NoConn
              /\ onlineKey' = [onlineKey EXCEPT ![u] = TRUE]
              /\ Receive(userConnMap[s][u], u, One(m))
              /\ UNCHANGED <<mysql, faults>>
           \/ /\ userConnMap[s][u] = NoConn
              /\ offlineMessage' = [offlineMessage EXCEPT ![u][m] = @ + 1]
              /\ UNCHANGED <<userState, onlineKey, got, lost, faults>>
           \/ /\ userConnMap[s][u] = NoConn
              /\ Fault
              /\ lost' = lost \cup {<<u, m, "fault">>}
              /\ UNCHANGED <<mysql, onlineKey, got>>
    /\ channel' = [channel EXCEPT ![s] = Tail(@)]
    /\ UNCHANGED <<subscribed, subPipe, process, handler, client, acked, logins, crashes>>

\* The key of an account lives 120 seconds after the last Set.
KeyExpire(u) ==
    /\ onlineKey[u]
    /\ onlineKey' = [onlineKey EXCEPT ![u] = FALSE]
    /\ UNCHANGED <<mysql, pubsub, process, handler, client, outcome, bounds>>

-----------------------------------------------------------------------------
(* The end of a process: its memory is gone, its sockets close, Redis      *)
(* forgets its subscriptions.  The presence keys and the tables stay.      *)

Queued(s) == {dbQueue[s][i] : i \in 1..Len(dbQueue[s])}
Travelling(s) == {channel[s][i] : i \in 1..Len(channel[s])}

Stop(s) ==
    LET of(c) == host[c] = s IN
    /\ running' = [running EXCEPT ![s] = "down"]
    /\ lost' = lost
         \cup {<<t.user, t.msg, "crash">> : t \in {k \in Queued(s) : k.type = "offline"}}
         \cup {<<d[1], d[2], "crash">> : d \in Travelling(s)}
         \cup UNION {{<<user[c], m, "crash">> : m \in {k \in Msgs : rows[c][k] > 0}} :
                        c \in {d \in Conns : of(d) /\ pc[d] = "reply"}}
    /\ userConnMap' = [userConnMap EXCEPT ![s] = [u \in Users |-> NoConn]]
    /\ connMutex' = [connMutex EXCEPT ![s] = NoConn]
    /\ dbQueue' = [dbQueue EXCEPT ![s] = <<>>]
    /\ subscribed' = [subscribed EXCEPT ![s] = {}]
    /\ subPipe' = [subPipe EXCEPT ![s] = <<>>]
    /\ channel' = [channel EXCEPT ![s] = <<>>]
    /\ pc' = [c \in Conns |-> IF of(c) THEN "idle" ELSE pc[c]]
    /\ user' = [c \in Conns |-> IF of(c) THEN NoUser ELSE user[c]]
    /\ msg' = [c \in Conns |-> IF of(c) THEN NoMsg ELSE msg[c]]
    /\ todo' = [c \in Conns |-> IF of(c) THEN {} ELSE todo[c]]
    /\ rows' = [c \in Conns |-> IF of(c) THEN None ELSE rows[c]]
    /\ link' = [c \in Conns |-> IF of(c) /\ link[c] # "none" THEN "closed"
                                                             ELSE link[c]]
    /\ account' = [c \in Conns |-> IF of(c) THEN NoUser ELSE account[c]]
    /\ inflight' = [m \in Msgs |-> IF sentOn[m] # NoConn /\ of(sentOn[m])
                                   THEN 0 ELSE inflight[m]]
    /\ UNCHANGED <<onlineKey, sentOn, tries, acked, got>>

\* The process is killed, or dies of an exception nobody catches.
Crash(s) ==
    /\ running[s] = "up"
    /\ crashes < MaxCrashes
    /\ crashes' = crashes + 1
    /\ Stop(s)
    /\ UNCHANGED <<mysql, logins, faults>>

\* Ctrl-C: resetState() sets every account that is online offline, those of
\* the other servers too, while the other threads of the process go on.
ResetState(s) ==
    /\ running[s] = "up"
    /\ crashes < MaxCrashes
    /\ crashes' = crashes + 1
    /\ running' = [running EXCEPT ![s] = "stopping"]
    /\ userState' = [u \in Users |-> "Offline"]
    /\ UNCHANGED <<offlineMessage, redis, userConnMap, connMutex, dbQueue, handler, client, outcome, logins, faults>>

\* exit(0), after reset().
Exit(s) ==
    /\ running[s] = "stopping"
    /\ Stop(s)
    /\ UNCHANGED <<mysql, bounds>>

Restart(s) ==
    /\ running[s] = "down"
    /\ running' = [running EXCEPT ![s] = "up"]
    /\ UNCHANGED <<mysql, redis, userConnMap, connMutex, dbQueue, handler, client, outcome, bounds>>

-----------------------------------------------------------------------------
\* What the system does by itself, once asked.
Handler(c) == Login(c) \/ Leave(c) \/ CloseBegin(c) \/ OneChat(c) \/ GroupChat(c)
Background(s) == Worker(s) \/ RedisSubscriber(s) \/ Observe(s)

Next ==
    \/ \E c \in Conns :
          \/ Connect(c) \/ ClientExit(c)
          \/ \E m \in Msgs : Send(c, m)
          \/ \E u \in Users : LoginAccept(c, u)
          \/ LogoutBegin(c)
          \/ Handler(c)
    \/ \E m \in Msgs : Resend(m)
    \/ \E s \in Servers :
          Background(s) \/ Crash(s) \/ ResetState(s) \/ Exit(s) \/ Restart(s)
    \/ \E u \in Users : KeyExpire(u)

Spec == Init /\ [][Next]_vars

(***************************************************************************)
(* Every thread of a server runs on, a lock that is free is obtained, and  *)
(* Redis processes what it was sent.  Nothing is assumed of the clients,   *)
(* of time (resends, expiry) or of faults.                                 *)
(***************************************************************************)
Fairness == /\ \A c \in Conns : WF_vars(Handler(c))
            /\ \A s \in Servers : /\ WF_vars(Worker(s))
                                  /\ WF_vars(RedisSubscriber(s))
                                  /\ WF_vars(Observe(s))

FairSpec == Spec /\ Fairness
=============================================================================
