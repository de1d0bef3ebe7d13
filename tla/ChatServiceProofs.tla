-------------------------- MODULE ChatServiceProofs --------------------------
(***************************************************************************)
(* What is proved of ChatService for every number of servers, accounts,    *)
(* connections and messages, whatever the bounds: types, isolation, what   *)
(* an ACK means, the freeze of the map.  ChatPresenceProofs has presence.  *)
(***************************************************************************)
EXTENDS ChatSteps, SequenceTheorems

(***************************************************************************)
(* No action loses a copy of a message that is kept without recording how: *)
(* what was received stays received, and a row, a task, a publication or   *)
(* an answer becomes another of them, or a loss.                           *)
(***************************************************************************)
(* A handler that moves, and is not answering a login, leaves the answers  *)
(* of the others alone.                                                    *)
LEMMA AnsweredElsewhere ==
    ASSUME NEW c \in Conns, NEW u, NEW m, pc[c] # "reply", Answered(u, m),
           \A d \in Conns \ {c} : pc'[d] = pc[d] /\ user'[d] = user[d] /\ rows'[d] = rows[d]
    PROVE  Answered(u, m)'
  BY DEF Answered

(* What is received stays received, what is lost stays lost.               *)
LEMMA ReceiveKeeps ==
    ASSUME TypeOK, NEW c \in Conns, NEW u, NEW bag \in [Msgs -> Nat], Receive(c, u, bag),
           NEW v \in Users, NEW k \in Msgs
    PROVE  lost \subseteq lost' /\ (Received(v, k) => Received(v, k)')
<1>1. got[v][k] \in Nat /\ bag[k] \in Nat /\ got \in [Users -> [Msgs -> Nat]]
  BY DEF TypeOK, OutcomeTypes
<1>2. lost \subseteq lost'
  BY DEF Receive
<1>3. got'[v][k] = got[v][k] \/ got'[v][k] = got[v][k] + bag[k]
  BY <1>1 DEF Receive
<1> QED
  BY <1>1, <1>2, <1>3 DEF Received

(* What is sent on the connection of its account is received, or lost with *)
(* the client.                                                             *)
LEMMA ReceiveArrives ==
    ASSUME TypeOK, NEW c \in Conns, NEW u \in Users, NEW bag \in [Msgs -> Nat],
           Receive(c, u, bag), account[c] = u, NEW m \in Msgs, bag[m] > 0
    PROVE  Safe(u, m)'
<1>1. got[u][m] \in Nat /\ got \in [Users -> [Msgs -> Nat]]
  BY DEF TypeOK, OutcomeTypes
<1>2. CASE link[c] = "open"
  <2>1. got'[u][m] = got[u][m] + bag[m]
    BY <1>1, <1>2 DEF Receive
  <2> QED
    BY <1>1, <2>1 DEF Safe, Kept, Received
<1>3. CASE link[c] # "open"
  <2>1. <<u, m, "closed">> \in lost'
    BY <1>3 DEF Receive
  <2> QED
    BY <2>1 DEF Safe, LostBy, Dropped, Causes
<1> QED
  BY <1>2, <1>3

(* Publishing takes nothing from a channel.                                *)
LEMMA PublishKeeps ==
    ASSUME TypeOK, NEW w \in Users, NEW n \in Msgs, Publish(w, n), NEW u, NEW m, Published(u, m)
    PROVE  Published(u, m)'
<1>1. PICK s \in Servers : \E i \in 1..Len(channel[s]) : channel[s][i] = <<u, m>>
  BY DEF Published, Travelling
<1> PICK i \in 1..Len(channel[s]) : channel[s][i] = <<u, m>>
  BY <1>1
<1>2. channel[s] \in Seq(Users \X Msgs)
  BY DEF TypeOK, RedisTypes
<1>3. i \in 1..Len(channel'[s]) /\ channel'[s][i] = channel[s][i]
  <2>1. channel'[s] = channel[s] \/ channel'[s] = Append(channel[s], <<w, n>>)
    BY DEF Publish
  <2>2. CASE channel'[s] = channel[s]
    BY <2>2
  <2>3. CASE channel'[s] = Append(channel[s], <<w, n>>)
    BY <1>2, <2>3
  <2> QED
    BY <2>1, <2>2, <2>3
<1> QED
  BY <1>1, <1>3 DEF Published, Travelling

(* An element of a queue is its head or remains in its tail.               *)
LEMMA InTail ==
    ASSUME NEW S, NEW q \in Seq(S), q # <<>>, NEW i \in 1..Len(q)
    PROVE  q[i] = Head(q) \/ \E j \in 1..Len(Tail(q)) : Tail(q)[j] = q[i]
<1>1. CASE i = 1
  BY <1>1
<1>2. CASE i # 1
  <2>1. i - 1 \in 1..Len(Tail(q)) /\ Tail(q)[i - 1] = q[i]
    BY <1>2
  <2> QED
    BY <2>1
<1> QED
  BY <1>1, <1>2

(* Fields of a task for a message.                                         *)
LEMMA OfflineTaskFields ==
    ASSUME NEW u, NEW m
    PROVE  /\ OfflineTask(u, m).type = "offline"
           /\ OfflineTask(u, m).user = u /\ OfflineTask(u, m).msg = m
  BY DEF OfflineTask

(* What a process that stops had in memory is recorded as lost.            *)
LEMMA StopRecords ==
    ASSUME IInv, NEW s \in Servers, Stop(s), NEW v \in Users, NEW k \in Msgs
    PROVE  /\ Enqueued(v, k) => Safe(v, k)'
           /\ Published(v, k) => Safe(v, k)'
           /\ Answered(v, k) => Safe(v, k)'
<1>1. <<v, k, "crash">> \in lost' => Safe(v, k)'
  BY DEF Safe, LostBy, Dropped, Causes
<1>2. ASSUME Enqueued(v, k) PROVE Safe(v, k)'
  <2>1. PICK r \in Servers : OfflineTask(v, k) \in Queued(r)
    BY <1>2 DEF Enqueued
  <2>2. CASE r = s
    <3>1. OfflineTask(v, k) \in {t \in Queued(s) : t.type = "offline"}
      BY <2>1, <2>2, OfflineTaskFields
    <3>2. <<v, k, "crash">> \in {<<t.user, t.msg, "crash">> : t \in {q \in Queued(s) : q.type = "offline"}}
      BY <3>1, OfflineTaskFields
    <3> QED
      BY <1>1, <3>2 DEF Stop
  <2>3. CASE r # s
    <3>1. dbQueue'[r] = dbQueue[r]
      BY <2>3 DEF Stop, IInv, TypeOK, ProcessTypes
    <3> QED
      BY <2>1, <3>1 DEF Safe, Kept, Enqueued, Queued
  <2> QED
    BY <2>2, <2>3
<1>3. ASSUME Published(v, k) PROVE Safe(v, k)'
  <2>1. PICK r \in Servers : <<v, k>> \in Travelling(r)
    BY <1>3 DEF Published
  <2>2. CASE r = s
    <3>1. <<v, k, "crash">> \in {<<d[1], d[2], "crash">> : d \in Travelling(s)}
      BY <2>1, <2>2
    <3> QED
      BY <1>1, <3>1 DEF Stop
  <2>3. CASE r # s
    <3>1. channel'[r] = channel[r]
      BY <2>3 DEF Stop, IInv, TypeOK, RedisTypes
    <3> QED
      BY <2>1, <3>1 DEF Safe, Kept, Published, Travelling
  <2> QED
    BY <2>2, <2>3
<1>4. ASSUME Answered(v, k) PROVE Safe(v, k)'
  <2>1. PICK c \in Conns : pc[c] = "reply" /\ user[c] = v /\ rows[c][k] > 0
    BY <1>4 DEF Answered
  <2>2. CASE host[c] = s
    <3>1. <<v, k, "crash">> \in {<<user[c], m, "crash">> : m \in {n \in Msgs : rows[c][n] > 0}}
      BY <2>1
    <3>2. <<v, k, "crash">> \in lost'
      BY <2>1, <2>2, <3>1 DEF Stop
    <3> QED
      BY <1>1, <3>2
  <2>3. CASE host[c] # s
    <3>1. pc'[c] = pc[c] /\ user'[c] = user[c] /\ rows'[c] = rows[c]
      BY <2>3 DEF Stop
    <3> QED
      BY <2>1, <3>1 DEF Safe, Kept, Answered
  <2> QED
    BY <2>2, <2>3
<1> QED
  BY <1>2, <1>3, <1>4

(* Adding a row takes none away.                                           *)
LEMMA MoreRows ==
    ASSUME NEW f \in [Users -> [Msgs -> Nat]], NEW u, NEW m,
           NEW g, g = [f EXCEPT ![u][m] = @ + 1], NEW v \in Users, NEW k \in Msgs
    PROVE  (f[v][k] > 0 => g[v][k] > 0) /\ (v = u /\ k = m => g[v][k] > 0)
<1>1. f[v][k] \in Nat
  OBVIOUS
<1>2. g[v][k] = f[v][k] \/ g[v][k] = f[v][k] + 1
  OBVIOUS
<1>3. v = u /\ k = m => g[v][k] = f[v][k] + 1
  OBVIOUS
<1> QED
  BY <1>1, <1>2, <1>3

-----------------------------------------------------------------------------
(* Steps of clients.                                                       *)

LEMMA ConnectCopies ==
    ASSUME IInv, NEW c \in Conns, Connect(c), NEW v \in Users, NEW k \in Msgs
    PROVE  lost \subseteq lost' /\ (Kept(v, k) => Safe(v, k)')
<1>1. /\ lost \subseteq lost'
      /\ (Received(v, k) => Received(v, k)')
      /\ (Stored(v, k) => Stored(v, k)')
      /\ (Enqueued(v, k) => Enqueued(v, k)')
      /\ (Published(v, k) => Published(v, k)')
      /\ (Answered(v, k) => Answered(v, k)')
  BY DEF Connect, Received, Stored, Enqueued, Published, Answered, Queued, Travelling,
       mysql, redis, pubsub, process, handler, work, outcome
<1> QED
  BY <1>1 DEF Safe, Kept

LEMMA ClientExitCopies ==
    ASSUME IInv, NEW c \in Conns, ClientExit(c), NEW v \in Users, NEW k \in Msgs
    PROVE  lost \subseteq lost' /\ (Kept(v, k) => Safe(v, k)')
<1>1. /\ lost \subseteq lost'
      /\ (Received(v, k) => Received(v, k)')
      /\ (Stored(v, k) => Stored(v, k)')
      /\ (Enqueued(v, k) => Enqueued(v, k)')
      /\ (Published(v, k) => Published(v, k)')
      /\ (Answered(v, k) => Answered(v, k)')
  BY DEF ClientExit, Received, Stored, Enqueued, Published, Answered, Queued, Travelling,
       mysql, redis, pubsub, process, handler, work, outcome
<1> QED
  BY <1>1 DEF Safe, Kept

LEMMA SendCopies ==
    ASSUME IInv, NEW c \in Conns, NEW m \in Msgs, Send(c, m), NEW v \in Users, NEW k \in Msgs
    PROVE  lost \subseteq lost' /\ (Kept(v, k) => Safe(v, k)')
<1>1. /\ lost \subseteq lost'
      /\ (Received(v, k) => Received(v, k)')
      /\ (Stored(v, k) => Stored(v, k)')
      /\ (Enqueued(v, k) => Enqueued(v, k)')
      /\ (Published(v, k) => Published(v, k)')
      /\ (Answered(v, k) => Answered(v, k)')
  BY DEF Send, Received, Stored, Enqueued, Published, Answered, Queued, Travelling, mysql,
       redis, pubsub, process, handler, work, outcome
<1> QED
  BY <1>1 DEF Safe, Kept

LEMMA ResendCopies ==
    ASSUME IInv, NEW m \in Msgs, Resend(m), NEW v \in Users, NEW k \in Msgs
    PROVE  lost \subseteq lost' /\ (Kept(v, k) => Safe(v, k)')
<1>1. /\ lost \subseteq lost'
      /\ (Received(v, k) => Received(v, k)')
      /\ (Stored(v, k) => Stored(v, k)')
      /\ (Enqueued(v, k) => Enqueued(v, k)')
      /\ (Published(v, k) => Published(v, k)')
      /\ (Answered(v, k) => Answered(v, k)')
  BY DEF Resend, Received, Stored, Enqueued, Published, Answered, Queued, Travelling,
       mysql, redis, pubsub, process, handler, work, outcome
<1> QED
  BY <1>1 DEF Safe, Kept

-----------------------------------------------------------------------------
(* Steps of login().                                                       *)

LEMMA LoginAcceptCopies ==
    ASSUME IInv, NEW c \in Conns, NEW u \in Users, LoginAccept(c, u), NEW v \in Users, NEW k \in Msgs
    PROVE  lost \subseteq lost' /\ (Kept(v, k) => Safe(v, k)')
<1>1. /\ lost \subseteq lost'
      /\ (Received(v, k) => Received(v, k)')
      /\ (Stored(v, k) => Stored(v, k)')
      /\ (Enqueued(v, k) => Enqueued(v, k)')
      /\ (Published(v, k) => Published(v, k)')
  BY DEF LoginAccept, Received, Stored, Enqueued, Published, Queued, Travelling, mysql,
       redis, pubsub, process, outcome
<1>2. Answered(v, k) => Safe(v, k)'
  BY DEF Safe, Kept, LoginAccept, Answered, At, Goto
<1> QED
  BY <1>1, <1>2 DEF Safe, Kept

LEMMA LoginInsertCopies ==
    ASSUME IInv, NEW c \in Conns, LoginInsert(c), NEW v \in Users, NEW k \in Msgs
    PROVE  lost \subseteq lost' /\ (Kept(v, k) => Safe(v, k)')
<1>1. /\ lost \subseteq lost'
      /\ (Received(v, k) => Received(v, k)')
      /\ (Stored(v, k) => Stored(v, k)')
      /\ (Enqueued(v, k) => Enqueued(v, k)')
      /\ (Published(v, k) => Published(v, k)')
  BY DEF LoginInsert, Received, Stored, Enqueued, Published, Queued, Travelling, mysql,
       redis, pubsub, outcome
<1>2. Answered(v, k) => Safe(v, k)'
  BY DEF Safe, Kept, LoginInsert, Answered, At, Goto, work
<1> QED
  BY <1>1, <1>2 DEF Safe, Kept

LEMMA LoginSubscribeCopies ==
    ASSUME IInv, NEW c \in Conns, LoginSubscribe(c), NEW v \in Users, NEW k \in Msgs
    PROVE  lost \subseteq lost' /\ (Kept(v, k) => Safe(v, k)')
<1>1. /\ lost \subseteq lost'
      /\ (Received(v, k) => Received(v, k)')
      /\ (Stored(v, k) => Stored(v, k)')
      /\ (Enqueued(v, k) => Enqueued(v, k)')
      /\ (Published(v, k) => Published(v, k)')
  BY DEF LoginSubscribe, Received, Stored, Enqueued, Published, Queued, Travelling, mysql,
       process, outcome
<1>2. Answered(v, k) => Safe(v, k)'
  BY DEF Safe, Kept, LoginSubscribe, Answered, At, Goto, work
<1> QED
  BY <1>1, <1>2 DEF Safe, Kept

LEMMA LoginSetCopies ==
    ASSUME IInv, NEW c \in Conns, LoginSet(c), NEW v \in Users, NEW k \in Msgs
    PROVE  lost \subseteq lost' /\ (Kept(v, k) => Safe(v, k)')
<1>1. /\ lost \subseteq lost'
      /\ (Received(v, k) => Received(v, k)')
      /\ (Stored(v, k) => Stored(v, k)')
      /\ (Enqueued(v, k) => Enqueued(v, k)')
      /\ (Published(v, k) => Published(v, k)')
  BY DEF LoginSet, Received, Stored, Enqueued, Published, Queued, Travelling, mysql,
       pubsub, process, outcome
<1>2. Answered(v, k) => Safe(v, k)'
  BY DEF Safe, Kept, LoginSet, Answered, At, Goto, work
<1> QED
  BY <1>1, <1>2 DEF Safe, Kept

LEMMA LoginOnlineCopies ==
    ASSUME IInv, NEW c \in Conns, LoginOnline(c), NEW v \in Users, NEW k \in Msgs
    PROVE  lost \subseteq lost' /\ (Kept(v, k) => Safe(v, k)')
<1>1. /\ lost \subseteq lost'
      /\ (Received(v, k) => Received(v, k)')
      /\ (Stored(v, k) => Stored(v, k)')
      /\ (Published(v, k) => Published(v, k)')
  BY DEF LoginOnline, Received, Stored, Published, Travelling, mysql, redis, pubsub, outcome
<1>2. Enqueued(v, k) => Safe(v, k)'
  BY DEF Safe, Kept, LoginOnline, Enqueued, PushTask, Queued
<1>3. Answered(v, k) => Safe(v, k)'
  BY DEF Safe, Kept, LoginOnline, Answered, At, Goto, work
<1> QED
  BY <1>1, <1>2, <1>3 DEF Safe, Kept

LEMMA LoginQueryCopies ==
    ASSUME IInv, NEW c \in Conns, LoginQuery(c), NEW v \in Users, NEW k \in Msgs
    PROVE  lost \subseteq lost' /\ (Kept(v, k) => Safe(v, k)')
<1>1. /\ lost \subseteq lost'
      /\ (Received(v, k) => Received(v, k)')
      /\ (Stored(v, k) => Stored(v, k)')
      /\ (Enqueued(v, k) => Enqueued(v, k)')
      /\ (Published(v, k) => Published(v, k)')
  BY DEF LoginQuery, Received, Stored, Enqueued, Published, Queued, Travelling, mysql,
       redis, pubsub, process, outcome
<1>2. Answered(v, k) => Safe(v, k)'
  BY DEF IInv, TypeOK, Safe, Kept, LoginQuery, Answered, At, None, Goto, HandlerTypes
<1> QED
  BY <1>1, <1>2 DEF Safe, Kept

LEMMA LoginRemoveCopies ==
    ASSUME IInv, NEW c \in Conns, LoginRemove(c), NEW v \in Users, NEW k \in Msgs
    PROVE  lost \subseteq lost' /\ (Kept(v, k) => Safe(v, k)')
<1>1. /\ (Received(v, k) => Received(v, k)')
      /\ (Enqueued(v, k) => Enqueued(v, k)')
      /\ (Published(v, k) => Published(v, k)')
  BY DEF LoginRemove, Received, Enqueued, Published, Queued, Travelling, redis, pubsub, process
<1>2. lost \subseteq lost'
  BY DEF LoginRemove
<1>3. Stored(v, k) => Safe(v, k)'
  <2>1. CASE offlineMessage' = offlineMessage
    BY <2>1 DEF Safe, Kept, Stored
  <2>2. CASE v # user[c]
    BY <2>2 DEF LoginRemove, IInv, TypeOK, MySQLTypes, Safe, Kept, Stored
  <2>3. CASE v = user[c] /\ lost' = lost \cup {<<user[c], m, "unread">> :
                  m \in {n \in Msgs : offlineMessage[user[c]][n] > rows[c][n]}}
    <3>1. offlineMessage[v][k] \in Nat /\ rows[c][k] \in Nat
      BY DEF IInv, TypeOK, MySQLTypes, HandlerTypes
    <3>2. CASE offlineMessage[v][k] > rows[c][k]
      <4>1. <<v, k, "unread">> \in lost'
        BY <2>3, <3>2
      <4> QED
        BY <4>1 DEF Safe, LostBy, Dropped, Causes
    <3>3. ASSUME ~(offlineMessage[v][k] > rows[c][k]), Stored(v, k) PROVE Safe(v, k)'
      <4>1. rows[c][k] > 0
        BY <3>1, <3>3 DEF Stored
      <4>2. pc'[c] = "reply" /\ user'[c] = v /\ rows'[c] = rows[c]
        BY <2>3 DEF LoginRemove, Goto, work, IInv, TypeOK, HandlerTypes
      <4> QED
        BY <4>1, <4>2 DEF Safe, Kept, Answered
    <3> QED
      BY <3>2, <3>3
  <2> QED
    BY <2>1, <2>2, <2>3 DEF LoginRemove
<1>4. Answered(v, k) => Safe(v, k)'
  BY DEF Safe, Kept, LoginRemove, Answered, Goto, work
<1> QED
  BY <1>1, <1>2, <1>3, <1>4 DEF Safe, Kept

LEMMA LoginReplyCopies ==
    ASSUME IInv, NEW c \in Conns, LoginReply(c), NEW v \in Users, NEW k \in Msgs
    PROVE  lost \subseteq lost' /\ (Kept(v, k) => Safe(v, k)')
<1>1. /\ (Stored(v, k) => Stored(v, k)')
      /\ (Enqueued(v, k) => Enqueued(v, k)')
      /\ (Published(v, k) => Published(v, k)')
  BY DEF LoginReply, Stored, Enqueued, Published, Queued, Travelling, mysql, redis, pubsub,
     process
<1>2. lost \subseteq lost'
  BY DEF LoginReply, Receive
<1>3. Received(v, k) => Safe(v, k)'
  <2>1. rows[c] \in [Msgs -> Nat]
    BY DEF IInv, TypeOK, HandlerTypes
  <2> QED
    BY <2>1, ReceiveKeeps DEF LoginReply, IInv, Safe, Kept
<1>4. Answered(v, k) => Safe(v, k)'
  <2>1. rows[c] \in [Msgs -> Nat] /\ account[c] = user[c]
    BY DEF LoginReply, At, IInv, WorkOK, LoginPc, TypeOK, HandlerTypes
  <2>2. \A d \in Conns \ {c} : pc'[d] = pc[d] /\ user'[d] = user[d] /\ rows'[d] = rows[d]
    BY DEF LoginReply, Goto, IInv, TypeOK, HandlerTypes
  <2>3. CASE user[c] = v /\ rows[c][k] > 0
    BY <2>1, <2>3, ReceiveArrives DEF LoginReply, IInv
  <2>4. CASE ~(user[c] = v /\ rows[c][k] > 0)
    BY <2>2, <2>4 DEF Safe, Kept, Answered
  <2> QED
    BY <2>3, <2>4
<1> QED
  BY <1>1, <1>2, <1>3, <1>4 DEF Safe, Kept

-----------------------------------------------------------------------------
(* Steps of logout() and clientCloseException().                           *)

LEMMA LogoutBeginCopies ==
    ASSUME IInv, NEW c \in Conns, LogoutBegin(c), NEW v \in Users, NEW k \in Msgs
    PROVE  lost \subseteq lost' /\ (Kept(v, k) => Safe(v, k)')
<1>1. /\ lost \subseteq lost'
      /\ (Received(v, k) => Received(v, k)')
      /\ (Stored(v, k) => Stored(v, k)')
      /\ (Enqueued(v, k) => Enqueued(v, k)')
      /\ (Published(v, k) => Published(v, k)')
  BY DEF LogoutBegin, Received, Stored, Enqueued, Published, Queued, Travelling, mysql,
       redis, pubsub, outcome
<1>2. Answered(v, k) => Safe(v, k)'
  BY DEF Safe, Kept, LogoutBegin, Answered, At, Goto
<1> QED
  BY <1>1, <1>2 DEF Safe, Kept

LEMMA CloseBeginCopies ==
    ASSUME IInv, NEW c \in Conns, CloseBegin(c), NEW v \in Users, NEW k \in Msgs
    PROVE  lost \subseteq lost' /\ (Kept(v, k) => Safe(v, k)')
<1>1. /\ lost \subseteq lost'
      /\ (Received(v, k) => Received(v, k)')
      /\ (Stored(v, k) => Stored(v, k)')
      /\ (Enqueued(v, k) => Enqueued(v, k)')
      /\ (Published(v, k) => Published(v, k)')
  BY DEF CloseBegin, Received, Stored, Enqueued, Published, Queued, Travelling, mysql,
       redis, pubsub, outcome
<1>2. Answered(v, k) => Safe(v, k)'
  BY DEF IInv, TypeOK, Safe, Kept, CloseBegin, Answered, At, Goto, HandlerTypes
<1> QED
  BY <1>1, <1>2 DEF Safe, Kept

LEMMA LeaveUnsubscribeCopies ==
    ASSUME IInv, NEW c \in Conns, LeaveUnsubscribe(c), NEW v \in Users, NEW k \in Msgs
    PROVE  lost \subseteq lost' /\ (Kept(v, k) => Safe(v, k)')
<1>1. /\ lost \subseteq lost'
      /\ (Received(v, k) => Received(v, k)')
      /\ (Stored(v, k) => Stored(v, k)')
      /\ (Enqueued(v, k) => Enqueued(v, k)')
      /\ (Published(v, k) => Published(v, k)')
  BY DEF LeaveUnsubscribe, Received, Stored, Enqueued, Published, Queued, Travelling,
       mysql, process, outcome
<1>2. Answered(v, k) => Safe(v, k)'
  BY DEF Safe, Kept, LeaveUnsubscribe, Answered, At, Goto, work
<1> QED
  BY <1>1, <1>2 DEF Safe, Kept

LEMMA LeaveDeleteCopies ==
    ASSUME IInv, NEW c \in Conns, LeaveDelete(c), NEW v \in Users, NEW k \in Msgs
    PROVE  lost \subseteq lost' /\ (Kept(v, k) => Safe(v, k)')
<1>1. /\ lost \subseteq lost'
      /\ (Received(v, k) => Received(v, k)')
      /\ (Stored(v, k) => Stored(v, k)')
      /\ (Enqueued(v, k) => Enqueued(v, k)')
      /\ (Published(v, k) => Published(v, k)')
  BY DEF LeaveDelete, Received, Stored, Enqueued, Published, Queued, Travelling, mysql,
       pubsub, process, outcome
<1>2. Answered(v, k) => Safe(v, k)'
  BY DEF Safe, Kept, LeaveDelete, Answered, At, Goto, work
<1> QED
  BY <1>1, <1>2 DEF Safe, Kept

LEMMA LeaveOfflineCopies ==
    ASSUME IInv, NEW c \in Conns, LeaveOffline(c), NEW v \in Users, NEW k \in Msgs
    PROVE  lost \subseteq lost' /\ (Kept(v, k) => Safe(v, k)')
<1>1. /\ lost \subseteq lost'
      /\ (Received(v, k) => Received(v, k)')
      /\ (Stored(v, k) => Stored(v, k)')
      /\ (Published(v, k) => Published(v, k)')
  BY DEF LeaveOffline, Received, Stored, Published, Travelling, mysql, redis, pubsub, outcome
<1>2. Enqueued(v, k) => Safe(v, k)'
  BY DEF Safe, Kept, LeaveOffline, Enqueued, MarkOffline, Queued, PushTask
<1>3. Answered(v, k) => Safe(v, k)'
  <2>1. /\ pc[c] # "reply" /\ rows' = rows
        /\ \A d \in Conns \ {c} : pc'[d] = pc[d] /\ user'[d] = user[d]
    BY DEF LeaveOffline, At, Goto, IInv, TypeOK, HandlerTypes
  <2> QED
    BY <2>1, AnsweredElsewhere DEF Safe, Kept
<1> QED
  BY <1>1, <1>2, <1>3 DEF Safe, Kept

-----------------------------------------------------------------------------
(* Steps of oneChat().                                                     *)

LEMMA ChatBeginCopies ==
    ASSUME IInv, NEW c \in Conns, NEW m \in Msgs, ChatBegin(c, m), NEW v \in Users, NEW k \in Msgs
    PROVE  lost \subseteq lost' /\ (Kept(v, k) => Safe(v, k)')
<1>1. /\ (Stored(v, k) => Stored(v, k)')
      /\ (Enqueued(v, k) => Enqueued(v, k)')
      /\ (Published(v, k) => Published(v, k)')
  BY DEF ChatBegin, Stored, Enqueued, Published, Queued, Travelling, mysql, redis, pubsub,
     process
<1>2. lost \subseteq lost'
  BY DEF ChatBegin, HandOver, outcome, Receive
<1>3. Received(v, k) => Safe(v, k)'
  <2>1. PICK u \in Addressees[m] :
            \/ userConnMap[host[c]][u] # NoConn /\ HandOver(c, u, m)
            \/ UNCHANGED outcome
    BY DEF ChatBegin
  <2>2. CASE UNCHANGED outcome
    BY <2>2 DEF outcome, Safe, Kept, Received
  <2>3. CASE userConnMap[host[c]][u] # NoConn /\ HandOver(c, u, m)
    <3>1. userConnMap[host[c]][u] \in Conns
      BY <2>3, ChatAssumption, HostType DEF IInv, TypeOK, ProcessTypes
    <3> QED
      BY <2>3, <3>1, BagTypes, ReceiveKeeps DEF HandOver, IInv, Safe, Kept
  <2> QED
    BY <2>1, <2>2, <2>3
<1>4. Answered(v, k) => Safe(v, k)'
  BY DEF IInv, TypeOK, Safe, Kept, ChatBegin, Answered, Take, Goto, At, HandlerTypes
<1> QED
  BY <1>1, <1>2, <1>3, <1>4 DEF Safe, Kept

LEMMA ChatGetCopies ==
    ASSUME IInv, NEW c \in Conns, ChatGet(c), NEW v \in Users, NEW k \in Msgs
    PROVE  lost \subseteq lost' /\ (Kept(v, k) => Safe(v, k)')
<1>1. /\ lost \subseteq lost'
      /\ (Received(v, k) => Received(v, k)')
      /\ (Stored(v, k) => Stored(v, k)')
      /\ (Enqueued(v, k) => Enqueued(v, k)')
      /\ (Published(v, k) => Published(v, k)')
  BY DEF ChatGet, Received, Stored, Enqueued, Published, Queued, Travelling, mysql, redis,
       pubsub, process, outcome
<1>2. Answered(v, k) => Safe(v, k)'
  BY DEF Safe, Kept, ChatGet, Answered, At, Goto, work
<1> QED
  BY <1>1, <1>2 DEF Safe, Kept

LEMMA ChatStateCopies ==
    ASSUME IInv, NEW c \in Conns, ChatState(c), NEW v \in Users, NEW k \in Msgs
    PROVE  lost \subseteq lost' /\ (Kept(v, k) => Safe(v, k)')
<1>1. /\ (Received(v, k) => Received(v, k)')
      /\ (Stored(v, k) => Stored(v, k)')
      /\ (Enqueued(v, k) => Enqueued(v, k)')
      /\ (Published(v, k) => Published(v, k)')
  BY DEF ChatState, Received, Stored, Enqueued, Published, Queued, Travelling, mysql,
       redis, pubsub, process
<1>2. lost \subseteq lost'
  BY DEF ChatState
<1>3. Answered(v, k) => Safe(v, k)'
  BY DEF IInv, TypeOK, Safe, Kept, ChatState, Answered, At, Goto, HandlerTypes
<1> QED
  BY <1>1, <1>2, <1>3 DEF Safe, Kept

LEMMA ChatPublishCopies ==
    ASSUME IInv, NEW c \in Conns, ChatPublish(c), NEW v \in Users, NEW k \in Msgs
    PROVE  lost \subseteq lost' /\ (Kept(v, k) => Safe(v, k)')
<1>1. /\ (Received(v, k) => Received(v, k)')
      /\ (Stored(v, k) => Stored(v, k)')
      /\ (Enqueued(v, k) => Enqueued(v, k)')
  BY DEF ChatPublish, Received, Stored, Enqueued, Queued, mysql, process
<1>2. lost \subseteq lost'
  BY DEF ChatPublish, Publish
<1>3. Published(v, k) => Safe(v, k)'
  <2>1. msg[c] \in Msgs /\ user[c] \in Users
    BY ChatAssumption DEF ChatPublish, At, IInv, WorkOK, OneChatPc
  <2> QED
    BY <2>1, PublishKeeps DEF ChatPublish, IInv, Safe, Kept
<1>4. Answered(v, k) => Safe(v, k)'
  <2>1. /\ pc[c] # "reply" /\ rows' = rows
        /\ \A d \in Conns \ {c} : pc'[d] = pc[d] /\ user'[d] = user[d]
    BY DEF ChatPublish, At, Finish, Goto, IInv, TypeOK, HandlerTypes
  <2> QED
    BY <2>1, AnsweredElsewhere DEF Safe, Kept
<1> QED
  BY <1>1, <1>2, <1>3, <1>4 DEF Safe, Kept

LEMMA ChatStoreCopies ==
    ASSUME IInv, NEW c \in Conns, ChatStore(c), NEW v \in Users, NEW k \in Msgs
    PROVE  lost \subseteq lost' /\ (Kept(v, k) => Safe(v, k)')
<1>1. /\ lost \subseteq lost'
      /\ (Received(v, k) => Received(v, k)')
      /\ (Stored(v, k) => Stored(v, k)')
      /\ (Published(v, k) => Published(v, k)')
  BY DEF ChatStore, Received, Stored, Published, Travelling, mysql, redis, pubsub
<1>2. Enqueued(v, k) => Safe(v, k)'
  BY DEF Safe, Kept, ChatStore, Enqueued, KeepOffline, Queued, PushTask
<1>3. Answered(v, k) => Safe(v, k)'
  <2>1. /\ pc[c] # "reply" /\ rows' = rows
        /\ \A d \in Conns \ {c} : pc'[d] = pc[d] /\ user'[d] = user[d]
    BY DEF ChatStore, At, Finish, Goto, IInv, TypeOK, HandlerTypes
  <2> QED
    BY <2>1, AnsweredElsewhere DEF Safe, Kept
<1> QED
  BY <1>1, <1>2, <1>3 DEF Safe, Kept

-----------------------------------------------------------------------------
(* Steps of groupChat().                                                   *)

LEMMA GroupBeginCopies ==
    ASSUME IInv, NEW c \in Conns, NEW m \in Msgs, GroupBegin(c, m), NEW v \in Users, NEW k \in Msgs
    PROVE  lost \subseteq lost' /\ (Kept(v, k) => Safe(v, k)')
<1>1. /\ (Received(v, k) => Received(v, k)')
      /\ (Stored(v, k) => Stored(v, k)')
      /\ (Enqueued(v, k) => Enqueued(v, k)')
      /\ (Published(v, k) => Published(v, k)')
  BY DEF GroupBegin, Received, Stored, Enqueued, Published, Queued, Travelling, mysql,
       redis, pubsub, process
<1>2. lost \subseteq lost'
  BY DEF GroupBegin
<1>3. Answered(v, k) => Safe(v, k)'
  BY DEF Safe, Kept, GroupBegin, Answered, Take, Goto, At
<1> QED
  BY <1>1, <1>2, <1>3 DEF Safe, Kept

LEMMA GroupLockCopies ==
    ASSUME IInv, NEW c \in Conns, GroupLock(c), NEW v \in Users, NEW k \in Msgs
    PROVE  lost \subseteq lost' /\ (Kept(v, k) => Safe(v, k)')
<1>1. /\ lost \subseteq lost'
      /\ (Received(v, k) => Received(v, k)')
      /\ (Stored(v, k) => Stored(v, k)')
      /\ (Enqueued(v, k) => Enqueued(v, k)')
      /\ (Published(v, k) => Published(v, k)')
  BY DEF GroupLock, Received, Stored, Enqueued, Published, Queued, Travelling, mysql,
       redis, pubsub, outcome
<1>2. Answered(v, k) => Safe(v, k)'
  BY DEF Safe, Kept, GroupLock, Answered, At, Goto, work
<1> QED
  BY <1>1, <1>2 DEF Safe, Kept

LEMMA GroupMemberCopies ==
    ASSUME IInv, NEW c \in Conns, GroupMember(c), NEW v \in Users, NEW k \in Msgs
    PROVE  lost \subseteq lost' /\ (Kept(v, k) => Safe(v, k)')
<1>1. /\ (Stored(v, k) => Stored(v, k)')
      /\ (Enqueued(v, k) => Enqueued(v, k)')
      /\ (Published(v, k) => Published(v, k)')
  BY DEF GroupMember, Stored, Enqueued, Published, Queued, Travelling, mysql, redis, pubsub,
     process
<1>2. lost \subseteq lost'
  BY DEF GroupMember, Receive
<1>3. Received(v, k) => Safe(v, k)'
  BY DEF IInv, TypeOK, Safe, Kept, GroupMember, Received, Receive, One, OutcomeTypes
<1>4. Answered(v, k) => Safe(v, k)'
  BY DEF IInv, TypeOK, Safe, Kept, GroupMember, Answered, At, Goto, HandlerTypes
<1> QED
  BY <1>1, <1>2, <1>3, <1>4 DEF Safe, Kept

LEMMA GroupPublishCopies ==
    ASSUME IInv, NEW c \in Conns, GroupPublish(c), NEW v \in Users, NEW k \in Msgs
    PROVE  lost \subseteq lost' /\ (Kept(v, k) => Safe(v, k)')
<1>1. /\ (Received(v, k) => Received(v, k)')
      /\ (Stored(v, k) => Stored(v, k)')
      /\ (Enqueued(v, k) => Enqueued(v, k)')
  BY DEF GroupPublish, Received, Stored, Enqueued, Queued, mysql, process
<1>2. lost \subseteq lost'
  BY DEF GroupPublish, Publish
<1>3. Published(v, k) => Safe(v, k)'
  <2>1. msg[c] \in Msgs /\ user[c] \in Users
    BY ChatAssumption DEF GroupPublish, At, IInv, WorkOK, GroupPc
  <2> QED
    BY <2>1, PublishKeeps DEF GroupPublish, IInv, Safe, Kept
<1>4. Answered(v, k) => Safe(v, k)'
  <2>1. /\ pc[c] # "reply" /\ rows' = rows
        /\ \A d \in Conns \ {c} : pc'[d] = pc[d] /\ user'[d] = user[d]
    BY DEF GroupPublish, At, NextMember, Goto, IInv, TypeOK, HandlerTypes
  <2> QED
    BY <2>1, AnsweredElsewhere DEF Safe, Kept
<1> QED
  BY <1>1, <1>2, <1>3, <1>4 DEF Safe, Kept

LEMMA GroupStoreCopies ==
    ASSUME IInv, NEW c \in Conns, GroupStore(c), NEW v \in Users, NEW k \in Msgs
    PROVE  lost \subseteq lost' /\ (Kept(v, k) => Safe(v, k)')
<1>1. /\ lost \subseteq lost'
      /\ (Received(v, k) => Received(v, k)')
      /\ (Stored(v, k) => Stored(v, k)')
      /\ (Published(v, k) => Published(v, k)')
  BY DEF GroupStore, Received, Stored, Published, Travelling, mysql, redis, pubsub, outcome
<1>2. Enqueued(v, k) => Safe(v, k)'
  BY DEF Safe, Kept, GroupStore, Enqueued, KeepOffline, Queued, PushTask
<1>3. Answered(v, k) => Safe(v, k)'
  <2>1. /\ pc[c] # "reply" /\ rows' = rows
        /\ \A d \in Conns \ {c} : pc'[d] = pc[d] /\ user'[d] = user[d]
    BY DEF GroupStore, At, NextMember, Goto, IInv, TypeOK, HandlerTypes
  <2> QED
    BY <2>1, AnsweredElsewhere DEF Safe, Kept
<1> QED
  BY <1>1, <1>2, <1>3 DEF Safe, Kept

LEMMA GroupEndCopies ==
    ASSUME IInv, NEW c \in Conns, GroupEnd(c), NEW v \in Users, NEW k \in Msgs
    PROVE  lost \subseteq lost' /\ (Kept(v, k) => Safe(v, k)')
<1>1. /\ lost \subseteq lost'
      /\ (Received(v, k) => Received(v, k)')
      /\ (Stored(v, k) => Stored(v, k)')
      /\ (Enqueued(v, k) => Enqueued(v, k)')
      /\ (Published(v, k) => Published(v, k)')
  BY DEF GroupEnd, Received, Stored, Enqueued, Published, Queued, Travelling, mysql, redis,
     pubsub
<1>2. Answered(v, k) => Safe(v, k)'
  BY DEF Safe, Kept, GroupEnd, Answered, At, Finish, Goto
<1> QED
  BY <1>1, <1>2 DEF Safe, Kept

-----------------------------------------------------------------------------
(* Steps of the other threads, and Redis.                                  *)

LEMMA WorkerCopies ==
    ASSUME IInv, NEW s \in Servers, Worker(s), NEW v \in Users, NEW k \in Msgs
    PROVE  lost \subseteq lost' /\ (Kept(v, k) => Safe(v, k)')
<1>1. /\ (Received(v, k) => Received(v, k)')
      /\ (Published(v, k) => Published(v, k)')
      /\ (Answered(v, k) => Answered(v, k)')
  BY DEF Worker, Received, Published, Answered, Travelling, redis, pubsub, handler, work
<1>2. lost \subseteq lost'
  BY DEF Worker
<1>3. Stored(v, k) => Safe(v, k)'
  <2> DEFINE t == Head(dbQueue[s])
  <2>1. \/ offlineMessage' = offlineMessage
        \/ offlineMessage' = [offlineMessage EXCEPT ![t.user][t.msg] = @ + 1]
    BY DEF Worker, Apply, mysql
  <2>2. offlineMessage \in [Users -> [Msgs -> Nat]]
    BY DEF IInv, TypeOK, MySQLTypes
  <2> HIDE DEF t
  <2> QED
    BY <2>1, <2>2, MoreRows DEF Safe, Kept, Stored
<1>4. Enqueued(v, k) => Safe(v, k)'
  <2> DEFINE t == Head(dbQueue[s])
  <2> SUFFICES ASSUME NEW r \in Servers, NEW i \in 1..Len(dbQueue[r]),
                      dbQueue[r][i] = OfflineTask(v, k)
               PROVE  Safe(v, k)'
    BY DEF Enqueued, Queued
  <2>1. dbQueue[s] \in Seq(DbTaskArgs) /\ dbQueue[s] # <<>> /\ dbQueue'[s] = Tail(dbQueue[s])
    BY DEF Worker, IInv, TypeOK, ProcessTypes
  <2>2. CASE r = s /\ t = OfflineTask(v, k)
    <3>1. t.type = "offline" /\ t.user = v /\ t.msg = k /\ v # NoUser
      BY <2>2, OfflineTaskFields, ChatAssumption
    <3>2. \/ offlineMessage' = [offlineMessage EXCEPT ![v][k] = @ + 1]
          \/ <<v, k, "fault">> \in lost'
      BY <3>1 DEF Worker, Apply
    <3>3. offlineMessage \in [Users -> [Msgs -> Nat]]
      BY DEF IInv, TypeOK, MySQLTypes
    <3>4. CASE offlineMessage' = [offlineMessage EXCEPT ![v][k] = @ + 1]
      BY <3>3, <3>4, MoreRows DEF Safe, Kept, Stored
    <3>5. CASE <<v, k, "fault">> \in lost'
      BY <3>5 DEF Safe, LostBy, Dropped, Causes
    <3> QED
      BY <3>2, <3>4, <3>5
  <2>3. CASE r = s /\ t # OfflineTask(v, k)
    <3>1. \E j \in 1..Len(dbQueue'[s]) : dbQueue'[s][j] = OfflineTask(v, k)
      BY <2>1, <2>3, InTail
    <3> QED
      BY <3>1 DEF Safe, Kept, Enqueued, Queued
  <2>4. CASE r # s
    <3>1. dbQueue'[r] = dbQueue[r]
      BY <2>4 DEF Worker, IInv, TypeOK, ProcessTypes
    <3> QED
      BY <3>1 DEF Safe, Kept, Enqueued, Queued
  <2> QED
    BY <2>2, <2>3, <2>4
<1> QED
  BY <1>1, <1>2, <1>3, <1>4 DEF Safe, Kept

LEMMA RedisSubscriberCopies ==
    ASSUME IInv, NEW s \in Servers, RedisSubscriber(s), NEW v \in Users, NEW k \in Msgs
    PROVE  lost \subseteq lost' /\ (Kept(v, k) => Safe(v, k)')
<1>1. /\ lost \subseteq lost'
      /\ (Received(v, k) => Received(v, k)')
      /\ (Stored(v, k) => Stored(v, k)')
      /\ (Enqueued(v, k) => Enqueued(v, k)')
      /\ (Published(v, k) => Published(v, k)')
      /\ (Answered(v, k) => Answered(v, k)')
  BY DEF RedisSubscriber, Received, Stored, Enqueued, Published, Answered, Queued,
       Travelling, mysql, process, handler, work, outcome
<1> QED
  BY <1>1 DEF Safe, Kept

LEMMA ObserveCopies ==
    ASSUME IInv, NEW s \in Servers, Observe(s), NEW v \in Users, NEW k \in Msgs
    PROVE  lost \subseteq lost' /\ (Kept(v, k) => Safe(v, k)')
<1>1. /\ (Enqueued(v, k) => Enqueued(v, k)')
      /\ (Answered(v, k) => Answered(v, k)')
  BY DEF Observe, Enqueued, Answered, Queued, process, handler, work
<1>2. lost \subseteq lost'
  BY DEF Observe, Receive
<1>3. Received(v, k) => Safe(v, k)'
  <2> DEFINE u == Head(channel[s])[1]
             m == Head(channel[s])[2]
  <2>1. u \in Users /\ m \in Msgs
    BY HeadTail DEF Observe, IInv, TypeOK, RedisTypes
  <2>2. \/ userConnMap[s][u] # NoConn /\ Receive(userConnMap[s][u], u, One(m))
        \/ got' = got
    BY DEF Observe
  <2> HIDE DEF u, m
  <2>3. CASE got' = got
    BY <2>3 DEF Safe, Kept, Received
  <2>4. CASE userConnMap[s][u] # NoConn /\ Receive(userConnMap[s][u], u, One(m))
    <3>1. userConnMap[s][u] \in Conns
      BY <2>1, <2>4 DEF IInv, TypeOK, ProcessTypes
    <3> QED
      BY <2>1, <2>4, <3>1, BagTypes, ReceiveKeeps DEF IInv, Safe, Kept
  <2> QED
    BY <2>2, <2>3, <2>4
<1>4. Stored(v, k) => Safe(v, k)'
  <2> DEFINE u == Head(channel[s])[1]
             m == Head(channel[s])[2]
  <2>1. \/ offlineMessage' = offlineMessage
        \/ offlineMessage' = [offlineMessage EXCEPT ![u][m] = @ + 1]
    BY DEF Observe, mysql
  <2>2. offlineMessage \in [Users -> [Msgs -> Nat]]
    BY DEF IInv, TypeOK, MySQLTypes
  <2> HIDE DEF u, m
  <2> QED
    BY <2>1, <2>2, MoreRows DEF Safe, Kept, Stored
<1>5. Published(v, k) => Safe(v, k)'
  <2> SUFFICES ASSUME NEW r \in Servers, NEW i \in 1..Len(channel[r]),
                      channel[r][i] = <<v, k>>
               PROVE  Safe(v, k)'
    BY DEF Published, Travelling
  <2>1. channel[s] \in Seq(Users \X Msgs) /\ channel[s] # <<>> /\ channel'[s] = Tail(channel[s])
    BY DEF Observe, IInv, TypeOK, RedisTypes
  <2>2. CASE r = s /\ Head(channel[s]) = <<v, k>>
    <3>1. \/ userConnMap[s][v] # NoConn /\ Receive(userConnMap[s][v], v, One(k))
          \/ offlineMessage' = [offlineMessage EXCEPT ![v][k] = @ + 1]
          \/ <<v, k, "fault">> \in lost'
      BY <2>2 DEF Observe
    <3>2. CASE userConnMap[s][v] # NoConn /\ Receive(userConnMap[s][v], v, One(k))
      <4>1. userConnMap[s][v] \in Conns /\ account[userConnMap[s][v]] = v
        BY <3>2 DEF IInv, TypeOK, ProcessTypes, MapOK
      <4>2. One(k)[k] > 0
        BY SMT DEF One
      <4> QED
        BY <3>2, <4>1, <4>2, BagTypes, ReceiveArrives DEF IInv
    <3>3. CASE offlineMessage' = [offlineMessage EXCEPT ![v][k] = @ + 1]
      BY <3>3, MoreRows DEF IInv, TypeOK, MySQLTypes, Safe, Kept, Stored
    <3>4. CASE <<v, k, "fault">> \in lost'
      BY <3>4 DEF Safe, LostBy, Dropped, Causes
    <3> QED
      BY <3>1, <3>2, <3>3, <3>4
  <2>3. CASE r = s /\ Head(channel[s]) # <<v, k>>
    <3>1. i \in 1..Len(channel[s]) /\ channel[s][i] = <<v, k>> /\ Head(channel[s]) # <<v, k>>
      BY <2>3
    <3>2. \/ channel[s][i] = Head(channel[s])
          \/ \E j \in 1..Len(Tail(channel[s])) : Tail(channel[s])[j] = channel[s][i]
      BY <2>1, <3>1, InTail
    <3>3. \E j \in 1..Len(channel'[s]) : channel'[s][j] = <<v, k>>
      BY <2>1, <3>1, <3>2
    <3> QED
      BY <3>3 DEF Safe, Kept, Published, Travelling
  <2>4. CASE r # s
    <3>1. channel'[r] = channel[r]
      BY <2>4 DEF Observe, IInv, TypeOK, RedisTypes
    <3> QED
      BY <3>1 DEF Safe, Kept, Published, Travelling
  <2> QED
    BY <2>2, <2>3, <2>4
<1> QED
  BY <1>1, <1>2, <1>3, <1>4, <1>5 DEF Safe, Kept

LEMMA KeyExpireCopies ==
    ASSUME IInv, NEW u \in Users, KeyExpire(u), NEW v \in Users, NEW k \in Msgs
    PROVE  lost \subseteq lost' /\ (Kept(v, k) => Safe(v, k)')
<1>1. /\ lost \subseteq lost'
      /\ (Received(v, k) => Received(v, k)')
      /\ (Stored(v, k) => Stored(v, k)')
      /\ (Enqueued(v, k) => Enqueued(v, k)')
      /\ (Published(v, k) => Published(v, k)')
      /\ (Answered(v, k) => Answered(v, k)')
  BY DEF KeyExpire, Received, Stored, Enqueued, Published, Answered, Queued, Travelling,
       mysql, pubsub, process, handler, work, outcome
<1> QED
  BY <1>1 DEF Safe, Kept

-----------------------------------------------------------------------------
(* Steps of the end of a process.                                          *)

LEMMA CrashCopies ==
    ASSUME IInv, NEW s \in Servers, Crash(s), NEW v \in Users, NEW k \in Msgs
    PROVE  lost \subseteq lost' /\ (Kept(v, k) => Safe(v, k)')
<1>1. /\ (Stored(v, k) => Stored(v, k)')
  BY DEF Crash, Stored, mysql
<1>2. lost \subseteq lost'
  BY DEF Crash, Stop
<1>3. Received(v, k) => Safe(v, k)'
  BY DEF Safe, Kept, Crash, Received, Stop
<1>4. Enqueued(v, k) => Safe(v, k)'
  BY StopRecords DEF Crash
<1>5. Published(v, k) => Safe(v, k)'
  BY StopRecords DEF Crash
<1>6. Answered(v, k) => Safe(v, k)'
  BY StopRecords DEF Crash
<1> QED
  BY <1>1, <1>2, <1>3, <1>4, <1>5, <1>6 DEF Safe, Kept

LEMMA ResetStateCopies ==
    ASSUME IInv, NEW s \in Servers, ResetState(s), NEW v \in Users, NEW k \in Msgs
    PROVE  lost \subseteq lost' /\ (Kept(v, k) => Safe(v, k)')
<1>1. /\ lost \subseteq lost'
      /\ (Received(v, k) => Received(v, k)')
      /\ (Stored(v, k) => Stored(v, k)')
      /\ (Enqueued(v, k) => Enqueued(v, k)')
      /\ (Published(v, k) => Published(v, k)')
      /\ (Answered(v, k) => Answered(v, k)')
  BY DEF ResetState, Received, Stored, Enqueued, Published, Answered, Queued, Travelling,
       redis, pubsub, handler, work, outcome
<1> QED
  BY <1>1 DEF Safe, Kept

LEMMA ExitCopies ==
    ASSUME IInv, NEW s \in Servers, Exit(s), NEW v \in Users, NEW k \in Msgs
    PROVE  lost \subseteq lost' /\ (Kept(v, k) => Safe(v, k)')
<1>1. /\ (Stored(v, k) => Stored(v, k)')
  BY DEF Exit, Stored, mysql
<1>2. lost \subseteq lost'
  BY DEF Exit, Stop
<1>3. Received(v, k) => Safe(v, k)'
  BY DEF Safe, Kept, Exit, Received, Stop
<1>4. Enqueued(v, k) => Safe(v, k)'
  BY StopRecords DEF Exit
<1>5. Published(v, k) => Safe(v, k)'
  BY StopRecords DEF Exit
<1>6. Answered(v, k) => Safe(v, k)'
  BY StopRecords DEF Exit
<1> QED
  BY <1>1, <1>2, <1>3, <1>4, <1>5, <1>6 DEF Safe, Kept

LEMMA RestartCopies ==
    ASSUME IInv, NEW s \in Servers, Restart(s), NEW v \in Users, NEW k \in Msgs
    PROVE  lost \subseteq lost' /\ (Kept(v, k) => Safe(v, k)')
<1>1. /\ lost \subseteq lost'
      /\ (Received(v, k) => Received(v, k)')
      /\ (Stored(v, k) => Stored(v, k)')
      /\ (Enqueued(v, k) => Enqueued(v, k)')
      /\ (Published(v, k) => Published(v, k)')
      /\ (Answered(v, k) => Answered(v, k)')
  BY DEF Restart, Received, Stored, Enqueued, Published, Answered, Queued, Travelling,
       mysql, redis, pubsub, handler, work, outcome
<1> QED
  BY <1>1 DEF Safe, Kept

-----------------------------------------------------------------------------
(* What a step may do to the copies that are kept.                         *)
Keeping == \A v \in Users, k \in Msgs :
               lost \subseteq lost' /\ (Kept(v, k) => Safe(v, k)')

-----------------------------------------------------------------------------
(* Every step, action by action, keeps IInv and the copies that are kept.  *)
LEMMA LoginStep ==
    ASSUME IInv, NEW c \in Conns, Login(c)
    PROVE  IInv' /\ Keeping
<1>1. CASE LoginInsert(c)
  BY <1>1, LoginInsertTypes, LoginInsertAddresses, LoginInsertCopies DEF IInv, Keeping
<1>2. CASE LoginSubscribe(c)
  BY <1>2, LoginSubscribeTypes, LoginSubscribeAddresses, LoginSubscribeCopies DEF IInv, Keeping
<1>3. CASE LoginSet(c)
  BY <1>3, LoginSetTypes, LoginSetAddresses, LoginSetCopies DEF IInv, Keeping
<1>4. CASE LoginOnline(c)
  BY <1>4, LoginOnlineTypes, LoginOnlineAddresses, LoginOnlineCopies DEF IInv, Keeping
<1>5. CASE LoginQuery(c)
  BY <1>5, LoginQueryTypes, LoginQueryAddresses, LoginQueryCopies DEF IInv, Keeping
<1>6. CASE LoginRemove(c)
  BY <1>6, LoginRemoveTypes, LoginRemoveAddresses, LoginRemoveCopies DEF IInv, Keeping
<1>7. CASE LoginReply(c)
  BY <1>7, LoginReplyTypes, LoginReplyAddresses, LoginReplyCopies DEF IInv, Keeping
<1> QED
  BY <1>1, <1>2, <1>3, <1>4, <1>5, <1>6, <1>7 DEF Login

LEMMA LeaveStep ==
    ASSUME IInv, NEW c \in Conns, Leave(c) \/ CloseBegin(c)
    PROVE  IInv' /\ Keeping
<1>1. CASE CloseBegin(c)
  BY <1>1, CloseBeginTypes, CloseBeginAddresses, CloseBeginCopies DEF IInv, Keeping
<1>2. CASE LeaveUnsubscribe(c)
  BY <1>2, LeaveUnsubscribeTypes, LeaveUnsubscribeAddresses, LeaveUnsubscribeCopies DEF
       IInv, Keeping
<1>3. CASE LeaveDelete(c)
  BY <1>3, LeaveDeleteTypes, LeaveDeleteAddresses, LeaveDeleteCopies DEF IInv, Keeping
<1>4. CASE LeaveOffline(c)
  BY <1>4, LeaveOfflineTypes, LeaveOfflineAddresses, LeaveOfflineCopies DEF IInv, Keeping
<1> QED
  BY <1>1, <1>2, <1>3, <1>4 DEF Leave

LEMMA OneChatStep ==
    ASSUME IInv, NEW c \in Conns, OneChat(c)
    PROVE  IInv' /\ Keeping
<1>1. ASSUME NEW m \in Msgs, ChatBegin(c, m)
      PROVE  IInv' /\ Keeping
  BY <1>1, ChatBeginTypes, ChatBeginAddresses, ChatBeginCopies DEF IInv, Keeping
<1>2. CASE ChatGet(c)
  BY <1>2, ChatGetTypes, ChatGetAddresses, ChatGetCopies DEF IInv, Keeping
<1>3. CASE ChatState(c)
  BY <1>3, ChatStateTypes, ChatStateAddresses, ChatStateCopies DEF IInv, Keeping
<1>4. CASE ChatPublish(c)
  BY <1>4, ChatPublishTypes, ChatPublishAddresses, ChatPublishCopies DEF IInv, Keeping
<1>5. CASE ChatStore(c)
  BY <1>5, ChatStoreTypes, ChatStoreAddresses, ChatStoreCopies DEF IInv, Keeping
<1> QED
  BY <1>1, <1>2, <1>3, <1>4, <1>5 DEF OneChat

LEMMA GroupChatStep ==
    ASSUME IInv, NEW c \in Conns, GroupChat(c)
    PROVE  IInv' /\ Keeping
<1>1. ASSUME NEW m \in Msgs, GroupBegin(c, m)
      PROVE  IInv' /\ Keeping
  BY <1>1, GroupBeginTypes, GroupBeginAddresses, GroupBeginCopies DEF IInv, Keeping
<1>2. CASE GroupLock(c)
  BY <1>2, GroupLockTypes, GroupLockAddresses, GroupLockCopies DEF IInv, Keeping
<1>3. CASE GroupMember(c)
  BY <1>3, GroupMemberTypes, GroupMemberAddresses, GroupMemberCopies DEF IInv, Keeping
<1>4. CASE GroupPublish(c)
  BY <1>4, GroupPublishTypes, GroupPublishAddresses, GroupPublishCopies DEF IInv, Keeping
<1>5. CASE GroupStore(c)
  BY <1>5, GroupStoreTypes, GroupStoreAddresses, GroupStoreCopies DEF IInv, Keeping
<1>6. CASE GroupEnd(c)
  BY <1>6, GroupEndTypes, GroupEndAddresses, GroupEndCopies DEF IInv, Keeping
<1> QED
  BY <1>1, <1>2, <1>3, <1>4, <1>5, <1>6 DEF GroupChat

LEMMA ClientStep ==
    ASSUME IInv, NEW c \in Conns,
           \/ Connect(c) \/ ClientExit(c) \/ LogoutBegin(c)
           \/ \E m \in Msgs : Send(c, m)
           \/ \E u \in Users : LoginAccept(c, u)
    PROVE  IInv' /\ Keeping
<1>1. CASE Connect(c)
  BY <1>1, ConnectTypes, ConnectAddresses, ConnectCopies DEF IInv, Keeping
<1>2. CASE ClientExit(c)
  BY <1>2, ClientExitTypes, ClientExitAddresses, ClientExitCopies DEF IInv, Keeping
<1>3. ASSUME NEW m \in Msgs, Send(c, m)
      PROVE  IInv' /\ Keeping
  BY <1>3, SendTypes, SendAddresses, SendCopies DEF IInv, Keeping
<1>4. ASSUME NEW u \in Users, LoginAccept(c, u)
      PROVE  IInv' /\ Keeping
  BY <1>4, LoginAcceptTypes, LoginAcceptAddresses, LoginAcceptCopies DEF IInv, Keeping
<1>5. CASE LogoutBegin(c)
  BY <1>5, LogoutBeginTypes, LogoutBeginAddresses, LogoutBeginCopies DEF IInv, Keeping
<1> QED
  BY <1>1, <1>2, <1>3, <1>4, <1>5

LEMMA ServerStep ==
    ASSUME IInv, NEW s \in Servers,
           Background(s) \/ Crash(s) \/ ResetState(s) \/ Exit(s) \/ Restart(s)
    PROVE  IInv' /\ Keeping
<1>1. CASE Worker(s)
  BY <1>1, WorkerTypes, WorkerAddresses, WorkerCopies DEF IInv, Keeping
<1>2. CASE RedisSubscriber(s)
  BY <1>2, RedisSubscriberTypes, RedisSubscriberAddresses, RedisSubscriberCopies DEF IInv, Keeping
<1>3. CASE Observe(s)
  BY <1>3, ObserveTypes, ObserveAddresses, ObserveCopies DEF IInv, Keeping
<1>4. CASE Crash(s)
  BY <1>4, CrashTypes, CrashAddresses, CrashCopies DEF IInv, Keeping
<1>5. CASE ResetState(s)
  BY <1>5, ResetStateTypes, ResetStateAddresses, ResetStateCopies DEF IInv, Keeping
<1>6. CASE Exit(s)
  BY <1>6, ExitTypes, ExitAddresses, ExitCopies DEF IInv, Keeping
<1>7. CASE Restart(s)
  BY <1>7, RestartTypes, RestartAddresses, RestartCopies DEF IInv, Keeping
<1> QED
  BY <1>1, <1>2, <1>3, <1>4, <1>5, <1>6, <1>7 DEF Background

LEMMA NextStep ==
    ASSUME IInv, [Next]_vars
    PROVE  IInv' /\ Keeping
<1>1. CASE UNCHANGED vars
  <2>1. UNCHANGED <<mysql, redis, process, handler, client, outcome, bounds>>
    BY <1>1 DEF vars
  <2>2. TypeOK'
    BY <2>1 DEF IInv, TypeOK, MySQLTypes, RedisTypes, ProcessTypes, HandlerTypes,
                ClientTypes, OutcomeTypes, BoundTypes, mysql, redis, pubsub, process,
                server, handler, work, client, traffic, outcome, bounds
  <2>3. (WorkOK /\ MapOK /\ AddressOK /\ NoMisdelivery)'
    BY <2>1 DEF IInv, WorkOK, MapOK, AddressOK, TableOK, RowsOK, QueueOK, ChannelOK,
                NoMisdelivery, Queued, Travelling, mysql, redis, pubsub, process,
                server, handler, work, client, outcome
  <2>4. Keeping
    BY <2>1 DEF Keeping, Safe, Kept, Received, Stored, Enqueued, Published, Answered,
                Queued, Travelling, mysql, redis, pubsub, process, handler, work, outcome
  <2> QED
    BY <2>2, <2>3, <2>4 DEF IInv
<1>2. ASSUME NEW c \in Conns, Handler(c)
      PROVE  IInv' /\ Keeping
  BY <1>2, LoginStep, LeaveStep, OneChatStep, GroupChatStep DEF Handler
<1>3. ASSUME NEW c \in Conns,
             \/ Connect(c) \/ ClientExit(c) \/ LogoutBegin(c)
             \/ \E m \in Msgs : Send(c, m)
             \/ \E u \in Users : LoginAccept(c, u)
      PROVE  IInv' /\ Keeping
  BY <1>3, ClientStep
<1>4. ASSUME NEW m \in Msgs, Resend(m)
      PROVE  IInv' /\ Keeping
  BY <1>4, ResendTypes, ResendAddresses, ResendCopies DEF IInv, Keeping
<1>5. ASSUME NEW s \in Servers,
             Background(s) \/ Crash(s) \/ ResetState(s) \/ Exit(s) \/ Restart(s)
      PROVE  IInv' /\ Keeping
  BY <1>5, ServerStep
<1>6. ASSUME NEW u \in Users, KeyExpire(u)
      PROVE  IInv' /\ Keeping
  BY <1>6, KeyExpireTypes, KeyExpireAddresses, KeyExpireCopies DEF IInv, Keeping
<1> QED
  BY <1>1, <1>2, <1>3, <1>4, <1>5, <1>6 DEF Next

-----------------------------------------------------------------------------
(* groupChat and the ACKs.                                                 *)
LEMMA AccountedStays ==
    ASSUME Keeping, NEW u \in Users, NEW m \in Msgs
    PROVE  Accounted(u, m) => Accounted(u, m)'
<1>1. Dropped \subseteq Causes
  BY DEF Dropped
<1>2. LostBy(u, m, Causes) => LostBy(u, m, Causes)'
  BY DEF Keeping, LostBy
<1>3. LostBy(u, m, Dropped)' => LostBy(u, m, Causes)'
  BY <1>1 DEF LostBy
<1> QED
  BY <1>2, <1>3 DEF Keeping, Accounted, Safe

LEMMA SafeIsAccounted ==
    ASSUME NEW u, NEW m, Safe(u, m)'
    PROVE  Accounted(u, m)'
  BY DEF Safe, Accounted, LostBy, Dropped

(* A groupChat that stands still, and one that others overtake, has still  *)
(* answered for the members it is done with.                               *)
LEMMA ServedStays ==
    ASSUME IInv, Keeping, NEW c \in Conns, pc[c] \in GroupPc, Served(c),
           pc'[c] = pc[c], user'[c] = user[c], msg'[c] = msg[c], todo'[c] = todo[c]
    PROVE  Served(c)'
<1>1. msg[c] \in Msgs /\ Addressees[msg[c]] \subseteq Users
  BY ChatAssumption DEF IInv, WorkOK
<1> QED
  BY <1>1, AccountedStays DEF Served

(* What a handler pushes or publishes is kept, or nobody listens.          *)
LEMMA PushArrives ==
    ASSUME TypeOK, NEW s \in Servers, NEW u \in Users, NEW m \in Msgs,
           PushTask(s, OfflineTask(u, m))
    PROVE  Safe(u, m)'
<1>1. dbQueue[s] \in Seq(DbTaskArgs) /\ dbQueue'[s] = Append(dbQueue[s], OfflineTask(u, m))
  BY DEF TypeOK, ProcessTypes, PushTask
<1>2. Len(dbQueue'[s]) \in 1..Len(dbQueue'[s]) /\ dbQueue'[s][Len(dbQueue'[s])] = OfflineTask(u, m)
  BY <1>1
<1> QED
  BY <1>2 DEF Safe, Kept, Enqueued, Queued

LEMMA PublishArrives ==
    ASSUME TypeOK, NEW u \in Users, NEW m \in Msgs, Publish(u, m)
    PROVE  Accounted(u, m)'
<1>1. CASE \E s \in Servers : u \in subscribed[s]
  <2>1. PICK s \in Servers : u \in subscribed[s]
    BY <1>1
  <2>2. channel[s] \in Seq(Users \X Msgs) /\ channel'[s] = Append(channel[s], <<u, m>>)
    BY <2>1 DEF TypeOK, RedisTypes, Publish
  <2>3. Len(channel'[s]) \in 1..Len(channel'[s]) /\ channel'[s][Len(channel'[s])] = <<u, m>>
    BY <2>2
  <2> QED
    BY <2>3 DEF Accounted, Kept, Published, Travelling
<1>2. CASE ~\E s \in Servers : u \in subscribed[s]
  <2>1. <<u, m, "nobody">> \in lost'
    BY <1>2 DEF Publish
  <2> QED
    BY <2>1 DEF Accounted, LostBy, Causes
<1> QED
  BY <1>1, <1>2

(* The steps of groupChat itself.                                          *)
LEMMA GroupBeginServes ==
    ASSUME IInv, GroupOK, Keeping, NEW c \in Conns, NEW m \in Msgs, GroupBegin(c, m)
    PROVE  GroupOK'
<1>1. \A d \in Conns \ {c} : /\ pc'[d] = pc[d] /\ user'[d] = user[d]
                                /\ msg'[d] = msg[d] /\ todo'[d] = todo[d]
  BY DEF IInv, TypeOK, HandlerTypes, GroupBegin, Fault, Goto, At
<1>2. Served(c)'
  <2>1. msg'[c] = m
    BY DEF GroupBegin, IInv, TypeOK, HandlerTypes
  <2>2. \/ todo'[c] = Addressees[m]
        \/ lost' = lost \cup {<<u, m, "fault">> : u \in Addressees[m]}
    BY DEF GroupBegin, IInv, TypeOK, HandlerTypes
  <2>3. CASE todo'[c] = Addressees[m]
    BY <2>1, <2>3 DEF Served
  <2>4. CASE lost' = lost \cup {<<u, m, "fault">> : u \in Addressees[m]}
    BY <2>1, <2>4 DEF Served, Accounted, LostBy, Causes
  <2> QED
    BY <2>2, <2>3, <2>4
<1> QED
  BY <1>1, <1>2, ServedStays DEF GroupOK

LEMMA GroupLockServes ==
    ASSUME IInv, GroupOK, Keeping, NEW c \in Conns, GroupLock(c)
    PROVE  GroupOK'
<1>1. \A d \in Conns \ {c} : /\ pc'[d] = pc[d] /\ user'[d] = user[d]
                                /\ msg'[d] = msg[d] /\ todo'[d] = todo[d]
  BY DEF IInv, TypeOK, HandlerTypes, GroupLock, At, MapFree, Goto, work
<1>2. Served(c)'
  <2>1. Served(c) /\ pc[c] = "lock"
    BY DEF GroupOK, GroupLock, At, GroupPc
  <2>2. msg[c] \in Msgs /\ Addressees[msg[c]] \subseteq Users
    BY <2>1, ChatAssumption DEF IInv, WorkOK, GroupPc
  <2>3. msg' = msg /\ todo' = todo
    BY DEF GroupLock, work
  <2> QED
    BY <2>1, <2>2, <2>3, AccountedStays DEF Served
<1> QED
  BY <1>1, <1>2, ServedStays DEF GroupOK

LEMMA GroupMemberServes ==
    ASSUME IInv, GroupOK, Keeping, NEW c \in Conns, GroupMember(c)
    PROVE  GroupOK'
<1>1. \A d \in Conns \ {c} : /\ pc'[d] = pc[d] /\ user'[d] = user[d]
                                /\ msg'[d] = msg[d] /\ todo'[d] = todo[d]
  BY DEF IInv, TypeOK, HandlerTypes, GroupMember, At, Goto, Fault
<1>2. Served(c)'
  <2>1. Served(c) /\ pc[c] = "member" /\ msg' = msg
    BY DEF GroupOK, GroupMember, At, GroupPc
  <2>2. msg[c] \in Msgs /\ Addressees[msg[c]] \subseteq Users /\ todo[c] \subseteq Addressees[msg[c]]
    BY <2>1, ChatAssumption DEF IInv, WorkOK, GroupPc
  <2>3. PICK u \in todo[c] :
            /\ todo' = [todo EXCEPT ![c] = @ \ {u}]
            /\ \/ /\ userConnMap[host[c]][u] # NoConn
                  /\ Receive(userConnMap[host[c]][u], u, One(msg[c]))
               \/ user' = [user EXCEPT ![c] = u] /\ (Goto(c, "gpublish") \/ Goto(c, "gstore"))
    BY DEF GroupMember
  <2>4. todo'[c] = todo[c] \ {u}
    BY <2>3 DEF IInv, TypeOK, HandlerTypes
  <2>5. \/ Accounted(u, msg[c])'
        \/ (pc'[c] \in {"gpublish", "gstore"} /\ user'[c] = u)
    <3>1. CASE /\ userConnMap[host[c]][u] # NoConn
               /\ Receive(userConnMap[host[c]][u], u, One(msg[c]))
      <4>1. userConnMap[host[c]][u] \in Conns /\ account[userConnMap[host[c]][u]] = u
        BY <2>2, <3>1, HostType DEF IInv, TypeOK, ProcessTypes, MapOK
      <4>2. One(msg[c])[msg[c]] > 0
        BY <2>2, SMT DEF One
      <4>3. Safe(u, msg[c])'
        BY <2>1, <2>2, <3>1, <4>1, <4>2, BagTypes, ReceiveArrives DEF IInv
      <4> QED
        BY <4>3, SafeIsAccounted, <2>1
    <3>2. CASE user' = [user EXCEPT ![c] = u] /\ (Goto(c, "gpublish") \/ Goto(c, "gstore"))
      BY <3>2 DEF Goto, IInv, TypeOK, HandlerTypes
    <3> QED
      BY <2>3, <3>1, <3>2
  <2> QED
    BY <2>1, <2>2, <2>4, <2>5, AccountedStays DEF Served
<1> QED
  BY <1>1, <1>2, ServedStays DEF GroupOK

LEMMA GroupPublishServes ==
    ASSUME IInv, GroupOK, Keeping, NEW c \in Conns, GroupPublish(c)
    PROVE  GroupOK'
<1>1. \A d \in Conns \ {c} : /\ pc'[d] = pc[d] /\ user'[d] = user[d]
                                /\ msg'[d] = msg[d] /\ todo'[d] = todo[d]
  BY DEF IInv, TypeOK, HandlerTypes, GroupPublish, At, NextMember, Goto
<1>2. Served(c)'
  <2>1. Served(c) /\ pc[c] = "gpublish" /\ msg' = msg /\ todo' = todo
    BY DEF GroupOK, GroupPublish, At, GroupPc
  <2>2. msg[c] \in Msgs /\ Addressees[msg[c]] \subseteq Users /\ user[c] \in Users
    BY <2>1, ChatAssumption DEF IInv, WorkOK, GroupPc
  <2>3. PICK u \in Users, m \in Msgs : u = user[c] /\ m = msg[c]
    BY <2>2
  <2>4. Accounted(u, m)'
    BY <2>3, PublishArrives DEF GroupPublish, IInv
  <2> QED
    BY <2>1, <2>2, <2>3, <2>4, AccountedStays DEF Served
<1> QED
  BY <1>1, <1>2, ServedStays DEF GroupOK

LEMMA GroupStoreServes ==
    ASSUME IInv, GroupOK, Keeping, NEW c \in Conns, GroupStore(c)
    PROVE  GroupOK'
<1>1. \A d \in Conns \ {c} : /\ pc'[d] = pc[d] /\ user'[d] = user[d]
                                /\ msg'[d] = msg[d] /\ todo'[d] = todo[d]
  BY DEF IInv, TypeOK, HandlerTypes, GroupStore, At, NextMember, Goto
<1>2. Served(c)'
  <2>1. Served(c) /\ pc[c] = "gstore" /\ msg' = msg /\ todo' = todo
    BY DEF GroupOK, GroupStore, At, GroupPc
  <2>2. msg[c] \in Msgs /\ Addressees[msg[c]] \subseteq Users /\ user[c] \in Users
    BY <2>1, ChatAssumption DEF IInv, WorkOK, GroupPc
  <2>3. PICK u \in Users, m \in Msgs : u = user[c] /\ m = msg[c]
    BY <2>2
  <2>4. Accounted(u, m)'
    BY <2>3, HostType, PushArrives, SafeIsAccounted DEF GroupStore, KeepOffline, IInv
  <2> QED
    BY <2>1, <2>2, <2>3, <2>4, AccountedStays DEF Served
<1> QED
  BY <1>1, <1>2, ServedStays DEF GroupOK

LEMMA GroupEndServes ==
    ASSUME IInv, GroupOK, Keeping, NEW c \in Conns, GroupEnd(c)
    PROVE  GroupOK'
<1>1. \A d \in Conns \ {c} : /\ pc'[d] = pc[d] /\ user'[d] = user[d]
                                /\ msg'[d] = msg[d] /\ todo'[d] = todo[d]
  BY DEF IInv, TypeOK, HandlerTypes, GroupEnd, At, Finish, Goto
<1>2. pc'[c] \notin GroupPc
    BY DEF GroupEnd, Finish, Goto, GroupPc, IInv, TypeOK, HandlerTypes
<1> QED
  BY <1>1, <1>2, ServedStays DEF GroupOK

(* A message newly acknowledged is safe: it was handed over or pushed to   *)
(* the database worker; of a group message every member is accounted for.  *)
NewAcks ==
    \A m \in acked' \ acked : \A u \in Addressees[m] :
        IF m \in GroupMsgs THEN Accounted(u, m)' ELSE Safe(u, m)'

LEMMA ChatBeginAcks ==
    ASSUME IInv, NEW c \in Conns, NEW m \in Msgs, ChatBegin(c, m)
    PROVE  NewAcks
<1>1. PICK u \in Users : Addressees[m] = {u}
  BY ChatAssumption DEF ChatBegin
<1>2. CASE acked' = acked
  BY <1>2 DEF NewAcks
<1>3. CASE userConnMap[host[c]][u] # NoConn /\ HandOver(c, u, m)
  <2>1. acked' \subseteq acked \cup {m}
    BY <1>3 DEF HandOver, ACKToClient
  <2>2. userConnMap[host[c]][u] \in Conns /\ account[userConnMap[host[c]][u]] = u
    BY <1>3, HostType DEF IInv, TypeOK, ProcessTypes, MapOK
  <2>3. One(m)[m] > 0
    BY SMT DEF One
  <2>4. Safe(u, m)'
    BY <1>3, <2>2, <2>3, BagTypes, ReceiveArrives DEF HandOver, IInv
  <2> QED
    BY <1>1, <2>1, <2>4 DEF ChatBegin, NewAcks
<1> QED
  BY <1>1, <1>2, <1>3 DEF ChatBegin, outcome

LEMMA ChatStoreAcks ==
    ASSUME IInv, NEW c \in Conns, ChatStore(c)
    PROVE  NewAcks
<1>1. PICK m \in Msgs, u \in Users \cup {NoUser} : m = msg[c] /\ u = user[c]
  BY DEF ChatStore, At, IInv, WorkOK, OneChatPc, TypeOK, HandlerTypes
<1>2. acked' \subseteq acked \cup {m} /\ m \notin GroupMsgs /\ lost' = lost
  BY <1>1 DEF ChatStore, ACKToClient, At, IInv, WorkOK, OneChatPc
<1>3. CASE u \in Addressees[m]
  <2>1. u \in Users /\ Addressees[m] = {u}
    BY <1>2, <1>3, ChatAssumption
  <2>2. Safe(u, m)'
    BY <1>1, <2>1, HostType, PushArrives DEF ChatStore, KeepOffline, IInv
  <2> QED
    BY <1>2, <2>1, <2>2 DEF NewAcks
<1>4. CASE \A v \in Addressees[m] : <<v, m, "fault">> \in lost
  BY <1>2, <1>4 DEF NewAcks, Safe, LostBy, Dropped, Causes
<1> QED
  BY <1>1, <1>3, <1>4 DEF ChatStore, At, IInv, WorkOK, OneChatPc

(* The steps outside groupChat leave every groupChat where it is, and none *)
(* of them but two of oneChat sends an ACK.                                *)
Stand == \A d \in Conns : pc'[d] \in GroupPc =>
             /\ pc'[d] = pc[d] /\ user'[d] = user[d]
             /\ msg'[d] = msg[d] /\ todo'[d] = todo[d]
LEMMA LoginStands ==
    ASSUME IInv, NEW c \in Conns, Login(c)
    PROVE  Stand /\ NewAcks
<1>1. CASE LoginInsert(c)
  BY <1>1 DEF Stand, LoginInsert, At, Goto, work, outcome, GroupPc, IInv, TypeOK,
       HandlerTypes, NewAcks
<1>2. CASE LoginSubscribe(c)
  BY <1>2 DEF Stand, LoginSubscribe, At, Goto, work, outcome, GroupPc, IInv, TypeOK,
       HandlerTypes, NewAcks
<1>3. CASE LoginSet(c)
  BY <1>3 DEF Stand, LoginSet, At, Goto, work, outcome, GroupPc, IInv, TypeOK, HandlerTypes, NewAcks
<1>4. CASE LoginOnline(c)
  BY <1>4 DEF Stand, LoginOnline, At, Goto, work, outcome, GroupPc, IInv, TypeOK,
       HandlerTypes, NewAcks
<1>5. CASE LoginQuery(c)
  BY <1>5 DEF Stand, LoginQuery, At, Goto, outcome, GroupPc, IInv, TypeOK, HandlerTypes, NewAcks
<1>6. CASE LoginRemove(c)
  BY <1>6 DEF Stand, LoginRemove, At, Goto, work, GroupPc, IInv, TypeOK, HandlerTypes, NewAcks
<1>7. CASE LoginReply(c)
  BY <1>7 DEF Stand, LoginReply, At, Goto, GroupPc, IInv, TypeOK, HandlerTypes, NewAcks
<1> QED
  BY <1>1, <1>2, <1>3, <1>4, <1>5, <1>6, <1>7 DEF Login

LEMMA LeaveStands ==
    ASSUME IInv, NEW c \in Conns, Leave(c) \/ CloseBegin(c)
    PROVE  Stand /\ NewAcks
<1>1. CASE CloseBegin(c)
  BY <1>1 DEF Stand, CloseBegin, At, Goto, outcome, GroupPc, IInv, TypeOK, HandlerTypes, NewAcks
<1>2. CASE LeaveUnsubscribe(c)
  BY <1>2 DEF Stand, LeaveUnsubscribe, At, Goto, work, outcome, GroupPc, IInv, TypeOK,
       HandlerTypes, NewAcks
<1>3. CASE LeaveDelete(c)
  BY <1>3 DEF Stand, LeaveDelete, At, Goto, work, outcome, GroupPc, IInv, TypeOK,
       HandlerTypes, NewAcks
<1>4. CASE LeaveOffline(c)
  BY <1>4 DEF Stand, LeaveOffline, At, Goto, outcome, GroupPc, IInv, TypeOK, HandlerTypes, NewAcks
<1> QED
  BY <1>1, <1>2, <1>3, <1>4 DEF Leave

LEMMA OneChatStands ==
    ASSUME IInv, NEW c \in Conns, OneChat(c)
    PROVE  Stand /\ NewAcks
<1>1. ASSUME NEW m \in Msgs, ChatBegin(c, m)
      PROVE  Stand /\ NewAcks
  BY <1>1, ChatBeginAcks DEF Stand, ChatBegin, Goto, At, GroupPc, IInv, TypeOK, HandlerTypes
<1>2. CASE ChatGet(c)
  BY <1>2 DEF Stand, ChatGet, At, Goto, work, outcome, GroupPc, IInv, TypeOK, HandlerTypes, NewAcks
<1>3. CASE ChatState(c)
  BY <1>3 DEF Stand, ChatState, At, Goto, GroupPc, IInv, TypeOK, HandlerTypes, NewAcks
<1>4. CASE ChatPublish(c)
  BY <1>4 DEF Stand, ChatPublish, At, AfterPublish, Finish, Goto, GroupPc, IInv, TypeOK,
       HandlerTypes, NewAcks
<1>5. CASE ChatStore(c)
  BY <1>5, ChatStoreAcks DEF Stand, ChatStore, At, Finish, Goto, GroupPc, IInv, TypeOK, HandlerTypes
<1> QED
  BY <1>1, <1>2, <1>3, <1>4, <1>5 DEF OneChat

LEMMA ClientStands ==
    ASSUME IInv, NEW c \in Conns,
           \/ Connect(c) \/ ClientExit(c) \/ LogoutBegin(c)
           \/ \E m \in Msgs : Send(c, m)
           \/ \E u \in Users : LoginAccept(c, u)
    PROVE  Stand /\ NewAcks
<1>1. CASE Connect(c)
  BY <1>1 DEF Stand, Connect, handler, work, outcome, NewAcks
<1>2. CASE ClientExit(c)
  BY <1>2 DEF Stand, ClientExit, handler, work, outcome, NewAcks
<1>3. ASSUME NEW m \in Msgs, Send(c, m)
      PROVE  Stand /\ NewAcks
  BY <1>3 DEF Stand, Send, LoginPc, handler, work, outcome, NewAcks
<1>4. ASSUME NEW u \in Users, LoginAccept(c, u)
      PROVE  Stand /\ NewAcks
  BY <1>4 DEF Stand, LoginAccept, At, Goto, outcome, GroupPc, IInv, TypeOK, HandlerTypes, NewAcks
<1>5. CASE LogoutBegin(c)
  BY <1>5 DEF Stand, LogoutBegin, At, Goto, outcome, GroupPc, IInv, TypeOK, HandlerTypes, NewAcks
<1> QED
  BY <1>1, <1>2, <1>3, <1>4, <1>5

LEMMA ServerStands ==
    ASSUME IInv, NEW s \in Servers,
           Background(s) \/ Crash(s) \/ ResetState(s) \/ Exit(s) \/ Restart(s)
    PROVE  Stand /\ NewAcks
<1>1. CASE Worker(s)
  BY <1>1 DEF Stand, Worker, handler, work, NewAcks
<1>2. CASE RedisSubscriber(s)
  BY <1>2 DEF Stand, RedisSubscriber, handler, work, outcome, NewAcks
<1>3. CASE Observe(s)
  BY <1>3 DEF Stand, Observe, handler, work, NewAcks
<1>4. CASE Crash(s)
  BY <1>4 DEF Stand, Crash, Stop, GroupPc, IInv, TypeOK, HandlerTypes, NewAcks
<1>5. CASE ResetState(s)
  BY <1>5 DEF Stand, ResetState, handler, work, outcome, NewAcks
<1>6. CASE Exit(s)
  BY <1>6 DEF Stand, Exit, Stop, GroupPc, IInv, TypeOK, HandlerTypes, NewAcks
<1>7. CASE Restart(s)
  BY <1>7 DEF Stand, Restart, handler, work, outcome, NewAcks
<1> QED
  BY <1>1, <1>2, <1>3, <1>4, <1>5, <1>6, <1>7 DEF Background

LEMMA GroupEndAcks ==
    ASSUME IInv, GroupOK, Keeping, NEW c \in Conns, GroupEnd(c)
    PROVE  NewAcks
<1>1. PICK m \in GroupMsgs : m = msg[c]
  BY DEF GroupEnd, At, IInv, WorkOK, GroupPc
<1>2. m \in Msgs /\ Addressees[m] \subseteq Users
  BY ChatAssumption
<1>3. \A u \in Addressees[m] : Accounted(u, m)
  BY <1>1 DEF GroupEnd, At, GroupOK, Served, GroupPc
<1>4. acked' \subseteq acked \cup {m}
  BY <1>1 DEF GroupEnd, ACKToClient
<1> QED
  BY <1>2, <1>3, <1>4, AccountedStays DEF NewAcks

LEMMA GroupChatAcks ==
    ASSUME IInv, GroupOK, Keeping, NEW c \in Conns, GroupChat(c)
    PROVE  GroupOK' /\ NewAcks
<1>1. ASSUME NEW m \in Msgs, GroupBegin(c, m) PROVE GroupOK' /\ NewAcks
  BY <1>1, GroupBeginServes DEF GroupBegin, NewAcks
<1>2. CASE GroupLock(c)
  BY <1>2, GroupLockServes DEF GroupLock, NewAcks, outcome
<1>3. CASE GroupMember(c)
  BY <1>3, GroupMemberServes DEF GroupMember, NewAcks
<1>4. CASE GroupPublish(c)
  BY <1>4, GroupPublishServes DEF GroupPublish, NewAcks
<1>5. CASE GroupStore(c)
  BY <1>5, GroupStoreServes DEF GroupStore, NewAcks, outcome
<1>6. CASE GroupEnd(c)
  BY <1>6, GroupEndServes, GroupEndAcks
<1> QED
  BY <1>1, <1>2, <1>3, <1>4, <1>5, <1>6 DEF GroupChat

LEMMA NextAcks ==
    ASSUME IInv, GroupOK, Keeping, [Next]_vars
    PROVE  GroupOK' /\ NewAcks
<1>1. CASE Stand /\ NewAcks
  BY <1>1, ServedStays DEF GroupOK, Stand
<1>2. CASE UNCHANGED vars
  <2>1. UNCHANGED <<pc, user, msg, todo, acked>>
    BY <1>2 DEF vars, handler, work, outcome
  <2> QED
    BY <1>1, <2>1 DEF Stand, NewAcks
<1>3. CASE \E c \in Conns : GroupChat(c)
  BY <1>3, GroupChatAcks
<1>4. ASSUME NEW c \in Conns,
             \/ Login(c) \/ Leave(c) \/ CloseBegin(c) \/ OneChat(c)
             \/ Connect(c) \/ ClientExit(c) \/ LogoutBegin(c)
             \/ \E m \in Msgs : Send(c, m)
             \/ \E u \in Users : LoginAccept(c, u)
      PROVE  Stand /\ NewAcks
  BY <1>4, LoginStands, LeaveStands, OneChatStands, ClientStands
<1>5. ASSUME NEW m \in Msgs, Resend(m)
      PROVE  Stand /\ NewAcks
  BY <1>5 DEF Stand, NewAcks, Resend, handler, work, outcome
<1>6. ASSUME NEW s \in Servers,
             Background(s) \/ Crash(s) \/ ResetState(s) \/ Exit(s) \/ Restart(s)
      PROVE  Stand /\ NewAcks
  BY <1>6, ServerStands
<1>7. ASSUME NEW u \in Users, KeyExpire(u)
      PROVE  Stand /\ NewAcks
  BY <1>7 DEF Stand, NewAcks, KeyExpire, handler, work, outcome
<1> QED
  BY <1>1, <1>2, <1>3, <1>4, <1>5, <1>6, <1>7 DEF Next, Handler

LEMMA SafeStays ==
    ASSUME Keeping, NEW u \in Users, NEW m \in Msgs
    PROVE  Safe(u, m) => Safe(u, m)'
  BY DEF Keeping, Safe, LostBy

LEMMA NextAckInv ==
    ASSUME AckInv, [Next]_vars
    PROVE  AckInv'
<1>1. IInv' /\ Keeping /\ GroupOK' /\ NewAcks
  BY NextStep, NextAcks DEF AckInv
<1>2. acked \subseteq Msgs /\ \A m \in Msgs : Addressees[m] \subseteq Users
  BY ChatAssumption DEF AckInv, IInv, TypeOK, OutcomeTypes
<1>3. AckedIsKept'
  BY <1>1, <1>2, SafeStays DEF AckInv, AckedIsKept, NewAcks
<1>4. GroupAckedIsKept'
  BY <1>1, <1>2, AccountedStays DEF AckInv, GroupAckedIsKept, NewAcks
<1> QED
  BY <1>1, <1>3, <1>4 DEF AckInv

LEMMA InitAckInv ==
    ASSUME Init
    PROVE  AckInv
<1>1. GroupOK /\ AckedIsKept /\ GroupAckedIsKept
  BY DEF Init, GroupOK, GroupPc, AckedIsKept, GroupAckedIsKept
<1> QED
  BY <1>1, InitIInv DEF AckInv

-----------------------------------------------------------------------------
(* What is in the queues.                                                  *)
\* Tasks are pushed whole, taken from the head, or gone with their process.
Queues ==
    \/ dbQueue' = dbQueue
    \/ \E s \in Servers, t \in DbTaskArgs : Whole(t) /\ PushTask(s, t)
    \/ \E s \in Servers : dbQueue[s] # <<>> /\ dbQueue' = [dbQueue EXCEPT ![s] = Tail(@)]
    \/ \E s \in Servers : dbQueue' = [dbQueue EXCEPT ![s] = <<>>]

LEMMA QueuesWhole ==
    ASSUME TypeOK, TasksWhole, Queues
    PROVE  TasksWhole'
<1>1. \A z \in Servers : dbQueue[z] \in Seq(DbTaskArgs)
  BY DEF TypeOK, ProcessTypes
<1>2. dbQueue \in [Servers -> Seq(DbTaskArgs)]
  BY DEF TypeOK, ProcessTypes
<1>3. CASE dbQueue' = dbQueue
  BY <1>3 DEF TasksWhole, Whole
<1>4. ASSUME NEW s \in Servers, NEW t \in DbTaskArgs, Whole(t), PushTask(s, t)
      PROVE  TasksWhole'
  <2>1. \A z \in Servers : dbQueue'[z] = IF z = s THEN Append(dbQueue[s], t) ELSE dbQueue[z]
    BY <1>2, <1>4 DEF PushTask
  <2>2. /\ DOMAIN Append(dbQueue[s], t) = 1..(Len(dbQueue[s]) + 1)
        /\ Append(dbQueue[s], t)[Len(dbQueue[s]) + 1] = t
        /\ DOMAIN dbQueue[s] = 1..Len(dbQueue[s]) /\ Len(dbQueue[s]) \in Nat
        /\ \A i \in 1..Len(dbQueue[s]) : Append(dbQueue[s], t)[i] = dbQueue[s][i]
    BY <1>1, AppendProperties, LenProperties
  <2>3. \A i \in DOMAIN Append(dbQueue[s], t) : Whole(Append(dbQueue[s], t)[i])
    <3> TAKE i \in DOMAIN Append(dbQueue[s], t)
    <3>1. CASE i \in DOMAIN dbQueue[s]
      BY <2>2, <3>1 DEF TasksWhole
    <3>2. CASE i \notin DOMAIN dbQueue[s]
      <4>1. i = Len(dbQueue[s]) + 1
        BY <2>2, <3>2
      <4> QED
        BY <1>4, <2>2, <4>1
    <3> QED
      BY <3>1, <3>2
  <2> QED
    BY <2>1, <2>3 DEF TasksWhole, Whole
<1>5. ASSUME NEW s \in Servers, dbQueue[s] # <<>>, dbQueue' = [dbQueue EXCEPT ![s] = Tail(@)]
      PROVE  TasksWhole'
  <2>1. \A z \in Servers : dbQueue'[z] = IF z = s THEN Tail(dbQueue[s]) ELSE dbQueue[z]
    BY <1>2, <1>5
  <2>2. /\ DOMAIN dbQueue[s] = 1..Len(dbQueue[s]) /\ Len(dbQueue[s]) \in Nat \ {0}
        /\ DOMAIN Tail(dbQueue[s]) = 1..(Len(dbQueue[s]) - 1)
        /\ \A i \in 1..(Len(dbQueue[s]) - 1) : Tail(dbQueue[s])[i] = dbQueue[s][i + 1]
    BY <1>1, <1>5, HeadTailProperties, LenProperties, EmptySeq
  <2>3. \A i \in DOMAIN Tail(dbQueue[s]) : Whole(Tail(dbQueue[s])[i])
    <3> TAKE i \in DOMAIN Tail(dbQueue[s])
    <3>1. i + 1 \in DOMAIN dbQueue[s] /\ Tail(dbQueue[s])[i] = dbQueue[s][i + 1]
      BY <2>2
    <3> QED
      BY <3>1 DEF TasksWhole
  <2> QED
    BY <2>1, <2>3 DEF TasksWhole, Whole
<1>6. ASSUME NEW s \in Servers, dbQueue' = [dbQueue EXCEPT ![s] = <<>>]
      PROVE  TasksWhole'
  BY <1>2, <1>6 DEF TasksWhole, Whole
<1> QED
  BY <1>3, <1>4, <1>5, <1>6 DEF Queues

LEMMA StateWhole ==
    ASSUME TypeOK, NEW s \in Servers, NEW u \in Users \cup {NoUser}, NEW st \in {"Online", "Offline"},
           PushTask(s, StateTask(u, st))
    PROVE  Queues
<1>1. StateTask(u, st) \in DbTaskArgs /\ StateTask(u, st).type = "state"
  BY TaskTypes DEF StateTask
<1> QED
  BY <1>1 DEF Queues, Whole

LEMMA OfflineWhole ==
    ASSUME TypeOK, NEW s \in Servers, NEW u \in Users \cup {NoUser}, NEW m \in Msgs,
           PushTask(s, OfflineTask(u, m))
    PROVE  Queues
<1>1. OfflineTask(u, m) \in DbTaskArgs /\ OfflineTask(u, m).state = "Offline"
  BY TaskTypes DEF OfflineTask
<1> QED
  BY <1>1 DEF Queues, Whole

(* No step queues anything else, or leaves a queue but from its head.      *)
LEMMA HandlerQueues ==
    ASSUME IInv, NEW c \in Conns, Handler(c)
    PROVE  Queues
<1>1. user[c] \in Users \cup {NoUser} /\ host[c] \in Servers
  BY HostType DEF IInv, TypeOK, HandlerTypes
<1>2. TypeOK
  BY DEF IInv
<1>3. CASE LoginOnline(c) \/ LeaveOffline(c)
  <2>1. \E st \in {"Online", "Offline"} : PushTask(host[c], StateTask(user[c], st))
    BY <1>3 DEF LoginOnline, LeaveOffline, MarkOffline
  <2> QED
    BY <1>1, <1>2, <2>1, StateWhole
<1>4. CASE ChatStore(c) \/ GroupStore(c)
  <2>1. PushTask(host[c], OfflineTask(user[c], msg[c]))
    BY <1>4 DEF ChatStore, GroupStore, KeepOffline
  <2>2. pc[c] \in OneChatPc \cup GroupPc
    BY <1>4 DEF ChatStore, GroupStore, At, OneChatPc, GroupPc
  <2>3. msg[c] \in Msgs
    BY <2>2, ChatAssumption DEF IInv, WorkOK
  <2> QED
    BY <1>1, <1>2, <2>1, <2>3, OfflineWhole
<1>5. CASE \/ LoginInsert(c) \/ LoginSubscribe(c) \/ LoginSet(c) \/ LoginQuery(c)
           \/ LoginRemove(c) \/ LoginReply(c) \/ LeaveUnsubscribe(c) \/ LeaveDelete(c)
           \/ CloseBegin(c)
  <2>1. dbQueue' = dbQueue
    BY <1>5 DEF LoginInsert, LoginSubscribe, LoginSet, LoginQuery, LoginRemove, LoginReply,
                LeaveUnsubscribe, LeaveDelete, CloseBegin, process
  <2> QED
    BY <2>1 DEF Queues
<1>6. CASE \/ \E m \in Msgs : ChatBegin(c, m) \/ GroupBegin(c, m)
           \/ ChatGet(c) \/ ChatState(c) \/ ChatPublish(c)
           \/ GroupLock(c) \/ GroupMember(c) \/ GroupPublish(c) \/ GroupEnd(c)
  <2>1. dbQueue' = dbQueue
    BY <1>6 DEF ChatBegin, GroupBegin, ChatGet, ChatState, ChatPublish, GroupLock,
                GroupMember, GroupPublish, GroupEnd, process
  <2> QED
    BY <2>1 DEF Queues
<1> QED
  BY <1>3, <1>4, <1>5, <1>6 DEF Handler, Login, Leave, OneChat, GroupChat

LEMMA NextQueues ==
    ASSUME IInv, [Next]_vars
    PROVE  Queues
<1>1. ASSUME NEW s \in Servers, Worker(s) PROVE Queues
  BY <1>1 DEF Worker, Queues
<1>2. ASSUME NEW s \in Servers, Crash(s) \/ Exit(s) PROVE Queues
  BY <1>2 DEF Crash, Exit, Stop, Queues
<1>3. ASSUME NEW s \in Servers,
             RedisSubscriber(s) \/ Observe(s) \/ ResetState(s) \/ Restart(s)
      PROVE  Queues
  BY <1>3 DEF RedisSubscriber, Observe, ResetState, Restart, Queues, process
<1>4. ASSUME NEW c \in Conns,
             \/ Connect(c) \/ ClientExit(c) \/ LogoutBegin(c)
             \/ \E m \in Msgs : Send(c, m)
             \/ \E u \in Users : LoginAccept(c, u)
      PROVE  Queues
  BY <1>4 DEF Connect, ClientExit, LogoutBegin, Send, LoginAccept, Queues, process
<1>5. CASE (\E m \in Msgs : Resend(m)) \/ (\E u \in Users : KeyExpire(u)) \/ UNCHANGED vars
  BY <1>5 DEF Resend, KeyExpire, vars, Queues, process
<1> QED
  BY <1>1, <1>2, <1>3, <1>4, <1>5, HandlerQueues DEF Next, Background

-----------------------------------------------------------------------------
(* The types of the variables, in every reachable state of every instance. *)
THEOREM TypeCorrect == Spec => []TypeOK
<1>1. Init => IInv
  BY InitIInv
<1>2. IInv /\ [Next]_vars => IInv'
  BY NextStep
<1>3. IInv => TypeOK
  BY DEF IInv
<1> QED
  BY <1>1, <1>2, <1>3, PTL DEF Spec

(* Whatever oneChat, groupChat, login, logout and the close callback of    *)
(* any number of servers interleave to, a message is received by none but  *)
(* its addressees.                                                         *)
THEOREM IsolationCorrect == Spec => []NoMisdelivery
<1>1. Init => IInv
  BY InitIInv
<1>2. IInv /\ [Next]_vars => IInv'
  BY NextStep
<1>3. IInv => NoMisdelivery
  BY DEF IInv
<1> QED
  BY <1>1, <1>2, <1>3, PTL DEF Spec

(* ACKToClient of oneChat is only reached by a message that is kept, or    *)
(* has met one of the four ends a kept message can meet: none was          *)
(* published to nobody.                                                    *)
THEOREM AckCorrect == Spec => []AckedIsKept
<1>1. Init => AckInv
  BY InitAckInv
<1>2. AckInv /\ [Next]_vars => AckInv'
  BY NextAckInv
<1>3. AckInv => AckedIsKept
  BY DEF AckInv
<1> QED
  BY <1>1, <1>2, <1>3, PTL DEF Spec

(* groupChat sends its ACK when it has accounted for every member, however *)
(* often it was overtaken between two of them.                             *)
THEOREM GroupAckCorrect == Spec => []GroupAckedIsKept
<1>1. Init => AckInv
  BY InitAckInv
<1>2. AckInv /\ [Next]_vars => AckInv'
  BY NextAckInv
<1>3. AckInv => GroupAckedIsKept
  BY DEF AckInv
<1> QED
  BY <1>1, <1>2, <1>3, PTL DEF Spec
-----------------------------------------------------------------------------
(* _connMutex: who changes the connection map has found the lock free, or  *)
(* the process has gone.                                                   *)
Frozen ==
    \A s \in Servers : connMutex[s] # NoConn /\ connMutex'[s] # NoConn
                             => userConnMap'[s] = userConnMap[s]

LEMMA LoginFrozen ==
    ASSUME TypeOK, NEW c \in Conns, Login(c) \/ \E u \in Users : LoginAccept(c, u)
    PROVE  Frozen
<1>1. ASSUME NEW u \in Users, LoginAccept(c, u) PROVE Frozen
  BY <1>1 DEF LoginAccept, Frozen, process, server
<1>2. CASE LoginInsert(c)
  BY <1>2 DEF LoginInsert, MapFree, MapInsert, Frozen, TypeOK, ProcessTypes
<1>3. CASE LoginSubscribe(c) \/ LoginSet(c) \/ LoginOnline(c)
  BY <1>3 DEF LoginSubscribe, LoginSet, LoginOnline, Frozen, process, server
<1>4. CASE LoginQuery(c) \/ LoginRemove(c) \/ LoginReply(c)
  BY <1>4 DEF LoginQuery, LoginRemove, LoginReply, Frozen, process, server
<1> QED
  BY <1>1, <1>2, <1>3, <1>4 DEF Login

LEMMA LeaveFrozen ==
    ASSUME TypeOK, NEW c \in Conns, Leave(c) \/ LogoutBegin(c) \/ CloseBegin(c)
    PROVE  Frozen
<1>1. CASE Leave(c)
  BY <1>1 DEF Leave, LeaveUnsubscribe, LeaveDelete, LeaveOffline, Frozen, process, server
<1>2. CASE LogoutBegin(c)
  BY <1>2 DEF LogoutBegin, MapFree, Evict, Frozen, TypeOK, ProcessTypes
<1>3. CASE CloseBegin(c)
  BY <1>3 DEF CloseBegin, MapFree, Evict, Frozen, TypeOK, ProcessTypes
<1> QED
  BY <1>1, <1>2, <1>3

LEMMA ChatFrozen ==
    ASSUME NEW c \in Conns, OneChat(c) \/ GroupChat(c)
    PROVE  Frozen
<1>1. ASSUME NEW m \in Msgs, ChatBegin(c, m) \/ GroupBegin(c, m) PROVE Frozen
  BY <1>1 DEF ChatBegin, GroupBegin, Frozen, process, server
<1>2. CASE ChatGet(c) \/ ChatState(c) \/ ChatPublish(c) \/ ChatStore(c)
  BY <1>2 DEF ChatGet, ChatState, ChatPublish, ChatStore, Frozen, process, server
<1>3. CASE GroupLock(c) \/ GroupEnd(c)
  BY <1>3 DEF GroupLock, GroupEnd, Frozen
<1>4. CASE GroupMember(c) \/ GroupPublish(c) \/ GroupStore(c)
  BY <1>4 DEF GroupMember, GroupPublish, GroupStore, Frozen, process, server
<1> QED
  BY <1>1, <1>2, <1>3, <1>4 DEF OneChat, GroupChat

LEMMA ClientFrozen ==
    ASSUME \/ \E c \in Conns : Connect(c) \/ ClientExit(c) \/ \E m \in Msgs : Send(c, m)
           \/ \E m \in Msgs : Resend(m)
           \/ \E u \in Users : KeyExpire(u)
    PROVE  Frozen
  BY DEF Connect, ClientExit, Send, Resend, KeyExpire, Frozen, process, server

LEMMA ServerFrozen ==
    ASSUME TypeOK, NEW s \in Servers,
           Background(s) \/ Crash(s) \/ ResetState(s) \/ Exit(s) \/ Restart(s)
    PROVE  Frozen
<1>1. CASE Background(s)
  BY <1>1 DEF Background, Worker, RedisSubscriber, Observe, Frozen, process, server
<1>2. CASE Stop(s)
  BY <1>2 DEF Stop, Frozen, TypeOK, ProcessTypes
<1>3. CASE ResetState(s) \/ Restart(s)
  BY <1>3 DEF ResetState, Restart, Frozen
<1> QED
  BY <1>1, <1>2, <1>3 DEF Crash, Exit

LEMMA NextFrozen ==
    ASSUME TypeOK, [Next]_vars
    PROVE  Frozen
<1>1. CASE UNCHANGED vars
  BY <1>1 DEF vars, process, server, Frozen
<1> QED
  BY <1>1, LoginFrozen, LeaveFrozen, ChatFrozen, ClientFrozen, ServerFrozen
  DEF Next, Handler

(* groupChat serves all members from one connection map: no handler and no *)
(* callback of its server changes the map while it holds the lock.         *)
THEOREM FrozenCorrect == Spec => MapFrozenByGroup
<1>1. TypeOK /\ [Next]_vars => [Frozen]_vars
  BY NextFrozen
<1>2. Spec => [][Frozen]_vars
  BY <1>1, TypeCorrect, PTL DEF Spec
<1> QED
  BY <1>2 DEF MapFrozenByGroup, Frozen
==============================================================================
