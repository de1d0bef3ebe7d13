-------------------------- MODULE ChatCustodyProofs --------------------------
(***************************************************************************)
(* The servers implement Custody, for every number of servers, clients,    *)
(* accounts, messages, logins, faults and stops: each action of            *)
(* ChatService is a step of the keeper, or none.  First what the steps of  *)
(* the keeper ask for, copy by copy; then one lemma per action; then what  *)
(* the keeper alone promises, and the theorems.                            *)
(***************************************************************************)
EXTENDS ChatServiceProofs

CustodyStep == [Keeper!Next]_(Keeper!cvars)

(* Custody by account and message is custody of pairs.                     *)
LEMMA KeeperPasses ==
    ASSUME NEW in \in SUBSET (Users \X Msgs), NEW out,
           \A v \in Users, k \in Msgs : Held(v, k) => Held(v, k)' \/ <<v, k>> \in out,
           \A v \in Users, k \in Msgs : Held(v, k)' => Held(v, k) \/ <<v, k>> \in in,
           \A v \in Users, k \in Msgs : <<v, k>> \in in => Held(v, k)'
    PROVE  Keeper!Pass(in, out)
<1>1. ASSUME NEW d \in in PROVE d \in HeldCopies'
  BY <1>1 DEF HeldCopies
<1>2. ASSUME NEW d \in HeldCopies, d \notin out PROVE d \in HeldCopies'
  BY <1>2 DEF HeldCopies
<1>3. ASSUME NEW d \in HeldCopies' PROVE d \in HeldCopies \cup in
  BY <1>3 DEF HeldCopies
<1> QED
  BY <1>1, <1>2, <1>3 DEF Keeper!Pass

(* What no copy notices the keeper does not notice.                        *)
LEMMA HeldSame ==
    ASSUME \A v \in Users, k \in Msgs : Held(v, k)' <=> Held(v, k)
    PROVE  HeldCopies' = HeldCopies
  BY DEF HeldCopies

LEMMA SentSame ==
    ASSUME \A k \in Msgs : tries'[k] > 0 <=> tries[k] > 0
    PROVE  SentMsgs' = SentMsgs
  BY DEF SentMsgs

LEMMA ReceivedSame ==
    ASSUME got' = got
    PROVE  ReceivedCopies' = ReceivedCopies
  BY DEF ReceivedCopies, Received

LEMMA DroppedSame ==
    ASSUME lost' = lost
    PROVE  DroppedCopies' = DroppedCopies
  BY DEF DroppedCopies

LEMMA KeeperRests ==
    ASSUME \A v \in Users, k \in Msgs : Held(v, k)' <=> Held(v, k),
           \A k \in Msgs : tries'[k] > 0 <=> tries[k] > 0,
           got' = got, lost' = lost, acked' = acked
    PROVE  CustodyStep
<1>1. /\ HeldCopies' = HeldCopies /\ SentMsgs' = SentMsgs
      /\ ReceivedCopies' = ReceivedCopies /\ DroppedCopies' = DroppedCopies
  BY HeldSame, SentSame, ReceivedSame, DroppedSame
<1> QED
  BY <1>1 DEF CustodyStep, Keeper!cvars

(* A handler that moves outside its answer moves no copy.                  *)
Elsewhere(c) ==
    /\ pc[c] = "reply" => rows[c] = None
    /\ pc'[c] = "reply" => rows'[c] = None
    /\ \A d \in Conns \ {c} : pc'[d] = pc[d] /\ user'[d] = user[d] /\ rows'[d] = rows[d]

LEMMA AnsweredSame ==
    ASSUME NEW c \in Conns, Elsewhere(c), NEW v \in Users, NEW k \in Msgs
    PROVE  Answered(v, k)' <=> Answered(v, k)
<1>1. None[k] = 0
  BY DEF None
<1>2. Answered(v, k)' => Answered(v, k)
  BY <1>1 DEF Answered, Elsewhere
<1>3. Answered(v, k) => Answered(v, k)'
  BY <1>1 DEF Answered, Elsewhere
<1> QED
  BY <1>2, <1>3

LEMMA HandlerHolds ==
    ASSUME NEW c \in Conns, Elsewhere(c),
           offlineMessage' = offlineMessage, channel' = channel, dbQueue' = dbQueue,
           NEW v \in Users, NEW k \in Msgs
    PROVE  Held(v, k)' <=> Held(v, k)
<1>1. Answered(v, k)' <=> Answered(v, k)
  BY AnsweredSame
<1>2. /\ Stored(v, k)' <=> Stored(v, k)
      /\ Enqueued(v, k)' <=> Enqueued(v, k)
      /\ Published(v, k)' <=> Published(v, k)
  BY DEF Stored, Enqueued, Published, Queued, Travelling
<1> QED
  BY <1>1, <1>2 DEF Held

(* The elements of a queue that has grown.                                 *)
LEMMA ElementsAppended ==
    ASSUME NEW S, NEW q \in Seq(S), NEW x \in S
    PROVE  {Append(q, x)[i] : i \in 1..Len(Append(q, x))} = {q[i] : i \in 1..Len(q)} \cup {x}
<1>1. Len(Append(q, x)) = Len(q) + 1 /\ Len(q) \in Nat
  OBVIOUS
<1>2. \A i \in 1..Len(q) : Append(q, x)[i] = q[i]
  OBVIOUS
<1>3. Append(q, x)[Len(q) + 1] = x
  OBVIOUS
<1> QED
  BY <1>1, <1>2, <1>3

(* What a task pushed adds to the queues.                                  *)
LEMMA PushHolds ==
    ASSUME TypeOK, NEW s \in Servers, NEW t \in DbTaskArgs, PushTask(s, t),
           NEW v \in Users, NEW k \in Msgs
    PROVE  Enqueued(v, k)' <=> Enqueued(v, k) \/ t = OfflineTask(v, k)
<1>1. dbQueue[s] \in Seq(DbTaskArgs) /\ dbQueue'[s] = Append(dbQueue[s], t)
  BY DEF TypeOK, ProcessTypes, PushTask
<1>2. Queued(s)' = Queued(s) \cup {t}
  BY <1>1, ElementsAppended DEF Queued
<1>3. \A r \in Servers \ {s} : Queued(r)' = Queued(r)
  BY DEF PushTask, TypeOK, ProcessTypes, Queued
<1> QED
  BY <1>2, <1>3 DEF Enqueued

LEMMA StateTaskOther ==
    ASSUME NEW u, NEW st, NEW v, NEW k
    PROVE  StateTask(u, st) # OfflineTask(v, k)
<1>1. StateTask(u, st).type = "state"
  BY DEF StateTask
<1> QED
  BY <1>1, OfflineTaskFields

LEMMA StatePushed ==
    ASSUME TypeOK, NEW c \in Conns, Elsewhere(c), NEW s \in Servers,
           NEW u \in Users, NEW st \in {"Online", "Offline"}, PushTask(s, StateTask(u, st)),
           offlineMessage' = offlineMessage, channel' = channel,
           NEW v \in Users, NEW k \in Msgs
    PROVE  Held(v, k)' <=> Held(v, k)
<1>1. Answered(v, k)' <=> Answered(v, k)
  BY AnsweredSame
<1>2. StateTask(u, st) \in DbTaskArgs
  BY TaskTypes
<1>3. Enqueued(v, k)' <=> Enqueued(v, k)
  BY <1>2, PushHolds, StateTaskOther
<1>4. /\ Stored(v, k)' <=> Stored(v, k)
      /\ Published(v, k)' <=> Published(v, k)
  BY DEF Stored, Published, Travelling
<1> QED
  BY <1>1, <1>3, <1>4 DEF Held
-----------------------------------------------------------------------------
(* What was sent stays sent, and only what was sent is worked on.          *)
LEMMA SentStays ==
    ASSUME IInv, SentOK,
           \A m \in Msgs : tries[m] > 0 => tries'[m] > 0,
           \A m \in Msgs : inflight'[m] > 0 => inflight[m] > 0 \/ tries'[m] > 0,
           \A c \in Conns : pc'[c] \in OneChatPc \cup GroupPc =>
               \/ pc[c] \in OneChatPc \cup GroupPc /\ msg'[c] = msg[c]
               \/ tries'[msg'[c]] > 0,
           \A c \in Conns, m \in Msgs : rows'[c][m] > 0 => rows[c][m] > 0 \/ tries'[m] > 0
    PROVE  SentOK'
<1>1. \A m \in Msgs : inflight'[m] > 0 => tries'[m] > 0
  BY DEF SentOK
<1>2. \A c \in Conns, m \in Msgs : rows'[c][m] > 0 => tries'[m] > 0
  BY DEF SentOK
<1>3. ASSUME NEW c \in Conns, pc'[c] \in OneChatPc \cup GroupPc PROVE tries'[msg'[c]] > 0
  <2>1. CASE tries'[msg'[c]] > 0
    BY <2>1
  <2>2. CASE pc[c] \in OneChatPc \cup GroupPc /\ msg'[c] = msg[c]
    <3>1. msg[c] \in Msgs
      BY <2>2, ChatAssumption DEF IInv, WorkOK
    <3>2. tries[msg[c]] > 0
      BY <2>2 DEF SentOK
    <3> QED
      BY <2>2, <3>1, <3>2
  <2> QED
    BY <1>3, <2>1, <2>2
<1> QED
  BY <1>1, <1>2, <1>3 DEF SentOK

(* Steps of the clients, of Redis and of a process that touch no copy.     *)
LEMMA Untouched ==
    ASSUME UNCHANGED <<offlineMessage, channel, dbQueue, pc, user, rows>>,
           NEW v \in Users, NEW k \in Msgs
    PROVE  Held(v, k)' <=> Held(v, k)
<1>1. /\ Stored(v, k)' <=> Stored(v, k)
      /\ Enqueued(v, k)' <=> Enqueued(v, k)
      /\ Published(v, k)' <=> Published(v, k)
      /\ Answered(v, k)' <=> Answered(v, k)
  BY DEF Stored, Enqueued, Published, Queued, Travelling, Answered
<1> QED
  BY <1>1 DEF Held

LEMMA BystanderCustody ==
    ASSUME CustodyInv,
           UNCHANGED <<offlineMessage, channel, dbQueue, pc, user, msg, rows, got, lost, acked>>,
           \A m \in Msgs : tries'[m] > 0 <=> tries[m] > 0,
           \A m \in Msgs : inflight'[m] > 0 => inflight[m] > 0 \/ tries'[m] > 0
    PROVE  CustodyStep /\ SentOK'
<1>1. CustodyStep
  BY Untouched, KeeperRests
<1>2. SentOK'
  BY SentStays DEF CustodyInv, AckInv
<1> QED
  BY <1>1, <1>2

LEMMA ConnectCustody ==
    ASSUME CustodyInv, NEW c \in Conns, Connect(c)
    PROVE  CustodyStep /\ SentOK'
<1>1. UNCHANGED <<offlineMessage, channel, dbQueue, pc, user, msg, rows, got, lost, acked,
                  tries, inflight>>
  BY DEF Connect, mysql, redis, pubsub, process, handler, work, traffic, outcome
<1> QED
  BY <1>1, BystanderCustody

LEMMA ClientExitCustody ==
    ASSUME CustodyInv, NEW c \in Conns, ClientExit(c)
    PROVE  CustodyStep /\ SentOK'
<1>1. UNCHANGED <<offlineMessage, channel, dbQueue, pc, user, msg, rows, got, lost, acked, tries>>
  BY DEF ClientExit, mysql, redis, pubsub, process, handler, work, outcome
<1>2. \A m \in Msgs : inflight'[m] > 0 => inflight[m] > 0
  BY DEF ClientExit
<1> QED
  BY <1>1, <1>2, BystanderCustody

LEMMA ResendCustody ==
    ASSUME CustodyInv, NEW m \in Msgs, Resend(m)
    PROVE  CustodyStep /\ SentOK'
<1>1. UNCHANGED <<offlineMessage, channel, dbQueue, pc, user, msg, rows, got, lost, acked>>
  BY DEF Resend, mysql, redis, pubsub, process, handler, work, outcome
<1>2. tries \in [Msgs -> Nat] /\ inflight \in [Msgs -> Nat]
  BY DEF CustodyInv, AckInv, IInv, TypeOK, ClientTypes
<1>3. \A k \in Msgs : tries'[k] > 0 <=> tries[k] > 0
  BY <1>2 DEF Resend
<1>4. \A k \in Msgs : inflight'[k] > 0 => inflight[k] > 0 \/ tries'[k] > 0
  BY <1>2 DEF Resend
<1> QED
  BY <1>1, <1>3, <1>4, BystanderCustody

LEMMA RedisSubscriberCustody ==
    ASSUME CustodyInv, NEW s \in Servers, RedisSubscriber(s)
    PROVE  CustodyStep /\ SentOK'
<1>1. UNCHANGED <<offlineMessage, channel, dbQueue, pc, user, msg, rows, got, lost, acked,
                  tries, inflight>>
  BY DEF RedisSubscriber, mysql, process, handler, work, client, traffic, outcome
<1> QED
  BY <1>1, BystanderCustody

LEMMA KeyExpireCustody ==
    ASSUME CustodyInv, NEW u \in Users, KeyExpire(u)
    PROVE  CustodyStep /\ SentOK'
<1>1. UNCHANGED <<offlineMessage, channel, dbQueue, pc, user, msg, rows, got, lost, acked,
                  tries, inflight>>
  BY DEF KeyExpire, mysql, pubsub, process, handler, work, client, traffic, outcome
<1> QED
  BY <1>1, BystanderCustody

LEMMA ResetStateCustody ==
    ASSUME CustodyInv, NEW s \in Servers, ResetState(s)
    PROVE  CustodyStep /\ SentOK'
<1>1. UNCHANGED <<offlineMessage, channel, dbQueue, pc, user, msg, rows, got, lost, acked,
                  tries, inflight>>
  BY DEF ResetState, redis, pubsub, handler, work, client, traffic, outcome
<1> QED
  BY <1>1, BystanderCustody

LEMMA RestartCustody ==
    ASSUME CustodyInv, NEW s \in Servers, Restart(s)
    PROVE  CustodyStep /\ SentOK'
<1>1. UNCHANGED <<offlineMessage, channel, dbQueue, pc, user, msg, rows, got, lost, acked,
                  tries, inflight>>
  BY DEF Restart, mysql, redis, pubsub, handler, work, client, traffic, outcome
<1> QED
  BY <1>1, BystanderCustody

(* A message is sent.                                                      *)
LEMMA SendCustody ==
    ASSUME CustodyInv, NEW c \in Conns, NEW m \in Msgs, Send(c, m)
    PROVE  CustodyStep /\ SentOK'
<1>1. UNCHANGED <<offlineMessage, channel, dbQueue, pc, user, msg, rows, got, lost, acked>>
  BY DEF Send, mysql, redis, pubsub, process, handler, work, outcome
<1>2. tries \in [Msgs -> Nat] /\ inflight \in [Msgs -> Nat]
  BY DEF CustodyInv, AckInv, IInv, TypeOK, ClientTypes
<1>3. \A k \in Msgs : tries'[k] > 0 <=> tries[k] > 0 \/ k = m
  BY <1>2 DEF Send
<1>4. \A k \in Msgs : inflight'[k] > 0 => inflight[k] > 0 \/ tries'[k] > 0
  BY <1>2 DEF Send
<1>5. Keeper!Send(m)
  <2>1. SentMsgs' = SentMsgs \cup {m}
    BY <1>3 DEF SentMsgs
  <2>2. HeldCopies' = HeldCopies
    BY <1>1, Untouched, HeldSame
  <2> QED
    BY <1>1, <2>1, <2>2, ReceivedSame, DroppedSame DEF Keeper!Send
<1>6. SentOK'
  BY <1>1, <1>3, <1>4, SentStays DEF CustodyInv, AckInv
<1> QED
  BY <1>5, <1>6 DEF CustodyStep, Keeper!Next

-----------------------------------------------------------------------------
(* Steps of handlers that move no copy.                                    *)
LEMMA HandlerCustody ==
    ASSUME CustodyInv, NEW c \in Conns, Elsewhere(c),
           UNCHANGED <<offlineMessage, channel, dbQueue, got, lost, acked, tries>>,
           \A m \in Msgs : inflight'[m] > 0 => inflight[m] > 0,
           \A d \in Conns \ {c} : msg'[d] = msg[d],
           pc'[c] \in OneChatPc \cup GroupPc =>
               \/ pc[c] \in OneChatPc \cup GroupPc /\ msg'[c] = msg[c]
               \/ tries[msg'[c]] > 0,
           \A m \in Msgs : rows'[c][m] > 0 => rows[c][m] > 0 \/ tries[m] > 0
    PROVE  CustodyStep /\ SentOK'
<1>1. CustodyStep
  BY HandlerHolds, KeeperRests
<1>2. \A d \in Conns : pc'[d] \in OneChatPc \cup GroupPc =>
               \/ pc[d] \in OneChatPc \cup GroupPc /\ msg'[d] = msg[d]
               \/ tries'[msg'[d]] > 0
  BY DEF Elsewhere
<1>3. \A d \in Conns, m \in Msgs : rows'[d][m] > 0 => rows[d][m] > 0 \/ tries'[m] > 0
  BY DEF Elsewhere
<1>4. SentOK'
  BY <1>2, <1>3, SentStays DEF CustodyInv, AckInv
<1> QED
  BY <1>1, <1>4

(* What is kept was sent, to that account.                                 *)
LEMMA HeldWasSent ==
    ASSUME CustodyInv, NEW v \in Users, NEW k \in Msgs, Held(v, k)
    PROVE  tries[k] > 0 /\ v \in Addressees[k]
<1>1. <<v, k>> \in HeldCopies
  BY DEF HeldCopies
<1>2. <<v, k>> \in Keeper!Due
  BY <1>1 DEF CustodyInv, Keeper!NothingForeign
<1> QED
  BY <1>2 DEF Keeper!Due, SentMsgs

LEMMA DueOf ==
    ASSUME NEW v \in Users, NEW k \in Msgs, tries[k] > 0, v \in Addressees[k]
    PROVE  <<v, k>> \in Keeper!Due
  BY DEF Keeper!Due, SentMsgs

LEMMA LoginAcceptCustody ==
    ASSUME CustodyInv, NEW c \in Conns, NEW u \in Users, LoginAccept(c, u)
    PROVE  CustodyStep /\ SentOK'
<1>1. UNCHANGED <<offlineMessage, channel, dbQueue, got, lost, acked, tries, inflight, msg, rows>>
  BY DEF LoginAccept, mysql, redis, pubsub, process, traffic, outcome
<1>2. pc[c] = "idle" /\ pc'[c] = "insert"
      /\ \A d \in Conns \ {c} : pc'[d] = pc[d] /\ user'[d] = user[d]
  BY DEF LoginAccept, At, Goto, CustodyInv, AckInv, IInv, TypeOK, HandlerTypes
<1> QED
  BY <1>1, <1>2, HandlerCustody DEF Elsewhere, OneChatPc, GroupPc

LEMMA LoginInsertCustody ==
    ASSUME CustodyInv, NEW c \in Conns, LoginInsert(c)
    PROVE  CustodyStep /\ SentOK'
<1>1. UNCHANGED <<offlineMessage, channel, dbQueue, got, lost, acked, tries, inflight, user, msg, rows>>
  BY DEF LoginInsert, mysql, redis, pubsub, work, client, traffic, outcome
<1>2. pc[c] = "insert" /\ pc'[c] = "subscribe"
      /\ \A d \in Conns \ {c} : pc'[d] = pc[d]
  BY DEF LoginInsert, At, Goto, CustodyInv, AckInv, IInv, TypeOK, HandlerTypes
<1> QED
  BY <1>1, <1>2, HandlerCustody DEF Elsewhere, OneChatPc, GroupPc

LEMMA LoginSubscribeCustody ==
    ASSUME CustodyInv, NEW c \in Conns, LoginSubscribe(c)
    PROVE  CustodyStep /\ SentOK'
<1>1. UNCHANGED <<offlineMessage, channel, dbQueue, got, lost, acked, tries, inflight, user, msg, rows>>
  BY DEF LoginSubscribe, mysql, process, work, client, traffic, outcome
<1>2. pc[c] = "subscribe" /\ pc'[c] = "set"
      /\ \A d \in Conns \ {c} : pc'[d] = pc[d]
  BY DEF LoginSubscribe, At, Goto, CustodyInv, AckInv, IInv, TypeOK, HandlerTypes
<1> QED
  BY <1>1, <1>2, HandlerCustody DEF Elsewhere, OneChatPc, GroupPc

LEMMA LoginSetCustody ==
    ASSUME CustodyInv, NEW c \in Conns, LoginSet(c)
    PROVE  CustodyStep /\ SentOK'
<1>1. UNCHANGED <<offlineMessage, channel, dbQueue, got, lost, acked, tries, inflight, user, msg, rows>>
  BY DEF LoginSet, mysql, pubsub, process, work, client, traffic, outcome
<1>2. pc[c] = "set" /\ pc'[c] = "online"
      /\ \A d \in Conns \ {c} : pc'[d] = pc[d]
  BY DEF LoginSet, At, Goto, CustodyInv, AckInv, IInv, TypeOK, HandlerTypes
<1> QED
  BY <1>1, <1>2, HandlerCustody DEF Elsewhere, OneChatPc, GroupPc

(* A task for the state of an account is no copy.                          *)
LEMMA StatePushCustody ==
    ASSUME CustodyInv, NEW c \in Conns, Elsewhere(c), NEW s \in Servers,
           NEW u \in Users, NEW st \in {"Online", "Offline"}, PushTask(s, StateTask(u, st)),
           UNCHANGED <<offlineMessage, channel, got, lost, acked, tries, inflight, msg, rows>>,
           pc'[c] \notin OneChatPc \cup GroupPc
    PROVE  CustodyStep /\ SentOK'
<1>1. CustodyStep
  BY StatePushed, KeeperRests DEF CustodyInv, AckInv, IInv
<1>2. \A d \in Conns : pc'[d] \in OneChatPc \cup GroupPc =>
          pc[d] \in OneChatPc \cup GroupPc /\ msg'[d] = msg[d]
  BY DEF Elsewhere
<1>3. SentOK'
  BY <1>2, SentStays DEF CustodyInv, AckInv
<1> QED
  BY <1>1, <1>3

LEMMA LoginOnlineCustody ==
    ASSUME CustodyInv, NEW c \in Conns, LoginOnline(c)
    PROVE  CustodyStep /\ SentOK'
<1>1. UNCHANGED <<offlineMessage, channel, got, lost, acked, tries, inflight, user, msg, rows>>
  BY DEF LoginOnline, mysql, redis, pubsub, work, client, traffic, outcome
<1>2. pc[c] = "online" /\ pc'[c] = "query"
      /\ \A d \in Conns \ {c} : pc'[d] = pc[d]
  BY DEF LoginOnline, At, Goto, CustodyInv, AckInv, IInv, TypeOK, HandlerTypes
<1>3. user[c] \in Users /\ PushTask(host[c], StateTask(user[c], "Online"))
  BY <1>2 DEF LoginOnline, CustodyInv, AckInv, IInv, WorkOK, LoginPc
<1> QED
  BY <1>1, <1>2, <1>3, HostType, StatePushCustody DEF Elsewhere, OneChatPc, GroupPc

(* The rows read are still in the table, and were sent.                    *)
LEMMA LoginQueryCustody ==
    ASSUME CustodyInv, NEW c \in Conns, LoginQuery(c)
    PROVE  CustodyStep /\ SentOK'
<1>1. UNCHANGED <<offlineMessage, channel, dbQueue, got, lost, acked, tries, inflight, user, msg>>
  BY DEF LoginQuery, mysql, redis, pubsub, process, client, traffic, outcome
<1>2. pc[c] = "query" /\ user[c] \in Users
  BY DEF LoginQuery, At, CustodyInv, AckInv, IInv, WorkOK, LoginPc
<1>3. \A d \in Conns \ {c} : pc'[d] = pc[d] /\ rows'[d] = rows[d]
  BY DEF LoginQuery, Goto, CustodyInv, AckInv, IInv, TypeOK, HandlerTypes
<1>4. /\ pc'[c] = IF rows'[c] = None THEN "reply" ELSE "remove"
      /\ rows'[c] = offlineMessage[user[c]] \/ rows'[c] = None
  BY DEF LoginQuery, Goto, CustodyInv, AckInv, IInv, TypeOK, HandlerTypes
<1>5. ASSUME NEW m \in Msgs, rows'[c][m] > 0 PROVE tries[m] > 0
  <2>1. Held(user[c], m)
    BY <1>4, <1>5 DEF Held, Stored, None
  <2> QED
    BY <1>2, <2>1, HeldWasSent
<1>6. Elsewhere(c)
  BY <1>1, <1>2, <1>3, <1>4 DEF Elsewhere
<1> QED
  BY <1>1, <1>4, <1>5, <1>6, HandlerCustody DEF OneChatPc, GroupPc

LEMMA LogoutBeginCustody ==
    ASSUME CustodyInv, NEW c \in Conns, LogoutBegin(c)
    PROVE  CustodyStep /\ SentOK'
<1>1. UNCHANGED <<offlineMessage, channel, dbQueue, got, lost, acked, tries, inflight, msg, rows>>
  BY DEF LogoutBegin, mysql, redis, pubsub, traffic, outcome
<1>2. pc[c] = "idle" /\ pc'[c] = "unsubscribe"
      /\ \A d \in Conns \ {c} : pc'[d] = pc[d] /\ user'[d] = user[d]
  BY DEF LogoutBegin, At, Goto, CustodyInv, AckInv, IInv, TypeOK, HandlerTypes
<1> QED
  BY <1>1, <1>2, HandlerCustody DEF Elsewhere, OneChatPc, GroupPc

LEMMA CloseBeginCustody ==
    ASSUME CustodyInv, NEW c \in Conns, CloseBegin(c)
    PROVE  CustodyStep /\ SentOK'
<1>1. UNCHANGED <<offlineMessage, channel, dbQueue, got, lost, acked, tries, inflight, msg, rows>>
  BY DEF CloseBegin, mysql, redis, pubsub, traffic, outcome
<1>2. pc[c] = "idle" /\ pc'[c] \in {"idle", "unsubscribe"}
      /\ \A d \in Conns \ {c} : pc'[d] = pc[d] /\ user'[d] = user[d]
  BY DEF CloseBegin, At, Goto, CustodyInv, AckInv, IInv, TypeOK, HandlerTypes
<1> QED
  BY <1>1, <1>2, HandlerCustody DEF Elsewhere, OneChatPc, GroupPc

LEMMA LeaveUnsubscribeCustody ==
    ASSUME CustodyInv, NEW c \in Conns, LeaveUnsubscribe(c)
    PROVE  CustodyStep /\ SentOK'
<1>1. UNCHANGED <<offlineMessage, channel, dbQueue, got, lost, acked, tries, inflight, user, msg, rows>>
  BY DEF LeaveUnsubscribe, mysql, process, work, client, traffic, outcome
<1>2. pc[c] = "unsubscribe" /\ pc'[c] = "delete"
      /\ \A d \in Conns \ {c} : pc'[d] = pc[d]
  BY DEF LeaveUnsubscribe, At, Goto, CustodyInv, AckInv, IInv, TypeOK, HandlerTypes
<1> QED
  BY <1>1, <1>2, HandlerCustody DEF Elsewhere, OneChatPc, GroupPc

LEMMA LeaveDeleteCustody ==
    ASSUME CustodyInv, NEW c \in Conns, LeaveDelete(c)
    PROVE  CustodyStep /\ SentOK'
<1>1. UNCHANGED <<offlineMessage, channel, dbQueue, got, lost, acked, tries, inflight, user, msg, rows>>
  BY DEF LeaveDelete, mysql, pubsub, process, work, client, traffic, outcome
<1>2. pc[c] = "delete" /\ pc'[c] = "offline"
      /\ \A d \in Conns \ {c} : pc'[d] = pc[d]
  BY DEF LeaveDelete, At, Goto, CustodyInv, AckInv, IInv, TypeOK, HandlerTypes
<1> QED
  BY <1>1, <1>2, HandlerCustody DEF Elsewhere, OneChatPc, GroupPc

LEMMA LeaveOfflineCustody ==
    ASSUME CustodyInv, NEW c \in Conns, LeaveOffline(c)
    PROVE  CustodyStep /\ SentOK'
<1>1. UNCHANGED <<offlineMessage, channel, got, lost, acked, tries, inflight, msg, rows>>
  BY DEF LeaveOffline, mysql, redis, pubsub, client, traffic, outcome
<1>2. pc[c] = "offline" /\ pc'[c] = "idle"
      /\ \A d \in Conns \ {c} : pc'[d] = pc[d] /\ user'[d] = user[d]
  BY DEF LeaveOffline, At, Goto, CustodyInv, AckInv, IInv, TypeOK, HandlerTypes
<1>3. user[c] \in Users /\ PushTask(host[c], StateTask(user[c], "Offline"))
  BY <1>2 DEF LeaveOffline, MarkOffline, CustodyInv, AckInv, IInv, WorkOK, LeavePc
<1> QED
  BY <1>1, <1>2, <1>3, HostType, StatePushCustody DEF Elsewhere, OneChatPc, GroupPc

LEMMA ChatGetCustody ==
    ASSUME CustodyInv, NEW c \in Conns, ChatGet(c)
    PROVE  CustodyStep /\ SentOK'
<1>1. UNCHANGED <<offlineMessage, channel, dbQueue, got, lost, acked, tries, inflight, user, msg, rows>>
  BY DEF ChatGet, mysql, redis, pubsub, process, work, client, traffic, outcome
<1>2. pc[c] = "get" /\ pc'[c] \in {"publish", "state"}
      /\ \A d \in Conns \ {c} : pc'[d] = pc[d]
  BY DEF ChatGet, At, Goto, CustodyInv, AckInv, IInv, TypeOK, HandlerTypes
<1> QED
  BY <1>1, <1>2, HandlerCustody DEF Elsewhere, OneChatPc

LEMMA GroupLockCustody ==
    ASSUME CustodyInv, NEW c \in Conns, GroupLock(c)
    PROVE  CustodyStep /\ SentOK'
<1>1. UNCHANGED <<offlineMessage, channel, dbQueue, got, lost, acked, tries, inflight, user, msg, rows>>
  BY DEF GroupLock, mysql, redis, pubsub, work, client, traffic, outcome
<1>2. pc[c] = "lock" /\ pc'[c] = "member"
      /\ \A d \in Conns \ {c} : pc'[d] = pc[d]
  BY DEF GroupLock, At, Goto, CustodyInv, AckInv, IInv, TypeOK, HandlerTypes
<1> QED
  BY <1>1, <1>2, HandlerCustody DEF Elsewhere, GroupPc

-----------------------------------------------------------------------------
(* How a delivery, a publication, a task and an ACK look to the keeper.    *)
Bagged(u, bag) == {d \in Users \X Msgs : d[1] = u /\ bag[d[2]] > 0}

LEMMA ReceiveDelivers ==
    ASSUME TypeOK, NEW c \in Conns, NEW u \in Users, NEW bag \in [Msgs -> Nat],
           Receive(c, u, bag), account[c] = u, link[c] = "open"
    PROVE  lost' = lost /\ ReceivedCopies' = ReceivedCopies \cup Bagged(u, bag)
<1>1. got' = [got EXCEPT ![u] = [m \in Msgs |-> @[m] + bag[m]]] /\ lost' = lost
  BY DEF Receive
<1>2. got \in [Users -> [Msgs -> Nat]]
  BY DEF TypeOK, OutcomeTypes
<1>3. ASSUME NEW v \in Users, NEW k \in Msgs
      PROVE  Received(v, k)' <=> Received(v, k) \/ (v = u /\ bag[k] > 0)
  <2>1. got[v][k] \in Nat /\ bag[k] \in Nat
    BY <1>2
  <2>2. CASE v = u
    <3>1. got'[v][k] = got[v][k] + bag[k]
      BY <1>1, <1>2, <2>2
    <3> QED
      BY <2>1, <2>2, <3>1 DEF Received
  <2>3. CASE v # u
    <3>1. got'[v] = got[v]
      BY <1>1, <1>2, <2>3
    <3> QED
      BY <2>3, <3>1 DEF Received
  <2> QED
    BY <2>2, <2>3
<1>4. ReceivedCopies' = ReceivedCopies \cup Bagged(u, bag)
  BY <1>3 DEF ReceivedCopies, Bagged
<1> QED
  BY <1>1, <1>4

(* What is recorded as lost, pair by pair.                                 *)
LEMMA LossRecorded ==
    ASSUME NEW copies \in SUBSET (Users \X Msgs), NEW why,
           \A d : d \in lost' <=> \/ d \in lost
                                  \/ \E e \in copies : d = <<e[1], e[2], why>>
    PROVE  Keeper!Record(copies, why)
<1>1. ASSUME NEW e \in copies
      PROVE  <<e[1], e[2], why>>[1] \in Users
  BY <1>1
<1>2. DroppedCopies' = DroppedCopies \cup {<<e[1], e[2], why>> : e \in copies}
  BY <1>1 DEF DroppedCopies
<1> QED
  BY <1>2 DEF Keeper!Record

LEMMA OneLost ==
    ASSUME NEW u \in Users, NEW m \in Msgs, NEW why, lost' = lost \cup {<<u, m, why>>}
    PROVE  Keeper!Record({<<u, m>>}, why)
<1>1. (<<u, m, why>>)[1] = u
  OBVIOUS
<1>2. DroppedCopies' = DroppedCopies \cup {<<u, m, why>>}
  BY <1>1 DEF DroppedCopies
<1>3. {<<d[1], d[2], why>> : d \in {<<u, m>>}} = {<<u, m, why>>}
  OBVIOUS
<1> QED
  BY <1>2, <1>3 DEF Keeper!Record

LEMMA ReceiveDrops ==
    ASSUME NEW c \in Conns, NEW u \in Users, NEW bag \in [Msgs -> Nat],
           Receive(c, u, bag), link[c] # "open"
    PROVE  got' = got /\ Keeper!Record(Bagged(u, bag), "closed")
<1>1. /\ got' = got
      /\ lost' = lost \cup {<<u, m, "closed">> : m \in {k \in Msgs : bag[k] > 0}}
  BY DEF Receive
<1>2. ASSUME NEW d
      PROVE  (\E m \in {k \in Msgs : bag[k] > 0} : d = <<u, m, "closed">>)
                <=> \E e \in Bagged(u, bag) : d = <<e[1], e[2], "closed">>
  <2>1. ASSUME NEW m \in Msgs, bag[m] > 0, d = <<u, m, "closed">>
        PROVE  \E e \in Bagged(u, bag) : d = <<e[1], e[2], "closed">>
    <3>1. <<u, m>> \in Bagged(u, bag)
      BY <2>1 DEF Bagged
    <3>2. d = <<(<<u, m>>)[1], (<<u, m>>)[2], "closed">>
      BY <2>1
    <3> QED
      BY <3>1, <3>2
  <2>2. ASSUME NEW e \in Bagged(u, bag), d = <<e[1], e[2], "closed">>
        PROVE  \E m \in {k \in Msgs : bag[k] > 0} : d = <<u, m, "closed">>
    BY <2>2 DEF Bagged
  <2> QED
    BY <2>1, <2>2
<1>3. \A d : d \in lost' <=> \/ d \in lost
                             \/ \E e \in Bagged(u, bag) : d = <<e[1], e[2], "closed">>
  BY <1>1, <1>2
<1>4. Bagged(u, bag) \in SUBSET (Users \X Msgs)
  BY DEF Bagged
<1> QED
  BY <1>1, <1>3, <1>4, LossRecorded

LEMMA OneBagged ==
    ASSUME NEW u \in Users, NEW m \in Msgs
    PROVE  Bagged(u, One(m)) = {<<u, m>>}
<1>1. \A k \in Msgs : One(m)[k] > 0 <=> k = m
  BY DEF One
<1> QED
  BY <1>1 DEF Bagged

LEMMA PublishHolds ==
    ASSUME TypeOK, NEW u \in Users, NEW m \in Msgs, Publish(u, m),
           NEW v \in Users, NEW k \in Msgs
    PROVE  Published(v, k)' <=> \/ Published(v, k)
                                \/ /\ v = u /\ k = m
                                   /\ \E s \in Servers : u \in subscribed[s]
<1>1. ASSUME NEW s \in Servers
      PROVE  Travelling(s)' = IF u \in subscribed[s] THEN Travelling(s) \cup {<<u, m>>}
                                                     ELSE Travelling(s)
  <2>1. CASE u \in subscribed[s]
    <3>1. channel[s] \in Seq(Users \X Msgs) /\ channel'[s] = Append(channel[s], <<u, m>>)
      BY <2>1 DEF TypeOK, RedisTypes, Publish
    <3>2. <<u, m>> \in Users \X Msgs
      BY ONLY u \in Users, m \in Msgs
    <3>3. Travelling(s)' = Travelling(s) \cup {<<u, m>>}
      BY <3>1, <3>2, ElementsAppended DEF Travelling
    <3> QED
      BY <2>1, <3>3
  <2>2. CASE u \notin subscribed[s]
    <3>1. channel'[s] = channel[s]
      BY <2>2 DEF Publish
    <3> QED
      BY <2>2, <3>1 DEF Travelling
  <2> QED
    BY <2>1, <2>2
<1> QED
  BY <1>1 DEF Published

LEMMA AckCovers ==
    ASSUME AckInv', NEW m \in Msgs, m \in acked'
    PROVE  Keeper!Covered(m)'
<1> SUFFICES ASSUME NEW u \in Addressees[m]
             PROVE  \/ <<u, m>> \in HeldCopies' \cup ReceivedCopies'
                    \/ \E why \in Dropped \cup Pardons[m] : <<u, m, why>> \in DroppedCopies'
  BY DEF Keeper!Covered, Keeper!Excuse
<1>1. u \in Users
  BY ChatAssumption
<1>2. CASE Kept(u, m)'
  <2>1. Held(u, m)' \/ Received(u, m)'
    BY <1>2 DEF Kept, Held
  <2> QED
    BY <1>1, <2>1 DEF HeldCopies, ReceivedCopies
<1>3. CASE LostBy(u, m, Dropped)'
  <2>1. PICK why \in Dropped : <<u, m, why>> \in lost'
    BY <1>3 DEF LostBy, Dropped, Causes
  <2> QED
    BY <1>1, <2>1 DEF DroppedCopies
<1>4. CASE m \in GroupMsgs /\ LostBy(u, m, Causes)'
  <2>1. PICK why \in Causes : <<u, m, why>> \in lost'
    BY <1>4 DEF LostBy, Causes
  <2>2. why \in Dropped \cup Pardons[m]
    BY <1>4, <2>1 DEF Dropped, Causes, Pardons, Refusals
  <2> QED
    BY <1>1, <2>1, <2>2 DEF DroppedCopies
<1>5. CASE m \notin GroupMsgs
  <2>1. Safe(u, m)'
    BY <1>5 DEF AckInv, AckedIsKept
  <2> QED
    BY <1>2, <1>3, <2>1 DEF Safe
<1>6. CASE m \in GroupMsgs
  <2>1. Accounted(u, m)'
    BY <1>6 DEF AckInv, GroupAckedIsKept
  <2> QED
    BY <1>2, <1>4, <1>6, <2>1 DEF Accounted
<1> QED
  BY <1>5, <1>6

LEMMA AckAcknowledges ==
    ASSUME AckInv', NEW c, NEW m \in Msgs, ACKToClient(c, m), tries[m] > 0
    PROVE  UNCHANGED acked \/ \E k \in Msgs : Keeper!Acknowledge(k)
<1>1. CASE acked' = acked
  BY <1>1
<1>2. CASE acked' = acked \cup {m}
  <2>1. m \in acked' /\ m \in SentMsgs
    BY <1>2 DEF SentMsgs
  <2>2. Keeper!Acknowledge(m)
    BY <1>2, <2>1, AckCovers DEF Keeper!Acknowledge
  <2> QED
    BY <2>2
<1> QED
  BY <1>1, <1>2 DEF ACKToClient

(* Steps of the keeper from what they do to each of its records.           *)
LEMMA TakeStep ==
    ASSUME NEW copies \in SUBSET Keeper!Due,
           \A v \in Users, k \in Msgs : Held(v, k)' <=> Held(v, k) \/ <<v, k>> \in copies,
           tries' = tries, got' = got, lost' = lost,
           UNCHANGED acked \/ \E k \in Msgs : Keeper!Acknowledge(k)
    PROVE  CustodyStep
<1>1. copies \in SUBSET (Users \X Msgs)
  BY DEF Keeper!Due
<1>2. Keeper!Pass(copies, {})
  BY <1>1, KeeperPasses
<1>3. SentMsgs' = SentMsgs
  BY SentSame
<1>4. Keeper!Take(copies)
  BY <1>2, <1>3, ReceivedSame, DroppedSame DEF Keeper!Take
<1> QED
  BY <1>4 DEF CustodyStep, Keeper!Next, Keeper!Handle

LEMMA DeliverStep ==
    ASSUME NEW copies \in SUBSET Keeper!Due,
           \A v \in Users, k \in Msgs : Held(v, k) => Held(v, k)' \/ <<v, k>> \in copies,
           \A v \in Users, k \in Msgs : Held(v, k)' => Held(v, k),
           tries' = tries, ReceivedCopies' = ReceivedCopies \cup copies, lost' = lost,
           UNCHANGED acked \/ \E k \in Msgs : Keeper!Acknowledge(k)
    PROVE  CustodyStep
<1>1. Keeper!Pass({}, copies)
  BY KeeperPasses
<1>2. SentMsgs' = SentMsgs
  BY SentSame
<1>3. Keeper!Deliver(copies)
  BY <1>1, <1>2, DroppedSame DEF Keeper!Deliver
<1> QED
  BY <1>3 DEF CustodyStep, Keeper!Next, Keeper!Handle

LEMMA RefuseStep ==
    ASSUME NEW copies \in SUBSET Keeper!Due, NEW why \in Refusals,
           \A v \in Users, k \in Msgs : Held(v, k)' <=> Held(v, k),
           tries' = tries, got' = got, Keeper!Record(copies, why),
           UNCHANGED acked \/ \E k \in Msgs : Keeper!Acknowledge(k)
    PROVE  CustodyStep
<1>1. HeldCopies' = HeldCopies /\ SentMsgs' = SentMsgs /\ ReceivedCopies' = ReceivedCopies
  BY HeldSame, SentSame, ReceivedSame
<1>2. Keeper!Refuse(copies, why)
  BY <1>1 DEF Keeper!Refuse
<1> QED
  BY <1>2 DEF CustodyStep, Keeper!Next, Keeper!Handle

LEMMA LoseStep ==
    ASSUME NEW copies \in SUBSET (Users \X Msgs), NEW again \in SUBSET Keeper!Due,
           NEW why \in Dropped,
           \A v \in Users, k \in Msgs : <<v, k>> \in copies => Held(v, k),
           \A v \in Users, k \in Msgs : Held(v, k) => Held(v, k)' \/ <<v, k>> \in copies,
           \A v \in Users, k \in Msgs : Held(v, k)' => Held(v, k) \/ <<v, k>> \in again,
           \A v \in Users, k \in Msgs : <<v, k>> \in again => Held(v, k)',
           tries' = tries, got' = got, acked' = acked, Keeper!Record(copies, why)
    PROVE  CustodyStep
<1>1. again \in SUBSET (Users \X Msgs)
  BY DEF Keeper!Due
<1>2. copies \in SUBSET HeldCopies
  BY DEF HeldCopies
<1>3. Keeper!Pass(again, copies)
  BY <1>1, KeeperPasses
<1>4. SentMsgs' = SentMsgs /\ ReceivedCopies' = ReceivedCopies
  BY SentSame, ReceivedSame
<1>5. Keeper!Lose(copies, again, why)
  BY <1>3, <1>4 DEF Keeper!Lose
<1> QED
  BY <1>2, <1>5 DEF CustodyStep, Keeper!Next

-----------------------------------------------------------------------------
(* oneChat().                                                              *)

\* What is sent to an entry of the map reaches its account, or is refused.
LEMMA HandedOver ==
    ASSUME CustodyInv, NEW s \in Servers, NEW u \in Users, NEW m \in Msgs,
           userConnMap[s][u] # NoConn, Receive(userConnMap[s][u], u, One(m)),
           u \in Addressees[m], tries[m] > 0, tries' = tries,
           \A v \in Users, k \in Msgs : Held(v, k)' <=> Held(v, k),
           UNCHANGED acked \/ \E k \in Msgs : Keeper!Acknowledge(k)
    PROVE  CustodyStep
<1>1. TypeOK
  BY DEF CustodyInv, AckInv, IInv
<1>2. userConnMap[s][u] \in Conns /\ account[userConnMap[s][u]] = u
  BY <1>1 DEF CustodyInv, AckInv, IInv, TypeOK, ProcessTypes, MapOK
<1>3. One(m) \in [Msgs -> Nat]
  BY BagTypes
<1>4. Bagged(u, One(m)) = {<<u, m>>} /\ {<<u, m>>} \in SUBSET Keeper!Due
  BY OneBagged, DueOf
<1>5. CASE link[userConnMap[s][u]] = "open"
  <2>1. lost' = lost /\ ReceivedCopies' = ReceivedCopies \cup {<<u, m>>}
    BY <1>1, <1>2, <1>3, <1>4, <1>5, ReceiveDelivers
  <2> QED
    BY <1>4, <2>1, DeliverStep
<1>6. CASE link[userConnMap[s][u]] # "open"
  <2>1. got' = got /\ Keeper!Record({<<u, m>>}, "closed")
    BY <1>2, <1>3, <1>4, <1>6, ReceiveDrops
  <2>2. "closed" \in Refusals
    BY DEF Refusals
  <2> QED
    BY <1>4, <2>1, <2>2, RefuseStep
<1> QED
  BY <1>5, <1>6

\* A copy taken from the socket was sent.
LEMMA TakenWasSent ==
    ASSUME CustodyInv, NEW c \in Conns, NEW m \in Msgs, Take(c, m)
    PROVE  /\ tries[m] > 0 /\ pc[c] = "idle"
           /\ \A k \in Msgs : inflight'[k] > 0 => inflight[k] > 0
<1>1. tries[m] > 0 /\ pc[c] = "idle"
  BY DEF Take, At, CustodyInv, SentOK
<1>2. inflight \in [Msgs -> Nat]
  BY DEF CustodyInv, AckInv, IInv, TypeOK, ClientTypes
<1>3. \A k \in Msgs : inflight'[k] > 0 => inflight[k] > 0
  BY <1>2 DEF Take
<1> QED
  BY <1>1, <1>3

LEMMA ChatBeginCustody ==
    ASSUME CustodyInv, AckInv', NEW c \in Conns, NEW m \in Msgs, ChatBegin(c, m)
    PROVE  CustodyStep /\ SentOK'
<1>1. Take(c, m) /\ m \notin GroupMsgs
  BY DEF ChatBegin
<1>2. /\ tries[m] > 0 /\ pc[c] = "idle"
      /\ \A k \in Msgs : inflight'[k] > 0 => inflight[k] > 0
  BY <1>1, TakenWasSent
<1>3. UNCHANGED <<offlineMessage, channel, dbQueue, tries, rows>>
  BY DEF ChatBegin, mysql, redis, pubsub, process
<1>4. PICK u \in Addressees[m] :
          \/ /\ userConnMap[host[c]][u] # NoConn
             /\ HandOver(c, u, m)
             /\ UNCHANGED <<pc, user, msg>>
          \/ /\ userConnMap[host[c]][u] = NoConn
             /\ msg' = [msg EXCEPT ![c] = m]
             /\ user' = [user EXCEPT ![c] = u]
             /\ Goto(c, "get")
             /\ UNCHANGED outcome
  BY DEF ChatBegin
<1>5. u \in Users
  BY ChatAssumption
<1>6. CASE userConnMap[host[c]][u] # NoConn /\ HandOver(c, u, m) /\ UNCHANGED <<pc, user, msg>>
  <2>1. \A v \in Users, k \in Msgs : Held(v, k)' <=> Held(v, k)
    BY <1>3, <1>6, Untouched
  <2>2. UNCHANGED acked \/ \E k \in Msgs : Keeper!Acknowledge(k)
    BY <1>2, <1>6, AckAcknowledges DEF HandOver
  <2>3. CustodyStep
    BY <1>2, <1>3, <1>5, <1>6, <2>1, <2>2, HostType, HandedOver DEF HandOver
  <2>4. SentOK'
    BY <1>2, <1>3, <1>6, SentStays DEF CustodyInv, AckInv
  <2> QED
    BY <2>3, <2>4
<1>7. CASE /\ msg' = [msg EXCEPT ![c] = m]
           /\ user' = [user EXCEPT ![c] = u]
           /\ Goto(c, "get")
           /\ UNCHANGED outcome
  <2>1. /\ pc'[c] = "get" /\ msg'[c] = m
        /\ \A d \in Conns \ {c} : pc'[d] = pc[d] /\ user'[d] = user[d] /\ msg'[d] = msg[d]
    BY <1>7 DEF Goto, CustodyInv, AckInv, IInv, TypeOK, HandlerTypes
  <2> QED
    BY <1>2, <1>3, <1>7, <2>1, HandlerCustody DEF Elsewhere, outcome
<1> QED
  BY <1>4, <1>6, <1>7

\* Where a handler of oneChat stands, its message was sent to its recipient.
LEMMA ChatHas ==
    ASSUME CustodyInv, NEW c \in Conns, pc[c] \in OneChatPc \cup {"gpublish", "gstore"}
    PROVE  /\ msg[c] \in Msgs /\ tries[msg[c]] > 0
           /\ \/ user[c] \in Users /\ <<user[c], msg[c]>> \in Keeper!Due
              \/ pc[c] = "store" /\ user[c] = NoUser
<1>1. msg[c] \in Msgs
  BY ChatAssumption DEF CustodyInv, AckInv, IInv, WorkOK, GroupPc
<1>2. tries[msg[c]] > 0
  BY DEF CustodyInv, SentOK, GroupPc
<1>3. user[c] \in Addressees[msg[c]] \/ (pc[c] = "store" /\ user[c] = NoUser)
  BY DEF CustodyInv, AckInv, IInv, WorkOK, GroupPc
<1>4. Addressees[msg[c]] \subseteq Users
  BY <1>1, ChatAssumption
<1> QED
  BY <1>1, <1>2, <1>3, <1>4, DueOf

LEMMA ChatStateCustody ==
    ASSUME CustodyInv, NEW c \in Conns, ChatState(c)
    PROVE  CustodyStep /\ SentOK'
<1>1. UNCHANGED <<offlineMessage, channel, dbQueue, tries, inflight, got, acked, msg, rows>>
  BY DEF ChatState, mysql, redis, pubsub, process, client, traffic
<1>2. pc[c] = "state" /\ pc'[c] \in {"publish", "store"}
      /\ \A d \in Conns \ {c} : pc'[d] = pc[d] /\ user'[d] = user[d]
  BY DEF ChatState, At, Goto, CustodyInv, AckInv, IInv, TypeOK, HandlerTypes
<1>3. Elsewhere(c)
  BY <1>1, <1>2 DEF Elsewhere
<1>4. CASE lost' = lost
  BY <1>1, <1>2, <1>3, <1>4, HandlerCustody DEF OneChatPc
<1>5. CASE lost' = lost \cup {<<user[c], msg[c], "fault">>}
  <2>1. user[c] \in Users /\ msg[c] \in Msgs /\ <<user[c], msg[c]>> \in Keeper!Due
    BY <1>2, ChatHas DEF OneChatPc
  <2>2. Keeper!Record({<<user[c], msg[c]>>}, "fault")
    BY <1>5, <2>1, OneLost
  <2>3. "fault" \in Refusals
    BY DEF Refusals
  <2>4. \A v \in Users, k \in Msgs : Held(v, k)' <=> Held(v, k)
    BY <1>1, <1>3, HandlerHolds
  <2>5. {<<user[c], msg[c]>>} \in SUBSET Keeper!Due
    BY <2>1
  <2>6. CustodyStep
    BY <1>1, <2>2, <2>3, <2>4, <2>5, RefuseStep
  <2>7. SentOK'
    BY <1>1, <1>2, SentStays DEF CustodyInv, AckInv, OneChatPc
  <2> QED
    BY <2>6, <2>7
<1> QED
  BY <1>4, <1>5 DEF ChatState

\* A publication is a copy taken, or refused by nobody being subscribed.
LEMMA PublishCustody ==
    ASSUME CustodyInv, NEW c \in Conns, Elsewhere(c), NEW u \in Users, NEW m \in Msgs,
           Publish(u, m), <<u, m>> \in Keeper!Due,
           UNCHANGED <<offlineMessage, dbQueue, tries, got, acked>>
    PROVE  CustodyStep
<1>1. \A v \in Users, k \in Msgs :
          /\ Answered(v, k)' <=> Answered(v, k)
          /\ Stored(v, k)' <=> Stored(v, k)
          /\ Enqueued(v, k)' <=> Enqueued(v, k)
  BY AnsweredSame DEF Stored, Enqueued, Queued
<1>2. \A v \in Users, k \in Msgs :
          Published(v, k)' <=> \/ Published(v, k)
                               \/ /\ v = u /\ k = m
                                  /\ \E s \in Servers : u \in subscribed[s]
  BY PublishHolds DEF CustodyInv, AckInv, IInv
<1>3. CASE \E s \in Servers : u \in subscribed[s]
  <2>1. \A v \in Users, k \in Msgs : Held(v, k)' <=> Held(v, k) \/ <<v, k>> \in {<<u, m>>}
    BY <1>1, <1>2, <1>3 DEF Held
  <2>2. lost' = lost /\ {<<u, m>>} \in SUBSET Keeper!Due
    BY <1>3 DEF Publish
  <2> QED
    BY <2>1, <2>2, TakeStep
<1>4. CASE ~\E s \in Servers : u \in subscribed[s]
  <2>1. \A v \in Users, k \in Msgs : Held(v, k)' <=> Held(v, k)
    BY <1>1, <1>2, <1>4 DEF Held
  <2>2. lost' = lost \cup {<<u, m, "nobody">>} /\ {<<u, m>>} \in SUBSET Keeper!Due
    BY <1>4 DEF Publish
  <2>3. Keeper!Record({<<u, m>>}, "nobody")
    BY <2>2, OneLost
  <2>4. "nobody" \in Refusals
    BY DEF Refusals
  <2> QED
    BY <2>1, <2>2, <2>3, <2>4, RefuseStep
<1> QED
  BY <1>3, <1>4

LEMMA ChatPublishCustody ==
    ASSUME CustodyInv, NEW c \in Conns, ChatPublish(c)
    PROVE  CustodyStep /\ SentOK'
<1>1. UNCHANGED <<offlineMessage, dbQueue, tries, inflight, got, acked, rows>>
  BY DEF ChatPublish, AfterPublish, mysql, process, client, traffic
<1>2. pc[c] = "publish" /\ pc'[c] = "idle"
      /\ \A d \in Conns \ {c} : pc'[d] = pc[d] /\ user'[d] = user[d] /\ msg'[d] = msg[d]
  BY DEF ChatPublish, At, Goto, Finish, CustodyInv, AckInv, IInv, TypeOK, HandlerTypes
<1>3. user[c] \in Users /\ msg[c] \in Msgs /\ <<user[c], msg[c]>> \in Keeper!Due
  BY <1>2, ChatHas DEF OneChatPc
<1>4. CustodyStep
  BY <1>1, <1>2, <1>3, PublishCustody DEF ChatPublish, Elsewhere
<1>5. SentOK'
  BY <1>1, <1>2, SentStays DEF CustodyInv, AckInv, OneChatPc, GroupPc
<1> QED
  BY <1>4, <1>5

\* A task for an account is a copy taken; one for nobody is none.
LEMMA StoreCustody ==
    ASSUME CustodyInv, NEW c \in Conns, Elsewhere(c), NEW s \in Servers,
           NEW u \in Users \cup {NoUser}, NEW m \in Msgs, PushTask(s, OfflineTask(u, m)),
           u \in Users => <<u, m>> \in Keeper!Due,
           UNCHANGED <<offlineMessage, channel, tries, got, lost>>,
           UNCHANGED acked \/ \E k \in Msgs : Keeper!Acknowledge(k)
    PROVE  CustodyStep
<1>1. \A v \in Users, k \in Msgs :
          /\ Answered(v, k)' <=> Answered(v, k)
          /\ Stored(v, k)' <=> Stored(v, k)
          /\ Published(v, k)' <=> Published(v, k)
  BY AnsweredSame DEF Stored, Published, Travelling
<1>2. \A v \in Users, k \in Msgs :
          OfflineTask(u, m) = OfflineTask(v, k) <=> u = v /\ m = k
  BY OfflineTaskFields
<1>3. \A v \in Users, k \in Msgs :
          Enqueued(v, k)' <=> Enqueued(v, k) \/ (u = v /\ m = k)
  BY <1>2, TaskTypes, PushHolds DEF CustodyInv, AckInv, IInv
<1>4. PICK copies \in SUBSET Keeper!Due :
          \A v \in Users, k \in Msgs : <<v, k>> \in copies <=> u = v /\ m = k
  <2>1. CASE u \in Users
    <3>1. {<<u, m>>} \in SUBSET Keeper!Due
      BY <2>1
    <3> QED
      BY <3>1
  <2>2. CASE u = NoUser
    <3>1. \A v \in Users : u # v
      BY <2>2, ChatAssumption
    <3>2. {} \in SUBSET Keeper!Due
      OBVIOUS
    <3> QED
      BY <3>1, <3>2
  <2> QED
    BY <2>1, <2>2
<1>5. \A v \in Users, k \in Msgs : Held(v, k)' <=> Held(v, k) \/ <<v, k>> \in copies
  BY <1>1, <1>3, <1>4 DEF Held
<1> QED
  BY <1>5, TakeStep

LEMMA ChatStoreCustody ==
    ASSUME CustodyInv, AckInv', NEW c \in Conns, ChatStore(c)
    PROVE  CustodyStep /\ SentOK'
<1>1. UNCHANGED <<offlineMessage, channel, tries, inflight, got, lost, rows>>
  BY DEF ChatStore, mysql, redis, pubsub, client, traffic
<1>2. pc[c] = "store" /\ pc'[c] = "idle"
      /\ \A d \in Conns \ {c} : pc'[d] = pc[d] /\ user'[d] = user[d] /\ msg'[d] = msg[d]
  BY DEF ChatStore, At, Goto, Finish, CustodyInv, AckInv, IInv, TypeOK, HandlerTypes
<1>3. /\ msg[c] \in Msgs /\ tries[msg[c]] > 0 /\ user[c] \in Users \cup {NoUser}
      /\ user[c] \in Users => <<user[c], msg[c]>> \in Keeper!Due
  BY <1>2, ChatHas, ChatAssumption DEF OneChatPc
<1>4. UNCHANGED acked \/ \E k \in Msgs : Keeper!Acknowledge(k)
  BY <1>3, AckAcknowledges DEF ChatStore
<1>5. Elsewhere(c)
  BY <1>1, <1>2 DEF Elsewhere
<1>6. CustodyStep
  BY <1>1, <1>3, <1>4, <1>5, HostType, StoreCustody DEF ChatStore, KeepOffline
<1>7. SentOK'
  BY <1>1, <1>2, SentStays DEF CustodyInv, AckInv, OneChatPc, GroupPc
<1> QED
  BY <1>6, <1>7

-----------------------------------------------------------------------------
(* groupChat().                                                            *)
LEMMA GroupBeginCustody ==
    ASSUME CustodyInv, NEW c \in Conns, NEW m \in Msgs, GroupBegin(c, m)
    PROVE  CustodyStep /\ SentOK'
<1>1. Take(c, m)
  BY DEF GroupBegin
<1>2. /\ tries[m] > 0 /\ pc[c] = "idle"
      /\ \A k \in Msgs : inflight'[k] > 0 => inflight[k] > 0
  BY <1>1, TakenWasSent
<1>3. UNCHANGED <<offlineMessage, channel, dbQueue, tries, got, acked, user, rows>>
  BY DEF GroupBegin, mysql, redis, pubsub, process
<1>4. /\ pc'[c] = "lock" /\ msg'[c] = m
      /\ \A d \in Conns \ {c} : pc'[d] = pc[d] /\ msg'[d] = msg[d]
  BY DEF GroupBegin, Goto, CustodyInv, AckInv, IInv, TypeOK, HandlerTypes
<1>5. Elsewhere(c)
  BY <1>2, <1>3, <1>4 DEF Elsewhere
<1>6. CASE lost' = lost
  BY <1>2, <1>3, <1>4, <1>5, <1>6, HandlerCustody
<1>7. CASE lost' = lost \cup {<<u, m, "fault">> : u \in Addressees[m]}
  <2> DEFINE all == {<<u, m>> : u \in Addressees[m]}
  <2>1. Addressees[m] \subseteq Users
    BY ChatAssumption
  <2>2. all \in SUBSET Keeper!Due
    BY <1>2, <2>1, DueOf
  <2>3. all \in SUBSET (Users \X Msgs)
    BY <2>1
  <2>4. ASSUME NEW d
        PROVE  (\E u \in Addressees[m] : d = <<u, m, "fault">>)
                  <=> \E e \in all : d = <<e[1], e[2], "fault">>
    <3>1. ASSUME NEW u \in Addressees[m], d = <<u, m, "fault">>
          PROVE  \E e \in all : d = <<e[1], e[2], "fault">>
      <4>1. <<u, m>> \in all /\ (<<u, m>>)[1] = u /\ (<<u, m>>)[2] = m
        OBVIOUS
      <4> QED
        BY <3>1, <4>1
    <3>2. ASSUME NEW e \in all, d = <<e[1], e[2], "fault">>
          PROVE  \E u \in Addressees[m] : d = <<u, m, "fault">>
      BY <3>2
    <3> QED
      BY <3>1, <3>2
  <2>5. Keeper!Record(all, "fault")
    BY <1>7, <2>3, <2>4, LossRecorded
  <2>6. "fault" \in Refusals
    BY DEF Refusals
  <2>7. \A v \in Users, k \in Msgs : Held(v, k)' <=> Held(v, k)
    BY <1>3, <1>5, HandlerHolds
  <2>8. CustodyStep
    BY <1>3, <2>2, <2>5, <2>6, <2>7, RefuseStep
  <2>9. SentOK'
    BY <1>2, <1>3, <1>4, SentStays DEF CustodyInv, AckInv
  <2> QED
    BY <2>8, <2>9
<1> QED
  BY <1>6, <1>7 DEF GroupBegin

LEMMA GroupMemberCustody ==
    ASSUME CustodyInv, NEW c \in Conns, GroupMember(c)
    PROVE  CustodyStep /\ SentOK'
<1>1. UNCHANGED <<offlineMessage, channel, dbQueue, tries, inflight, acked, msg, rows>>
  BY DEF GroupMember, mysql, redis, pubsub, process, client, traffic
<1>2. /\ pc[c] = "member" /\ pc'[c] \in {"member", "gpublish", "gstore"}
      /\ \A d \in Conns \ {c} : pc'[d] = pc[d] /\ user'[d] = user[d]
  BY DEF GroupMember, At, Goto, CustodyInv, AckInv, IInv, TypeOK, HandlerTypes
<1>3. Elsewhere(c)
  BY <1>1, <1>2 DEF Elsewhere
<1>4. CASE got' = got /\ lost' = lost
  BY <1>1, <1>2, <1>3, <1>4, HandlerCustody DEF GroupPc
<1>5. ASSUME NEW u \in todo[c], userConnMap[host[c]][u] # NoConn,
             Receive(userConnMap[host[c]][u], u, One(msg[c]))
      PROVE  CustodyStep /\ SentOK'
  <2>1. msg[c] \in Msgs /\ u \in Addressees[msg[c]] /\ tries[msg[c]] > 0
    BY <1>2, ChatAssumption DEF CustodyInv, AckInv, IInv, WorkOK, SentOK, GroupPc
  <2>2. u \in Users
    BY <2>1, ChatAssumption
  <2>3. \A v \in Users, k \in Msgs : Held(v, k)' <=> Held(v, k)
    BY <1>1, <1>3, HandlerHolds
  <2>4. CustodyStep
    BY <1>1, <1>5, <2>1, <2>2, <2>3, HostType, HandedOver
  <2>5. SentOK'
    BY <1>1, <1>2, SentStays DEF CustodyInv, AckInv, GroupPc
  <2> QED
    BY <2>4, <2>5
<1> QED
  BY <1>4, <1>5 DEF GroupMember

LEMMA GroupPublishCustody ==
    ASSUME CustodyInv, NEW c \in Conns, GroupPublish(c)
    PROVE  CustodyStep /\ SentOK'
<1>1. UNCHANGED <<offlineMessage, dbQueue, tries, inflight, got, acked, msg, rows>>
  BY DEF GroupPublish, mysql, process, client, traffic
<1>2. pc[c] = "gpublish" /\ pc'[c] = "member"
      /\ \A d \in Conns \ {c} : pc'[d] = pc[d] /\ user'[d] = user[d]
  BY DEF GroupPublish, At, Goto, NextMember, CustodyInv, AckInv, IInv, TypeOK, HandlerTypes
<1>3. user[c] \in Users /\ msg[c] \in Msgs /\ <<user[c], msg[c]>> \in Keeper!Due
  BY <1>2, ChatHas
<1>4. CustodyStep
  BY <1>1, <1>2, <1>3, PublishCustody DEF GroupPublish, Elsewhere
<1>5. SentOK'
  BY <1>1, <1>2, SentStays DEF CustodyInv, AckInv, GroupPc
<1> QED
  BY <1>4, <1>5

LEMMA GroupStoreCustody ==
    ASSUME CustodyInv, NEW c \in Conns, GroupStore(c)
    PROVE  CustodyStep /\ SentOK'
<1>1. UNCHANGED <<offlineMessage, channel, tries, inflight, got, lost, acked, msg, rows>>
  BY DEF GroupStore, mysql, redis, pubsub, client, traffic, outcome
<1>2. pc[c] = "gstore" /\ pc'[c] = "member"
      /\ \A d \in Conns \ {c} : pc'[d] = pc[d] /\ user'[d] = user[d]
  BY DEF GroupStore, At, Goto, NextMember, CustodyInv, AckInv, IInv, TypeOK, HandlerTypes
<1>3. user[c] \in Users /\ msg[c] \in Msgs /\ <<user[c], msg[c]>> \in Keeper!Due
  BY <1>2, ChatHas
<1>4. Elsewhere(c)
  BY <1>1, <1>2 DEF Elsewhere
<1>5. CustodyStep
  BY <1>1, <1>3, <1>4, HostType, StoreCustody DEF GroupStore, KeepOffline
<1>6. SentOK'
  BY <1>1, <1>2, SentStays DEF CustodyInv, AckInv, GroupPc
<1> QED
  BY <1>5, <1>6

LEMMA GroupEndCustody ==
    ASSUME CustodyInv, AckInv', NEW c \in Conns, GroupEnd(c)
    PROVE  CustodyStep /\ SentOK'
<1>1. UNCHANGED <<offlineMessage, channel, dbQueue, tries, inflight, got, lost, rows>>
  BY DEF GroupEnd, mysql, redis, pubsub, client, traffic
<1>2. pc[c] = "member" /\ pc'[c] = "idle"
      /\ \A d \in Conns \ {c} : pc'[d] = pc[d] /\ user'[d] = user[d] /\ msg'[d] = msg[d]
  BY DEF GroupEnd, At, Goto, Finish, CustodyInv, AckInv, IInv, TypeOK, HandlerTypes
<1>3. msg[c] \in Msgs /\ tries[msg[c]] > 0
  BY <1>2, ChatAssumption DEF CustodyInv, AckInv, IInv, WorkOK, SentOK, GroupPc
<1>4. UNCHANGED acked \/ \E k \in Msgs : Keeper!Acknowledge(k)
  BY <1>3, AckAcknowledges DEF GroupEnd
<1>5. \A v \in Users, k \in Msgs : Held(v, k)' <=> Held(v, k)
  BY <1>1, <1>2, HandlerHolds DEF Elsewhere
<1>6. {} \in SUBSET Keeper!Due
  OBVIOUS
<1>7. CustodyStep
  BY <1>1, <1>4, <1>5, <1>6, TakeStep
<1>8. SentOK'
  BY <1>1, <1>2, SentStays DEF CustodyInv, AckInv, OneChatPc, GroupPc
<1> QED
  BY <1>7, <1>8

-----------------------------------------------------------------------------
(* The worker, the observer, and what a login is answered.                 *)

(* The elements of a queue that is not empty.                              *)
LEMMA ElementsTaken ==
    ASSUME NEW S, NEW q \in Seq(S), q # <<>>
    PROVE  /\ Head(q) \in S
           /\ {q[i] : i \in 1..Len(q)} = {Head(q)} \cup {Tail(q)[i] : i \in 1..Len(Tail(q))}
<1>1. /\ Head(q) = q[1] /\ 1 \in 1..Len(q) /\ Head(q) \in S
      /\ \A k \in 1..Len(Tail(q)) : k + 1 \in 1..Len(q) /\ Tail(q)[k] = q[k + 1]
  BY HeadTail
<1>2. \A i \in 1..Len(q) : q[i] = Head(q) \/ \E j \in 1..Len(Tail(q)) : Tail(q)[j] = q[i]
  BY InTail
<1>3. ASSUME NEW x PROVE x \in {q[i] : i \in 1..Len(q)} <=>
                           x = Head(q) \/ \E j \in 1..Len(Tail(q)) : x = Tail(q)[j]
  <2>1. ASSUME NEW i \in 1..Len(q), x = q[i]
        PROVE  x = Head(q) \/ \E j \in 1..Len(Tail(q)) : x = Tail(q)[j]
    BY ONLY <1>2, <2>1
  <2>2. ASSUME x = Head(q) \/ \E j \in 1..Len(Tail(q)) : x = Tail(q)[j]
        PROVE  \E i \in 1..Len(q) : x = q[i]
    BY ONLY <1>1, <2>2
  <2> QED
    BY <2>1, <2>2
<1> QED
  BY <1>1, <1>3

LEMMA RowAdded ==
    ASSUME TypeOK, NEW u \in Users, NEW m \in Msgs,
           offlineMessage' = [offlineMessage EXCEPT ![u][m] = @ + 1],
           NEW v \in Users, NEW k \in Msgs
    PROVE  Stored(v, k)' <=> Stored(v, k) \/ (v = u /\ k = m)
<1>1. offlineMessage \in [Users -> [Msgs -> Nat]] /\ offlineMessage[v][k] \in Nat
  BY DEF TypeOK, MySQLTypes
<1>2. CASE v = u /\ k = m
  <2>1. offlineMessage'[v][k] = offlineMessage[v][k] + 1
    BY <1>1, <1>2
  <2> QED
    BY <1>1, <1>2, <2>1 DEF Stored
<1>3. CASE ~(v = u /\ k = m)
  <2>1. offlineMessage'[v][k] = offlineMessage[v][k]
    BY <1>1, <1>3
  <2> QED
    BY <1>3, <2>1 DEF Stored
<1> QED
  BY <1>2, <1>3

\* A task that files a message is known by its account and message.
LEMMA WholeTask ==
    ASSUME NEW t \in DbTaskArgs, Whole(t), NEW v, NEW k
    PROVE  t = OfflineTask(v, k) <=> t.type = "offline" /\ t.user = v /\ t.msg = k
  BY DEF DbTaskArgs, Whole, OfflineTask

LEMMA WorkerCustody ==
    ASSUME CustodyInv, NEW s \in Servers, Worker(s)
    PROVE  CustodyStep /\ SentOK'
<1> DEFINE t == Head(dbQueue[s])
<1>1. UNCHANGED <<channel, pc, user, msg, rows, tries, inflight, got, acked>>
  BY DEF Worker, redis, pubsub, handler, work, client, traffic
<1>2. TypeOK
  BY DEF CustodyInv, AckInv, IInv
<1>3. dbQueue[s] \in Seq(DbTaskArgs) /\ dbQueue[s] # <<>> /\ dbQueue'[s] = Tail(dbQueue[s])
      /\ \A r \in Servers \ {s} : dbQueue'[r] = dbQueue[r]
  BY <1>2 DEF Worker, TypeOK, ProcessTypes
<1>4. t \in DbTaskArgs /\ Queued(s) = {t} \cup Queued(s)'
  BY <1>3, ElementsTaken DEF Queued
<1>5. t \in Queued(s)
  BY <1>4
<1>6. /\ Whole(t)
      /\ t.type = "offline" => t.msg \in Msgs /\ t.user \in Addressees[t.msg] \cup {NoUser}
  <2>1. PICK i \in 1..Len(dbQueue[s]) : t = dbQueue[s][i]
    BY <1>5 DEF Queued
  <2>2. DOMAIN dbQueue[s] = 1..Len(dbQueue[s])
    BY <1>3
  <2> QED
    BY <1>5, <2>1, <2>2 DEF CustodyInv, TasksWhole, AckInv, IInv, AddressOK, QueueOK
<1>7. /\ Apply(t) /\ UNCHANGED lost
      \/ /\ lost' = IF t.type = "offline" THEN lost \cup {<<t.user, t.msg, "fault">>} ELSE lost
         /\ UNCHANGED mysql
  BY DEF Worker
<1> HIDE DEF t
<1>8. ASSUME NEW v \in Users, NEW k \in Msgs
      PROVE  /\ Published(v, k)' <=> Published(v, k)
             /\ Answered(v, k)' <=> Answered(v, k)
             /\ Enqueued(v, k) <=> Enqueued(v, k)' \/ t = OfflineTask(v, k)
  <2>1. (Published(v, k)' <=> Published(v, k)) /\ (Answered(v, k)' <=> Answered(v, k))
    BY <1>1 DEF Published, Travelling, Answered
  <2>2. \A r \in Servers \ {s} : Queued(r)' = Queued(r)
    BY <1>3 DEF Queued
  <2> QED
    BY <1>4, <2>1, <2>2 DEF Enqueued
<1>9. \A v \in Users, k \in Msgs :
          t = OfflineTask(v, k) <=> t.type = "offline" /\ t.user = v /\ t.msg = k
  BY <1>4, <1>6, WholeTask
<1>10. SentOK'
  BY <1>1, SentStays DEF CustodyInv, AckInv
<1>11. CASE /\ t.type # "offline" \/ t.user = NoUser
            /\ UNCHANGED offlineMessage
            /\ \A d : d \in lost' /\ d[1] \in Users <=> d \in lost /\ d[1] \in Users
  <2>1. \A v \in Users, k \in Msgs : Held(v, k)' <=> Held(v, k)
    BY <1>8, <1>9, <1>11, ChatAssumption DEF Held, Stored
  <2>2. DroppedCopies' = DroppedCopies
    BY <1>11 DEF DroppedCopies
  <2>3. HeldCopies' = HeldCopies /\ SentMsgs' = SentMsgs /\ ReceivedCopies' = ReceivedCopies
    BY <1>1, <2>1, HeldSame, SentSame, ReceivedSame
  <2> QED
    BY <1>1, <1>10, <2>2, <2>3 DEF CustodyStep, Keeper!cvars
<1>12. CASE /\ t.type = "offline" /\ t.user # NoUser
            /\ offlineMessage' = [offlineMessage EXCEPT ![t.user][t.msg] = @ + 1]
            /\ lost' = lost
  <2>1. t.user \in Users /\ t.msg \in Msgs
    BY <1>6, <1>12, ChatAssumption
  <2>2. \A v \in Users, k \in Msgs :
            Stored(v, k)' <=> Stored(v, k) \/ (v = t.user /\ k = t.msg)
    BY <1>2, <1>12, <2>1, RowAdded
  <2>3. \A v \in Users, k \in Msgs : Held(v, k)' <=> Held(v, k)
    BY <1>8, <1>9, <1>12, <2>2 DEF Held
  <2> QED
    BY <1>1, <1>10, <1>12, <2>3, KeeperRests
<1>13. CASE /\ t.type = "offline" /\ t.user # NoUser
            /\ UNCHANGED offlineMessage
            /\ lost' = lost \cup {<<t.user, t.msg, "fault">>}
  <2> DEFINE w == t.user
             n == t.msg
  <2>1. w \in Users /\ n \in Msgs
    BY <1>6, <1>13, ChatAssumption
  <2>2. \A v \in Users, k \in Msgs : t = OfflineTask(v, k) <=> v = w /\ k = n
    BY <1>9, <1>13
  <2>3. lost' = lost \cup {<<w, n, "fault">>}
    BY <1>13
  <2> HIDE DEF w, n
  <2>4. \A v \in Users, k \in Msgs : Stored(v, k)' <=> Stored(v, k)
    BY <1>13 DEF Stored
  <2>5. \A v \in Users, k \in Msgs : Held(v, k) <=> Held(v, k)' \/ <<v, k>> \in {<<w, n>>}
    BY <1>8, <2>2, <2>4 DEF Held
  <2>6. Keeper!Record({<<w, n>>}, "fault")
    BY <2>1, <2>3, OneLost
  <2>7. "fault" \in Dropped /\ {<<w, n>>} \in SUBSET (Users \X Msgs) /\ {} \in SUBSET Keeper!Due
    BY <2>1 DEF Dropped, Causes
  <2>8. CustodyStep
    BY <1>1, <2>5, <2>6, <2>7, LoseStep
  <2> QED
    BY <1>10, <2>8
<1> QED
  <2>1. CASE Apply(t) /\ UNCHANGED lost
    BY <1>11, <1>12, <2>1 DEF Apply, mysql
  <2>2. CASE UNCHANGED mysql /\ lost' = IF t.type = "offline" THEN lost \cup {<<t.user, t.msg, "fault">>} ELSE lost
    <3>1. UNCHANGED offlineMessage
      BY <2>2 DEF mysql
    <3>2. CASE t.type = "offline" /\ t.user # NoUser
      BY <1>13, <2>2, <3>1, <3>2
    <3>3. CASE t.type = "offline" /\ t.user = NoUser
      <4>1. (<<t.user, t.msg, "fault">>)[1] \notin Users
        BY <3>3, ChatAssumption
      <4>2. \A d : d \in lost' /\ d[1] \in Users <=> d \in lost /\ d[1] \in Users
        BY <2>2, <3>3, <4>1
      <4> QED
        BY <1>11, <3>1, <3>3, <4>2
    <3>4. CASE t.type # "offline"
      BY <1>11, <2>2, <3>1, <3>4
    <3> QED
      BY <3>2, <3>3, <3>4
  <2> QED
    BY <1>7, <2>1, <2>2

LEMMA ObserveCustody ==
    ASSUME CustodyInv, NEW s \in Servers, Observe(s)
    PROVE  CustodyStep /\ SentOK'
<1> DEFINE u == Head(channel[s])[1]
           m == Head(channel[s])[2]
<1>1. UNCHANGED <<dbQueue, pc, user, msg, rows, tries, inflight, acked>>
  BY DEF Observe, process, handler, work, client, traffic
<1>2. TypeOK
  BY DEF CustodyInv, AckInv, IInv
<1>3. channel[s] \in Seq(Users \X Msgs) /\ channel[s] # <<>> /\ channel'[s] = Tail(channel[s])
      /\ \A r \in Servers \ {s} : channel'[r] = channel[r]
  BY <1>2 DEF Observe, TypeOK, RedisTypes
<1>4. /\ Head(channel[s]) \in Users \X Msgs
      /\ Travelling(s) = {Head(channel[s])} \cup Travelling(s)'
  <2> DEFINE S == Users \X Msgs
  <2>1. channel[s] \in Seq(S) /\ channel[s] # <<>>
    BY <1>3
  <2> HIDE DEF S
  <2>2. /\ Head(channel[s]) \in S
        /\ {channel[s][i] : i \in 1..Len(channel[s])}
             = {Head(channel[s])} \cup {Tail(channel[s])[i] : i \in 1..Len(Tail(channel[s]))}
    BY ONLY <2>1, ElementsTaken, Zenon
  <2>3. Travelling(s) = {channel[s][i] : i \in 1..Len(channel[s])}
    BY DEF Travelling
  <2>4. Travelling(s)' = {Tail(channel[s])[i] : i \in 1..Len(Tail(channel[s]))}
    BY <1>3 DEF Travelling
  <2>5. Travelling(s) = {Head(channel[s])} \cup Travelling(s)'
    BY ONLY <2>2, <2>3, <2>4
  <2>6. Head(channel[s]) \in Users \X Msgs
    BY <2>2 DEF S
  <2> QED
    BY <2>5, <2>6
<1>5. u \in Users /\ m \in Msgs /\ Head(channel[s]) = <<u, m>>
  BY <1>4
<1>6. \/ userConnMap[s][u] # NoConn /\ Receive(userConnMap[s][u], u, One(m)) /\ UNCHANGED mysql
      \/ offlineMessage' = [offlineMessage EXCEPT ![u][m] = @ + 1] /\ UNCHANGED <<got, lost>>
      \/ lost' = lost \cup {<<u, m, "fault">>} /\ UNCHANGED <<mysql, got>>
  BY DEF Observe
<1> HIDE DEF u, m
<1>7. ASSUME NEW v \in Users, NEW k \in Msgs
      PROVE  /\ Enqueued(v, k)' <=> Enqueued(v, k)
             /\ Answered(v, k)' <=> Answered(v, k)
             /\ Published(v, k) <=> Published(v, k)' \/ <<v, k>> \in {<<u, m>>}
  <2>1. (Enqueued(v, k)' <=> Enqueued(v, k)) /\ (Answered(v, k)' <=> Answered(v, k))
    BY <1>1 DEF Enqueued, Queued, Answered
  <2>2. \A r \in Servers \ {s} : Travelling(r)' = Travelling(r)
    BY <1>3 DEF Travelling
  <2> QED
    BY <1>4, <1>5, <2>1, <2>2 DEF Published
<1>8. SentOK'
  BY <1>1, SentStays DEF CustodyInv, AckInv
<1>9. Held(u, m)
  BY <1>5, <1>7 DEF Held
<1>10. {<<u, m>>} \in SUBSET Keeper!Due
  BY <1>5, <1>9, HeldWasSent, DueOf
<1>11. {<<u, m>>} \in SUBSET (Users \X Msgs) /\ {} \in SUBSET Keeper!Due
       /\ "fault" \in Dropped /\ "closed" \in Dropped
  BY <1>5 DEF Dropped, Causes
<1>12. ASSUME UNCHANGED mysql
       PROVE  \A v \in Users, k \in Msgs : Held(v, k) <=> Held(v, k)' \/ <<v, k>> \in {<<u, m>>}
  <2>1. \A v \in Users, k \in Msgs : Stored(v, k)' <=> Stored(v, k)
    BY <1>12 DEF Stored, mysql
  <2> QED
    BY <1>7, <2>1 DEF Held
<1>13. CASE userConnMap[s][u] # NoConn /\ Receive(userConnMap[s][u], u, One(m)) /\ UNCHANGED mysql
  <2>1. userConnMap[s][u] \in Conns /\ account[userConnMap[s][u]] = u
    BY <1>5, <1>13 DEF CustodyInv, AckInv, IInv, TypeOK, ProcessTypes, MapOK
  <2>2. One(m) \in [Msgs -> Nat] /\ Bagged(u, One(m)) = {<<u, m>>}
    BY <1>5, BagTypes, OneBagged
  <2>3. CASE link[userConnMap[s][u]] = "open"
    <3>1. lost' = lost /\ ReceivedCopies' = ReceivedCopies \cup {<<u, m>>}
      BY <1>2, <1>5, <1>13, <2>1, <2>2, <2>3, ReceiveDelivers
    <3> QED
      BY <1>1, <1>8, <1>10, <1>12, <1>13, <3>1, DeliverStep
  <2>4. CASE link[userConnMap[s][u]] # "open"
    <3>1. got' = got /\ Keeper!Record({<<u, m>>}, "closed")
      BY <1>5, <1>13, <2>1, <2>2, <2>4, ReceiveDrops
    <3> QED
      BY <1>1, <1>8, <1>11, <1>12, <1>13, <3>1, LoseStep
  <2> QED
    BY <2>3, <2>4
<1>14. CASE offlineMessage' = [offlineMessage EXCEPT ![u][m] = @ + 1] /\ UNCHANGED <<got, lost>>
  <2>1. \A v \in Users, k \in Msgs : Stored(v, k)' <=> Stored(v, k) \/ (v = u /\ k = m)
    BY <1>2, <1>5, <1>14, RowAdded
  <2>2. \A v \in Users, k \in Msgs : Held(v, k)' <=> Held(v, k)
    BY <1>7, <2>1 DEF Held
  <2> QED
    BY <1>1, <1>8, <1>14, <2>2, KeeperRests
<1>15. CASE lost' = lost \cup {<<u, m, "fault">>} /\ UNCHANGED <<mysql, got>>
  <2>1. Keeper!Record({<<u, m>>}, "fault")
    BY <1>5, <1>15, OneLost
  <2> QED
    BY <1>1, <1>8, <1>11, <1>12, <1>15, <2>1, LoseStep
<1> QED
  BY <1>6, <1>13, <1>14, <1>15

LEMMA LoginRemoveCustody ==
    ASSUME CustodyInv, NEW c \in Conns, LoginRemove(c)
    PROVE  CustodyStep /\ SentOK'
<1> DEFINE w == user[c]
           read == Bagged(w, rows[c])
           unread == {d \in Users \X Msgs : d[1] = w /\ offlineMessage[w][d[2]] > rows[c][d[2]]}
<1>1. UNCHANGED <<channel, dbQueue, user, msg, rows, tries, inflight, got, acked>>
  BY DEF LoginRemove, redis, pubsub, process, work, client, traffic
<1>2. /\ pc[c] = "remove" /\ pc'[c] = "reply" /\ w \in Users
      /\ \A d \in Conns \ {c} : pc'[d] = pc[d]
  BY DEF LoginRemove, At, Goto, CustodyInv, AckInv, IInv, WorkOK, LoginPc, TypeOK, HandlerTypes
<1>3. offlineMessage \in [Users -> [Msgs -> Nat]] /\ rows[c] \in [Msgs -> Nat]
  BY DEF CustodyInv, AckInv, IInv, TypeOK, MySQLTypes, HandlerTypes
<1>4. read \in SUBSET Keeper!Due
  <2>1. ASSUME NEW k \in Msgs, rows[c][k] > 0 PROVE <<w, k>> \in Keeper!Due
    <3>1. tries[k] > 0 /\ w \in Addressees[k]
      BY <2>1 DEF CustodyInv, SentOK, AckInv, IInv, AddressOK, RowsOK
    <3> QED
      BY <1>2, <3>1, DueOf
  <2> QED
    BY <2>1 DEF Bagged
<1>5. unread \in SUBSET (Users \X Msgs)
  OBVIOUS
<1>6. \A v \in Users, k \in Msgs : (<<v, k>> \in read <=> v = w /\ rows[c][k] > 0)
                                /\ (<<v, k>> \in unread <=> v = w /\ offlineMessage[w][k] > rows[c][k])
  BY DEF Bagged
<1>7. ASSUME NEW v \in Users, NEW k \in Msgs
      PROVE  /\ Enqueued(v, k)' <=> Enqueued(v, k)
             /\ Published(v, k)' <=> Published(v, k)
             /\ Answered(v, k)' <=> Answered(v, k) \/ <<v, k>> \in read
  <2>1. (Enqueued(v, k)' <=> Enqueued(v, k)) /\ (Published(v, k)' <=> Published(v, k))
    BY <1>1 DEF Enqueued, Queued, Published, Travelling
  <2>2. Answered(v, k) => Answered(v, k)'
    BY <1>1, <1>2 DEF Answered
  <2>3. Answered(v, k)' => Answered(v, k) \/ (v = w /\ rows[c][k] > 0)
    BY <1>1, <1>2 DEF Answered
  <2>4. v = w /\ rows[c][k] > 0 => Answered(v, k)'
    BY <1>1, <1>2 DEF Answered
  <2> QED
    BY <1>6, <2>1, <2>2, <2>3, <2>4
<1>8. SentOK'
  BY <1>1, <1>2, SentStays DEF CustodyInv, AckInv, OneChatPc, GroupPc
<1>9. CASE UNCHANGED <<offlineMessage, lost>>
  <2>1. \A v \in Users, k \in Msgs : Held(v, k)' <=> Held(v, k) \/ <<v, k>> \in read
    BY <1>7, <1>9 DEF Held, Stored
  <2> HIDE DEF read
  <2> QED
    BY <1>1, <1>4, <1>8, <1>9, <2>1, TakeStep
<1>10. CASE /\ offlineMessage' = [offlineMessage EXCEPT ![w] = None]
            /\ lost' = lost \cup {<<w, k, "unread">> : k \in
                          {n \in Msgs : offlineMessage[w][n] > rows[c][n]}}
  <2>1. ASSUME NEW v \in Users, NEW k \in Msgs
        PROVE  /\ Stored(v, k)' => Stored(v, k)
               /\ Stored(v, k) => Stored(v, k)' \/ v = w
    <3>1. v # w => offlineMessage'[v] = offlineMessage[v]
      BY <1>3, <1>10
    <3>2. offlineMessage'[w] = None /\ None[k] = 0
      BY <1>2, <1>3, <1>10 DEF None
    <3>3. v = w => offlineMessage'[v][k] = 0
      BY <3>2
    <3>4. CASE v = w
      BY <3>3, <3>4 DEF Stored
    <3>5. CASE v # w
      BY <3>1, <3>5 DEF Stored
    <3> QED
      BY <3>4, <3>5
  <2>2. ASSUME NEW v \in Users, NEW k \in Msgs, Stored(v, k), v = w
        PROVE  <<v, k>> \in read \/ <<v, k>> \in unread
    <3>1. offlineMessage[w][k] \in Nat /\ rows[c][k] \in Nat /\ offlineMessage[w][k] > 0
      BY <1>2, <1>3, <2>2 DEF Stored
    <3> QED
      BY <1>6, <2>2, <3>1
  <2>3. ASSUME NEW v \in Users, NEW k \in Msgs, <<v, k>> \in unread
        PROVE  Held(v, k)
    <3>1. offlineMessage[w][k] \in Nat /\ rows[c][k] \in Nat /\ offlineMessage[w][k] > rows[c][k]
          /\ v = w
      BY <1>2, <1>3, <1>6, <2>3
    <3> QED
      BY <3>1 DEF Held, Stored
  <2>4. Keeper!Record(unread, "unread")
    <3>1. ASSUME NEW d
          PROVE  (\E k \in {n \in Msgs : offlineMessage[w][n] > rows[c][n]} : d = <<w, k, "unread">>)
                    <=> \E e \in unread : d = <<e[1], e[2], "unread">>
      <4>1. ASSUME NEW k \in Msgs, offlineMessage[w][k] > rows[c][k], d = <<w, k, "unread">>
            PROVE  \E e \in unread : d = <<e[1], e[2], "unread">>
        <5>1. <<w, k>> \in unread /\ (<<w, k>>)[1] = w /\ (<<w, k>>)[2] = k
          BY <1>2, <4>1
        <5> QED
          BY <4>1, <5>1
      <4>2. ASSUME NEW e \in unread, d = <<e[1], e[2], "unread">>
            PROVE  \E k \in {n \in Msgs : offlineMessage[w][n] > rows[c][n]} : d = <<w, k, "unread">>
        BY <4>2
      <4> QED
        BY <4>1, <4>2
    <3>2. \A d : d \in lost' <=> \/ d \in lost
                                 \/ \E e \in unread : d = <<e[1], e[2], "unread">>
      BY <1>10, <3>1
    <3> HIDE DEF unread
    <3> QED
      BY <1>5, <3>2, LossRecorded
  <2> HIDE DEF read, unread
  <2>5. ASSUME NEW v \in Users, NEW k \in Msgs
        PROVE  /\ Held(v, k) => Held(v, k)' \/ <<v, k>> \in unread
               /\ Held(v, k)' => Held(v, k) \/ <<v, k>> \in read
               /\ <<v, k>> \in read => Held(v, k)'
    <3>1. Stored(v, k) => Stored(v, k)' \/ <<v, k>> \in read \/ <<v, k>> \in unread
      BY <2>1, <2>2
    <3> QED
      BY <1>7, <2>1, <3>1 DEF Held
  <2>6. "unread" \in Dropped
    BY DEF Dropped, Causes
  <2> QED
    BY <1>1, <1>4, <1>5, <1>8, <2>3, <2>4, <2>5, <2>6, LoseStep
<1> QED
  BY <1>9, <1>10 DEF LoginRemove

LEMMA LoginReplyCustody ==
    ASSUME CustodyInv, NEW c \in Conns, LoginReply(c)
    PROVE  CustodyStep /\ SentOK'
<1> DEFINE w == user[c]
           read == Bagged(w, rows[c])
<1>1. UNCHANGED <<offlineMessage, channel, dbQueue, msg, tries, inflight, acked>>
  BY DEF LoginReply, mysql, redis, pubsub, process, client, traffic
<1>2. pc[c] = "reply" /\ w \in Users /\ account[c] = w
  BY DEF LoginReply, At, CustodyInv, AckInv, IInv, WorkOK, LoginPc
<1>3. /\ pc'[c] = "idle" /\ rows'[c] = None
      /\ \A d \in Conns \ {c} : pc'[d] = pc[d] /\ user'[d] = user[d] /\ rows'[d] = rows[d]
  BY DEF LoginReply, Goto, CustodyInv, AckInv, IInv, TypeOK, HandlerTypes
<1>4. TypeOK /\ rows[c] \in [Msgs -> Nat] /\ Receive(c, w, rows[c])
  BY DEF LoginReply, CustodyInv, AckInv, IInv, TypeOK, HandlerTypes
<1>5. \A v \in Users, k \in Msgs : <<v, k>> \in read <=> v = w /\ rows[c][k] > 0
  BY DEF Bagged
<1>6. read \in SUBSET (Users \X Msgs)
  BY DEF Bagged
<1>7. ASSUME NEW v \in Users, NEW k \in Msgs, <<v, k>> \in read
      PROVE  Held(v, k)
  BY <1>2, <1>5, <1>7 DEF Held, Answered
<1>8. ASSUME NEW v \in Users, NEW k \in Msgs
      PROVE  /\ Held(v, k) => Held(v, k)' \/ <<v, k>> \in read
             /\ Held(v, k)' => Held(v, k)
  <2>1. /\ Stored(v, k)' <=> Stored(v, k)
        /\ Enqueued(v, k)' <=> Enqueued(v, k)
        /\ Published(v, k)' <=> Published(v, k)
    BY <1>1 DEF Stored, Enqueued, Queued, Published, Travelling
  <2>2. Answered(v, k)' => Answered(v, k)
    BY <1>3 DEF Answered
  <2>3. Answered(v, k) => Answered(v, k)' \/ (v = w /\ rows[c][k] > 0)
    BY <1>3 DEF Answered
  <2> QED
    BY <1>5, <2>1, <2>2, <2>3 DEF Held
<1>9. \A d \in read : d \in Keeper!Due
  <2>1. ASSUME NEW v \in Users, NEW k \in Msgs, <<v, k>> \in read PROVE <<v, k>> \in Keeper!Due
    BY <1>7, <2>1, HeldWasSent, DueOf
  <2> QED
    BY <1>6, <2>1
<1>10. SentOK'
  <2>1. \A d \in Conns, k \in Msgs : rows'[d][k] > 0 => rows[d][k] > 0
    BY <1>3 DEF None
  <2>2. \A d \in Conns : pc'[d] \in OneChatPc \cup GroupPc => pc'[d] = pc[d]
    BY <1>3 DEF OneChatPc, GroupPc
  <2> QED
    BY <1>1, <2>1, <2>2, SentStays DEF CustodyInv, AckInv
<1>11. CASE link[c] = "open"
  <2>1. lost' = lost /\ ReceivedCopies' = ReceivedCopies \cup read
    BY <1>2, <1>4, <1>11, ReceiveDelivers
  <2>2. read \in SUBSET Keeper!Due
    BY <1>9
  <2> HIDE DEF read
  <2> QED
    BY <1>1, <1>8, <1>10, <2>1, <2>2, DeliverStep
<1>12. CASE link[c] # "open"
  <2>1. got' = got /\ Keeper!Record(read, "closed")
    BY <1>2, <1>4, <1>12, ReceiveDrops
  <2>2. "closed" \in Dropped /\ {} \in SUBSET Keeper!Due
    BY DEF Dropped, Causes
  <2> HIDE DEF read
  <2> QED
    BY <1>1, <1>6, <1>7, <1>8, <1>10, <2>1, <2>2, LoseStep
<1> QED
  BY <1>11, <1>12

-----------------------------------------------------------------------------
(* The end of a process.                                                   *)

\* The copies only s has: in its queue, its channel, the answers it writes.
Gone(s) ==
    {d \in Users \X Msgs :
        \/ OfflineTask(d[1], d[2]) \in Queued(s)
        \/ <<d[1], d[2]>> \in Travelling(s)
        \/ \E c \in Conns : /\ host[c] = s /\ pc[c] = "reply"
                            /\ user[c] = d[1] /\ rows[c][d[2]] > 0}

LEMMA GoneIs ==
    ASSUME NEW s \in Servers, NEW v \in Users, NEW k \in Msgs
    PROVE  <<v, k>> \in Gone(s) <=>
               \/ OfflineTask(v, k) \in Queued(s)
               \/ <<v, k>> \in Travelling(s)
               \/ \E c \in Conns : host[c] = s /\ pc[c] = "reply" /\ user[c] = v /\ rows[c][k] > 0
  BY DEF Gone

\* An account's copies lost with s are those.
LEMMA StopLoses ==
    ASSUME CustodyInv, NEW s \in Servers, Stop(s)
    PROVE  Keeper!Record(Gone(s), "crash")
<1> DEFINE filed == {<<t.user, t.msg, "crash">> : t \in {k \in Queued(s) : k.type = "offline"}}
           sent == {<<d[1], d[2], "crash">> : d \in Travelling(s)}
           read(c) == {<<user[c], m, "crash">> : m \in {k \in Msgs : rows[c][k] > 0}}
           replies == {c \in Conns : host[c] = s /\ pc[c] = "reply"}
<1>1. TypeOK
  BY DEF CustodyInv, AckInv, IInv
<1>2. lost' = lost \cup filed \cup sent \cup UNION {read(c) : c \in replies}
  BY DEF Stop
<1>3. ASSUME NEW d \in filed, d[1] \in Users
      PROVE  \E e \in Gone(s) : d = <<e[1], e[2], "crash">>
  <2>1. PICK t \in Queued(s) : t.type = "offline" /\ d = <<t.user, t.msg, "crash">>
    BY <1>3
  <2>2. PICK i \in 1..Len(dbQueue[s]) : t = dbQueue[s][i]
    BY <2>1 DEF Queued
  <2>3. dbQueue[s] \in Seq(DbTaskArgs) /\ DOMAIN dbQueue[s] = 1..Len(dbQueue[s])
    BY <1>1 DEF TypeOK, ProcessTypes
  <2>4. t \in DbTaskArgs /\ Whole(t)
    BY <2>2, <2>3 DEF CustodyInv, TasksWhole
  <2>5. t.user \in Users /\ t.msg \in Msgs
    BY <1>3, <2>1 DEF CustodyInv, AckInv, IInv, AddressOK, QueueOK
  <2>6. t = OfflineTask(t.user, t.msg)
    BY <2>1, <2>4, WholeTask
  <2>7. <<t.user, t.msg>> \in Gone(s)
    BY <2>1, <2>5, <2>6, GoneIs
  <2> QED
    BY <2>1, <2>7
<1>4. ASSUME NEW d \in sent
      PROVE  \E e \in Gone(s) : d = <<e[1], e[2], "crash">>
  <2>1. PICK e \in Travelling(s) : d = <<e[1], e[2], "crash">>
    BY <1>4
  <2>2. channel[s] \in Seq(Users \X Msgs)
    BY <1>1 DEF TypeOK, RedisTypes
  <2>3. e \in Users \X Msgs
    BY <2>1, <2>2 DEF Travelling
  <2>4. e = <<e[1], e[2]>> /\ e[1] \in Users /\ e[2] \in Msgs
    BY <2>3
  <2>5. e \in Gone(s)
    BY <2>1, <2>4, GoneIs
  <2> QED
    BY <2>1, <2>5
<1>5. ASSUME NEW c \in replies, NEW d \in read(c)
      PROVE  \E e \in Gone(s) : d = <<e[1], e[2], "crash">>
  <2>1. PICK m \in Msgs : rows[c][m] > 0 /\ d = <<user[c], m, "crash">>
    BY <1>5
  <2>2. user[c] \in Users
    BY <1>5 DEF CustodyInv, AckInv, IInv, WorkOK, LoginPc
  <2>3. <<user[c], m>> \in Gone(s)
    BY <1>5, <2>1, <2>2, GoneIs
  <2> QED
    BY <2>1, <2>3
<1>6. ASSUME NEW e \in Gone(s)
      PROVE  <<e[1], e[2], "crash">> \in filed \cup sent \cup UNION {read(c) : c \in replies}
  <2>1. PICK v \in Users, k \in Msgs : e = <<v, k>>
    BY <1>6 DEF Gone
  <2>2. CASE OfflineTask(v, k) \in Queued(s)
    <3>1. OfflineTask(v, k) \in {t \in Queued(s) : t.type = "offline"}
      BY <2>2, OfflineTaskFields
    <3>2. <<v, k, "crash">> \in filed
      BY <3>1, OfflineTaskFields
    <3> QED
      BY <2>1, <3>2
  <2>3. CASE <<v, k>> \in Travelling(s)
    BY <2>1, <2>3
  <2>4. CASE \E c \in Conns : host[c] = s /\ pc[c] = "reply" /\ user[c] = v /\ rows[c][k] > 0
    <3>1. PICK c \in replies : user[c] = v /\ rows[c][k] > 0
      BY <2>4
    <3>2. <<v, k, "crash">> \in read(c)
      BY <3>1
    <3> QED
      BY <2>1, <3>1, <3>2
  <2> QED
    BY <1>6, <2>1, <2>2, <2>3, <2>4, GoneIs
<1>7. \A e \in Gone(s) : <<e[1], e[2], "crash">>[1] \in Users
  BY DEF Gone
<1>8. \A d \in UNION {read(c) : c \in replies} : \E e \in Gone(s) : d = <<e[1], e[2], "crash">>
  BY <1>5
<1> HIDE DEF filed, sent, read, replies
<1>9. DroppedCopies' = DroppedCopies \cup {<<e[1], e[2], "crash">> : e \in Gone(s)}
  <2>1. ASSUME NEW d \in DroppedCopies'
        PROVE  d \in DroppedCopies \/ \E e \in Gone(s) : d = <<e[1], e[2], "crash">>
    <3>1. d \in lost' /\ d[1] \in Users
      BY DEF DroppedCopies
    <3>2. CASE d \in lost
      BY <3>1, <3>2 DEF DroppedCopies
    <3>3. CASE d \notin lost
      BY <1>2, <1>3, <1>4, <1>8, <3>1, <3>3
    <3> QED
      BY <3>2, <3>3
  <2>2. ASSUME NEW d \in DroppedCopies PROVE d \in DroppedCopies'
    BY <1>2 DEF DroppedCopies
  <2>3. ASSUME NEW e \in Gone(s) PROVE <<e[1], e[2], "crash">> \in DroppedCopies'
    BY <1>2, <1>6, <1>7 DEF DroppedCopies
  <2> QED
    BY <2>1, <2>2, <2>3
<1> QED
  BY <1>9 DEF Keeper!Record

LEMMA StopCustody ==
    ASSUME CustodyInv, NEW s \in Servers, Stop(s), offlineMessage' = offlineMessage
    PROVE  CustodyStep /\ SentOK'
<1>1. TypeOK
  BY DEF CustodyInv, AckInv, IInv
<1>2. UNCHANGED <<tries, got, acked>>
  BY DEF Stop
<1>3. /\ dbQueue'[s] = <<>> /\ \A r \in Servers \ {s} : dbQueue'[r] = dbQueue[r]
      /\ channel'[s] = <<>> /\ \A r \in Servers \ {s} : channel'[r] = channel[r]
  BY <1>1 DEF Stop, TypeOK, ProcessTypes, RedisTypes
<1>4. \A c \in Conns : IF host[c] = s
                      THEN pc'[c] = "idle" /\ rows'[c] = None
                      ELSE pc'[c] = pc[c] /\ user'[c] = user[c] /\ msg'[c] = msg[c]
                           /\ rows'[c] = rows[c]
  BY DEF Stop
<1>5. \A m \in Msgs : inflight'[m] = 0 \/ inflight'[m] = inflight[m]
  BY DEF Stop
<1>6. SentOK'
  <2>1. \A m \in Msgs : inflight'[m] > 0 => inflight[m] > 0
    BY <1>5
  <2>2. \A c \in Conns : pc'[c] \in OneChatPc \cup GroupPc =>
                            pc[c] \in OneChatPc \cup GroupPc /\ msg'[c] = msg[c]
    BY <1>4 DEF OneChatPc, GroupPc
  <2>3. \A c \in Conns, m \in Msgs : rows'[c][m] > 0 => rows[c][m] > 0
    BY <1>4 DEF None
  <2> QED
    BY <1>2, <2>1, <2>2, <2>3, SentStays DEF CustodyInv, AckInv
<1>7. ASSUME NEW v \in Users, NEW k \in Msgs
      PROVE  /\ <<v, k>> \in Gone(s) => Held(v, k)
             /\ Held(v, k) => Held(v, k)' \/ <<v, k>> \in Gone(s)
             /\ Held(v, k)' => Held(v, k)
  <2>1. /\ Queued(s)' = {} /\ \A r \in Servers \ {s} : Queued(r)' = Queued(r)
        /\ Travelling(s)' = {} /\ \A r \in Servers \ {s} : Travelling(r)' = Travelling(r)
    BY <1>3 DEF Queued, Travelling
  <2>2. Stored(v, k)' <=> Stored(v, k)
    BY DEF Stored
  <2>3. /\ Enqueued(v, k)' => Enqueued(v, k)
        /\ Enqueued(v, k) => Enqueued(v, k)' \/ OfflineTask(v, k) \in Queued(s)
    BY <2>1 DEF Enqueued
  <2>4. /\ Published(v, k)' => Published(v, k)
        /\ Published(v, k) => Published(v, k)' \/ <<v, k>> \in Travelling(s)
    BY <2>1 DEF Published
  <2>5. /\ Answered(v, k)' => Answered(v, k)
        /\ Answered(v, k) =>
              \/ Answered(v, k)'
              \/ \E c \in Conns : host[c] = s /\ pc[c] = "reply" /\ user[c] = v /\ rows[c][k] > 0
    BY <1>4 DEF Answered
  <2>6. <<v, k>> \in Gone(s) => Enqueued(v, k) \/ Published(v, k) \/ Answered(v, k)
    BY GoneIs DEF Enqueued, Published, Answered
  <2> QED
    BY <2>2, <2>3, <2>4, <2>5, <2>6, GoneIs DEF Held
<1>8. Gone(s) \in SUBSET (Users \X Msgs) /\ {} \in SUBSET Keeper!Due /\ "crash" \in Dropped
  BY DEF Gone, Dropped, Causes
<1>9. CustodyStep
  BY <1>2, <1>7, <1>8, StopLoses, LoseStep
<1> QED
  BY <1>6, <1>9

LEMMA CrashCustody ==
    ASSUME CustodyInv, NEW s \in Servers, Crash(s)
    PROVE  CustodyStep /\ SentOK'
  BY StopCustody DEF Crash, mysql

LEMMA ExitCustody ==
    ASSUME CustodyInv, NEW s \in Servers, Exit(s)
    PROVE  CustodyStep /\ SentOK'
  BY StopCustody DEF Exit, mysql

-----------------------------------------------------------------------------
(* Every step of the servers is one of the keeper, or none.                *)
LEMMA HandlerSteps ==
    ASSUME CustodyInv, AckInv', NEW c \in Conns, Handler(c)
    PROVE  CustodyStep /\ SentOK'
<1>1. CASE Login(c)
  BY <1>1, LoginInsertCustody, LoginSubscribeCustody, LoginSetCustody, LoginOnlineCustody,
     LoginQueryCustody, LoginRemoveCustody, LoginReplyCustody DEF Login
<1>2. CASE Leave(c) \/ CloseBegin(c)
  BY <1>2, CloseBeginCustody, LeaveUnsubscribeCustody, LeaveDeleteCustody, LeaveOfflineCustody
     DEF Leave
<1>3. CASE OneChat(c)
  BY <1>3, ChatBeginCustody, ChatGetCustody, ChatStateCustody, ChatPublishCustody,
     ChatStoreCustody DEF OneChat
<1>4. CASE GroupChat(c)
  BY <1>4, GroupBeginCustody, GroupLockCustody, GroupMemberCustody, GroupPublishCustody,
     GroupStoreCustody, GroupEndCustody DEF GroupChat
<1> QED
  BY <1>1, <1>2, <1>3, <1>4 DEF Handler

LEMMA NextSteps ==
    ASSUME CustodyInv, AckInv', [Next]_vars
    PROVE  CustodyStep /\ SentOK'
<1>1. CASE UNCHANGED vars
  <2>1. UNCHANGED <<offlineMessage, channel, dbQueue, pc, user, msg, rows, got, lost, acked,
                    tries, inflight>>
    BY <1>1 DEF vars, mysql, redis, pubsub, process, server, handler, work, client, traffic, outcome
  <2> QED
    BY <2>1, BystanderCustody
<1>2. ASSUME NEW c \in Conns,
             \/ Connect(c) \/ ClientExit(c) \/ LogoutBegin(c)
             \/ \E m \in Msgs : Send(c, m)
             \/ \E u \in Users : LoginAccept(c, u)
      PROVE  CustodyStep /\ SentOK'
  BY <1>2, ConnectCustody, ClientExitCustody, LogoutBeginCustody, SendCustody, LoginAcceptCustody
<1>3. ASSUME NEW s \in Servers,
             Background(s) \/ Crash(s) \/ ResetState(s) \/ Exit(s) \/ Restart(s)
      PROVE  CustodyStep /\ SentOK'
  BY <1>3, WorkerCustody, RedisSubscriberCustody, ObserveCustody, CrashCustody,
     ResetStateCustody, ExitCustody, RestartCustody DEF Background
<1> QED
  BY <1>1, <1>2, <1>3, HandlerSteps, ResendCustody, KeyExpireCustody DEF Next

(* The keeper, whoever it is, keeps what it promises.                      *)
LEMMA KeeperIsTrue ==
    ASSUME Keeper!NothingForeign, CustodyStep
    PROVE  Keeper!NothingForeign'
<1>1. CASE UNCHANGED Keeper!cvars
  BY <1>1 DEF Keeper!NothingForeign, Keeper!Due, Keeper!cvars
<1>2. ASSUME NEW m \in Msgs, Keeper!Send(m) PROVE Keeper!NothingForeign'
  <2>1. Keeper!Due \subseteq Keeper!Due'
    BY <1>2 DEF Keeper!Due, Keeper!Send
  <2> QED
    BY <1>2, <2>1 DEF Keeper!NothingForeign, Keeper!Send
<1>3. ASSUME UNCHANGED SentMsgs,
             HeldCopies' \subseteq HeldCopies \cup Keeper!Due,
             ReceivedCopies' \subseteq ReceivedCopies \cup Keeper!Due,
             \A d \in DroppedCopies' : d \in DroppedCopies \/ <<d[1], d[2]>> \in Keeper!Due
      PROVE  Keeper!NothingForeign'
  BY <1>3 DEF Keeper!NothingForeign, Keeper!Due
<1>4. ASSUME NEW copies \in SUBSET Keeper!Due, NEW why, Keeper!Record(copies, why),
             NEW d \in DroppedCopies'
      PROVE  d \in DroppedCopies \/ <<d[1], d[2]>> \in Keeper!Due
  <2>1. CASE d \in DroppedCopies
    BY <2>1
  <2>2. CASE \E e \in copies : d = <<e[1], e[2], why>>
    <3>1. PICK e \in copies : d = <<e[1], e[2], why>>
      BY <2>2
    <3>2. <<d[1], d[2]>> = e
      BY <3>1 DEF Keeper!Due
    <3> QED
      BY <3>2
  <2> QED
    BY <1>4, <2>1, <2>2 DEF Keeper!Record
<1>5. CASE Keeper!Handle
  <2>1. PICK copies \in SUBSET Keeper!Due :
            \/ Keeper!Take(copies)
            \/ Keeper!Deliver(copies)
            \/ \E why \in Refusals : Keeper!Refuse(copies, why)
    BY <1>5 DEF Keeper!Handle
  <2>2. CASE Keeper!Take(copies)
    BY <1>3, <2>2 DEF Keeper!Take, Keeper!Pass
  <2>3. CASE Keeper!Deliver(copies)
    BY <1>3, <2>3 DEF Keeper!Deliver, Keeper!Pass
  <2>4. ASSUME NEW why \in Refusals, Keeper!Refuse(copies, why) PROVE Keeper!NothingForeign'
    BY <1>3, <1>4, <2>4 DEF Keeper!Refuse
  <2> QED
    BY <2>1, <2>2, <2>3, <2>4
<1>6. ASSUME NEW copies \in SUBSET HeldCopies, NEW again \in SUBSET Keeper!Due,
             NEW why \in Dropped, Keeper!Lose(copies, again, why)
      PROVE  Keeper!NothingForeign'
  <2>1. copies \in SUBSET Keeper!Due
    BY DEF Keeper!NothingForeign
  <2> QED
    BY <1>3, <1>4, <1>6, <2>1 DEF Keeper!Lose, Keeper!Pass
<1> QED
  BY <1>1, <1>2, <1>5, <1>6 DEF CustodyStep, Keeper!Next

LEMMA KeeperKeeps ==
    ASSUME Keeper!NothingForeign, Keeper!Promise, CustodyStep
    PROVE  Keeper!Promise'
<1>1. ASSUME NEW m \in Msgs, Keeper!Covered(m) PROVE Keeper!Covered(m)'
  <2>1. ASSUME NEW d \in HeldCopies \cup ReceivedCopies
        PROVE  \/ d \in HeldCopies' \cup ReceivedCopies'
               \/ \E why \in Dropped : <<d[1], d[2], why>> \in DroppedCopies'
    BY DEF CustodyStep, Keeper!cvars, Keeper!Next, Keeper!Send, Keeper!Handle, Keeper!Take,
           Keeper!Deliver, Keeper!Refuse, Keeper!Lose, Keeper!Pass, Keeper!Record
  <2>2. DroppedCopies \subseteq DroppedCopies'
    BY DEF CustodyStep, Keeper!cvars, Keeper!Next, Keeper!Send, Keeper!Handle, Keeper!Take,
           Keeper!Deliver, Keeper!Refuse, Keeper!Lose, Keeper!Record
  <2>3. ASSUME NEW u \in Addressees[m]
        PROVE  \/ <<u, m>> \in HeldCopies' \cup ReceivedCopies'
               \/ \E why \in Keeper!Excuse(m) : <<u, m, why>> \in DroppedCopies'
    <3>1. CASE <<u, m>> \in HeldCopies \cup ReceivedCopies
      BY <2>1, <3>1 DEF Keeper!Excuse
    <3>2. CASE \E why \in Keeper!Excuse(m) : <<u, m, why>> \in DroppedCopies
      BY <2>2, <3>2
    <3> QED
      BY <1>1, <3>1, <3>2 DEF Keeper!Covered
  <2> QED
    BY <2>3 DEF Keeper!Covered, Keeper!Excuse
<1>2. SentMsgs \subseteq SentMsgs'
  BY DEF CustodyStep, Keeper!cvars, Keeper!Next, Keeper!Send, Keeper!Handle, Keeper!Take,
         Keeper!Deliver, Keeper!Refuse, Keeper!Lose
<1>3. \/ acked' = acked
      \/ \E m \in Msgs : Keeper!Acknowledge(m)
  BY DEF CustodyStep, Keeper!cvars, Keeper!Next, Keeper!Send, Keeper!Handle, Keeper!Lose
<1>4. acked \subseteq SentMsgs /\ SentMsgs \subseteq Msgs
  BY DEF Keeper!Promise, SentMsgs
<1>5. CASE acked' = acked
  BY <1>1, <1>2, <1>4, <1>5 DEF Keeper!Promise
<1>6. ASSUME NEW m \in Msgs, Keeper!Acknowledge(m) PROVE Keeper!Promise'
  BY <1>1, <1>2, <1>4, <1>6 DEF Keeper!Promise, Keeper!Acknowledge
<1> QED
  BY <1>3, <1>5, <1>6

LEMMA NextCustody ==
    ASSUME CustodyInv, [Next]_vars
    PROVE  CustodyStep /\ CustodyInv'
<1>1. AckInv'
  BY NextAckInv DEF CustodyInv
<1>2. CustodyStep /\ SentOK'
  BY <1>1, NextSteps
<1>3. TasksWhole'
  BY NextQueues, QueuesWhole DEF CustodyInv, AckInv, IInv
<1>4. Keeper!NothingForeign' /\ Keeper!Promise'
  BY <1>2, KeeperIsTrue, KeeperKeeps DEF CustodyInv
<1> QED
  BY <1>1, <1>2, <1>3, <1>4 DEF CustodyInv

LEMMA InitKeeper ==
    ASSUME Init
    PROVE  Keeper!Init
<1>1. \A u \in Users, m \in Msgs :
         offlineMessage[u][m] = 0 /\ tries[m] = 0 /\ got[u][m] = 0
  BY DEF Init, None
<1>2. ASSUME NEW u \in Users, NEW m \in Msgs PROVE ~Held(u, m) /\ ~Received(u, m)
  <2>1. \A s \in Servers : Queued(s) = {} /\ Travelling(s) = {}
    <3>1. \A s \in Servers : Len(dbQueue[s]) = 0 /\ Len(channel[s]) = 0
      BY DEF Init
    <3>2. 1..0 = {}
      OBVIOUS
    <3> QED
      BY <3>1, <3>2 DEF Queued, Travelling
  <2>2. ~Enqueued(u, m) /\ ~Published(u, m)
    BY <2>1 DEF Enqueued, Published
  <2>3. ~Answered(u, m)
    BY DEF Init, Answered
  <2>4. ~Stored(u, m)
    BY <1>1 DEF Stored
  <2>5. ~Received(u, m)
    BY <1>1 DEF Received
  <2>6. ~Held(u, m)
    BY <2>2, <2>3, <2>4 DEF Held
  <2> QED
    BY <2>5, <2>6
<1>3. SentMsgs = {} /\ HeldCopies = {} /\ ReceivedCopies = {}
  <2>1. SentMsgs = {}
    <3>1. \A m \in Msgs : ~(tries[m] > 0)
      BY DEF Init, None
    <3> QED
      BY <3>1 DEF SentMsgs
  <2>2. \A d \in Users \X Msgs : ~Held(d[1], d[2]) /\ ~Received(d[1], d[2])
    BY <1>2
  <2> QED
    BY <2>1, <2>2 DEF HeldCopies, ReceivedCopies
<1>4. DroppedCopies = {} /\ acked = {}
  BY DEF Init, DroppedCopies
<1> QED
  BY <1>3, <1>4 DEF Keeper!Init

LEMMA KeeperBegins ==
    ASSUME Keeper!Init
    PROVE  Keeper!NothingForeign /\ Keeper!Promise
  BY DEF Keeper!Init, Keeper!NothingForeign, Keeper!Promise

LEMMA InitCustody ==
    ASSUME Init
    PROVE  CustodyInv
<1>1. AckInv
  BY InitAckInv
<1>2. TasksWhole
  BY DEF Init, TasksWhole
<1>3. SentOK
  BY DEF Init, SentOK, None, OneChatPc, GroupPc
<1> QED
  BY <1>1, <1>2, <1>3, InitKeeper, KeeperBegins DEF CustodyInv

(* The servers, their queues, Redis and the table are one keeper of        *)
(* messages: from the sending of a message to its receipt no step of any   *)
(* thread, and no end of any process, takes a copy out of custody without  *)
(* delivering it or leaving it on record, and none brings in a copy that   *)
(* was not sent to that account.                                           *)
THEOREM ImplementsCustody == Spec => CustodySpec
<1>1. Init => CustodyInv /\ Keeper!Init
  BY InitCustody, InitKeeper
<1>2. CustodyInv /\ [Next]_vars => CustodyInv' /\ [Keeper!Next]_(Keeper!cvars)
  BY NextCustody DEF CustodyStep
<1> QED
  BY <1>1, <1>2, PTL DEF Spec, CustodySpec, Keeper!Spec

(* What such a keeper promises, whatever it is made of: it has nothing     *)
(* foreign, and an ACK stands for every copy of its message.               *)
THEOREM CustodyPromises == CustodySpec => [](Keeper!NothingForeign /\ Keeper!Promise)
<1>1. Keeper!Init => Keeper!NothingForeign /\ Keeper!Promise
  BY KeeperBegins
<1>2. /\ Keeper!NothingForeign /\ Keeper!Promise
      /\ [Keeper!Next]_(Keeper!cvars)
      => (Keeper!NothingForeign /\ Keeper!Promise)'
  BY KeeperIsTrue, KeeperKeeps DEF CustodyStep
<1> QED
  BY <1>1, <1>2, PTL DEF CustodySpec, Keeper!Spec
=============================================================================
