---------------------------- MODULE ChatProperties ----------------------------
(***************************************************************************)
(* What the chat servers of ChatService should guarantee, and what their   *)
(* comments claim.  The runs of MCChatService check these definitions;     *)
(* ChatServiceProofs proves some of them for every instance.               *)
(***************************************************************************)
EXTENDS ChatService, FiniteSets, Functions

Causes == {"closed", "nobody", "unread", "fault", "crash"}

DbTaskArgs == [type : {"state", "offline"}, user : Users \cup {NoUser},
               state : {"Online", "Offline"}, msg : Msgs \cup {NoMsg}]

PcValues == {"idle"} \cup LoginPc \cup LeavePc \cup OneChatPc \cup GroupPc

MySQLTypes ==
    /\ userState \in [Users -> {"Online", "Offline"}]
    /\ offlineMessage \in [Users -> [Msgs -> Nat]]
RedisTypes ==
    /\ onlineKey \in [Users -> BOOLEAN]
    /\ subscribed \in [Servers -> SUBSET Users]
    /\ subPipe \in [Servers -> Seq({"subscribe", "unsubscribe"} \X Users)]
    /\ channel \in [Servers -> Seq(Users \X Msgs)]
ProcessTypes ==
    /\ running \in [Servers -> {"up", "stopping", "down"}]
    /\ userConnMap \in [Servers -> [Users -> Conns \cup {NoConn}]]
    /\ connMutex \in [Servers -> Conns \cup {NoConn}]
    /\ dbQueue \in [Servers -> Seq(DbTaskArgs)]
HandlerTypes ==
    /\ pc \in [Conns -> PcValues]
    /\ user \in [Conns -> Users \cup {NoUser}]
    /\ msg \in [Conns -> Msgs \cup {NoMsg}]
    /\ todo \in [Conns -> SUBSET Users]
    /\ rows \in [Conns -> [Msgs -> Nat]]
ClientTypes ==
    /\ link \in [Conns -> {"none", "open", "closing", "closed"}]
    /\ account \in [Conns -> Users \cup {NoUser}]
    /\ sentOn \in [Msgs -> Conns \cup {NoConn}]
    /\ inflight \in [Msgs -> Nat]
    /\ tries \in [Msgs -> Nat]
OutcomeTypes ==
    /\ acked \subseteq Msgs
    /\ got \in [Users -> [Msgs -> Nat]]
    /\ lost \subseteq (Users \cup {NoUser}) \X Msgs \X Causes
BoundTypes == logins \in Nat /\ faults \in Nat /\ crashes \in Nat

(* Types of the variables.                                                 *)
TypeOK == /\ MySQLTypes /\ RedisTypes /\ ProcessTypes /\ HandlerTypes
          /\ ClientTypes /\ OutcomeTypes /\ BoundTypes

(* Isolation: whatever servers, threads and queues a message passes, and   *)
(* whoever logs in after whom on a connection, it is only ever received    *)
(* where one of its addressees is logged in.                               *)
NoMisdelivery ==
    \A u \in Users, m \in Msgs : got[u][m] > 0 => u \in Addressees[m]

(* A copy of m for u is kept where it will be read from: it was received,  *)
(* or it is a row of the table, a task of a worker, on its way through     *)
(* Redis, or read by a login that has not replied yet.                     *)
Received(u, m) == got[u][m] > 0
Stored(u, m) == offlineMessage[u][m] > 0
Enqueued(u, m) == \E s \in Servers : OfflineTask(u, m) \in Queued(s)
Published(u, m) == \E s \in Servers : <<u, m>> \in Travelling(s)
Answered(u, m) == \E c \in Conns : pc[c] = "reply" /\ user[c] = u /\ rows[c][m] > 0

Kept(u, m) == \/ Received(u, m) \/ Stored(u, m) \/ Enqueued(u, m)
              \/ Published(u, m) \/ Answered(u, m)

LostBy(u, m, causes) == \E cause \in causes : <<u, m, cause>> \in lost

\* What may happen to a copy that is kept: the recipient's client was gone,
\* its login deleted the row unread, MySQL failed, a process stopped.
Dropped == Causes \ {"nobody"}

Safe(u, m) == Kept(u, m) \/ LostBy(u, m, Dropped)

\* Or else it was published when nobody was subscribed.
Accounted(u, m) == Kept(u, m) \/ LostBy(u, m, Causes)

(* What an ACK means for a one-to-one message: it was received, or it is   *)
(* on its way, or it was dropped in one of those four ways.  Never was it  *)
(* published to nobody.                                                    *)
AckedIsKept ==
    \A m \in acked \ GroupMsgs : \A u \in Addressees[m] : Safe(u, m)

(* The same for a group message, for every member; here a publication      *)
(* nobody was subscribed for counts.                                       *)
GroupAckedIsKept ==
    \A m \in acked \cap GroupMsgs : \A u \in Addressees[m] : Accounted(u, m)

(* Custody.  To the sender and the recipients of a message the servers,    *)
(* their queues, Redis and the table are one keeper: a copy comes into its *)
(* custody only if it was sent, no step of any thread or process takes it  *)
(* out but by delivering it or by a mishap on record, and an ACK says that *)
(* every copy is accounted for.                                            *)
SentMsgs == {m \in Msgs : tries[m] > 0}
Held(u, m) == \/ Stored(u, m) \/ Enqueued(u, m) \/ Published(u, m) \/ Answered(u, m)
HeldCopies == {d \in Users \X Msgs : Held(d[1], d[2])}
ReceivedCopies == {d \in Users \X Msgs : Received(d[1], d[2])}
DroppedCopies == {d \in lost : d[1] \in Users}

Refusals == {"closed", "nobody", "fault"}
Pardons == [m \in Msgs |-> IF m \in GroupMsgs THEN Refusals ELSE Refusals \ {"nobody"}]

Keeper == INSTANCE Custody
    WITH User <- Users, Msg <- Msgs, For <- Addressees,
         Mishap <- Dropped, Refusal <- Refusals, Pardon <- Pardons,
         sent <- SentMsgs, held <- HeldCopies, received <- ReceivedCopies,
         dropped <- DroppedCopies, acked <- acked
CustodySpec == Keeper!Spec

Total(f) == FoldFunction(+, 0, f)

CountIn(seq, x) == Cardinality({i \in DOMAIN seq : seq[i] = x})

\* Copies of m for u: in the answer of each login, in each queue, on their
\* way to each server.
ReadBy(u, m) == [c \in Conns |-> IF pc[c] = "reply" /\ user[c] = u THEN rows[c][m] ELSE 0]
QueuedFor(u, m) == [s \in Servers |-> CountIn(dbQueue[s], OfflineTask(u, m))]
SentTo(u, m) == [s \in Servers |-> CountIn(channel[s], <<u, m>>)]

(* Copies of m for u that can still be, or have been, received.            *)
Copies(u, m) ==
    got[u][m] + offlineMessage[u][m]
    + Total(ReadBy(u, m)) + Total(QueuedFor(u, m)) + Total(SentTo(u, m))

(* No amplification: a copy sent leaves at most one copy per addressee and *)
(* server behind, whichever of the map, Redis and the table serves it.     *)
NoAmplification ==
    \A u \in Users, m \in Msgs : Copies(u, m) <= tries[m] * Cardinality(Servers)

Mapped(u) == \E s \in Servers : userConnMap[s][u] # NoConn

\* No handler runs, no close is pending, nothing is queued anywhere.
Quiet ==
    /\ \A c \in Conns : pc[c] = "idle" /\ link[c] # "closing"
    /\ \A s \in Servers : dbQueue[s] = <<>> /\ subPipe[s] = <<>> /\ channel[s] = <<>>

(* Once things are quiet the four records of a presence agree: the state   *)
(* in MySQL, the connection map, the subscription and the key (which may   *)
(* have expired).                                                          *)
PresenceConverges ==
    Quiet => \A u \in Users :
        /\ userState[u] = "Online" <=> Mapped(u)
        /\ \A s \in Servers : u \in subscribed[s] <=> userConnMap[s][u] # NoConn
        /\ onlineKey[u] => Mapped(u)

(* A connection that is in session is the one its account is served on.    *)
SessionIsMapped ==
    \A c \in Conns : \A u \in Users :
        InSession(c, u) => userConnMap[host[c]][u] = c

(* clientCloseException and logout: an account nobody uses any more is     *)
(* Offline in the end, so that it can log in again.                        *)
ExitNoticed ==
    \A u \in Users : <>[](\A c \in Conns : account[c] # u)
                        => <>[](userState[u] = "Offline")

(* While groupChat walks the members nobody enters or leaves the map, so   *)
(* that the recipients it decides about are those of one moment.           *)
MapFrozenByGroup ==
    [][\A s \in Servers : connMutex[s] # NoConn /\ connMutex'[s] # NoConn
                             => userConnMap'[s] = userConnMap[s]]_vars

(* A groupChat that has begun ends, and lets the other handlers go on,     *)
(* although it asks the database about every member under the lock.        *)
GroupEnds ==
    \A c \in Conns : pc[c] = "lock" ~> pc[c] = "idle"

-----------------------------------------------------------------------------
(* What the properties above rest on, step by step.                        *)

\* What a handler works on, by where it is.
WorkOK ==
    \A c \in Conns :
        /\ pc[c] \in LoginPc => user[c] \in Users /\ account[c] = user[c]
        /\ pc[c] \in LeavePc => user[c] \in Users
        /\ pc[c] \in OneChatPc =>
              /\ msg[c] \in Msgs \ GroupMsgs
              /\ \/ user[c] \in Addressees[msg[c]]
                 \/ /\ pc[c] = "store" /\ user[c] = NoUser
                    /\ \A u \in Addressees[msg[c]] : <<u, msg[c], "fault">> \in lost
        /\ pc[c] \in GroupPc => /\ msg[c] \in GroupMsgs
                               /\ todo[c] \subseteq Addressees[msg[c]]
        /\ pc[c] \in {"gpublish", "gstore"} => user[c] \in Addressees[msg[c]]

\* An entry of the map names a connection of this server on which its
\* account is in use.
MapOK ==
    \A s \in Servers, u \in Users :
        userConnMap[s][u] # NoConn => /\ host[userConnMap[s][u]] = s
                                      /\ account[userConnMap[s][u]] = u

\* Wherever a message waits, it waits for an addressee (or, after a failed
\* query, for nobody).
TableOK ==
    \A u \in Users, m \in Msgs : offlineMessage[u][m] > 0 => u \in Addressees[m]
RowsOK ==
    \A c \in Conns, m \in Msgs : rows[c][m] > 0 =>
        pc[c] \in {"remove", "reply"} /\ user[c] \in Addressees[m]
QueueOK ==
    \A s \in Servers : \A t \in Queued(s) : t.type = "offline" =>
        t.msg \in Msgs /\ t.user \in Addressees[t.msg] \cup {NoUser}
ChannelOK ==
    \A s \in Servers : \A d \in Travelling(s) : d[1] \in Addressees[d[2]]

AddressOK == TableOK /\ RowsOK /\ QueueOK /\ ChannelOK

\* A groupChat under way has answered for the members it is done with.
Served(c) ==
    \A u \in Addressees[msg[c]] \ todo[c] :
        \/ Accounted(u, msg[c])
        \/ (pc[c] \in {"gpublish", "gstore"} /\ u = user[c])

GroupOK == \A c \in Conns : pc[c] \in GroupPc => Served(c)

\* A task that files a message is the one pushed for it.
Whole(t) == t.type = "offline" => t.state = "Offline"
TasksWhole == \A s \in Servers : \A i \in DOMAIN dbQueue[s] : Whole(dbQueue[s][i])

IInv == TypeOK /\ WorkOK /\ MapOK /\ AddressOK /\ NoMisdelivery

\* With what an ACK promises.
AckInv == IInv /\ GroupOK /\ AckedIsKept /\ GroupAckedIsKept

\* Whatever is on its way, in a handler or read by a login was sent.
SentOK ==
    /\ \A m \in Msgs : inflight[m] > 0 => tries[m] > 0
    /\ \A c \in Conns : pc[c] \in OneChatPc \cup GroupPc => tries[msg[c]] > 0
    /\ \A c \in Conns, m \in Msgs : rows[c][m] > 0 => tries[m] > 0

\* With what the keeper of messages promises.
CustodyInv == AckInv /\ TasksWhole /\ SentOK /\ Keeper!NothingForeign /\ Keeper!Promise

-----------------------------------------------------------------------------
(* What comments of the code say, and the code does not do.                *)

(* chatservice.cpp:77, a second login of an account in use is not allowed. *)
SingleSession ==
    \A c, d \in Conns : \A u \in Users :
        InSession(c, u) /\ InSession(d, u) => c = d

(* chatservice.cpp:292, the sender needs an ACK, so that it does not send  *)
(* again: once every copy has been handled the message is acknowledged.    *)
HandledIsAcked ==
    \A m \in Msgs :
        /\ tries[m] > 0 /\ inflight[m] = 0 /\ link[sentOn[m]] = "open"
        /\ \A c \in Conns : msg[c] # m
        => m \in acked
=============================================================================
