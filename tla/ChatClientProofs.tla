---------------------------- MODULE ChatClientProofs ----------------------------
(***************************************************************************)
(* Proofs about the client: its types and the bound of RETRY_MAX on        *)
(* resends, what the menu means, and, for a user who makes at most one     *)
(* request in a second, what the client reports about a request.           *)
(***************************************************************************)
EXTENDS ChatClient, TLAPS

\* A frame from the server answers a request the server has handled, or is
\* the chat of somebody else.
Genuine(f) ==
    /\ f.type = "login_ack" => f.req # 0
    /\ f.req # 0 => /\ f.req \in 1..Request /\ f.req \in handled
                    /\ f.id = frames[f.req].id
                    /\ f.account = frames[f.req].account

\* What is on its way names requests that were made.
FlowOK ==
    /\ \A n \in 1..Len(toServer) : toServer[n] \in 1..Request
    /\ \A n \in 1..Len(toClient) : Genuine(toClient[n])
    /\ Genuine(inbox)
    /\ reader = "login" => inbox.type = "login_ack"

\* What the main thread and the resending thread are at.
ThreadsOK ==
    /\ \A r \in 1..Request : frames[r].kind = "login" => frames[r].account \in Accounts
    /\ main \in {"register", "stamp", "transmit"} => Request > 0
    /\ \A i \in Ids : waitAck[i] <= Request
    /\ timer # "sleep" => cursor[2] \in 1..Request /\ CountAt(cursor[1]) < RetryMax

IInv == TypeOK /\ FlowOK /\ ThreadsOK

-----------------------------------------------------------------------------
(* A request is made in either menu. *)
LEMMA Asking ==
    ASSUME TypeOK, Command \/ \E a \in Accounts : Choose(a)
    PROVE  \E kind \in Kinds, a \in Accounts \cup {NoUser} :
              /\ Ask(kind, a)
              /\ kind = "login" => a \in Accounts
              /\ main = "menu" \/ kind \in {"login", "reg"}
  BY DEF Command, Choose, TypeOK, SharedTypes

LEMMA NoFrameType == NoFrame \in FrameOf /\ NoFrame.type = "none" /\ NoFrame.req = 0
<1>1. 0 \in Ids
  BY ClientAssumption DEF Ids
<1> QED
  BY <1>1, ClientAssumption DEF NoFrame, Frame, FrameOf

LEMMA InitIInv == Init => IInv
<1> SUFFICES ASSUME Init PROVE IInv
  OBVIOUS
<1>1. 0 \in Ids
  BY ClientAssumption DEF Ids
<1>2. MadeTypes /\ MapTypes /\ SharedTypes
  <2>1. Len(<<>>) = 0 /\ MaxRequests \in Nat /\ MaxSecond \in Nat
    BY ClientAssumption
  <2>2. MadeTypes
    BY <2>1 DEF Init, MadeTypes, Request
  <2>3. MapTypes
    BY <2>1 DEF Init, MapTypes
  <2>4. SharedTypes
    BY DEF Init, SharedTypes
  <2> QED
    BY <2>2, <2>3, <2>4
<1>3. ThreadTypes /\ NetTypes /\ PastTypes
  BY <1>1, NoFrameType, ClientAssumption
  DEF Init, ThreadTypes, NetTypes, PastTypes, NoEntry, Requests
<1>4. FlowOK /\ ThreadsOK
  BY NoFrameType DEF Init, FlowOK, ThreadsOK, Genuine, Request, Requests
<1> QED
  BY <1>2, <1>3, <1>4 DEF IInv, TypeOK

(* What the steps below need of the types. *)
LEMMA Made ==
    ASSUME IInv
    PROVE  /\ Request \in Nat /\ Request <= MaxRequests /\ MaxRequests \in Nat
           /\ \A r \in 1..Request : frames[r].id \in Ids /\ frames[r].kind \in Kinds
                                    /\ frames[r].account \in Accounts \cup {NoUser}
           /\ main \in {"register", "stamp", "transmit"} =>
                 Request \in 1..Request /\ Request \in Requests /\ Asked.id \in Ids
<1> DEFINE Rec == [kind : Kinds, id : Ids, account : Accounts \cup {NoUser}]
<1>1. frames \in Seq(Rec) /\ Request <= MaxRequests /\ MaxRequests \in Nat
  BY ClientAssumption DEF IInv, TypeOK, MadeTypes
<1>2. \A r \in Rec : r.kind \in Kinds /\ r.id \in Ids /\ r.account \in Accounts \cup {NoUser}
  OBVIOUS
<1> HIDE DEF Rec
<1>3. Request \in Nat /\ \A r \in 1..Request : frames[r] \in Rec
  BY <1>1 DEF Request
<1>4. main \in {"register", "stamp", "transmit"} => Request \in 1..Request
  BY <1>3 DEF IInv, ThreadsOK
<1> QED
  BY <1>1, <1>2, <1>3, <1>4 DEF Asked, Requests

\* Nothing arrives and nothing is read.
LEMMA FlowFrame ==
    ASSUME IInv, Request' \in Nat, Request <= Request',
           \A r \in 1..Request : frames'[r] = frames[r],
           UNCHANGED <<toClient, inbox, handled>>,
           reader' = "login" => reader = "login",
           toServer' = toServer
    PROVE  FlowOK'
<1>1. Request \in Nat
  BY Made
<1> QED
  BY <1>1 DEF IInv, FlowOK, Genuine

(***************************************************************************)
(* The main thread.                                                        *)
(***************************************************************************)
LEMMA AskStep ==
    ASSUME IInv, NEW kind \in Kinds, NEW a \in Accounts \cup {NoUser}, Ask(kind, a),
           kind = "login" => a \in Accounts
    PROVE  /\ IInv'
           /\ Request' = Request + 1
           /\ \A r \in 1..Request : frames'[r] = frames[r]
           /\ frames'[Request'] = [kind |-> kind, id |-> NewId, account |-> a]
<1> DEFINE new == [kind |-> kind, id |-> NewId, account |-> a]
           Rec == [kind : Kinds, id : Ids, account : Accounts \cup {NoUser}]
<1>1. frames' = Append(frames, new) /\ new \in Rec
  BY ClientAssumption DEF IInv, Ask, NewId, TypeOK, MadeTypes, Ids
<1>2. frames \in Seq(Rec) /\ Request < MaxRequests /\ Request \in Nat /\ MaxRequests \in Nat
  BY Made DEF IInv, Ask, TypeOK, MadeTypes
<1> HIDE DEF Rec, new
<1>3. /\ Request' = Request + 1 /\ Request' <= MaxRequests
      /\ frames' \in Seq(Rec)
      /\ \A r \in 1..Request : r \in 1..Request' /\ frames'[r] = frames[r]
      /\ frames'[Request'] = new
  BY <1>1, <1>2 DEF Request
<1>4. MadeTypes'
  BY <1>3 DEF IInv, Ask, TypeOK, MadeTypes, Rec
<1>5. MapTypes' /\ SharedTypes' /\ ThreadTypes'
  BY DEF IInv, Ask, TypeOK, MapTypes, SharedTypes, ThreadTypes, maps, shared, reads, resend
<1>6. NetTypes' /\ PastTypes'
  BY DEF IInv, Ask, TypeOK, NetTypes, PastTypes, net, past
<1>7. FlowOK'
  <2>1. Request' \in Nat /\ Request <= Request' /\ \A r \in 1..Request : frames'[r] = frames[r]
    BY <1>2, <1>3
  <2>2. UNCHANGED <<toClient, inbox, handled, reader, toServer>>
    BY DEF Ask, reads, net, past
  <2> QED
    BY <2>1, <2>2, FlowFrame
<1>8. ThreadsOK'
  <2>1. \A r \in 1..Request' : frames'[r].kind = "login" => frames'[r].account \in Accounts
    <3> TAKE r \in 1..Request'
    <3>1. r \in 1..Request \/ r = Request'
      BY <1>2, <1>3
    <3> QED
      BY <1>3, <3>1 DEF IInv, ThreadsOK, new
  <2>2. \A i \in Ids : waitAck'[i] <= Request'
    BY <1>2, <1>3 DEF IInv, ThreadsOK, TypeOK, MapTypes, Ask, maps
  <2>3. timer' # "sleep" => cursor'[2] \in 1..Request' /\ CountAt(cursor[1])' < RetryMax
    BY <1>2, <1>3 DEF IInv, ThreadsOK, Ask, maps, resend, CountAt
  <2> QED
    BY <1>2, <1>3, <2>1, <2>2, <2>3 DEF ThreadsOK
<1> QED
  BY <1>3, <1>4, <1>5, <1>6, <1>7, <1>8 DEF IInv, TypeOK, new

\* send() of a request that was made.
LEMMA SendTypes ==
    ASSUME IInv, NEW r \in 1..Request, SendFrame(r)
    PROVE  /\ toServer' \in Seq(Requests)
           /\ sends' \in [Requests -> 0..RetryMax]
           /\ \A n \in 1..Len(toServer') : toServer'[n] \in 1..Request
<1>1. r \in Requests /\ toServer \in Seq(Requests)
      /\ sends \in [Requests -> 0..RetryMax] /\ RetryMax \in Nat
  BY Made, ClientAssumption DEF IInv, TypeOK, NetTypes, PastTypes, Requests
<1>2. CASE linkUp
  <2>1. toServer' = Append(toServer, r)
        /\ sends' = [sends EXCEPT ![r] = IF @ < RetryMax THEN @ + 1 ELSE @]
    BY <1>2 DEF SendFrame
  <2> QED
    BY <1>1, <2>1 DEF IInv, FlowOK
<1>3. CASE ~linkUp
  BY <1>1, <1>3 DEF SendFrame, IInv, FlowOK
<1> QED
  BY <1>2, <1>3 DEF IInv, TypeOK, NetTypes

LEMMA RegisterStep == ASSUME IInv, Register PROVE IInv'
<1>1. /\ Request \in 0..MaxRequests /\ Asked.id \in Ids /\ Request \in Nat
      /\ waitAck' = [waitAck EXCEPT ![Asked.id] = Request]
      /\ UNCHANGED frames /\ Request' = Request
  BY Made DEF Register, Request
<1>2. MapTypes'
  BY <1>1 DEF IInv, TypeOK, MapTypes, Register
<1>3. MadeTypes' /\ SharedTypes' /\ ThreadTypes'
  BY <1>1 DEF IInv, TypeOK, MadeTypes, SharedTypes, ThreadTypes, Register, shared, reads, resend
<1>4. NetTypes' /\ PastTypes'
  BY DEF IInv, TypeOK, NetTypes, PastTypes, Register, net, past
<1>5. FlowOK'
  BY <1>1, FlowFrame DEF Register, reads, net, past
<1>6. ThreadsOK'
  BY <1>1 DEF IInv, ThreadsOK, TypeOK, MapTypes, Register, resend, CountAt
<1> QED
  BY <1>2, <1>3, <1>4, <1>5, <1>6 DEF IInv, TypeOK

LEMMA StampStep == ASSUME IInv, Stamp PROVE IInv'
<1>1. /\ Asked.id \in Ids /\ Request \in Nat /\ RetryMax \in Nat
      /\ retryCount' = [retryCount EXCEPT ![Asked.id] = 0]
      /\ sendTime' = [sendTime EXCEPT ![Asked.id] = "recent"]
      /\ UNCHANGED frames /\ Request' = Request
  BY Made, ClientAssumption DEF Stamp, Request
<1>2. MapTypes'
  BY <1>1 DEF IInv, TypeOK, MapTypes, Stamp
<1>3. MadeTypes' /\ SharedTypes' /\ ThreadTypes'
  BY <1>1 DEF IInv, TypeOK, MadeTypes, SharedTypes, ThreadTypes, Stamp, shared, reads, resend
<1>4. NetTypes' /\ PastTypes'
  BY DEF IInv, TypeOK, NetTypes, PastTypes, Stamp, net, past
<1>5. FlowOK'
  BY <1>1, FlowFrame DEF Stamp, reads, net, past
<1>6. \A i \in Ids : CountAt(i) < RetryMax => CountAt(i)' < RetryMax
  BY <1>1 DEF CountAt, Absent, IInv, TypeOK, MapTypes
<1>7. ThreadsOK'
  BY <1>1, <1>6 DEF IInv, ThreadsOK, TypeOK, ThreadTypes, Stamp, resend
<1> QED
  BY <1>2, <1>3, <1>4, <1>5, <1>7 DEF IInv, TypeOK

LEMMA TransmitStep == ASSUME IInv, Transmit PROVE IInv'
<1>1. Request \in 1..Request /\ SendFrame(Request) /\ Request' = Request
  BY Made DEF Transmit, Request
<1>2. /\ toServer' \in Seq(Requests)
      /\ sends' \in [Requests -> 0..RetryMax]
      /\ \A n \in 1..Len(toServer') : toServer'[n] \in 1..Request
  BY <1>1, SendTypes
<1>3. main' \in {"clear", "choose", "menu"}
  BY DEF Transmit
<1>4. MadeTypes' /\ MapTypes' /\ SharedTypes' /\ ThreadTypes'
  BY <1>1, <1>3 DEF IInv, TypeOK, MadeTypes, MapTypes, SharedTypes, ThreadTypes, Transmit,
      maps, shared, reads, resend
<1>5. NetTypes' /\ PastTypes'
  BY <1>2 DEF IInv, TypeOK, NetTypes, PastTypes, Transmit, past
<1>6. FlowOK'
  BY <1>1, <1>2 DEF IInv, FlowOK, Genuine, Transmit, reads, past
<1>7. ThreadsOK'
  BY <1>1, <1>3 DEF IInv, ThreadsOK, Transmit, maps, resend, CountAt
<1> QED
  BY <1>4, <1>5, <1>6, <1>7 DEF IInv, TypeOK

LEMMA WaitStep == ASSUME IInv, Clear \/ Wait \/ Check \/ Quit PROVE IInv'
<1>1. /\ UNCHANGED <<second, frames, waitAck, retryCount, sendTime, current,
                     reader, inbox, timer, cursor, linkUp, toServer, toClient, sessions,
                     sends, handled, succeeded, replied, foreign>>
      /\ flag' \in BOOLEAN /\ alive' \in BOOLEAN
      /\ rwsem' = rwsem \/ (rwsem > 0 /\ rwsem' = rwsem - 1)
      /\ main' \in {"wait", "check", "menu", "choose"}
  BY DEF Clear, Wait, Check, Quit, maps, shared, reads, resend, net, past, IInv, TypeOK,
      SharedTypes, ThreadTypes
<1>2. Request' = Request /\ Request \in Nat
  BY <1>1, Made DEF Request
<1>3. MadeTypes' /\ MapTypes' /\ SharedTypes'
  BY <1>1, <1>2 DEF IInv, TypeOK, MadeTypes, MapTypes, SharedTypes
<1>4. ThreadTypes' /\ NetTypes' /\ PastTypes'
  BY <1>1 DEF IInv, TypeOK, ThreadTypes, NetTypes, PastTypes
<1>5. FlowOK'
  BY <1>1, <1>2, FlowFrame
<1>6. ThreadsOK'
  BY <1>1, <1>2 DEF IInv, ThreadsOK, CountAt
<1> QED
  BY <1>3, <1>4, <1>5, <1>6 DEF IInv, TypeOK

(***************************************************************************)
(* The receiving thread.                                                   *)
(***************************************************************************)
LEMMA RecvStep == ASSUME IInv, Recv PROVE IInv'
<1>0. toClient \in Seq(FrameOf) /\ toClient # <<>>
  BY DEF IInv, TypeOK, NetTypes, Recv
<1>1. Len(toClient) \in Nat /\ Head(toClient) \in FrameOf /\ Head(toClient) = toClient[1]
      /\ 1 \in 1..Len(toClient)
  BY <1>0
<1>2. PICK n \in 1..MaxBatch : n <= Len(toClient) /\ toClient' = SubSeq(toClient, n + 1, Len(toClient))
  BY DEF Recv
<1>3. /\ toClient' \in Seq(FrameOf)
      /\ \A k \in 1..Len(toClient') : k + n \in 1..Len(toClient) /\ toClient'[k] = toClient[k + n]
  BY <1>0, <1>1, <1>2, ClientAssumption
<1>4. /\ UNCHANGED <<frames, handled, toServer>> /\ Request' = Request
      /\ \/ inbox' = Head(toClient) /\ reader' = "ack"
         \/ UNCHANGED <<reader, inbox>>
  BY DEF Recv, reads, past, Request
<1>5. MadeTypes' /\ MapTypes' /\ SharedTypes' /\ ThreadTypes'
  BY <1>1, <1>4 DEF IInv, TypeOK, MadeTypes, MapTypes, SharedTypes, ThreadTypes, Recv, maps,
      shared, resend
<1>6. NetTypes' /\ PastTypes'
  BY <1>3 DEF IInv, TypeOK, NetTypes, PastTypes, Recv, past
<1>7. FlowOK'
  <2>1. \A k \in 1..Len(toClient) : Genuine(toClient[k])
    BY DEF IInv, FlowOK
  <2>2. \A k \in 1..Len(toClient') : Genuine(toClient[k])'
    BY <1>3, <1>4, <2>1 DEF Genuine
  <2>3. Genuine(inbox)'
    BY <1>1, <1>4, <2>1 DEF IInv, FlowOK, Genuine
  <2> QED
    BY <1>4, <2>2, <2>3 DEF IInv, FlowOK
<1>8. ThreadsOK'
  BY <1>4 DEF IInv, ThreadsOK, Recv, maps, resend, CountAt
<1> QED
  BY <1>5, <1>6, <1>7, <1>8 DEF IInv, TypeOK

LEMMA DispatchStep ==
    ASSUME IInv, Dispatch
    PROVE  /\ reader' \in {"recv", "login", "post"}
           /\ inbox' \in FrameOf
           /\ inbox' = inbox \/ (inbox'.req = 0 /\ inbox'.type = "none")
           /\ reader' = "login" => inbox'.type = "login_ack"
  BY NoFrameType DEF Dispatch, IInv, TypeOK, ThreadTypes

LEMMA AckStep == ASSUME IInv, Acknowledge \/ Erase PROVE IInv'
<1>1. inbox \in FrameOf /\ inbox.id \in Ids /\ Pending \in 0..MaxRequests /\ MaxRequests \in Nat
  <2>1. \A f \in FrameOf : f.id \in Ids
    BY DEF FrameOf
  <2> QED
    BY <2>1, ClientAssumption DEF IInv, TypeOK, ThreadTypes, MapTypes, Pending
<1>2. Dispatch \/ (reader' = "erase" /\ inbox' = inbox)
  BY DEF Acknowledge, Erase
<1>3. /\ reader' \in {"recv", "erase", "login", "post"} /\ inbox' \in FrameOf
      /\ inbox' = inbox \/ (inbox'.req = 0 /\ inbox'.type = "none")
      /\ reader' = "login" => inbox'.type = "login_ack"
  BY <1>1, <1>2, DispatchStep
<1>4. /\ waitAck' \in [Ids -> 0..MaxRequests]
      /\ \A i \in Ids : waitAck'[i] = waitAck[i] \/ waitAck'[i] = 0
      /\ succeeded' \subseteq Requests
  <2>1. waitAck \in [Ids -> 0..MaxRequests] /\ succeeded \subseteq Requests
    BY DEF IInv, TypeOK, MapTypes, PastTypes
  <2>2. \/ waitAck' = waitAck /\ succeeded' = succeeded
        \/ /\ waitAck' = [waitAck EXCEPT ![inbox.id] = 0]
           /\ succeeded' = succeeded \cup {Pending} /\ Pending # 0
    BY DEF Acknowledge, Erase, past
  <2>3. Pending # 0 => Pending \in Requests
    BY <1>1 DEF Requests
  <2> QED
    BY <1>1, <2>1, <2>2, <2>3
<1>5. /\ retryCount' \in [Ids -> {Absent} \cup 0..RetryMax]
      /\ sendTime' \in [Ids -> {"none", "recent", "old"}]
      /\ \A i \in Ids : retryCount'[i] = retryCount[i] \/ retryCount'[i] = Absent
  BY <1>1 DEF IInv, TypeOK, MapTypes, Acknowledge, Erase
<1>6. /\ UNCHANGED <<second, frames, flag, rwsem, current, main, timer, cursor, alive, linkUp,
                     toServer, toClient, sessions, sends, handled, replied, foreign>>
      /\ Request' = Request
  BY DEF Acknowledge, Erase, shared, resend, net, past, Request
<1>7. MadeTypes' /\ MapTypes' /\ SharedTypes' /\ ThreadTypes'
  BY <1>3, <1>4, <1>5, <1>6 DEF IInv, TypeOK, MadeTypes, MapTypes, SharedTypes, ThreadTypes
<1>8. NetTypes' /\ PastTypes'
  BY <1>4, <1>6 DEF IInv, TypeOK, NetTypes, PastTypes
<1>9. FlowOK'
  BY <1>3, <1>6 DEF IInv, FlowOK, Genuine
<1>10. ThreadsOK'
  <2>1. \A i \in Ids : CountAt(i) < RetryMax => CountAt(i)' < RetryMax
    BY <1>5, ClientAssumption DEF CountAt, Absent, IInv, TypeOK, MapTypes
  <2>2. \A i \in Ids : waitAck'[i] <= Request'
    BY <1>4, <1>6, Made DEF IInv, ThreadsOK
  <2> QED
    BY <1>6, <2>1, <2>2 DEF IInv, ThreadsOK, TypeOK, ThreadTypes
<1> QED
  BY <1>7, <1>8, <1>9, <1>10 DEF IInv, TypeOK

LEMMA ResponseStep == ASSUME IInv, LoginResponse \/ Post \/ ReaderExit PROVE IInv'
<1>1. LoginResponse => inbox.req \in Requests /\ inbox.ok \in BOOLEAN
                       /\ inbox.account \in Accounts \cup {NoUser}
  <2>1. \A f \in FrameOf : f.req \in 0..MaxRequests /\ f.ok \in BOOLEAN
                           /\ f.account \in Accounts \cup {NoUser}
    BY DEF FrameOf
  <2> QED
    BY <2>1, ClientAssumption DEF LoginResponse, IInv, FlowOK, Genuine, TypeOK, ThreadTypes, Requests
<1>2. /\ UNCHANGED <<second, frames, waitAck, retryCount, sendTime, main, timer, cursor,
                     linkUp, toServer, toClient, sessions, sends, handled, succeeded, foreign>>
      /\ Request' = Request
  BY DEF LoginResponse, Post, ReaderExit, maps, resend, net, past, Request
<1>3. MadeTypes' /\ MapTypes' /\ NetTypes'
  BY <1>2 DEF IInv, TypeOK, MadeTypes, MapTypes, NetTypes
<1>4. SharedTypes' /\ PastTypes'
  BY <1>1, <1>2 DEF IInv, TypeOK, SharedTypes, PastTypes, LoginResponse, Post, ReaderExit, shared, past
<1>5. /\ inbox' = inbox \/ inbox' = NoFrame
      /\ reader' \in {"recv", "post"} /\ alive' \in BOOLEAN
  BY DEF LoginResponse, Post, ReaderExit, reads, IInv, TypeOK, ThreadTypes
<1>6. ThreadTypes'
  BY <1>2, <1>5, NoFrameType DEF IInv, TypeOK, ThreadTypes
<1>7. FlowOK'
  BY <1>2, <1>5, NoFrameType DEF IInv, FlowOK, Genuine
<1>8. ThreadsOK'
  BY <1>2 DEF IInv, ThreadsOK, CountAt
<1> QED
  BY <1>3, <1>4, <1>6, <1>7, <1>8 DEF IInv, TypeOK

(***************************************************************************)
(* The resending thread, and time.                                         *)
(***************************************************************************)
LEMMA LookStep == ASSUME IInv, NEW i \in Ids, Look(i) PROVE IInv'
<1>1. /\ CountAt(i) \in 0..RetryMax /\ RetryMax \in Nat
      /\ waitAck[i] \in 1..Request /\ Request \in Nat /\ Request <= MaxRequests
      /\ MaxRequests \in Nat
  BY Made, ClientAssumption DEF IInv, TypeOK, MapTypes, ThreadsOK, Look, CountAt
<1>2. /\ UNCHANGED <<second, frames, flag, rwsem, current, main, reader, inbox, alive, linkUp,
                     toServer, toClient, sessions, sends, handled, succeeded, replied, foreign>>
      /\ Request' = Request
  BY DEF Look, shared, reads, net, past, Request
<1>3. MadeTypes' /\ SharedTypes' /\ NetTypes' /\ PastTypes' /\ FlowOK'
  BY <1>1, <1>2, FlowFrame DEF IInv, TypeOK, MadeTypes, SharedTypes, NetTypes, PastTypes
<1>4. CASE GivesUp(i)
  <2>1. /\ waitAck' = [waitAck EXCEPT ![i] = 0]
        /\ retryCount' = [retryCount EXCEPT ![i] = Absent]
        /\ sendTime' = [sendTime EXCEPT ![i] = "none"]
        /\ UNCHANGED <<timer, cursor>> /\ timer = "sleep"
    BY <1>4 DEF Look, resend
  <2>2. MapTypes' /\ ThreadTypes'
    BY <1>1, <1>2, <2>1 DEF IInv, TypeOK, MapTypes, ThreadTypes
  <2>3. ThreadsOK'
    BY <1>1, <1>2, <2>1 DEF IInv, TypeOK, MapTypes, ThreadsOK
  <2> QED
    BY <1>3, <2>2, <2>3 DEF IInv, TypeOK
<1>5. CASE ~GivesUp(i)
  <2>1. /\ retryCount' = [retryCount EXCEPT ![i] = CountAt(i)]
        /\ sendTime' = [sendTime EXCEPT ![i] = "old"]
        /\ cursor' = <<i, waitAck[i]>>
        /\ timer' = "send" /\ waitAck' = waitAck
        /\ CountAt(i) < RetryMax
    BY <1>1, <1>5 DEF Look, GivesUp
  <2>2. MapTypes' /\ ThreadTypes'
    BY <1>1, <1>2, <2>1 DEF IInv, TypeOK, MapTypes, ThreadTypes
  <2>3. CountAt(i)' < RetryMax
    BY <1>1, <2>1 DEF CountAt, Absent, IInv, TypeOK, MapTypes
  <2>4. ThreadsOK'
    BY <1>1, <1>2, <2>1, <2>3 DEF IInv, ThreadsOK
  <2> QED
    BY <1>3, <2>2, <2>4 DEF IInv, TypeOK
<1> QED
  BY <1>4, <1>5

LEMMA ResendStep == ASSUME IInv, ResendFrame PROVE IInv'
<1>1. /\ UNCHANGED <<second, frames, waitAck, retryCount, sendTime, flag, rwsem, current, main,
                     reader, inbox, toClient, sessions, handled, succeeded, replied, foreign>>
      /\ Request' = Request /\ Request \in Nat
  BY Made DEF ResendFrame, maps, shared, reads, past, Request
<1>2. /\ \/ timer' \in {"send", "bump"} /\ cursor' = cursor /\ timer = "send"
         \/ timer' = "sleep" /\ cursor' = NoEntry
      /\ alive' \in BOOLEAN /\ linkUp' \in BOOLEAN
  BY DEF ResendFrame, resend, IInv, TypeOK, ThreadTypes, NetTypes
<1>3. SendFrame(cursor[2]) \/ UNCHANGED <<toServer, sends>>
  BY DEF ResendFrame
<1>4. cursor[2] \in 1..Request
  BY DEF ResendFrame, IInv, ThreadsOK
<1>5. /\ toServer' \in Seq(Requests)
      /\ sends' \in [Requests -> 0..RetryMax]
      /\ \A n \in 1..Len(toServer') : toServer'[n] \in 1..Request
  BY <1>3, <1>4, SendTypes DEF IInv, TypeOK, NetTypes, PastTypes, FlowOK
<1>6. MadeTypes' /\ MapTypes' /\ SharedTypes'
  BY <1>1 DEF IInv, TypeOK, MadeTypes, MapTypes, SharedTypes
<1>7. ThreadTypes'
  <2>1. NoEntry \in Ids \X (0..MaxRequests)
    BY ClientAssumption DEF NoEntry, Ids
  <2> QED
    BY <1>1, <1>2, <2>1 DEF IInv, TypeOK, ThreadTypes
<1>8. NetTypes' /\ PastTypes'
  BY <1>1, <1>2, <1>5 DEF IInv, TypeOK, NetTypes, PastTypes
<1>9. FlowOK'
  BY <1>1, <1>5 DEF IInv, FlowOK, Genuine
<1>10. ThreadsOK'
  BY <1>1, <1>2 DEF IInv, ThreadsOK, CountAt
<1> QED
  BY <1>6, <1>7, <1>8, <1>9, <1>10 DEF IInv, TypeOK

LEMMA BumpStep == ASSUME IInv, Bump PROVE IInv'
<1>1. /\ UNCHANGED <<second, frames, waitAck, flag, rwsem, current, main, reader, inbox, linkUp,
                     toServer, toClient, sessions, sends, handled, succeeded, replied, foreign>>
      /\ Request' = Request /\ Request \in Nat /\ RetryMax \in Nat
  BY Made, ClientAssumption DEF Bump, shared, reads, net, past, Request
<1>2. cursor[1] \in Ids /\ CountAt(cursor[1]) \in 0..RetryMax /\ CountAt(cursor[1]) < RetryMax
  BY <1>1 DEF IInv, TypeOK, MapTypes, ThreadTypes, ThreadsOK, Bump, CountAt
<1>3. \/ /\ retryCount' = [retryCount EXCEPT ![cursor[1]] = CountAt(cursor[1]) + 1]
         /\ sendTime' = [sendTime EXCEPT ![cursor[1]] = "recent"]
         /\ timer' = "sleep" /\ cursor' = NoEntry /\ alive' = alive
      \/ alive' = FALSE /\ UNCHANGED <<retryCount, sendTime, timer, cursor>>
  BY DEF Bump, resend
<1>4. MadeTypes' /\ SharedTypes' /\ NetTypes' /\ PastTypes' /\ FlowOK'
  BY <1>1, FlowFrame DEF IInv, TypeOK, MadeTypes, SharedTypes, NetTypes, PastTypes
<1>5. MapTypes'
  BY <1>1, <1>2, <1>3 DEF IInv, TypeOK, MapTypes
<1>6. ThreadTypes'
  <2>1. NoEntry \in Ids \X (0..MaxRequests)
    BY ClientAssumption DEF NoEntry, Ids
  <2> QED
    BY <1>1, <1>3, <2>1 DEF IInv, TypeOK, ThreadTypes
<1>7. ThreadsOK'
  BY <1>1, <1>3 DEF IInv, ThreadsOK, CountAt
<1> QED
  BY <1>4, <1>5, <1>6, <1>7 DEF IInv, TypeOK

LEMMA TimeStep == ASSUME IInv, Tick \/ Aging \/ Disconnect \/ UNCHANGED vars PROVE IInv'
<1>1. /\ UNCHANGED <<frames, waitAck, retryCount, flag, rwsem, current, main, reader, inbox,
                     timer, cursor, alive, toServer, toClient, sessions, sends, handled,
                     succeeded, replied, foreign>>
      /\ Request' = Request /\ Request \in Nat
  BY Made DEF Tick, Aging, Age, Disconnect, vars, maps, shared, reads, resend, net, past, Request
<1>2. second' \in 0..MaxSecond /\ linkUp' \in BOOLEAN
      /\ sendTime' \in [Ids -> {"none", "recent", "old"}]
  <2>1. second \in 0..MaxSecond /\ linkUp \in BOOLEAN /\ MaxSecond \in Nat
        /\ sendTime \in [Ids -> {"none", "recent", "old"}]
    BY ClientAssumption DEF IInv, TypeOK, MadeTypes, MapTypes, NetTypes
  <2>2. CASE Tick
    BY <2>1, <2>2 DEF Tick, maps, net
  <2>3. CASE Aging
    BY <2>1, <2>3 DEF Aging, Age, net
  <2>4. CASE Disconnect \/ UNCHANGED vars
    BY <2>1, <2>4 DEF Disconnect, vars, maps, net
  <2> QED
    BY <2>2, <2>3, <2>4
<1>3. MadeTypes' /\ MapTypes' /\ SharedTypes' /\ ThreadTypes'
  BY <1>1, <1>2 DEF IInv, TypeOK, MadeTypes, MapTypes, SharedTypes, ThreadTypes
<1>4. NetTypes' /\ PastTypes' /\ FlowOK'
  BY <1>1, <1>2, FlowFrame DEF IInv, TypeOK, NetTypes, PastTypes
<1>5. ThreadsOK'
  BY <1>1 DEF IInv, ThreadsOK, CountAt
<1> QED
  BY <1>3, <1>4, <1>5 DEF IInv, TypeOK

(***************************************************************************)
(* The server.                                                             *)
(***************************************************************************)
\* What is sent back for a request names it.
LEMMA Replies ==
    ASSUME IInv, NEW r \in 1..Request, NEW o \in Outcomes(r)
    PROVE  /\ o.answer \in Seq(FrameOf)
           /\ \A n \in 1..Len(o.answer) : /\ o.answer[n].req = r
                                          /\ o.answer[n].id = frames[r].id
                                          /\ o.answer[n].account = frames[r].account
           /\ o.sessions \subseteq Accounts
<1> DEFINE Mine(f) == f \in FrameOf /\ f.req = r /\ f.id = frames[r].id
                      /\ f.account = frames[r].account
<1>0. r \in 1..MaxRequests /\ r # 0
  BY Made
<1>1. \A type \in AckTypes \cup {"reg", "group_ack"}, ok \in BOOLEAN : Mine(Reply(r, type, ok))
  BY <1>0, Made DEF Reply, Frame, FrameOf
<1>2. Mine(Ack(r))
  BY <1>1 DEF Ack, AckTypes
<1> DEFINE Good(a) == a \in Seq(FrameOf) /\ \A n \in 1..Len(a) : Mine(a[n])
<1> HIDE DEF Mine
<1>3. \A f : Mine(f) => f \in FrameOf
  BY DEF Mine
<1>4. Good(<<>>) /\ Good(<<Ack(r)>>)
  BY <1>2, <1>3
<1>5. \A type \in AckTypes \cup {"reg", "group_ack"}, ok \in BOOLEAN : Good(<<Reply(r, type, ok), Ack(r)>>)
  BY <1>1, <1>2, <1>3
<1>6. sessions \subseteq Accounts /\ frames[r].kind \in AllKinds
      /\ (frames[r].kind = "login" => frames[r].account \in Accounts)
  BY Made, ClientAssumption DEF IInv, TypeOK, NetTypes, ThreadsOK
<1> HIDE DEF Good
<1>7. Good(o.answer) /\ o.sessions \subseteq Accounts
  <2>1. CASE frames[r].kind = "login"
    <3>1. o \in LoginOutcomes(r)
      BY <2>1 DEF Outcomes
    <3>2. \/ /\ o.answer = <<Reply(r, "login_ack", TRUE), Ack(r)>>
             /\ o.sessions = sessions \cup {frames[r].account}
          \/ /\ o.answer = <<Reply(r, "login_ack", FALSE), Ack(r)>>
             /\ o.sessions = sessions
      <4>1. \/ o = Outcome(<<Reply(r, "login_ack", TRUE), Ack(r)>>, sessions \cup {frames[r].account})
            \/ o = Outcome(<<Reply(r, "login_ack", FALSE), Ack(r)>>, sessions)
        BY <3>1, Zenon DEF LoginOutcomes
      <4>2. \A a, n : Outcome(a, n).answer = a /\ Outcome(a, n).sessions = n
        BY DEF Outcome
      <4>3. CASE o = Outcome(<<Reply(r, "login_ack", TRUE), Ack(r)>>, sessions \cup {frames[r].account})
        BY <4>2, <4>3
      <4>4. CASE o = Outcome(<<Reply(r, "login_ack", FALSE), Ack(r)>>, sessions)
        BY <4>2, <4>4
      <4> QED
        BY <4>1, <4>3, <4>4
    <3> QED
      BY <1>5, <1>6, <2>1, <3>2 DEF AckTypes
  <2>2. CASE frames[r].kind = "reg"
    <3>1. o \in RegOutcomes(r)
      BY <2>2 DEF Outcomes
    <3>2. /\ \E type \in {"reg_ack", "reg"} : o.answer = <<Reply(r, type, TRUE), Ack(r)>>
          /\ o.sessions = sessions
      <4>1. PICK type \in {"reg_ack", "reg"} : o = Outcome(<<Reply(r, type, TRUE), Ack(r)>>, sessions)
        BY <3>1, Zenon DEF RegOutcomes
      <4> QED
        BY <4>1 DEF Outcome
    <3> QED
      BY <1>5, <1>6, <3>2 DEF AckTypes
  <2>3. CASE frames[r].kind = "command"
    <3>1. o \in CommandOutcomes(r)
      BY <2>3 DEF Outcomes
    <3>2. (o.answer = <<>> \/ o.answer = <<Ack(r)>>) /\ o.sessions = sessions
      BY <3>1 DEF CommandOutcomes, Outcome
    <3> QED
      BY <1>4, <1>6, <3>2, Zenon
  <2>4. CASE frames[r].kind = "group"
    <3>1. o \in GroupOutcomes(r)
      BY <2>4 DEF Outcomes
    <3>2. o.answer = <<Reply(r, "group_ack", TRUE), Ack(r)>> /\ o.sessions = sessions
      <4>1. o = Outcome(<<Reply(r, "group_ack", TRUE), Ack(r)>>, sessions)
        BY <3>1, Zenon DEF GroupOutcomes
      <4> QED
        BY <4>1 DEF Outcome
    <3>3. Good(<<Reply(r, "group_ack", TRUE), Ack(r)>>)
      BY <1>5 DEF AckTypes
    <3> QED
      BY <1>6, <3>2, <3>3, Zenon
  <2>5. CASE frames[r].kind = "logout"
    BY <1>4, <1>6, <2>5 DEF Outcomes, LogoutOutcomes, Outcome
  <2> QED
    BY <1>6, <2>1, <2>2, <2>3, <2>4, <2>5 DEF AllKinds
<1> QED
  BY <1>7 DEF Good, Mine

LEMMA ServeStep == ASSUME IInv, Serve PROVE IInv'
<1> DEFINE r == Head(toServer)
<1>1. /\ toServer \in Seq(Requests) /\ toServer # <<>> /\ r \in 1..Request
      /\ toClient \in Seq(FrameOf) /\ Request \in Nat /\ r \in Requests
  BY Made DEF IInv, TypeOK, NetTypes, FlowOK, Serve, Requests
<1>2. /\ UNCHANGED <<second, frames, waitAck, retryCount, sendTime, flag, rwsem, current, main,
                     reader, inbox, timer, cursor, alive, linkUp, sends, succeeded, replied, foreign>>
      /\ toServer' = Tail(toServer) /\ handled' = handled \cup {r}
      /\ Request' = Request
  BY DEF Serve, maps, shared, reads, resend, Request
<1>3. PICK o \in Outcomes(r) : toClient' = toClient \o o.answer /\ sessions' = o.sessions
  BY DEF Serve
<1> HIDE DEF r
<1>4. /\ o.answer \in Seq(FrameOf)
      /\ \A n \in 1..Len(o.answer) : /\ o.answer[n].req = r
                                     /\ o.answer[n].id = frames[r].id
                                     /\ o.answer[n].account = frames[r].account
      /\ o.sessions \subseteq Accounts
  BY <1>1, Replies
<1>5. /\ toServer' \in Seq(Requests)
      /\ \A n \in 1..Len(toServer') : n + 1 \in 1..Len(toServer) /\ toServer'[n] = toServer[n + 1]
  BY <1>1, <1>2
<1>6. /\ toClient' \in Seq(FrameOf)
      /\ \A n \in 1..Len(toClient') : \/ n \in 1..Len(toClient) /\ toClient'[n] = toClient[n]
                                      \/ /\ n - Len(toClient) \in 1..Len(o.answer)
                                         /\ toClient'[n] = o.answer[n - Len(toClient)]
  BY <1>1, <1>3, <1>4
<1>7. MadeTypes' /\ MapTypes' /\ SharedTypes' /\ ThreadTypes'
  BY <1>2 DEF IInv, TypeOK, MadeTypes, MapTypes, SharedTypes, ThreadTypes
<1>8. NetTypes' /\ PastTypes'
  BY <1>1, <1>2, <1>3, <1>4, <1>5, <1>6 DEF IInv, TypeOK, NetTypes, PastTypes
<1>9. FlowOK'
  <2>1. \A n \in 1..Len(toServer') : toServer'[n] \in 1..Request'
    BY <1>2, <1>5 DEF IInv, FlowOK
  <2>2. \A n \in 1..Len(toClient') : Genuine(toClient[n])'
    <3> TAKE n \in 1..Len(toClient')
    <3>1. CASE n \in 1..Len(toClient) /\ toClient'[n] = toClient[n]
      BY <1>2, <3>1 DEF IInv, FlowOK, Genuine
    <3>2. CASE /\ n - Len(toClient) \in 1..Len(o.answer)
               /\ toClient'[n] = o.answer[n - Len(toClient)]
      <4>1. /\ toClient'[n].req = r /\ toClient'[n].id = frames[r].id
            /\ toClient'[n].account = frames[r].account
        BY <1>4, <3>2
      <4>2. r \in handled' /\ r # 0 /\ r \in 1..Request'
        BY <1>1, <1>2
      <4> QED
        BY <1>2, <4>1, <4>2 DEF Genuine
    <3> QED
      BY <1>6, <3>1, <3>2
  <2>3. Genuine(inbox)' /\ (reader' = "login" => inbox'.type = "login_ack")
    BY <1>2 DEF IInv, FlowOK, Genuine
  <2> QED
    BY <2>1, <2>2, <2>3 DEF FlowOK
<1>10. ThreadsOK'
  BY <1>2 DEF IInv, ThreadsOK, CountAt
<1> QED
  BY <1>7, <1>8, <1>9, <1>10 DEF IInv, TypeOK

LEMMA ForeignStep == ASSUME IInv, Foreign PROVE IInv'
<1>1. /\ UNCHANGED <<second, frames, waitAck, retryCount, sendTime, flag, rwsem, current, main,
                     reader, inbox, timer, cursor, alive, linkUp, toServer, sessions, sends,
                     handled, succeeded, replied>>
      /\ foreign' = foreign + 1 /\ foreign < MaxForeign
      /\ Request' = Request
  BY DEF Foreign, maps, shared, reads, resend, Request
<1>2. PICK a \in sessions, i \in Ids : toClient' = Append(toClient, Frame("chat", i, TRUE, a, 0))
  BY DEF Foreign
<1> DEFINE f == Frame("chat", i, TRUE, a, 0)
<1>3. f \in FrameOf /\ f.req = 0 /\ f.type = "chat" /\ toClient \in Seq(FrameOf)
  BY ClientAssumption DEF Frame, FrameOf, AckTypes, IInv, TypeOK, NetTypes
<1>9. toClient' = Append(toClient, f)
  BY <1>2
<1> HIDE DEF f
<1>4. /\ toClient' \in Seq(FrameOf)
      /\ \A n \in 1..Len(toClient') : \/ n \in 1..Len(toClient) /\ toClient'[n] = toClient[n]
                                      \/ toClient'[n] = f
  BY <1>3, <1>9
<1>5. MadeTypes' /\ MapTypes' /\ SharedTypes' /\ ThreadTypes'
  BY <1>1 DEF IInv, TypeOK, MadeTypes, MapTypes, SharedTypes, ThreadTypes
<1>6. NetTypes' /\ PastTypes'
  BY <1>1, <1>4, ClientAssumption DEF IInv, TypeOK, NetTypes, PastTypes
<1>7. FlowOK'
  BY <1>1, <1>3, <1>4 DEF IInv, FlowOK, Genuine
<1>8. ThreadsOK'
  BY <1>1 DEF IInv, ThreadsOK, CountAt
<1> QED
  BY <1>5, <1>6, <1>7, <1>8 DEF IInv, TypeOK

LEMMA StepIInv == IInv /\ [Next]_vars => IInv'
<1> SUFFICES ASSUME IInv, [Next]_vars PROVE IInv'
  OBVIOUS
<1>1. CASE Command \/ \E a \in Accounts : Choose(a)
  BY <1>1, Asking, AskStep DEF IInv
<1>2. CASE MainStep \/ Quit
  BY <1>2, RegisterStep, StampStep, TransmitStep, WaitStep DEF MainStep
<1>3. CASE ReaderStep
  BY <1>3, RecvStep, AckStep, ResponseStep DEF ReaderStep
<1>4. CASE TimerStep
  BY <1>4, LookStep, ResendStep, BumpStep DEF TimerStep
<1> QED
  BY <1>1, <1>2, <1>3, <1>4, TimeStep, ServeStep, ForeignStep DEF Next

(* The variables of the client keep their types; with that of retryCount,  *)
(* checkTimeOutAndResend counts no entry beyond RETRY_MAX, although Stamp  *)
(* and onReceiveAck write the count without a lock.                        *)
THEOREM TypeCorrect == Spec => []TypeOK
  BY InitIInv, StepIInv, PTL DEF Spec, IInv

-----------------------------------------------------------------------------
(* The menu. *)

\* A reply accepted a login of the current user.
Accepted == \E r \in 1..Request : <<r, TRUE>> \in replied /\ frames[r].account = current

\* Who is in the menu, or has left it for a command, or will enter it when
\* it looks at the flag, was accepted.
MenuInv ==
    /\ IInv
    /\ flag \/ main = "menu" => Accepted
    /\ main \in {"register", "stamp", "transmit"} /\ Asked.kind \notin {"login", "reg"} => Accepted

LEMMA InitMenu == Init => MenuInv
  BY InitIInv DEF Init, MenuInv

\* Once accepted the user stays accepted: current changes with a reply only.
LEMMA AcceptedFrame ==
    ASSUME IInv, Accepted, Request' \in Nat, Request <= Request',
           \A r \in 1..Request : frames'[r] = frames[r],
           current' = current, replied \subseteq replied'
    PROVE  Accepted'
<1>1. Request \in Nat
  BY Made
<1>2. PICK r \in 1..Request : <<r, TRUE>> \in replied /\ frames[r].account = current
  BY DEF Accepted
<1>3. r \in 1..Request' /\ <<r, TRUE>> \in replied' /\ frames'[r].account = current'
  BY <1>1, <1>2
<1> QED
  BY <1>3 DEF Accepted

LEMMA MenuStill ==
    ASSUME MenuInv, IInv', UNCHANGED <<frames, current, main, replied>>, flag' => flag
    PROVE  MenuInv'
<1>1. Request' = Request /\ Request \in Nat /\ Asked' = Asked
  BY Made DEF MenuInv, Request, Asked
<1>2. Accepted => Accepted'
  BY <1>1, AcceptedFrame DEF MenuInv
<1> QED
  BY <1>1, <1>2 DEF MenuInv

LEMMA StepMenu == MenuInv /\ [Next]_vars => MenuInv'
<1> SUFFICES ASSUME MenuInv, [Next]_vars PROVE MenuInv'
  OBVIOUS
<1>0. IInv /\ IInv'
  BY StepIInv DEF MenuInv
<1>1. CASE Command \/ \E a \in Accounts : Choose(a)
  <2>1. PICK kind \in Kinds, a \in Accounts \cup {NoUser} :
            /\ Ask(kind, a)
            /\ kind = "login" => a \in Accounts
            /\ main = "menu" \/ kind \in {"login", "reg"}
    BY <1>0, <1>1, Asking DEF IInv
  <2>2. /\ Request' = Request + 1 /\ Request \in Nat
        /\ \A r \in 1..Request : frames'[r] = frames[r]
        /\ frames'[Request'] = [kind |-> kind, id |-> NewId, account |-> a]
    BY <1>0, <2>1, AskStep, Made
  <2>3. UNCHANGED <<flag, current, replied>> /\ main' = "register"
    BY <2>1 DEF Ask, shared, past
  <2>4. Accepted => Accepted'
    BY <1>0, <2>2, <2>3, AcceptedFrame
  <2>5. Asked.kind' = kind
    BY <2>2 DEF Asked
  <2> QED
    BY <1>0, <2>1, <2>3, <2>4, <2>5 DEF MenuInv
<1>2. CASE Register \/ Stamp \/ Transmit \/ Clear \/ Wait \/ Check
  <2>1. UNCHANGED <<frames, current, replied>> /\ Request' = Request /\ Asked' = Asked
        /\ Request \in Nat
    BY <1>0, <1>2, Made DEF Register, Stamp, Transmit, Clear, Wait, Check, shared, past, Request, Asked
  <2>2. Accepted => Accepted'
    BY <1>0, <2>1, AcceptedFrame
  <2>3. flag' => flag
    BY <1>2 DEF Register, Stamp, Transmit, Clear, Wait, Check, shared
  <2>4. CASE Register \/ Stamp
    BY <1>0, <2>1, <2>2, <2>3, <2>4 DEF MenuInv, Register, Stamp
  <2>5. CASE Transmit
    <3>1. /\ main = "transmit" /\ main' \in {"clear", "choose", "menu"}
          /\ main' = "menu" => Asked.kind \notin {"login", "reg"}
      BY <2>5 DEF Transmit
    <3> QED
      BY <1>0, <2>2, <2>3, <3>1 DEF MenuInv
  <2>6. CASE Clear \/ Wait \/ Check
    <3>1. main' \in {"wait", "check", "menu", "choose"} /\ (main' = "menu" => flag)
      BY <2>6 DEF Clear, Wait, Check
    <3> QED
      BY <1>0, <2>2, <2>3, <3>1 DEF MenuInv
  <2> QED
    BY <1>2, <2>4, <2>5, <2>6
<1>3. CASE LoginResponse
  <2>1. /\ UNCHANGED <<frames, main>> /\ Request' = Request /\ Asked' = Asked /\ Request \in Nat
        /\ flag' = inbox.ok /\ current' = (IF inbox.ok THEN inbox.account ELSE current)
        /\ replied' = replied \cup {<<inbox.req, inbox.ok>>}
    BY <1>0, <1>3, Made DEF LoginResponse, Request, Asked
  <2>2. /\ inbox.req \in 1..Request /\ inbox.account = frames[inbox.req].account
        /\ inbox.ok \in BOOLEAN
    <3>1. \A f \in FrameOf : f.ok \in BOOLEAN
      BY DEF FrameOf
    <3> QED
      BY <1>0, <1>3, <3>1 DEF LoginResponse, IInv, TypeOK, ThreadTypes, FlowOK, Genuine
  <2>3. CASE inbox.ok
    <3>1. Accepted'
      BY <2>1, <2>2, <2>3 DEF Accepted
    <3> QED
      BY <1>0, <3>1 DEF MenuInv
  <2>4. CASE ~inbox.ok
    <3>1. Accepted => Accepted'
      BY <1>0, <2>1, <2>4, AcceptedFrame
    <3> QED
      BY <1>0, <2>1, <2>4, <3>1 DEF MenuInv
  <2> QED
    BY <2>3, <2>4
<1>4. CASE \/ Quit \/ Recv \/ ReaderExit \/ Acknowledge \/ Erase \/ Post \/ TimerStep
           \/ Tick \/ Aging \/ Serve \/ Foreign \/ Disconnect \/ UNCHANGED vars
  <2>1. UNCHANGED <<frames, current, main, replied, flag>>
    BY <1>4 DEF Quit, Recv, ReaderExit, Acknowledge, Erase, Post, TimerStep, Look, ResendFrame,
        Bump, Tick, Aging, Age, Serve, Foreign, Disconnect, vars, shared, past
  <2> QED
    BY <1>0, <2>1, MenuStill
<1> QED
  BY <1>1, <1>2, <1>3, <1>4 DEF Next, MainStep, ReaderStep

(* However late, lost or repeated the replies to logins are, and whichever *)
(* thread writes g_isLoginSuccess last: in the menu the current user is    *)
(* one that the server accepted.                                           *)
THEOREM MenuCorrect == Spec => []MenuMeansAccepted
<1>1. MenuInv => MenuMeansAccepted
  BY DEF MenuInv, MenuMeansAccepted, Accepted
<1> QED
  BY <1>1, InitMenu, StepMenu, PTL DEF Spec

-----------------------------------------------------------------------------
(* What is reported of a request, when no two are made in the same second. *)

\* A message id is that of one request, and the maps and the cursor have a
\* request under its own id.
OneASecond ==
    /\ ~Hurried
    /\ IInv
    /\ \A r, q \in 1..Request : frames[r].id = frames[q].id => r = q
    /\ \A i \in Ids : waitAck[i] # 0 => frames[waitAck[i]].id = i
    /\ timer # "sleep" => frames[cursor[2]].id = cursor[1]

LEMMA InitOneASecond == ~Hurried /\ Init => OneASecond
  BY InitIInv DEF OneASecond, Init, Request

\* The step of a thread that makes no request.
LEMMA IdsStill ==
    ASSUME OneASecond, IInv', UNCHANGED frames,
           \A i \in Ids : waitAck'[i] = waitAck[i] \/ waitAck'[i] = 0,
           timer' = "sleep" \/ (timer # "sleep" /\ cursor' = cursor)
    PROVE  OneASecond'
<1>1. Request' = Request
  BY DEF Request
<1> QED
  BY <1>1 DEF OneASecond

LEMMA StepOneASecond == OneASecond /\ [Next]_vars => OneASecond'
<1> SUFFICES ASSUME OneASecond, [Next]_vars PROVE OneASecond'
  OBVIOUS
<1>0. IInv /\ IInv'
  BY StepIInv DEF OneASecond
<1>1. CASE Command \/ \E a \in Accounts : Choose(a)
  <2>1. PICK kind \in Kinds, a \in Accounts \cup {NoUser} :
            Ask(kind, a) /\ (kind = "login" => a \in Accounts)
    BY <1>0, <1>1, Asking DEF IInv
  <2>2. /\ Request' = Request + 1 /\ Request \in Nat
        /\ \A r \in 1..Request : frames'[r] = frames[r]
        /\ frames'[Request'] = [kind |-> kind, id |-> NewId, account |-> a]
    BY <1>0, <2>1, AskStep, Made
  <2>3. \A r \in 1..Request : frames[r].id # NewId
    BY <2>1 DEF Ask, OneASecond
  <2>4. UNCHANGED <<waitAck, timer, cursor>>
    BY <2>1 DEF Ask, maps, resend
  <2>5. \A r, q \in 1..Request' : frames'[r].id = frames'[q].id => r = q
    <3> TAKE r, q \in 1..Request'
    <3>1. (r \in 1..Request \/ r = Request') /\ (q \in 1..Request \/ q = Request')
      BY <2>2
    <3> QED
      BY <2>2, <2>3, <3>1 DEF OneASecond
  <2>6. \A i \in Ids : waitAck'[i] # 0 => waitAck[i] \in 1..Request
    BY <1>0, <2>2, <2>4 DEF IInv, ThreadsOK, TypeOK, MapTypes
  <2>7. timer' # "sleep" => cursor[2] \in 1..Request
    BY <1>0, <2>4 DEF IInv, ThreadsOK
  <2> QED
    BY <1>0, <2>2, <2>4, <2>5, <2>6, <2>7 DEF OneASecond
<1>2. CASE Register
  <2>1. /\ waitAck' = [waitAck EXCEPT ![Asked.id] = Request] /\ Asked.id \in Ids
        /\ UNCHANGED <<frames, timer, cursor>> /\ Request' = Request
        /\ waitAck \in [Ids -> 0..MaxRequests]
    BY <1>0, <1>2, Made DEF Register, resend, Request, IInv, TypeOK, MapTypes
  <2>2. \A i \in Ids : waitAck'[i] # 0 => frames[waitAck'[i]].id = i
    BY <2>1 DEF OneASecond, Asked
  <2> QED
    BY <1>0, <2>1, <2>2 DEF OneASecond
<1>3. CASE Acknowledge
  <2>1. \A i \in Ids : waitAck'[i] = waitAck[i] \/ waitAck'[i] = 0
    BY <1>0, <1>3 DEF Acknowledge, IInv, TypeOK, MapTypes
  <2> QED
    BY <1>0, <1>3, <2>1, IdsStill DEF Acknowledge, resend, IInv, TypeOK, ThreadTypes
<1>4. CASE \E i \in Ids : Look(i)
  <2>1. PICK i \in Ids : Look(i)
    BY <1>4
  <2>2. /\ UNCHANGED frames /\ Request' = Request
        /\ waitAck[i] # 0 /\ waitAck \in [Ids -> 0..MaxRequests]
        /\ \/ waitAck' = [waitAck EXCEPT ![i] = 0] /\ timer' = "sleep"
           \/ waitAck' = waitAck /\ cursor' = <<i, waitAck[i]>>
    BY <1>0, <2>1 DEF Look, resend, Request, IInv, TypeOK, MapTypes
  <2> QED
    BY <1>0, <2>2 DEF OneASecond
<1>5. CASE ResendFrame \/ Bump
  <2>1. UNCHANGED <<frames, waitAck>> /\ timer # "sleep" /\ (timer' = "sleep" \/ cursor' = cursor)
    BY <1>5 DEF ResendFrame, Bump, maps, resend
  <2> QED
    BY <1>0, <2>1, IdsStill
<1>6. CASE \/ Stamp \/ Transmit \/ Clear \/ Wait \/ Check \/ Quit \/ Recv \/ ReaderExit \/ Erase
           \/ LoginResponse \/ Post \/ Tick \/ Aging \/ Serve \/ Foreign \/ Disconnect
           \/ UNCHANGED vars
  <2>1. UNCHANGED <<frames, waitAck, timer, cursor>>
    BY <1>6 DEF Stamp, Transmit, Clear, Wait, Check, Quit, Recv, ReaderExit, Erase, LoginResponse,
        Post, Tick, Aging, Age, Serve, Foreign, Disconnect, vars, maps, resend
  <2> QED
    BY <1>0, <2>1, IdsStill
<1> QED
  BY <1>1, <1>2, <1>3, <1>4, <1>5, <1>6 DEF Next, MainStep, ReaderStep, TimerStep

\* No one else writes to the user, so what arrives answers a request.
OwnFrames ==
    /\ OneASecond
    /\ MaxForeign = 0
    /\ \A n \in 1..Len(toClient) : toClient[n].req # 0
    /\ reader \in {"ack", "erase"} => inbox.req # 0
    /\ SuccessMeansHandled

LEMMA InitOwnFrames == ~Hurried /\ MaxForeign = 0 /\ Init => OwnFrames
  BY InitOneASecond DEF OwnFrames, Init, SuccessMeansHandled

LEMMA StepOwnFrames == OwnFrames /\ [Next]_vars => OwnFrames'
<1> SUFFICES ASSUME OwnFrames, [Next]_vars PROVE OwnFrames'
  OBVIOUS
<1>0. IInv /\ OneASecond /\ OneASecond' /\ MaxForeign = 0
  BY StepOneASecond DEF OwnFrames, OneASecond
<1>1. CASE Recv
  <2>1. toClient \in Seq(FrameOf) /\ toClient # <<>>
    BY <1>0, <1>1 DEF IInv, TypeOK, NetTypes, Recv
  <2>2. PICK n \in 1..MaxBatch : n <= Len(toClient) /\ toClient' = SubSeq(toClient, n + 1, Len(toClient))
    BY <1>1 DEF Recv
  <2>3. \A k \in 1..Len(toClient') : k + n \in 1..Len(toClient) /\ toClient'[k] = toClient[k + n]
    BY <2>1, <2>2, ClientAssumption
  <2>4. Head(toClient) = toClient[1] /\ 1 \in 1..Len(toClient)
    BY <2>1
  <2>5. /\ UNCHANGED <<succeeded, handled>>
        /\ (inbox' = Head(toClient) /\ reader' = "ack") \/ UNCHANGED <<inbox, reader>>
    BY <1>1 DEF Recv, past, reads
  <2> QED
    BY <1>0, <2>3, <2>4, <2>5 DEF OwnFrames, SuccessMeansHandled
<1>2. CASE Acknowledge
  <2>1. UNCHANGED <<toClient, handled>> /\ reader = "ack" /\ (Dispatch \/ inbox' = inbox)
    BY <1>2 DEF Acknowledge, net
  <2>2. reader' \in {"ack", "erase"} => inbox' = inbox
    BY <1>2 DEF Acknowledge, Dispatch
  <2>3. Pending # 0 => Pending \in handled
    <3> SUFFICES ASSUME Pending # 0 PROVE Pending \in handled
      OBVIOUS
    <3>1. /\ inbox.req \in 1..Request /\ inbox.req \in handled
          /\ inbox.id = frames[inbox.req].id
      BY <1>0, <2>1 DEF OwnFrames, IInv, FlowOK, Genuine
    <3>2. inbox.id \in Ids
      BY <1>0, <3>1, Made
    <3>3. Pending \in 1..Request /\ frames[Pending].id = inbox.id
      BY <1>0, <3>2, Made DEF Pending, OneASecond, IInv, TypeOK, MapTypes, ThreadsOK
    <3> QED
      BY <1>0, <3>1, <3>3 DEF OneASecond
  <2>4. succeeded' \subseteq succeeded \cup ({Pending} \ {0})
    BY <1>2 DEF Acknowledge
  <2> QED
    BY <1>0, <2>1, <2>2, <2>3, <2>4 DEF OwnFrames, SuccessMeansHandled
<1>3. CASE Erase \/ LoginResponse \/ Post \/ ReaderExit
  <2>1. /\ UNCHANGED <<toClient, handled, succeeded>>
        /\ reader' \in {"ack", "erase"} => inbox' = inbox /\ reader' = reader
    BY <1>3 DEF Erase, LoginResponse, Post, ReaderExit, Dispatch, net, past, reads
  <2> QED
    BY <1>0, <2>1 DEF OwnFrames, SuccessMeansHandled
<1>4. CASE Serve
  <2> DEFINE r == Head(toServer)
  <2>1. toServer \in Seq(Requests) /\ toServer # <<>> /\ r \in 1..Request /\ r # 0
    BY <1>0, <1>4, Made DEF IInv, TypeOK, NetTypes, FlowOK, Serve, Requests
  <2>2. UNCHANGED <<succeeded, reader, inbox>> /\ handled \subseteq handled'
    BY <1>4 DEF Serve, reads
  <2>3. PICK o \in Outcomes(r) : toClient' = toClient \o o.answer
    BY <1>4 DEF Serve
  <2> HIDE DEF r
  <2>4. o.answer \in Seq(FrameOf) /\ \A n \in 1..Len(o.answer) : o.answer[n].req = r
    BY <1>0, <2>1, Replies
  <2>5. \A n \in 1..Len(toClient') : \/ n \in 1..Len(toClient) /\ toClient'[n] = toClient[n]
                                     \/ /\ n - Len(toClient) \in 1..Len(o.answer)
                                        /\ toClient'[n] = o.answer[n - Len(toClient)]
    BY <1>0, <2>3, <2>4 DEF IInv, TypeOK, NetTypes
  <2> QED
    BY <1>0, <2>1, <2>2, <2>4, <2>5 DEF OwnFrames, SuccessMeansHandled
<1>5. CASE Foreign
  BY <1>0, <1>5 DEF Foreign, IInv, TypeOK, PastTypes
<1>6. CASE \/ Command \/ (\E a \in Accounts : Choose(a)) \/ MainStep \/ Quit \/ TimerStep
           \/ Tick \/ Aging \/ Disconnect \/ UNCHANGED vars
  <2>1. UNCHANGED <<toClient, reader, inbox, handled, succeeded>>
    BY <1>6 DEF Command, Choose, Ask, MainStep, Register, Stamp, Transmit, Clear, Wait, Check, Quit,
        TimerStep, Look, ResendFrame, Bump, Tick, Aging, Age, Disconnect, vars, net, past, reads
  <2> QED
    BY <1>0, <2>1 DEF OwnFrames, SuccessMeansHandled
<1> QED
  BY <1>1, <1>2, <1>3, <1>4, <1>5, <1>6 DEF Next, ReaderStep

(* A request reported as sent was handled, for a user who makes no two     *)
(* requests in a second and to whom nobody writes: without either, an id   *)
(* is not that of one request, and onReceiveAck takes another's frame for  *)
(* the acknowledgement.                                                    *)
THEOREM SuccessCorrect == ~Hurried /\ MaxForeign = 0 /\ Spec => []SuccessMeansHandled
<1>1. OwnFrames => SuccessMeansHandled
  BY DEF OwnFrames
<1> QED
  BY <1>1, InitOwnFrames, StepOwnFrames, PTL DEF Spec

\* No request but the one being registered has this id.
Fresh(i) == \A r \in 1..Request : frames[r].id = i => r = Request /\ main = "register"

\* The count of an entry is never ahead of what was sent, also while the
\* resending thread has yet to count what it has sent.
Counted ==
    /\ OneASecond
    /\ \A i \in Ids : Fresh(i) => /\ waitAck[i] = 0 /\ retryCount[i] = Absent
                                  /\ timer # "sleep" => cursor[1] # i
    /\ \A i \in Ids : waitAck[i] # 0 => CountAt(i) <= sends[waitAck[i]]
    /\ timer = "bump" /\ waitAck[cursor[1]] # 0 =>
          CountAt(cursor[1]) < sends[waitAck[cursor[1]]]

LEMMA InitCounted == ~Hurried /\ Init => Counted
  BY InitOneASecond DEF Counted, Init

\* The types the proof below rests on.
LEMMA CountTypes ==
    ASSUME IInv
    PROVE  /\ waitAck \in [Ids -> 0..MaxRequests] /\ RetryMax \in Nat
           /\ retryCount \in [Ids -> {Absent} \cup 0..RetryMax]
           /\ \A i \in Ids : CountAt(i) \in 0..RetryMax
           /\ \A i \in Ids : waitAck[i] # 0 => /\ waitAck[i] \in 1..Request
                                               /\ sends[waitAck[i]] \in 0..RetryMax
           /\ cursor[1] \in Ids
           /\ timer # "sleep" => /\ cursor[2] \in 1..Request /\ sends[cursor[2]] \in 0..RetryMax
                                 /\ CountAt(cursor[1]) < RetryMax
<1>1. /\ waitAck \in [Ids -> 0..MaxRequests] /\ RetryMax \in Nat
      /\ retryCount \in [Ids -> {Absent} \cup 0..RetryMax] /\ cursor[1] \in Ids
      /\ timer # "sleep" => cursor[2] \in 1..Request /\ CountAt(cursor[1]) < RetryMax
  BY ClientAssumption DEF IInv, TypeOK, MapTypes, ThreadTypes, ThreadsOK
<1>2. \A r \in 1..Request : sends[r] \in 0..RetryMax
  BY Made DEF IInv, TypeOK, PastTypes, Requests
<1>3. \A i \in Ids : waitAck[i] # 0 => waitAck[i] \in 1..Request
  BY <1>1, Made DEF IInv, ThreadsOK
<1> QED
  BY <1>1, <1>2, <1>3 DEF CountAt

LEMMA SentTypes ==
    ASSUME IInv PROVE \A r \in 1..Request : sends[r] \in 0..RetryMax
  BY Made DEF IInv, TypeOK, PastTypes, Requests

LEMMA SentNext ==
    ASSUME IInv' PROVE \A r \in 1..Request' : sends'[r] \in 0..RetryMax
<1>1. \A S : frames' \in Seq(S) => Len(frames') \in Nat
  OBVIOUS
<1>2. Request' \in Nat /\ Request' <= MaxRequests /\ MaxRequests \in Nat
  BY <1>1, ClientAssumption DEF IInv, TypeOK, MadeTypes, Request
<1> QED
  BY <1>2 DEF IInv, TypeOK, PastTypes, Requests

LEMMA SentMore ==
    ASSUME IInv, NEW q \in 1..Request, SendFrame(q)
    PROVE  \A r \in 1..Request : sends[r] <= sends'[r]
<1>1. sends \in [Requests -> 0..RetryMax] /\ RetryMax \in Nat /\ 1..Request \subseteq Requests
  BY Made, CountTypes DEF IInv, TypeOK, PastTypes, Requests
<1> QED
  BY <1>1 DEF SendFrame

\* The steps that count nothing.
LEMMA CountStill ==
    ASSUME Counted, OneASecond', UNCHANGED frames,
           main' = "register" => main = "register",
           \A i \in Ids : waitAck'[i] = waitAck[i] \/ waitAck'[i] = 0,
           \A i \in Ids : \/ retryCount'[i] \in {retryCount[i], Absent}
                          \/ retryCount'[i] = 0 /\ ~Fresh(i)',
           \A r \in 1..Request : sends[r] <= sends'[r],
           timer' = "sleep" \/ (timer' = timer /\ cursor' = cursor)
    PROVE  Counted'
<1>1. Request' = Request /\ Request \in Nat /\ IInv /\ IInv'
  BY Made DEF Request, Counted, OneASecond
<1>2. ASSUME NEW i \in Ids PROVE CountAt(i)' \in 0..CountAt(i)
  BY <1>1, CountTypes DEF CountAt
<1>3. ASSUME NEW i \in Ids, Fresh(i)' PROVE Fresh(i)
  BY <1>1, <1>3 DEF Fresh
<1>4. ASSUME NEW i \in Ids, Fresh(i)'
      PROVE  waitAck'[i] = 0 /\ retryCount'[i] = Absent /\ (timer' # "sleep" => cursor'[1] # i)
  BY <1>3, <1>4 DEF Counted
<1>5. ASSUME NEW i \in Ids, waitAck'[i] # 0 PROVE CountAt(i)' <= sends'[waitAck'[i]]
  <2>1. waitAck'[i] = waitAck[i] /\ CountAt(i) <= sends[waitAck[i]]
        /\ sends[waitAck[i]] <= sends'[waitAck[i]]
    BY <1>1, <1>5, CountTypes DEF Counted
  <2>2. sends[waitAck[i]] \in Nat /\ sends'[waitAck[i]] \in Nat /\ CountAt(i) \in Nat
    <3>1. sends[waitAck[i]] \in 0..RetryMax /\ CountAt(i) \in 0..RetryMax /\ RetryMax \in Nat
      BY <1>1, <1>5, <2>1, CountTypes
    <3>2. sends'[waitAck'[i]] \in 0..RetryMax
      BY <1>1, <1>5, <2>1, CountTypes, SentNext
    <3> QED
      BY <2>1, <3>1, <3>2
  <2> QED
    BY <1>2, <2>1, <2>2
<1>6. ASSUME timer' = "bump", waitAck'[cursor'[1]] # 0
      PROVE  CountAt(cursor[1])' < sends'[waitAck'[cursor'[1]]]
  <2>1. timer = "bump" /\ cursor' = cursor /\ cursor[1] \in Ids
    BY <1>1, <1>6, CountTypes
  <2> DEFINE c == cursor[1]
  <2>2. waitAck'[c] = waitAck[c] /\ waitAck[c] # 0
    BY <1>6, <2>1
  <2>3. CountAt(c) < sends[waitAck[c]] /\ sends[waitAck[c]] <= sends'[waitAck[c]]
    BY <1>1, <2>1, <2>2, CountTypes DEF Counted
  <2>4. sends[waitAck[c]] \in 0..RetryMax /\ CountAt(c) \in 0..RetryMax /\ RetryMax \in Nat
    BY <1>1, <2>1, <2>2, CountTypes
  <2>5. sends'[waitAck[c]] \in 0..RetryMax
    BY <1>1, <2>1, <2>2, CountTypes, SentNext
  <2>6. CountAt(c)' \in 0..CountAt(c)
    BY <1>2, <2>1
  <2>7. CountAt(c)' < sends'[waitAck'[c]]
    BY <2>2, <2>3, <2>4, <2>5, <2>6
  <2> QED
    BY <2>1, <2>7
<1> QED
  BY <1>4, <1>5, <1>6 DEF Counted

LEMMA StepCounted == Counted /\ [Next]_vars => Counted'
<1> SUFFICES ASSUME Counted, [Next]_vars PROVE Counted'
  OBVIOUS
<1>0. IInv /\ OneASecond /\ IInv' /\ OneASecond'
  BY StepOneASecond DEF Counted, OneASecond
<1>1. CASE Command \/ \E a \in Accounts : Choose(a)
  <2>1. PICK kind \in Kinds, a \in Accounts \cup {NoUser} :
            Ask(kind, a) /\ (kind = "login" => a \in Accounts)
    BY <1>0, <1>1, Asking DEF IInv
  <2>2. /\ Request' = Request + 1 /\ Request \in Nat
        /\ \A r \in 1..Request : frames'[r] = frames[r]
        /\ frames'[Request'] = [kind |-> kind, id |-> NewId, account |-> a]
    BY <1>0, <2>1, AskStep, Made
  <2>3. UNCHANGED <<waitAck, retryCount, sends, timer, cursor>>
        /\ \A r \in 1..Request : frames[r].id # NewId
    BY <2>1 DEF Ask, maps, resend, OneASecond, Counted
  <2>4. ASSUME NEW i \in Ids, Fresh(i)' PROVE Fresh(i)
    <3>1. ASSUME NEW r \in 1..Request, frames[r].id = i PROVE FALSE
      <4>1. r \in 1..Request' /\ frames'[r].id = i /\ r # Request'
        BY <2>2, <3>1
      <4> QED
        BY <2>4, <4>1 DEF Fresh
    <3> QED
      BY <3>1 DEF Fresh
  <2> QED
    BY <1>0, <2>3, <2>4 DEF Counted, CountAt
<1>2. CASE Register
  <2>1. /\ waitAck' = [waitAck EXCEPT ![Asked.id] = Request] /\ Asked.id \in Ids
        /\ UNCHANGED <<frames, retryCount, sends, timer, cursor>> /\ Request' = Request
        /\ Request \in 1..Request /\ main = "register" /\ main' = "stamp"
    BY <1>0, <1>2, Made DEF Register, maps, resend, Request
  <2>2. Fresh(Asked.id)
    BY <1>0, <2>1 DEF Fresh, OneASecond, Asked
  <2>3. ASSUME NEW i \in Ids, Fresh(i)' PROVE Fresh(i) /\ i # Asked.id
    BY <2>1, <2>3 DEF Fresh, Asked
  <2>4. CountAt(Asked.id) = 0 /\ sends[Request] >= 0
    <3>1. sends[Request] \in 0..RetryMax /\ RetryMax \in Nat
      BY <1>0, <2>1, SentTypes, CountTypes
    <3> QED
      BY <2>1, <2>2, <3>1 DEF Counted, CountAt
  <2>5. waitAck \in [Ids -> 0..MaxRequests] /\ cursor[1] \in Ids
    BY <1>0, CountTypes
  <2>6. ASSUME NEW i \in Ids, Fresh(i)'
        PROVE  waitAck'[i] = 0 /\ retryCount'[i] = Absent /\ (timer' # "sleep" => cursor'[1] # i)
    BY <2>1, <2>3, <2>5, <2>6 DEF Counted
  <2>7. ASSUME NEW i \in Ids, waitAck'[i] # 0 PROVE CountAt(i)' <= sends'[waitAck'[i]]
    BY <2>1, <2>4, <2>5, <2>7 DEF Counted, CountAt
  <2>8. timer' # "sleep" => waitAck'[cursor'[1]] = waitAck[cursor[1]]
    BY <2>1, <2>2, <2>5 DEF Counted
  <2> QED
    BY <1>0, <2>1, <2>6, <2>7, <2>8 DEF Counted, CountAt
<1>3. CASE Stamp
  <2>1. /\ UNCHANGED <<frames, waitAck, sends, timer, cursor>> /\ Request' = Request
        /\ retryCount' = [retryCount EXCEPT ![Asked.id] = 0] /\ Asked.id \in Ids
        /\ Request \in 1..Request /\ main = "stamp" /\ main' = "transmit"
        /\ retryCount \in [Ids -> {Absent} \cup 0..RetryMax]
    BY <1>0, <1>3, Made, CountTypes DEF Stamp, resend, Request
  <2>2. \A i \in Ids : i # Asked.id \/ ~Fresh(i)'
    BY <2>1 DEF Fresh, Asked
  <2>4. \A i \in Ids : retryCount'[i] \in {retryCount[i], Absent}
                       \/ (retryCount'[i] = 0 /\ ~Fresh(i)')
    BY <2>1, <2>2
  <2>3. \A r \in 1..Request : sends[r] <= sends'[r]
    BY <1>0, <2>1, SentTypes, CountTypes
  <2> QED
    BY <1>0, <2>1, <2>3, <2>4, CountStill
<1>4. CASE Transmit
  <2>1. /\ SendFrame(Request) /\ UNCHANGED <<frames, waitAck, retryCount, timer, cursor>>
        /\ main' # "register" /\ Request \in 1..Request
    BY <1>0, <1>4, Made DEF Transmit, maps, resend
  <2>2. \A r \in 1..Request : sends[r] <= sends'[r]
    BY <1>0, <2>1, SentMore
  <2> QED
    BY <1>0, <2>1, <2>2, CountStill
<1>5. CASE Acknowledge \/ Erase
  <2>1. inbox.id \in Ids
    <3>1. \A f \in FrameOf : f.id \in Ids
      BY DEF FrameOf
    <3> QED
      BY <1>0, <3>1 DEF IInv, TypeOK, ThreadTypes
  <2>2. /\ UNCHANGED <<frames, main, sends, timer, cursor>>
        /\ \A i \in Ids : waitAck'[i] = waitAck[i] \/ waitAck'[i] = 0
        /\ \A i \in Ids : retryCount'[i] \in {retryCount[i], Absent}
    BY <1>0, <1>5, <2>1, CountTypes DEF Acknowledge, Erase, resend
  <2>3. \A r \in 1..Request : sends[r] <= sends'[r]
    BY <1>0, <2>2, SentTypes, CountTypes
  <2> QED
    BY <1>0, <2>2, <2>3, CountStill
<1>6. CASE \E i \in Ids : Look(i)
  <2>1. PICK i \in Ids : Look(i)
    BY <1>6
  <2>2. UNCHANGED <<frames, main, sends>> /\ Request' = Request /\ waitAck[i] # 0
        /\ timer = "sleep"
    BY <2>1 DEF Look, Request
  <2>3. CASE GivesUp(i)
    <3>1. /\ waitAck' = [waitAck EXCEPT ![i] = 0]
          /\ retryCount' = [retryCount EXCEPT ![i] = Absent]
          /\ UNCHANGED <<timer, cursor>>
      BY <2>1, <2>3 DEF Look, resend
    <3>2. \A r \in 1..Request : sends[r] <= sends'[r]
      BY <1>0, <2>2, SentTypes, CountTypes
    <3>3. /\ \A j \in Ids : waitAck'[j] = waitAck[j] \/ waitAck'[j] = 0
          /\ \A j \in Ids : retryCount'[j] \in {retryCount[j], Absent}
      BY <1>0, <3>1, CountTypes
    <3> QED
      BY <1>0, <2>2, <3>1, <3>2, <3>3, CountStill
  <2>4. CASE ~GivesUp(i)
    <3>1. /\ retryCount' = [retryCount EXCEPT ![i] = CountAt(i)]
          /\ cursor' = <<i, waitAck[i]>>
          /\ timer' = "send" /\ waitAck' = waitAck
      BY <2>1, <2>4 DEF Look
    <3>2. \A j \in Ids : Fresh(j)' => Fresh(j) /\ j # i
      BY <2>2, <3>1 DEF Counted, Fresh
    <3>3. \A j \in Ids : CountAt(j)' = CountAt(j)
      BY <1>0, <3>1, CountTypes DEF CountAt, Absent
    <3>4. ASSUME NEW j \in Ids, Fresh(j)'
          PROVE  waitAck'[j] = 0 /\ retryCount'[j] = Absent /\ cursor'[1] # j
      BY <1>0, <3>1, <3>2, <3>4, CountTypes DEF Counted
    <3> QED
      BY <1>0, <2>2, <3>1, <3>3, <3>4 DEF Counted
  <2> QED
    BY <2>3, <2>4
<1>7. CASE ResendFrame
  <2> DEFINE c == cursor[1]
             r == cursor[2]
  <2>1. /\ UNCHANGED <<frames, main, waitAck, retryCount>> /\ Request' = Request
        /\ timer = "send" /\ c \in Ids /\ r \in 1..Request
        /\ CountAt(c) < RetryMax /\ CountAt(c) \in 0..RetryMax /\ RetryMax \in Nat
    BY <1>0, <1>7, CountTypes DEF ResendFrame, maps, Request
  <2>2. waitAck[c] # 0 => waitAck[c] = r
    BY <1>0, <2>1, CountTypes DEF OneASecond
  <2>3. CASE SendFrame(r) /\ linkUp /\ timer' = "bump" /\ cursor' = cursor
    <3>1. sends' = [sends EXCEPT ![r] = IF @ < RetryMax THEN @ + 1 ELSE @]
          /\ sends \in [Requests -> 0..RetryMax] /\ r \in Requests
      BY <1>0, <2>1, <2>3, Made DEF SendFrame, IInv, TypeOK, PastTypes, Requests
    <3>2. \A q \in 1..Request : sends[q] <= sends'[q]
      BY <1>0, <2>1, <2>3, SentMore
    <3>3. \A i \in Ids : Fresh(i)' => Fresh(i)
      BY <2>1 DEF Fresh
    <3>4. \A i \in Ids : CountAt(i)' = CountAt(i)
      BY <2>1 DEF CountAt
    <3>5. ASSUME NEW i \in Ids, waitAck'[i] # 0 PROVE CountAt(i)' <= sends'[waitAck'[i]]
      <4>1. CountAt(i) <= sends[waitAck[i]] /\ waitAck[i] \in 1..Request
            /\ CountAt(i) \in 0..RetryMax
        BY <1>0, <2>1, <3>5, CountTypes DEF Counted
      <4>2. sends[waitAck[i]] \in 0..RetryMax /\ sends'[waitAck[i]] \in 0..RetryMax
        BY <1>0, <2>1, <4>1, SentTypes, SentNext
      <4> QED
        BY <2>1, <3>2, <3>4, <4>1, <4>2
    <3>6. waitAck[c] # 0 => CountAt(c) < sends'[waitAck[c]]
      <4>1. waitAck[c] # 0 => CountAt(c) <= sends[r]
        BY <2>1, <2>2 DEF Counted
      <4> QED
        BY <2>1, <2>2, <3>1, <4>1
    <3> QED
      BY <1>0, <2>1, <2>3, <3>3, <3>4, <3>5, <3>6 DEF Counted
  <2>4. CASE timer' = "bump" /\ cursor' = cursor /\ sends' = sends /\ Dangling
    <3>1. waitAck[c] = 0
      BY <2>2, <2>4 DEF Dangling
    <3>2. \A i \in Ids : (Fresh(i)' => Fresh(i)) /\ CountAt(i)' = CountAt(i)
      BY <2>1 DEF Fresh, CountAt
    <3> QED
      BY <1>0, <2>1, <2>4, <3>1, <3>2 DEF Counted
  <2>5. CASE (timer' = "sleep" \/ (timer' = timer /\ cursor' = cursor))
             /\ (SendFrame(r) \/ sends' = sends)
    <3>1. \A q \in 1..Request : sends[q] <= sends'[q]
      BY <1>0, <2>1, <2>5, SentMore, SentTypes, CountTypes
    <3> QED
      BY <1>0, <2>1, <2>5, <3>1, CountStill
  <2> QED
    BY <1>7, <2>3, <2>4, <2>5 DEF ResendFrame, resend
<1>8. CASE Bump
  <2> DEFINE c == cursor[1]
  <2>1. /\ UNCHANGED <<frames, main, waitAck, sends>> /\ Request' = Request
        /\ timer = "bump" /\ c \in Ids
    BY <1>0, <1>8, CountTypes DEF Bump, Request
  <2>2. CASE UNCHANGED <<retryCount, timer, cursor>>
    BY <1>0, <2>1, <2>2 DEF Counted, Fresh, CountAt
  <2>3. CASE retryCount' = [retryCount EXCEPT ![c] = CountAt(c) + 1] /\ timer' = "sleep"
    <3>1. \A i \in Ids : Fresh(i)' => Fresh(i) /\ i # c
      BY <2>1 DEF Fresh, Counted
    <3>2. \A i \in Ids : CountAt(i)' = IF i = c THEN CountAt(i) + 1 ELSE CountAt(i)
      BY <1>0, <2>1, <2>3, CountTypes DEF CountAt, Absent
    <3>3. ASSUME NEW i \in Ids, Fresh(i)' PROVE waitAck'[i] = 0 /\ retryCount'[i] = Absent
      BY <1>0, <2>1, <2>3, <3>1, <3>3, CountTypes DEF Counted
    <3>4. ASSUME NEW i \in Ids, waitAck'[i] # 0 PROVE CountAt(i)' <= sends'[waitAck'[i]]
      <4>1. CASE i # c
        BY <2>1, <3>2, <3>4, <4>1 DEF Counted
      <4>2. CASE i = c
        <5>1. CountAt(c) < sends[waitAck[c]]
          BY <2>1, <3>4, <4>2 DEF Counted
        <5>2. CountAt(c) \in 0..RetryMax /\ sends[waitAck[c]] \in 0..RetryMax /\ RetryMax \in Nat
          BY <1>0, <2>1, <3>4, <4>2, CountTypes
        <5> QED
          BY <2>1, <3>2, <4>2, <5>1, <5>2
      <4> QED
        BY <4>1, <4>2
    <3> QED
      BY <1>0, <2>3, <3>3, <3>4 DEF Counted
  <2> QED
    BY <1>8, <2>2, <2>3 DEF Bump, resend
<1>9. CASE \/ Clear \/ Wait \/ Check \/ Quit \/ Recv \/ ReaderExit \/ LoginResponse \/ Post
           \/ Tick \/ Aging \/ Serve \/ Foreign \/ Disconnect \/ UNCHANGED vars
  <2>1. UNCHANGED <<frames, waitAck, retryCount, sends, timer, cursor>>
        /\ (main' = "register" => main = "register")
    BY <1>9 DEF Clear, Wait, Check, Quit, Recv, ReaderExit, LoginResponse, Post, Tick, Aging, Age,
        Serve, Foreign, Disconnect, vars, maps, resend
  <2>2. \A r \in 1..Request : sends[r] <= sends'[r]
    BY <1>0, <2>1, SentTypes, CountTypes
  <2> QED
    BY <1>0, <2>1, <2>2, CountStill
<1> QED
  BY <1>1, <1>2, <1>3, <1>4, <1>5, <1>6, <1>7, <1>8, <1>9 DEF Next, MainStep, ReaderStep, TimerStep

(* For a user who makes no two requests in a second: a request is reported *)
(* as failed only when it was sent RETRY_MAX times, whatever the receiving *)
(* thread erases while the resending thread is between sending a frame and *)
(* counting it.                                                            *)
THEOREM FailureCorrect == ~Hurried /\ Spec => FailureMeansTried
<1>1. Counted /\ [Next]_vars =>
        [\A i \in Ids : waitAck[i] # 0 /\ waitAck'[i] = 0 /\ waitAck[i] \notin succeeded'
                        => sends[waitAck[i]] >= RetryMax]_vars
  <2> SUFFICES ASSUME Counted, Next, NEW i \in Ids, waitAck[i] # 0, waitAck'[i] = 0,
                      waitAck[i] \notin succeeded'
               PROVE  sends[waitAck[i]] >= RetryMax
    OBVIOUS
  <2>0. IInv
    BY DEF Counted, OneASecond
  <2>1. CASE Register
    BY <2>0, <2>1, Made, CountTypes DEF Register
  <2>2. CASE Acknowledge
    BY <2>0, <2>2, CountTypes DEF Acknowledge, Pending
  <2>3. CASE \E j \in Ids : Look(j)
    <3>1. PICK j \in Ids : Look(j)
      BY <2>3
    <3>2. j = i /\ GivesUp(i)
      BY <2>0, <3>1, CountTypes DEF Look
    <3>3. sends[waitAck[i]] \in 0..RetryMax /\ CountAt(i) \in 0..RetryMax /\ RetryMax \in Nat
      BY <2>0, CountTypes
    <3> QED
      BY <3>2, <3>3 DEF GivesUp, Counted
  <2>4. CASE ~(Register \/ Acknowledge \/ \E j \in Ids : Look(j))
    <3>1. waitAck' = waitAck
      BY <2>4 DEF Next, Command, Choose, Ask, MainStep, Stamp, Transmit, Clear, Wait, Check, Quit,
          ReaderStep, Recv, ReaderExit, Erase, LoginResponse, Post, TimerStep, ResendFrame, Bump,
          Tick, Aging, Age, Serve, Foreign, Disconnect, maps
    <3> QED
      BY <3>1
  <2> QED
    BY <2>1, <2>2, <2>3, <2>4
<1> QED
  BY <1>1, InitCounted, StepCounted, PTL DEF Spec, FailureMeansTried
=============================================================================
