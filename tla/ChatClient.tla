------------------------------- MODULE ChatClient -------------------------------
(***************************************************************************)
(* One chat client (src/src/client/main.cpp): the main thread with its     *)
(* menus, the receiving thread, the thread that resends, and what they     *)
(* share: three unordered_maps without a lock, a semaphore, a flag.  The   *)
(* server is the handlers of chatservice.cpp seen through one connection.  *)
(*                                                                         *)
(* A request is known by its number, its frame by frames[number]; the      *)
(* message id is the second in which it was made, for g_clientId is never  *)
(* set.                                                                    *)
(***************************************************************************)
EXTENDS Integers, Sequences

CONSTANTS Accounts, NoUser,
          Kinds,         \* the kinds of request the user makes
          RetryMax,      \* RETRY_MAX of public.hpp
          MaxBatch,      \* frames one recv may return together
          MayDisconnect, \* TRUE: the connection may break
          MayQuit,       \* TRUE: the user may quit
          Hurried,       \* TRUE: the user may make two requests in a second
          MaxSecond,     \* bound: seconds told apart, the last one for all later
          MaxRequests,   \* bound: requests the user makes
          MaxForeign     \* bound: chat messages that others send

\* "command" stands for chat, groupchat and addfriend, "group" for
\* creategroup and addgroup, whose handlers reply before they acknowledge.
AllKinds == {"login", "reg", "command", "group", "logout"}

ASSUME ClientAssumption ==
    /\ Kinds \subseteq AllKinds
    /\ NoUser \notin Accounts
    /\ {MayDisconnect, MayQuit, Hurried} \subseteq BOOLEAN
    /\ MaxBatch \in Nat \ {0}
    /\ {RetryMax, MaxRequests, MaxForeign} \subseteq Nat /\ MaxSecond \in Nat \ {0}

VARIABLES
    second,     \* time(nullptr)
    frames,     \* the requests made
    \* g_waitAckMsgMap, g_retryCountMap, g_sendTimeMap, by message id
    waitAck,    \* the request, or 0 for no entry
    retryCount, \* or Absent
    sendTime,   \* "recent" or "old" against TIMEOUT_MS, or "none"
    \* what main and the receiving thread share besides
    flag,       \* g_isLoginSuccess
    rwsem,
    current,    \* g_currentUser
    \* the threads
    main,       \* where the main thread is
    reader,     \* where the receiving thread is
    inbox,      \* the frame it deals with
    timer,      \* where the resending thread is
    cursor,     \* the entry it is at: its id and the request it found there
    alive,      \* the process runs
    \* the connection and the server
    linkUp, toServer, toClient,
    sessions,   \* the accounts logged in on the connection
    \* history and bounds
    sends,      \* times a request was sent, up to RetryMax
    handled,    \* requests the server has handled
    succeeded,  \* requests reported as sent successfully
    replied,    \* login requests with the replies the receiving thread announced
    foreign     \* chat messages of others so far

maps   == <<waitAck, retryCount, sendTime>>
shared == <<flag, rwsem, current>>
reads  == <<reader, inbox>>
resend == <<timer, cursor>>
net    == <<linkUp, toServer, toClient, sessions>>
past   == <<handled, succeeded, replied, foreign>>
vars   == <<second, frames, maps, shared, main, reads, resend, alive, net, sends, past>>

Ids == 0..(MaxSecond - 1)
Absent == -1
Requests == 1..MaxRequests
Request == Len(frames)        \* the one the main thread is busy with
Asked == frames[Request]

Frame(type, id, ok, account, req) ==
    [type |-> type, id |-> id, ok |-> ok, account |-> account, req |-> req]

NoFrame == Frame("none", 0, FALSE, NoUser, 0)
NoEntry == <<0, 0>>

\* The types readTaskHandler takes for an acknowledgement.
AckTypes == {"login_ack", "reg_ack", "chat", "ack"}

Init ==
    /\ second = 0 /\ frames = <<>>
    /\ waitAck = [i \in Ids |-> 0]
    /\ retryCount = [i \in Ids |-> Absent]
    /\ sendTime = [i \in Ids |-> "none"]
    /\ flag = FALSE /\ rwsem = 0 /\ current = NoUser
    /\ main = "choose" /\ reader = "recv" /\ timer = "sleep"
    /\ inbox = NoFrame
    /\ cursor = NoEntry
    /\ alive = TRUE
    /\ linkUp = TRUE /\ toServer = <<>> /\ toClient = <<>> /\ sessions = {}
    /\ sends = [r \in Requests |-> 0]
    /\ handled = {} /\ succeeded = {}
    /\ replied = {}
    /\ foreign = 0

-----------------------------------------------------------------------------
(* The main thread.                                                        *)

\* generateUniqueMsgId.
NewId == second

\* The user makes a request.
Ask(kind, account) ==
    /\ alive
    /\ Request < MaxRequests /\ second < MaxSecond
    /\ Hurried \/ \A r \in 1..Request : frames[r].id # NewId
    /\ frames' = Append(frames, [kind |-> kind, id |-> NewId, account |-> account])
    /\ main' = "register"
    /\ UNCHANGED <<second, maps, shared, reads, resend, alive, net, sends, past>>

\* 1 and 2 in the first menu.
Choose(account) ==
    /\ main = "choose"
    /\ \E kind \in Kinds \cap {"login", "reg"} : Ask(kind, account)

\* A command in mainMenu.
Command ==
    /\ main = "menu"
    /\ \E kind \in Kinds \cap {"command", "group", "logout"} : Ask(kind, current)

\* encryptedMessage: g_waitAckMsgMap, then the other two maps, then send.
Register ==
    /\ alive /\ main = "register"
    /\ waitAck' = [waitAck EXCEPT ![Asked.id] = Request]
    /\ main' = "stamp"
    /\ UNCHANGED <<second, frames, retryCount, sendTime, shared, reads, resend, alive, net, sends, past>>

Stamp ==
    /\ alive /\ main = "stamp"
    /\ retryCount' = [retryCount EXCEPT ![Asked.id] = 0]
    /\ sendTime' = [sendTime EXCEPT ![Asked.id] = "recent"]
    /\ main' = "transmit"
    /\ UNCHANGED <<second, frames, waitAck, shared, reads, resend, alive, net, sends, past>>

\* send() of request r; on a broken connection it fails.
SendFrame(r) ==
    IF linkUp THEN /\ toServer' = Append(toServer, r)
                   /\ sends' = [sends EXCEPT ![r] = IF @ < RetryMax THEN @ + 1 ELSE @]
              ELSE UNCHANGED <<toServer, sends>>

\* logout leaves mainMenu when its frame is sent; login goes on to the
\* semaphore, sent or not.
Transmit ==
    /\ alive /\ main = "transmit"
    /\ SendFrame(Request)
    /\ main' = CASE Asked.kind = "login" -> "clear"
                 [] Asked.kind = "reg" -> "choose"
                 [] Asked.kind = "logout" /\ linkUp -> "choose"
                 [] OTHER -> "menu"
    /\ UNCHANGED <<second, frames, maps, shared, reads, resend, alive, linkUp, toClient, sessions, past>>

\* g_isLoginSuccess = false, when the request is on its way.
Clear ==
    /\ alive /\ main = "clear"
    /\ flag' = FALSE
    /\ main' = "wait"
    /\ UNCHANGED <<second, frames, maps, rwsem, current, reads, resend, alive, net, sends, past>>

Wait ==
    /\ alive /\ main = "wait" /\ rwsem > 0
    /\ rwsem' = rwsem - 1
    /\ main' = "check"
    /\ UNCHANGED <<second, frames, maps, flag, current, reads, resend, alive, net, sends, past>>

Check ==
    /\ alive /\ main = "check"
    /\ main' = IF flag THEN "menu" ELSE "choose"
    /\ UNCHANGED <<second, frames, maps, shared, reads, resend, alive, net, sends, past>>

\* exit(0) in the first menu.
Quit ==
    /\ MayQuit /\ alive /\ main = "choose"
    /\ alive' = FALSE
    /\ UNCHANGED <<second, frames, maps, shared, main, reads, resend, net, sends, past>>

MainStep == Register \/ Stamp \/ Transmit \/ Clear \/ Wait \/ Check

-----------------------------------------------------------------------------
(* The receiving thread.                                                   *)

\* recv fills the buffer with what has arrived; the first frame is dealt
\* with, the others are dropped with the buffer.
Recv ==
    /\ alive /\ reader = "recv" /\ toClient # <<>>
    /\ \E n \in 1..MaxBatch :
          /\ n <= Len(toClient)
          /\ toClient' = SubSeq(toClient, n + 1, Len(toClient))
    /\ IF Head(toClient).type \in AckTypes
       THEN inbox' = Head(toClient) /\ reader' = "ack"
       ELSE UNCHANGED reads
    /\ UNCHANGED <<second, frames, maps, shared, main, resend, alive, linkUp, toServer, sessions, sends, past>>

\* Mutant of ReaderExit: the thread goes on reading.
ReaderExit_Ignored ==
    /\ alive /\ reader = "recv" /\ toClient = <<>> /\ ~linkUp
    /\ UNCHANGED vars

\* recv returns 0 or -1.
ReaderExit ==
    /\ alive /\ reader = "recv" /\ toClient = <<>> /\ ~linkUp
    /\ alive' = FALSE
    /\ UNCHANGED <<second, frames, maps, shared, main, reads, resend, net, sends, past>>

\* What follows onReceiveAck.
Dispatch ==
    CASE inbox.type = "login_ack" -> reader' = "login" /\ UNCHANGED inbox
      [] inbox.type = "reg_ack" -> reader' = "post" /\ UNCHANGED inbox
      [] OTHER -> reader' = "recv" /\ inbox' = NoFrame

\* Mutant of Pending: whatever the id, the latest request.
Pending_Latest == IF frames = <<>> THEN 0 ELSE waitAck[Asked.id]

\* What g_waitAckMsgMap has for the id of the frame.
Pending == waitAck[inbox.id]

\* onReceiveAck: the entry in g_waitAckMsgMap goes first, then the others.
Acknowledge ==
    /\ alive /\ reader = "ack"
    /\ IF Pending # 0
       THEN /\ waitAck' = [waitAck EXCEPT ![inbox.id] = 0]
            /\ succeeded' = succeeded \cup {Pending}
            /\ reader' = "erase" /\ UNCHANGED inbox
       ELSE Dispatch /\ UNCHANGED <<waitAck, succeeded>>
    /\ UNCHANGED <<second, frames, retryCount, sendTime, shared, main, resend, alive, net, sends, handled, replied, foreign>>

Erase ==
    /\ alive /\ reader = "erase"
    /\ retryCount' = [retryCount EXCEPT ![inbox.id] = Absent]
    /\ sendTime' = [sendTime EXCEPT ![inbox.id] = "none"]
    /\ Dispatch
    /\ UNCHANGED <<second, frames, waitAck, shared, main, resend, alive, net, sends, past>>

\* Mutant of LoginResponse: a refusal counts as a login.
LoginResponse_Any ==
    /\ alive /\ reader = "login"
    /\ flag' = TRUE
    /\ current' = IF inbox.ok THEN inbox.account ELSE current
    /\ replied' = replied \cup {<<inbox.req, inbox.ok>>}
    /\ reader' = "post"
    /\ UNCHANGED <<second, frames, maps, rwsem, main, inbox, resend, alive, net, sends, handled, succeeded, foreign>>

\* doLoginResponse.
LoginResponse ==
    /\ alive /\ reader = "login"
    /\ flag' = inbox.ok
    /\ current' = IF inbox.ok THEN inbox.account ELSE current
    /\ replied' = replied \cup {<<inbox.req, inbox.ok>>}
    /\ reader' = "post"
    /\ UNCHANGED <<second, frames, maps, rwsem, main, inbox, resend, alive, net, sends, handled, succeeded, foreign>>

\* Mutant of Post: only a success wakes the main thread.
Post_OnSuccess ==
    /\ alive /\ reader = "post"
    /\ rwsem' = IF inbox.ok THEN rwsem + 1 ELSE rwsem
    /\ reader' = "recv" /\ inbox' = NoFrame
    /\ UNCHANGED <<second, frames, maps, flag, current, main, resend, alive, net, sends, past>>

\* sem_post.
Post ==
    /\ alive /\ reader = "post"
    /\ rwsem' = rwsem + 1
    /\ reader' = "recv" /\ inbox' = NoFrame
    /\ UNCHANGED <<second, frames, maps, flag, current, main, resend, alive, net, sends, past>>

ReaderStep == \/ Recv \/ ReaderExit \/ Acknowledge \/ Erase
              \/ LoginResponse \/ Post

-----------------------------------------------------------------------------
(* checkTimeOutAndResend, every 200 ms, on an entry of g_waitAckMsgMap.    *)

\* operator[] makes the entry it does not find.
CountAt(i) == IF retryCount[i] = Absent THEN 0 ELSE retryCount[i]
TimeAt(i) == IF sendTime[i] = "none" THEN "old" ELSE sendTime[i]

\* Mutants of GivesUp: one resend more, one less.
GivesUp_Late(i) == CountAt(i) > RetryMax
GivesUp_Early(i) == CountAt(i) + 1 >= RetryMax

GivesUp(i) == CountAt(i) >= RetryMax

Look(i) ==
    /\ alive /\ timer = "sleep" /\ waitAck[i] # 0 /\ TimeAt(i) = "old"
    /\ IF GivesUp(i)
       THEN /\ waitAck' = [waitAck EXCEPT ![i] = 0]
            /\ retryCount' = [retryCount EXCEPT ![i] = Absent]
            /\ sendTime' = [sendTime EXCEPT ![i] = "none"]
            /\ UNCHANGED resend
       ELSE /\ retryCount' = [retryCount EXCEPT ![i] = CountAt(i)]
            /\ sendTime' = [sendTime EXCEPT ![i] = "old"]
            /\ cursor' = <<i, waitAck[i]>>
            /\ timer' = "send"
            /\ UNCHANGED waitAck
    /\ UNCHANGED <<second, frames, shared, main, reads, alive, net, sends, past>>

\* Another thread has erased or replaced the entry under the iterator.
Dangling == waitAck[cursor[1]] # cursor[2]

\* send() of the data the entry held, without MSG_NOSIGNAL: on a broken
\* connection it fails, and is not counted, or SIGPIPE ends the process.  If
\* the entry is gone, its memory may still hold the frame, or rubbish that
\* makes the server close the connection, or the process dies.
ResendFrame ==
    /\ alive /\ timer = "send"
    /\ \/ /\ SendFrame(cursor[2])
          /\ IF linkUp THEN timer' = "bump" /\ UNCHANGED cursor
                       ELSE timer' = "sleep" /\ cursor' = NoEntry
          /\ UNCHANGED <<alive, linkUp>>
       \/ /\ Dangling /\ linkUp
          /\ linkUp' = FALSE
          /\ timer' = "bump"
          /\ UNCHANGED <<alive, cursor, toServer, sends>>
       \/ /\ Dangling \/ ~linkUp
          /\ alive' = FALSE
          /\ UNCHANGED <<linkUp, resend, toServer, sends>>
    /\ UNCHANGED <<second, frames, maps, shared, main, reads, toClient, sessions, past>>

\* The count and the time, again by operator[], and the next entry.
Bump ==
    /\ alive /\ timer = "bump"
    /\ \/ /\ retryCount' = [retryCount EXCEPT ![cursor[1]] = CountAt(cursor[1]) + 1]
          /\ sendTime' = [sendTime EXCEPT ![cursor[1]] = "recent"]
          /\ timer' = "sleep" /\ cursor' = NoEntry
          /\ UNCHANGED alive
       \/ /\ Dangling
          /\ alive' = FALSE
          /\ UNCHANGED <<retryCount, sendTime, resend>>
    /\ UNCHANGED <<second, frames, waitAck, shared, main, reads, net, sends, past>>

TimerStep == (\E i \in Ids : Look(i)) \/ ResendFrame \/ Bump

-----------------------------------------------------------------------------
(* Time.                                                                   *)

Tick ==
    /\ second < MaxSecond
    /\ second' = second + 1
    /\ UNCHANGED <<frames, maps, shared, main, reads, resend, alive, net, sends, past>>

\* More than TIMEOUT_MS have passed since the entry was last sent.
Age(i) ==
    /\ sendTime[i] = "recent"
    /\ second >= i + 2 \/ second = MaxSecond
    /\ sendTime' = [sendTime EXCEPT ![i] = "old"]
    /\ UNCHANGED <<second, frames, waitAck, retryCount, shared, main, reads, resend, alive, net, sends, past>>

Aging == \E i \in Ids : Age(i)

-----------------------------------------------------------------------------
(* The server, as one connection sees it.                                  *)

Reply(r, type, ok) == Frame(type, frames[r].id, ok, frames[r].account, r)
Ack(r) == Reply(r, "ack", TRUE)
Outcome(answer, next) == [answer |-> answer, sessions |-> next]

\* What the handler of request r may send back, and the sessions it leaves.
\* login: accepted, or refused (online already, wrong password).
LoginOutcomes(r) ==
    {Outcome(<<Reply(r, "login_ack", TRUE), Ack(r)>>, sessions \cup {frames[r].account}),
     Outcome(<<Reply(r, "login_ack", FALSE), Ack(r)>>, sessions)}

\* reg: a failure returns the request itself instead of the response.
RegOutcomes(r) ==
    {Outcome(<<Reply(r, type, TRUE), Ack(r)>>, sessions) : type \in {"reg_ack", "reg"}}

\* addFriend, oneChat and groupChat: an ACK; none if oneChat publishes.
CommandOutcomes(r) == {Outcome(<<Ack(r)>>, sessions), Outcome(<<>>, sessions)}

\* createGroup and addGroup: a response, then the ACK.
GroupOutcomes(r) == {Outcome(<<Reply(r, "group_ack", TRUE), Ack(r)>>, sessions)}

LogoutOutcomes(r) == {Outcome(<<Ack(r)>>, sessions \ {frames[r].account})}

Outcomes(r) == CASE frames[r].kind = "login" -> LoginOutcomes(r)
                 [] frames[r].kind = "reg" -> RegOutcomes(r)
                 [] frames[r].kind = "command" -> CommandOutcomes(r)
                 [] frames[r].kind = "group" -> GroupOutcomes(r)
                 [] frames[r].kind = "logout" -> LogoutOutcomes(r)

Serve ==
    /\ linkUp /\ toServer # <<>>
    /\ \E o \in Outcomes(Head(toServer)) :
          /\ toClient' = toClient \o o.answer
          /\ sessions' = o.sessions
    /\ handled' = handled \cup {Head(toServer)}
    /\ toServer' = Tail(toServer)
    /\ UNCHANGED <<second, frames, maps, shared, main, reads, resend, alive, linkUp, sends, succeeded, replied, foreign>>

\* A chat of another client arrives, with the message id that client gave it.
Foreign ==
    /\ linkUp /\ foreign < MaxForeign
    /\ \E a \in sessions, i \in {j \in Ids : j <= second} :
          toClient' = Append(toClient, Frame("chat", i, TRUE, a, 0))
    /\ foreign' = foreign + 1
    /\ UNCHANGED <<second, frames, maps, shared, main, reads, resend, alive, linkUp, toServer, sessions, sends, handled, succeeded, replied>>

Disconnect ==
    /\ MayDisconnect /\ linkUp
    /\ linkUp' = FALSE
    /\ UNCHANGED <<second, frames, maps, shared, main, reads, resend, alive, toServer, toClient, sessions, sends, past>>

-----------------------------------------------------------------------------
Next == \/ (\E a \in Accounts : Choose(a)) \/ Command
        \/ MainStep \/ Quit \/ ReaderStep \/ TimerStep
        \/ Tick \/ Aging
        \/ Serve \/ Foreign \/ Disconnect

Spec == Init /\ [][Next]_vars

(***************************************************************************)
(* The three threads run, time passes, the server answers what it gets.    *)
(* Nothing is assumed of the user, of other clients or of the connection.  *)
(***************************************************************************)
FairSpec == /\ Spec
            /\ WF_vars(MainStep) /\ WF_vars(ReaderStep)
            /\ WF_vars(TimerStep) /\ WF_vars(Tick) /\ WF_vars(Aging)
            /\ WF_vars(Serve)

-----------------------------------------------------------------------------
(* Properties.                                                             *)

FrameOf == [type : AckTypes \cup {"none", "reg", "group_ack"}, id : Ids, ok : BOOLEAN,
            account : Accounts \cup {NoUser}, req : 0..MaxRequests]

MadeTypes ==
    /\ second \in 0..MaxSecond
    /\ frames \in Seq([kind : Kinds, id : Ids, account : Accounts \cup {NoUser}])
    /\ Request <= MaxRequests
MapTypes ==
    /\ waitAck \in [Ids -> 0..MaxRequests]
    /\ retryCount \in [Ids -> {Absent} \cup 0..RetryMax]
    /\ sendTime \in [Ids -> {"none", "recent", "old"}]
SharedTypes ==
    /\ flag \in BOOLEAN /\ rwsem \in Nat /\ current \in Accounts \cup {NoUser}
ThreadTypes ==
    /\ main \in {"choose", "menu", "register", "stamp", "transmit", "clear", "wait", "check"}
    /\ reader \in {"recv", "ack", "erase", "login", "post"}
    /\ inbox \in FrameOf
    /\ timer \in {"sleep", "send", "bump"} /\ cursor \in Ids \X (0..MaxRequests)
    /\ alive \in BOOLEAN
NetTypes ==
    /\ linkUp \in BOOLEAN
    /\ toServer \in Seq(Requests) /\ toClient \in Seq(FrameOf)
    /\ sessions \subseteq Accounts
PastTypes ==
    /\ sends \in [Requests -> 0..RetryMax]
    /\ handled \subseteq Requests /\ succeeded \subseteq Requests
    /\ replied \subseteq Requests \X BOOLEAN
    /\ foreign \in 0..MaxForeign

\* Every variable has its type; with that of retryCount, no entry is ever
\* resent more than RETRY_MAX times by checkTimeOutAndResend's own count.
TypeOK == /\ MadeTypes /\ MapTypes /\ SharedTypes /\ ThreadTypes /\ NetTypes /\ PastTypes

\* A request onReceiveAck reports as sent (client/main.cpp:786) was handled
\* by the server: the id of an acknowledgement is that of its request.
SuccessMeansHandled == succeeded \subseteq handled

\* A request is reported as failed (client/main.cpp:757) only when the
\* thread has sent it RETRY_MAX times: giving up is never premature.
FailureMeansTried ==
    [][\A i \in Ids : waitAck[i] # 0 /\ waitAck'[i] = 0 /\ waitAck[i] \notin succeeded'
                      => sends[waitAck[i]] >= RetryMax]_vars

\* In the menu the user is one whose login a reply accepted, however late
\* or duplicated the replies are (client/main.cpp:177-183, 236-328).
MenuMeansAccepted ==
    main = "menu" => \E r \in 1..Request : /\ <<r, TRUE>> \in replied
                                          /\ frames[r].account = current

\* A request in g_waitAckMsgMap leaves it, acknowledged or given up
\* (client/main.cpp:743-788), or the process ends.
Settles == \A i \in Ids : waitAck[i] # 0 ~> (waitAck[i] = 0 \/ ~alive)

\* The wait for the login response ends (client/main.cpp:177).
LoginReturns == main = "wait" ~> (main # "wait" \/ ~alive)
=============================================================================
