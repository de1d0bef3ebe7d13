--------------------------------- MODULE Wire ---------------------------------
(***************************************************************************)
(* Frames on the TCP connection between one client and the server: how     *)
(* the client writes them (encryptedMessage and checkTimeOutAndResend, in  *)
(* src/src/client/main.cpp), what ChatServer::onMessage makes of what one  *)
(* read finds (chatserver.cpp, encrypt.cpp), and what readTaskHandler and  *)
(* the chat history make of what one recv returns.                         *)
(*                                                                         *)
(* TCP keeps the order of bytes and nothing else: a read finds any prefix  *)
(* of what is under way.  The unit is half an AES block, 8 bytes.  A frame *)
(* is a header of two units, an IV of two and a ciphertext of two per      *)
(* block.  What the two programs do with a request besides answering it is *)
(* the business of ChatService, Accounts and ChatClient.                   *)
(***************************************************************************)
EXTENDS Integers, Sequences, FiniteSets

CONSTANTS Request,     \* the frames the client sends
          Chat,        \* the frames the server sends on for other clients
          Blocks,      \* how many cipher blocks a request or chat has
          Answers,     \* for a request, the blocks of each frame sent back
          Main,        \* the requests the main thread writes, in order
          Timer,       \* the ones the resending thread writes, in order
          RecvMax,     \* units recv takes at most, 4096 bytes in the code
          MaxShort,    \* bound: writes that take only a part of a frame
          MaxFaults    \* bound: encryptions and history inserts that fail

Threads == {"main", "timer"}

(***************************************************************************)
(* A unit knows its frame, its place in it and the frame's length, which   *)
(* is msgLength of the header.                                             *)
(***************************************************************************)
Frame(f, blocks) == [i \in 1..(4 + 2 * blocks) |-> [of |-> f, at |-> i, size |-> 4 + 2 * blocks]]

Answer(f, k) == [to |-> f, nth |-> k]

AnswerFrames(f) == {Answer(f, k) : k \in DOMAIN Answers[f]}

ASSUME WireAssumption ==
    /\ \A f \in Request \cup Chat : Blocks[f] \in Nat \ {0}
    /\ \A f \in Request : Answers[f] \in Seq(Nat \ {0})
    /\ Main \in Seq(Request) /\ Timer \in Seq(Request)
    /\ RecvMax \in Nat \ {0}

VARIABLES todo,    \* per client thread: the requests it has still to write
          writing, \* per client thread: what is left of the frame it writes
          up,      \* from client to server: written, not yet read
          conn,    \* the server's TcpConnection: connected, shutdown called, gone
          server,  \* the server process
          down,    \* from server to client
          client,  \* the client process
          table,   \* sqliteInit has made the table
          sent,    \* history: requests whose payload is on its way, in order
          handled, \* history: requests given to a handler, in order
          posted,  \* history: frames the server sent, in order
          seen,    \* history: frames the client processed, in order
          dropped, \* history: frames that arrived behind another in one recv
          chats,   \* the table chathistory
          reads,   \* history: what the reads of the server found
          recvs,   \* history: what the recvs of the client found
          shorts, faults

clientVars == <<todo, writing, sent, shorts>>

serverVars == <<conn, server, handled, posted, reads>>

readerVars == <<client, table, seen, dropped, chats, recvs>>

wireVars == <<clientVars, serverVars, readerVars, up, down, faults>>

Init ==
    /\ todo = [t \in Threads |-> IF t = "main" THEN Main ELSE Timer]
    /\ writing = [t \in Threads |-> <<>>]
    /\ up = <<>> /\ down = <<>>
    /\ conn = "connected" /\ server = "up" /\ client = "up"
    /\ table \in BOOLEAN
    /\ sent = <<>> /\ handled = <<>> /\ posted = <<>> /\ seen = <<>>
    /\ dropped = {}
    /\ chats = <<>> /\ reads = {} /\ recvs = {}
    /\ shorts = 0 /\ faults = 0

Fault == faults < MaxFaults /\ faults' = faults + 1

From(s, n) == SubSeq(s, n + 1, Len(s))

-----------------------------------------------------------------------------
(* The client writes.                                                      *)

\* encryptedMessage up to the loop.  The resending thread has the bytes.
Begin(t) ==
    /\ client = "up" /\ writing[t] = <<>> /\ todo[t] # <<>>
    /\ todo' = [todo EXCEPT ![t] = Tail(@)]
    /\ LET f == Head(todo[t])
       IN  \/ /\ writing' = [writing EXCEPT ![t] = Frame(f, Blocks[f])]
              /\ UNCHANGED faults
           \/ t = "main" /\ Fault /\ UNCHANGED writing
    /\ UNCHANGED <<sent, shorts, serverVars, readerVars, up, down>>

\* What is left after send() took n units: encryptedMessage goes on with it,
\* checkTimeOutAndResend only looks whether send() failed.
Rest(t, n) == IF t = "main" THEN From(writing[t], n) ELSE <<>>

\* One send().  It takes everything, or less when it is interrupted.
Write(t, n) ==
    /\ client = "up" /\ conn # "gone"
    /\ n \in 1..Len(writing[t])
    /\ n = Len(writing[t]) \/ shorts < MaxShort
    /\ shorts' = IF n = Len(writing[t]) THEN shorts ELSE shorts + 1
    /\ up' = up \o SubSeq(writing[t], 1, n)
    /\ writing' = [writing EXCEPT ![t] = Rest(t, n)]
    /\ sent' = IF \E i \in 1..n : writing[t][i].at = 3
               THEN Append(sent, writing[t][1].of) ELSE sent
    /\ UNCHANGED <<todo, serverVars, readerVars, down, faults>>

\* send() on a connection that is gone returns -1, which ends the attempt.
\* checkTimeOutAndResend does not ask for MSG_NOSIGNAL, and SIGPIPE ends it.
WriteFails(t) ==
    /\ client = "up" /\ conn = "gone" /\ writing[t] # <<>>
    /\ writing' = [writing EXCEPT ![t] = <<>>]
    /\ client' \in IF t = "timer" THEN {"up", "ended"} ELSE {"up"}
    /\ UNCHANGED <<todo, sent, shorts, table, seen, dropped, chats, recvs, serverVars, up, down, faults>>

-----------------------------------------------------------------------------
(* aes256CBCDecrypt, on units.                                             *)

\* Two units that were written one after the other.
Follows(u, v) == v.of = u.of /\ v.at = u.at + 1

\* s is what was written, without a gap or a foreign byte.
Unbroken(s) == \A i \in 2..Len(s) : Follows(s[i - 1], s[i])

\* The last block and the one before it, or the IV, which decrypts it.
Tail4(s) == SubSeq(s, Len(s) - 3, Len(s))

\* Mutant of Decrypt: a single cipher block is refused.
Decrypt_OneBlock(s) ==
    IF Len(s) <= 4 THEN {"throws"} ELSE IF Unbroken(s) THEN {"text"} ELSE {"noise"}

(***************************************************************************)
(* A payload of at most an IV, and a ciphertext that does not consist of   *)
(* whole blocks, throw.  So does wrong padding: a block from the middle of *)
(* a frame decrypts to text of the request, whose characters are greater   *)
(* than 16.  A block cut out of two, an IV, or a block behind one that is  *)
(* not its predecessor decrypts to noise that ends in padding or not.      *)
(* Correct padding says nothing of the blocks before: the plain text is    *)
(* that of the request only when the payload is.                           *)
(***************************************************************************)
Decrypt(s) ==
    IF Len(s) <= 2 \/ Len(s) % 2 = 1 THEN {"throws"}
    ELSE LET end == s[Len(s)]
         IN  IF ~Unbroken(Tail4(s)) \/ end.at % 2 = 1 \/ end.at <= 4 THEN {"throws", "noise"}
             ELSE IF end.at # end.size THEN {"throws"}
             ELSE IF s[1].at = 3 /\ Unbroken(s) THEN {"text"}
             ELSE {"noise"}

-----------------------------------------------------------------------------
(* ChatServer::onMessage on what one read found.                           *)

\* isEncrypted, the end of a header, which every frame has set.  In other
\* bytes it is anything.
IsEncrypted(s) == IF s[2].at = 2 THEN {TRUE} ELSE BOOLEAN

(***************************************************************************)
(* Less than a header: shutdown.  The decryption is outside every try      *)
(* block, so that what it throws passes through the event loop and ends    *)
(* the process.  Text that is no JSON is caught: shutdown.                 *)
(***************************************************************************)
Verdict(s) ==
    IF Len(s) < 2 THEN {"shutdown"}
    ELSE UNION {IF encrypted
                THEN {CASE d = "text" -> "handle" [] d = "noise" -> "shutdown"
                        [] d = "throws" -> "abort" : d \in Decrypt(From(s, 2))}
                ELSE {"shutdown"} : encrypted \in IsEncrypted(s)}

\* What a read found, for the properties.
Kind(s) ==
    IF \/ s[1].at # 1 \/ s[Len(s)].at # s[Len(s)].size
       \/ \E i \in 2..Len(s) : ~Follows(s[i - 1], s[i])
                               /\ ~(s[i - 1].at = s[i - 1].size /\ s[i].at = 1)
    THEN "torn"
    ELSE IF Unbroken(s) THEN "frame" ELSE "frames"

\* The bytes of the frames behind the bytes d.
Behind(d, frames) ==
    LET bytes[k \in 0..Len(frames)] == IF k = 0 THEN d ELSE bytes[k - 1] \o frames[k]
    IN  bytes[Len(frames)]

\* TcpConnection::send of the answers to f, each a frame that encrypts or
\* is an empty string; after shutdown() muduo drops what is sent.
Answered(f, ks) ==
    IF conn # "connected" THEN UNCHANGED <<down, posted>>
    ELSE /\ down' = Behind(down, [k \in 1..Len(ks) |-> Frame(Answer(f, ks[k]), Answers[f][ks[k]])])
         /\ posted' = posted \o [k \in 1..Len(ks) |-> Answer(f, ks[k])]

AllAnswers(f) == [k \in 1..Len(Answers[f]) |-> k]

\* The handler ran; one encryption may have failed.
Reply(f) ==
    \/ Answered(f, AllAnswers(f)) /\ UNCHANGED faults
    \/ /\ Fault
       /\ \E k \in DOMAIN Answers[f] :
              Answered(f, SubSeq(AllAnswers(f), 1, k - 1) \o From(AllAnswers(f), k))

\* Mutant of Taken: the buffer is looked at and not emptied.
Taken_Peeked(n) == up

\* buffer->retrieveAllAsString()
Taken(n) == From(up, n)

\* Mutant of ShutDown: return without conn->shutdown().
ShutDown_Silent == UNCHANGED conn

\* conn->shutdown(): nothing more is sent, what comes is still read.
ShutDown == conn' = "shut"

OnMessage(n) ==
    /\ server = "up" /\ conn # "gone" /\ n \in 1..Len(up)
    /\ LET s == SubSeq(up, 1, n)
       IN  /\ reads' = reads \cup {Kind(s)}
           /\ \E verdict \in Verdict(s) :
                \/ /\ verdict = "handle"
                   /\ handled' = Append(handled, s[3].of)
                   /\ Reply(s[3].of)
                   /\ UNCHANGED <<conn, server>>
                \/ /\ verdict = "shutdown"
                   /\ ShutDown
                   /\ UNCHANGED <<server, handled, posted, down, faults>>
                \/ /\ verdict = "abort"
                   /\ server' = "aborted" /\ conn' = "gone"
                   /\ UNCHANGED <<handled, posted, down, faults>>
    /\ up' = Taken(n)
    /\ UNCHANGED <<clientVars, readerVars>>

\* A message of another client is sent on this connection.
Forward(c) ==
    /\ conn = "connected" /\ \A i \in DOMAIN posted : posted[i] # c
    /\ down' = down \o Frame(c, Blocks[c])
    /\ posted' = Append(posted, c)
    /\ UNCHANGED <<clientVars, readerVars, conn, server, handled, reads, up, faults>>

\* read() returns 0 when the client has closed; what it left may be lost.
OnClose ==
    /\ client = "ended" /\ conn # "gone"
    /\ conn' = "gone" /\ up' = <<>>
    /\ UNCHANGED <<clientVars, readerVars, server, handled, posted, reads, down, faults>>

-----------------------------------------------------------------------------
(* readTaskHandler on what one recv returned.                              *)

\* close(clientfd) and exit(-1), or an exception nobody catches.
End == client' = "ended" /\ UNCHANGED <<table, seen, dropped, chats>>

\* What a recv of n units finds, for the properties.
Found(n) ==
    IF down[1].at # 1 THEN "middle" ELSE IF down[n].at = down[n].size THEN "whole" ELSE "part"

\* Mutant of RecvBroken: the thread goes on with its loop.
RecvBroken_Continues(n) ==
    /\ n < 2 \/ down[1].at # 1 \/ n < down[1].size
    /\ UNCHANGED <<client, table, seen, dropped, chats>>

\* Mutant of RecvBroken: the length must be msgLength.
RecvBroken_Exact(n) ==
    /\ n < 2 \/ down[1].at # 1 \/ n # down[1].size
    /\ End

\* Less than a header, less than msgLength, or bytes that are no header.
RecvBroken(n) ==
    /\ n < 2 \/ down[1].at # 1 \/ n < down[1].size
    /\ End

\* clientInsertChat; nobody looks at its result.
Insert(f) ==
    \/ chats' = (IF table THEN Append(chats, f) ELSE chats) /\ UNCHANGED faults
    \/ table /\ Fault /\ UNCHANGED chats

\* Mutant of Keeps: the history is written before the type is looked at.
Keeps_All(f) == TRUE

\* ONE_CHAT_MSG and GROUP_CHAT_MSG.
Keeps(f) == f \in Chat

\* A whole frame: it is processed, what is behind it in the buffer is gone.
RecvFrame(n) ==
    /\ n >= 2 /\ down[1].at = 1 /\ n >= down[1].size
    /\ LET s == SubSeq(down, 1, n)
       IN  /\ seen' = Append(seen, s[1].of)
           /\ dropped' = dropped \cup ({s[i].of : i \in 1..n} \ {s[1].of})
           /\ IF Keeps(s[1].of) THEN Insert(s[1].of) ELSE UNCHANGED <<chats, faults>>
    /\ UNCHANGED <<client, table>>

Recv(n) ==
    /\ client = "up" /\ n <= RecvMax /\ n \in 1..Len(down)
    /\ \/ RecvFrame(n)
       \/ RecvBroken(n) /\ UNCHANGED faults
    /\ down' = From(down, n)
    /\ recvs' = recvs \cup {Found(n)}
    /\ UNCHANGED <<clientVars, serverVars, up>>

\* recv returns 0 or -1 when the server has shut down or is gone.
RecvEnd ==
    /\ client = "up" /\ conn # "connected" /\ down = <<>>
    /\ End
    /\ UNCHANGED <<recvs, clientVars, serverVars, up, down, faults>>

Next ==
    \/ \E t \in Threads : Begin(t) \/ WriteFails(t) \/ \E n \in 1..Len(writing[t]) : Write(t, n)
    \/ \E n \in 1..Len(up) : OnMessage(n)
    \/ \E c \in Chat : Forward(c)
    \/ OnClose
    \/ \E n \in 1..Len(down) : Recv(n)
    \/ RecvEnd

Spec == Init /\ [][Next]_wireVars

(***************************************************************************)
(* TCP delivers what was written while both ends live, the event loop and  *)
(* the receiving thread run, and a thread goes on with a frame it began.   *)
(***************************************************************************)
Fairness ==
    /\ \A t \in Threads : WF_wireVars(WriteFails(t) \/ \E n \in 1..Len(writing[t]) : Write(t, n))
    /\ WF_wireVars(\E n \in 1..Len(up) : OnMessage(n))
    /\ WF_wireVars((\E n \in 1..Len(down) : Recv(n)) \/ RecvEnd)
    /\ WF_wireVars(OnClose)

FairSpec == Spec /\ Fairness

-----------------------------------------------------------------------------
(* Types of the variables. *)
TypeOK ==
    /\ conn \in {"connected", "shut", "gone"} /\ server \in {"up", "aborted"}
    /\ client \in {"up", "ended"} /\ table \in BOOLEAN
    /\ \A s \in {sent, handled} : \A i \in DOMAIN s : s[i] \in Request
    /\ \A i \in DOMAIN posted : posted[i] \in Chat \cup UNION {AnswerFrames(f) : f \in Request}
    /\ \A i \in DOMAIN chats : chats[i] \in Chat
    /\ reads \subseteq {"frame", "frames", "torn"} /\ recvs \subseteq {"whole", "part", "middle"}

Has(s, x) == \E i \in DOMAIN s : s[i] = x

\* s takes its elements from t, each once and in the order of t.
InOrder(s, t) ==
    \E at \in [DOMAIN s -> DOMAIN t] :
        \A i \in DOMAIN s : s[i] = t[at[i]] /\ \A j \in 1..(i - 1) : at[j] < at[i]

(* However TCP cuts the stream and two threads share the socket, what      *)
(* reaches a handler was sent, once, in the order it was sent; the client  *)
(* processes what the server sent, once and in order; and its history has  *)
(* the chats it processed, each once, in that order, and all of them when  *)
(* the table is there and nothing failed.                                  *)
NothingInvented ==
    /\ InOrder(handled, sent) /\ InOrder(seen, posted) /\ InOrder(chats, seen)
    /\ table /\ faults = 0 => \A i \in DOMAIN seen : seen[i] \in Chat => Has(chats, seen[i])

(* As long as each read of the server finds one frame, the frames reach the *)
(* handlers in the order they were sent, none is missing, and the           *)
(* connection stays.                                                        *)
FrameByFrame ==
    reads \subseteq {"frame"} =>
        /\ handled = SubSeq(sent, 1, Len(handled))
        /\ server = "up"
        /\ client = "up" =>
               /\ conn = "connected"
               /\ \A i \in (Len(handled) + 1)..Len(sent) :
                      \E j \in DOMAIN up : up[j].of = sent[i] /\ up[j].at = 3

(* An exception ends the server only when a read found something else than *)
(* whole frames: two frames in one read cost the connection, no more.  And *)
(* the client ends by itself only after a recv that cut a frame: frames    *)
(* that arrive together do not end it.                                     *)
EndMeansTorn ==
    /\ server = "aborted" => "torn" \in reads
    /\ client = "ended" /\ conn = "connected" => "part" \in recvs

(* While the client lives it has processed, or dropped behind another, or  *)
(* has yet to receive, every frame the server sent.                        *)
NoAnswerVanishes ==
    client = "up" =>
        \A i \in DOMAIN posted :
            Has(seen, posted[i]) \/ posted[i] \in dropped
                \/ \E j \in DOMAIN down : down[j].of = posted[i] /\ down[j].at = 1

(* Every frame written is handled in the end, or the connection is gone;   *)
(* and every frame the server sent is dealt with, or the client has ended. *)
EveryFrameSettles ==
    <>[](\/ conn # "connected"
         \/ client = "ended"
         \/ up = <<>> /\ down = <<>> /\ \A i \in DOMAIN sent : Has(handled, sent[i]))
=============================================================================
