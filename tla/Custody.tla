------------------------------- MODULE Custody -------------------------------
(***************************************************************************)
(* What the chat servers promise about a message, without threads, tables, *)
(* queues and channels: a copy <<account, message>> is in their custody or *)
(* it is not.  It comes into custody only if it was sent to that account;  *)
(* it leaves it only by being received, or by one of the mishaps that are  *)
(* on record; and the sender of a message has an ACK only when every copy  *)
(* of it is in custody, received or lost by an excuse.                     *)
(***************************************************************************)
CONSTANTS User, Msg,
          For,     \* [Msg -> SUBSET User]: whom a message is for
          Mishap,  \* how a copy in custody can be lost
          Refusal, \* why a copy may never come into custody
          Pardon   \* [Msg -> SUBSET Refusal]: refusals its ACK may stand on

VARIABLES sent,     \* messages sent
          held,     \* copies in custody
          received, \* copies received
          dropped,  \* <<account, message, why>>: copies lost or refused
          acked     \* messages whose sender has an ACK

cvars == <<sent, held, received, dropped, acked>>

\* The copies the servers have to do with.
Due == {d \in User \X Msg : d[2] \in sent /\ d[1] \in For[d[2]]}

Excuse(m) == Mishap \cup Pardon[m]

Covered(m) ==
    \A u \in For[m] : \/ <<u, m>> \in held \cup received
                      \/ \E why \in Excuse(m) : <<u, m, why>> \in dropped

Init == sent = {} /\ held = {} /\ received = {} /\ dropped = {} /\ acked = {}

Send(m) == sent' = sent \cup {m} /\ UNCHANGED <<held, received, dropped, acked>>

\* The copies in come into custody, and only those in out may have left it:
\* custody of a copy goes on while the servers have another one like it.
Pass(in, out) == in \cup (held \ out) \subseteq held' /\ held' \subseteq held \cup in

Record(copies, why) == dropped' = dropped \cup {<<d[1], d[2], why>> : d \in copies}

Take(copies) == Pass(copies, {}) /\ UNCHANGED <<sent, received, dropped>>

\* Out of custody, or straight from the sender.
Deliver(copies) ==
    /\ Pass({}, copies)
    /\ received' = received \cup copies
    /\ UNCHANGED <<sent, dropped>>

Refuse(copies, why) == Record(copies, why) /\ UNCHANGED <<sent, held, received>>

\* The sender of m hears of what the same step did.
Acknowledge(m) == m \in sent /\ acked' = acked \cup {m} /\ Covered(m)'

Handle ==
    /\ \E copies \in SUBSET Due :
          \/ Take(copies)
          \/ Deliver(copies)
          \/ \E why \in Refusal : Refuse(copies, why)
    /\ UNCHANGED acked \/ \E m \in Msg : Acknowledge(m)

\* Copies in custody are lost; the step may bring back others.
Lose(copies, again, why) ==
    /\ Pass(again, copies)
    /\ Record(copies, why)
    /\ UNCHANGED <<sent, received, acked>>

Next == \/ \E m \in Msg : Send(m)
        \/ Handle
        \/ \E copies \in SUBSET held, again \in SUBSET Due, why \in Mishap :
              Lose(copies, again, why)

Spec == Init /\ [][Next]_cvars

\* Nothing is kept, received or dropped that was not sent to that account.
NothingForeign ==
    /\ held \cup received \subseteq Due
    /\ \A d \in dropped : <<d[1], d[2]>> \in Due

\* What an ACK is worth.
Promise == acked \subseteq sent /\ \A m \in acked : Covered(m)
=============================================================================
