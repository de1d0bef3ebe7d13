----------------------------- MODULE MCChatService -----------------------------
(* Instances of ChatService for TLC.                                       *)
EXTENDS ChatProperties

CONSTANTS s1, s2, alice, bob, carol, c1, c2, c3, m1, m2

\* The connections and the server each reaches: all on the first, or the
\* last on the second.
OneHost == [c \in Conns |-> s1]
TwoHosts == [c \in Conns |-> IF c = c3 THEN s2 ELSE s1]

\* alice writes from c1; bob has the others.
OwnClients == [c \in Conns |-> IF c = c1 THEN {alice} ELSE {bob}]

\* bob and carol take turns at the same client.
SharedClient == [c \in Conns |-> IF c = c1 THEN {alice} ELSE {bob, carol}]

FromAlice == [m \in Msgs |-> alice]
ToBob == [m \in Msgs |-> {bob}]
ToBoth == [m \in Msgs |-> {bob, carol}]
=============================================================================
