-------------------------------- MODULE MCWire --------------------------------
(* Instance of Wire for TLC: a login, answered by a response longer than   *)
(* its ACK, while the other thread sends a chat again, and a chat that     *)
(* another client sends to this one.                                       *)
EXTENDS Wire

CONSTANTS login, again, news

MCRequest == {login, again}
MCChat == {news}
MCBlocks == [f \in MCRequest \cup MCChat |-> IF f = login THEN 2 ELSE 1]
MCAnswers == [f \in MCRequest |-> IF f = login THEN <<2, 1>> ELSE <<1>>]
MCMain == <<login>>
MCTimer == <<again>>
=============================================================================
