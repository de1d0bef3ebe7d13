-------------------------------- MODULE MCJson --------------------------------
(* Instance of JsonDocument for TLC: numbers of three bits, two keys, of   *)
(* which one is "0", and patches of one or two operations.                 *)
EXTENDS JsonDocument

Minus == Value("number_integer", -1)
One == Value("number_unsigned", 1)
Seven == Value("number_unsigned", 7)

MCKeys == {0, 10}
MCObject(k, v) == Put(Empty("object"), k, v)
MCSamples == {Null, Minus, One, Seven, Array(<<One>>), Array(<<Null, One>>), MCObject(0, Null),
              MCObject(10, One), MCObject(10, MCObject(0, One)), Put(MCObject(0, One), 10, Null)}

Pointers == {<<>>, <<0>>, <<10>>, <<Dash>>, <<10, 0>>}
OneStep == {<<OpWith(op, ptr, One)>> : op \in {"add", "replace", "test"}, ptr \in Pointers}
           \cup {<<Op("remove", ptr)>> : ptr \in Pointers}
           \cup {<<[op |-> op, path |-> p, from |-> q]>> : op \in {"move", "copy"}, p \in {<<10>>, <<10, 0>>}, q \in {<<0>>, <<10>>}}
           \cup {<<Op("add", <<>>)>>, <<Op("swap", <<>>)>>, <<[op |-> "add"]>>}
TwoSteps == {<<OpWith("add", ptr, One), OpWith("test", <<0>>, One)>> : ptr \in {<<0>>, <<10>>}}
MCPatches == OneStep \cup TwoSteps
=============================================================================
