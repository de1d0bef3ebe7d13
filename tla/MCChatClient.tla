------------------------------ MODULE MCChatClient ------------------------------
(* Instances of ChatClient for TLC.                                        *)
EXTENDS ChatClient

CONSTANTS alice, none
=============================================================================
