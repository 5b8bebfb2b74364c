----------------------------- MODULE MCCapSystem -----------------------------
(* Model-checking instance of CapSystem: a server and a client; the kernel     *)
(* may equip the client with capabilities to endpoint 0.                       *)
EXTENDS CapSystem

CONSTANTS Server, Client

MCHolder == {Server, Client}
MCWant == { {"SEND"}, {"SEND", "GRANT", "UNKNOWN"} }
MCBootstrap == { <<Client, 0>> }
=============================================================================
