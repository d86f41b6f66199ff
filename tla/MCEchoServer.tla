---------------------------- MODULE MCEchoServer ----------------------------
(* Three clients and two slots, so that a server can be full; different        *)
(* clients send different amounts, one none at all.                            *)
EXTENDS EchoServer, TLC

CONSTANTS c1, c2, c3

MCClients == {c1, c2, c3}
MCMaxSend == c1 :> 3 @@ c2 :> 1 @@ c3 :> 0
MCServers == {"select", "poll", "poll_252e04f"}
=============================================================================
