---------------------------- MODULE MCForkServer ----------------------------
(* Three clients for a server that can fork once or twice, and hold two        *)
(* connections, the second of which leaves no descriptor for accept: in the    *)
(* first case the third client brings the server to its end, in the second two *)
(* children run at once and the third client is never answered.                *)
EXTENDS ForkServer

CONSTANTS c1, c2, c3

MCClients == {c1, c2, c3}
MCForkLimits == {1, 2}
=============================================================================
