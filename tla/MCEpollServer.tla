---------------------------- MODULE MCEpollServer ----------------------------
EXTENDS EpollServer

CONSTANTS c1, c2

MCClients == {c1, c2}
=============================================================================
