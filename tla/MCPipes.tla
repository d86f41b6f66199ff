------------------------------- MODULE MCPipes -------------------------------
(* Two senders of three messages each.  Three messages fill the pipe and take *)
(* three reads, the last of one unit.                                         *)
EXTENDS Pipes

CONSTANTS s1, s2

MCSenders == {s1, s2}
=============================================================================
