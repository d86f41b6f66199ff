--------------------------- MODULE MCFileTransfer ---------------------------
(* Two clients that upload a file of the same name. *)
EXTENDS FileTransfer

CONSTANTS c1, c2

MCClients == {c1, c2}
MCFirstSizes == {2}
MCName == [c \in MCClients |-> "aaa"]
=============================================================================
