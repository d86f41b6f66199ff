------------------------------- MODULE Sockets -------------------------------
(***************************************************************************)
(* What the servers and clients of this repository see of a TCP connection. *)
(* Each direction is a sequence of units that were sent and not yet         *)
(* received.  Each end is "open", "closed" or, when closing it reset the    *)
(* connection, "reset".                                                     *)
(***************************************************************************)
EXTENDS Naturals, Sequences

\* What becomes of an end that is closed with `unread' units still to read.
Closed(unread) == IF unread = <<>> THEN "closed" ELSE "reset"

\* How many units recv on `stream' may return when asked for `need'.
Receivable(stream, need) == 1 .. (IF Len(stream) < need THEN Len(stream) ELSE need)

\* The stream once the first k units have been received.
Rest(stream, k) == SubSeq(stream, k + 1, Len(stream))

\* recv returns 0 or -1: nothing more comes, or the peer reset the connection.
LostByReset(stream, peer) == peer = "reset"
Lost(stream, peer) == peer = "reset" \/ (peer = "closed" /\ stream = <<>>)
=============================================================================
