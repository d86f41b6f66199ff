----------------------------- MODULE EchoServer -----------------------------
(***************************************************************************)
(* The single-threaded echo servers 20260919/select_server.cpp and          *)
(* 20260920/poll_server.cpp.  The latter holds both sides of an unresolved  *)
(* merge, which are two programs here: "poll" is the HEAD side and          *)
(* "poll_252e04f" the other.  A behaviour is a run of one server.           *)
(*                                                                          *)
(* The three have the same loop: wait until something is ready, then scan   *)
(* all positions in order and accept from the listening socket or read      *)
(* from a client and write the bytes back.  A position is an index of       *)
(* fds[] in the poll servers; in the select server it is a descriptor,      *)
(* counted from server_sock, which has position 0 in all of them.  The      *)
(* sockets are blocking.                                                    *)
(***************************************************************************)
EXTENDS Integers, SequencesExt, FiniteSets, Sockets

CONSTANTS Clients,
          Servers,     \* the servers a behaviour may run
          Slots,       \* clients a server has room for: 1023 in the poll
                       \* servers, the descriptor limit in the select server
          MaxSend,     \* bound: units each client sends
          ReadSize,    \* units in the server's buffer
          SockBuf,     \* units a connection holds each way
          Listening, Free

ASSUME ServersAssumption == Servers \subseteq {"select", "poll", "poll_252e04f"}
ASSUME SlotsAssumption ==
    /\ Slots \in Nat \ {0} /\ MaxSend \in [Clients -> Nat]
    /\ ReadSize \in Nat \ {0} /\ SockBuf \in Nat \ {0}
    /\ Listening \notin Clients /\ Free \notin Clients \cup {Listening}

VARIABLES
    server,    \* the server that runs
    pc,        \* "wait", "scan", "write" or, the server having ended, "dead"
    table,     \* what is at each position: fds[], or the members of master_set
    last,      \* the last position scanned: maxfd, or the length of fds[]
    ready,     \* what was ready when the scan began: read_set, or the revents
    scan,      \* the position the scan has reached
    buf,       \* what was read at that position and is not yet written back
    backlog,   \* connections not yet accepted
    sock,      \* the server's end of each connection: "none", "open", "closed"
    cend,      \* the client's end: "none", "open", "closed", "reset"
    up, down,  \* units under way to the server, and back
    sent, got  \* how many units each client has sent, and received

loop == <<pc, table, last, ready, scan, buf, backlog, sock>>
clients == <<sent, got>>
vars == <<server, loop, cend, up, down, clients>>

Positions == 0 .. Slots
Nothing == [c \in Clients |-> <<>>]

\* socket, bind and listen; then fds[0], or FD_SET of server_sock.
Init ==
    /\ server \in Servers
    /\ pc = "wait"
    /\ table = [i \in Positions |-> IF i = 0 THEN Listening ELSE Free]
    /\ last = IF server = "select" THEN 0 ELSE Slots
    /\ ready = {} /\ scan = 0 /\ buf = <<>> /\ backlog = <<>>
    /\ sock = [c \in Clients |-> "none"] /\ cend = [c \in Clients |-> "none"]
    /\ up = Nothing /\ down = Nothing
    /\ sent = [c \in Clients |-> 0] /\ got = [c \in Clients |-> 0]

-----------------------------------------------------------------------------
(* The clients, in any manner: they are not part of these programs. *)

Connect(c) ==
    /\ cend[c] = "none" /\ pc # "dead"
    /\ cend' = [cend EXCEPT ![c] = "open"]
    /\ sock' = [sock EXCEPT ![c] = "open"]
    /\ backlog' = Append(backlog, c)
    /\ UNCHANGED <<server, pc, table, last, ready, scan, buf, up, down, clients>>

Send(c) ==
    /\ cend[c] = "open" /\ sent[c] < MaxSend[c]
    /\ sock[c] = "open" => Len(up[c]) < SockBuf
    /\ up' = IF sock[c] = "open" THEN [up EXCEPT ![c] = Append(@, [from |-> c, n |-> sent[c]])]
                                 ELSE up
    /\ sent' = [sent EXCEPT ![c] = @ + 1]
    /\ UNCHANGED <<server, loop, cend, down, got>>

Receive(c) ==
    /\ cend[c] = "open" /\ down[c] # <<>>
    /\ down' = [down EXCEPT ![c] = Tail(@)]
    /\ got' = [got EXCEPT ![c] = @ + 1]
    /\ UNCHANGED <<server, loop, cend, up, sent>>

\* Closing with echoes unread resets the connection.
Close(c) ==
    /\ cend[c] = "open"
    /\ cend' = [cend EXCEPT ![c] = Closed(down[c])]
    /\ UNCHANGED <<server, loop, up, down, clients>>

-----------------------------------------------------------------------------
(* The server. *)

\* select and poll report a position when accept or read would not block.
Readable(i) == IF table[i] = Listening THEN backlog # <<>>
               ELSE /\ table[i] \in Clients
                    /\ (up[table[i]] # <<>> \/ cend[table[i]] # "open")

\* The positions still to be handled in this scan.
Occupied == {i \in scan .. last : table[i] # Free}
Pending == {i \in scan .. last : i \in ready /\ table[i] # Free}

\* select(maxfd + 1, ...) on a copy of master_set, or poll: all that is ready.
PollShort ==
    /\ pc = "wait"
    /\ ready' = {i \in 0 .. last - 1 : Readable(i)}
    /\ ready' # {}
    /\ pc' = "scan" /\ scan' = 0
    /\ UNCHANGED <<server, table, last, buf, backlog, sock, cend, up, down, clients>>
Poll ==
    /\ pc = "wait"
    /\ ready' = {i \in 0 .. last : Readable(i)}
    /\ ready' # {}
    /\ pc' = "scan" /\ scan' = 0
    /\ UNCHANGED <<server, table, last, buf, backlog, sock, cend, up, down, clients>>

At(i) == pc = "scan" /\ i \in Pending /\ \A j \in Pending : i <= j

EndScan ==
    /\ pc = "scan" /\ Pending = {}
    /\ pc' = "wait"
    /\ UNCHANGED <<server, table, last, ready, scan, buf, backlog, sock, cend, up, down, clients>>

FreeSlots == {j \in 1 .. Slots : table[j] = Free}

\* if (client_sock > maxfd) maxfd = client_sock
SameLast(j) == last
NextLast(j) == last + 1
NewLast(j) == IF j > last THEN j ELSE last

\* accept; the new socket takes the lowest free descriptor or entry.
Accept ==
    /\ At(0)
    /\ \E j \in FreeSlots :
          /\ \A k \in FreeSlots : j <= k
          /\ table' = [table EXCEPT ![j] = Head(backlog)]
          /\ last' = NewLast(j)
    /\ backlog' = Tail(backlog)
    /\ scan' = 1
    /\ UNCHANGED <<server, pc, ready, buf, sock, cend, up, down, clients>>

\* accept fails, for want of a descriptor, which in the select server is the
\* only way to have no room.  The connection stays in the queue.  Only
\* poll_252e04f does not look: it stores -1 in a free entry, which stays free.
AcceptFails ==
    /\ At(0)
    /\ scan' = 1
    /\ UNCHANGED <<server, pc, table, last, ready, buf, backlog, sock, cend, up, down, clients>>

\* No entry for it.  The HEAD side of the poll server closes the new socket;
\* the other forgets it, still open.
AcceptNoRoom ==
    /\ At(0)
    /\ FreeSlots = {} /\ server # "select"
    /\ backlog' = Tail(backlog)
    /\ sock' = IF server = "poll" THEN [sock EXCEPT ![Head(backlog)] = "closed"] ELSE sock
    /\ scan' = 1
    /\ UNCHANGED <<server, pc, table, last, ready, buf, cend, up, down, clients>>

\* read brings what is there, up to the size of the buffer.
Read(i) ==
    LET c == table[i]
    IN  /\ At(i) /\ i > 0
        /\ \E k \in Receivable(up[c], ReadSize) :
              /\ buf' = SubSeq(up[c], 1, k)
              /\ up' = [up EXCEPT ![c] = Rest(@, k)]
        /\ pc' = "write" /\ scan' = i
        /\ UNCHANGED <<server, table, last, ready, backlog, sock, cend, down, clients>>

\* read returns 0 or, the connection being reset, -1: close, and FD_CLR or
\* fd = -1.  Only the HEAD side also clears revents.
Drop(i) ==
    LET c == table[i]
    IN  /\ At(i) /\ i > 0
        /\ Lost(up[c], cend[c])
        /\ table' = [table EXCEPT ![i] = Free]
        /\ sock' = [sock EXCEPT ![c] = "closed"]
        /\ ready' = IF server = "poll" THEN ready \ {i} ELSE ready
        /\ scan' = i + 1
        /\ UNCHANGED <<server, pc, last, buf, backlog, cend, up, down, clients>>

\* The write blocks until the socket buffer has taken everything.
WriteOnce ==
    LET c == table[scan]
    IN  /\ pc = "write" /\ cend[c] = "open"
        /\ Len(down[c]) < SockBuf
        /\ down' = [down EXCEPT ![c] = Append(@, Head(buf))]
        /\ buf' = <<>>
        /\ pc' = "scan"
        /\ scan' = scan + 1
        /\ UNCHANGED <<server, table, last, ready, backlog, sock, cend, up, clients>>
WriteTwice ==
    LET c == table[scan]
    IN  /\ pc = "write" /\ cend[c] = "open"
        /\ Len(down[c]) + 2 <= SockBuf
        /\ down' = [down EXCEPT ![c] = @ \o <<Head(buf), Head(buf)>>]
        /\ buf' = Tail(buf)
        /\ pc' = IF buf' = <<>> THEN "scan" ELSE "write"
        /\ scan' = IF buf' = <<>> THEN scan + 1 ELSE scan
        /\ UNCHANGED <<server, table, last, ready, backlog, sock, cend, up, clients>>
Write ==
    LET c == table[scan]
    IN  /\ pc = "write" /\ cend[c] = "open"
        /\ Len(down[c]) < SockBuf
        /\ down' = [down EXCEPT ![c] = Append(@, Head(buf))]
        /\ buf' = Tail(buf)
        /\ pc' = IF buf' = <<>> THEN "scan" ELSE "write"
        /\ scan' = IF buf' = <<>> THEN scan + 1 ELSE scan
        /\ UNCHANGED <<server, table, last, ready, backlog, sock, cend, up, clients>>

\* A client that has closed answers the write with a reset.
WriteToClosed ==
    LET c == table[scan]
    IN  /\ pc = "write" /\ cend[c] = "closed"
        /\ cend' = [cend EXCEPT ![c] = "reset"]
        /\ buf' = <<>> /\ pc' = "scan" /\ scan' = scan + 1
        /\ UNCHANGED <<server, table, last, ready, backlog, sock, up, down, clients>>

\* A write on a connection that was reset fails, which goes unnoticed, ...
WriteFails ==
    /\ pc = "write" /\ cend[table[scan]] = "reset"
    /\ buf' = <<>> /\ pc' = "scan" /\ scan' = scan + 1
    /\ UNCHANGED <<server, table, last, ready, backlog, sock, cend, up, down, clients>>

\* The server ends and all its sockets are closed.
Ends ==
    /\ pc' = "dead" /\ buf' = <<>>
    /\ sock' = [c \in Clients |-> IF sock[c] = "open" THEN "closed" ELSE sock[c]]
    /\ UNCHANGED <<server, table, last, ready, scan, backlog, cend, up, down, clients>>

\* ... or raises SIGPIPE, which nobody handles.
Killed == pc = "write" /\ cend[table[scan]] = "reset" /\ Ends

\* select or poll fails, other than by EINTR, and the loop is left.
PollFails == pc = "wait" /\ Ends

Server == \/ Poll \/ PollFails \/ EndScan \/ Accept \/ AcceptFails \/ AcceptNoRoom
          \/ Write \/ WriteToClosed \/ WriteFails \/ Killed
          \/ \E i \in Positions : Read(i) \/ Drop(i)

Next == \/ Server
        \/ \E c \in Clients : Connect(c) \/ Send(c) \/ Receive(c) \/ Close(c)

Spec == Init /\ [][Next]_vars

\* The server runs; and a client reads what comes back as long as it has not
\* closed, because the server's blocking write waits for it.
Fairness == WF_vars(Server) /\ \A c \in Clients : WF_vars(Receive(c))
FairSpec == Spec /\ Fairness

-----------------------------------------------------------------------------
(* Properties. *)

Unit == [from : Clients, n : Nat]

\* Types; `last' covers the table only as far as it is in use.
TypeOK ==
    /\ server \in Servers
    /\ pc \in {"wait", "scan", "write", "dead"}
    /\ table \in [Positions -> Clients \cup {Listening, Free}]
    /\ last \in Positions /\ ready \subseteq Positions /\ scan \in 0 .. Slots + 1
    /\ buf \in Seq(Unit) /\ Len(buf) <= ReadSize /\ (pc = "write") = (buf # <<>>)
    /\ backlog \in Seq(Clients)
    /\ sock \in [Clients -> {"none", "open", "closed"}]
    /\ cend \in [Clients -> {"none", "open", "closed", "reset"}]
    /\ up \in [Clients -> Seq(Unit)] /\ down \in [Clients -> Seq(Unit)]
    /\ sent \in [Clients -> Nat] /\ got \in [Clients -> Nat]
    /\ \A c \in Clients : /\ Len(up[c]) <= SockBuf /\ Len(down[c]) <= SockBuf
                          /\ sent[c] <= MaxSend[c] /\ got[c] <= sent[c]

\* The server's buffer, if it holds what client c sent.
InServer(c) == IF pc = "write" /\ table[scan] = c THEN buf ELSE <<>>

\* What is under way of c, on its way back first, and what should be.
UnderWay(c) == down[c] \o InServer(c) \o up[c]
Due(c) == [k \in 1 .. sent[c] - got[c] |-> [from |-> c, n |-> got[c] + k - 1]]

\* Every client gets back exactly its own units, once and in order: on an open
\* connection what it has not yet received is under way, in the socket buffers
\* or in the server's, whoever else is served in between.
EchoInOrder ==
    \A c \in Clients : cend[c] = "open" /\ sock[c] = "open" => UnderWay(c) = Due(c)

\* What the scan still has to handle is ready now, though it was asked for
\* before the accept, the reads and the closes in between, and the accept may
\* have put a client at a position the scan is yet to reach: neither accept nor
\* read blocks the loop.
NeverBlocks == pc \in {"scan", "write"} =>
    \A i \in Pending : (i = scan /\ pc = "write") \/ Readable(i)

\* An accepted connection that the server has not closed is at one position,
\* within the range it polls - but for the sockets that poll_252e04f forgets.
Accepted(c) == sock[c] = "open" /\ c \notin ToSet(backlog)
PlacesOf(c) == {i \in 1 .. last : table[i] = c}
AtItsPlace(c) ==
    pc # "dead" =>
        /\ PlacesOf(c) # {} => Accepted(c)
        /\ Accepted(c) => \/ Cardinality(PlacesOf(c)) = 1
                          \/ server = "poll_252e04f" /\ PlacesOf(c) = {}

\* No step of any server loses sight of a connection, queued or at a position,
\* without closing it, but one: an accept of poll_252e04f with all positions
\* taken.
InSight(c) == c \in ToSet(backlog) \/ PlacesOf(c) # {}
ForgetsOnlyWhenFull ==
    \A c \in Clients :
       InSight(c) /\ ~InSight(c)' /\ sock'[c] = "open" =>
           server = "poll_252e04f" /\ FreeSlots = {}

Watched == [](\A c \in Clients : AtItsPlace(c)) /\ [][ForgetsOnlyWhenFull]_vars

\* As long as the server lives, what a client at some position sends
\* comes back, unless the client closes first: no client starves another.
Answered ==
    [](pc # "dead") =>
        \A c \in Clients : \A n \in 1 .. MaxSend[c] :
            (PlacesOf(c) # {} /\ sent[c] >= n) ~> (got[c] >= n \/ cend[c] # "open")

-----------------------------------------------------------------------------
(* The abstract specification.  A connection breaks when the server closes it  *)
(* under a client that has not hung up; what can still come back is then what  *)
(* is already in the client's socket buffer.                                   *)

Conn(c) == CASE cend[c] = "none" -> "none"
             [] cend[c] = "open" /\ sock[c] = "open" -> "open"
             [] cend[c] = "open" /\ sock[c] # "open" -> "broken"
             [] OTHER -> "over"
Wire(c) == CASE Conn(c) = "open" -> UnderWay(c)
             [] Conn(c) = "broken" -> down[c]
             [] OTHER -> <<>>

Service == INSTANCE EchoService WITH
    MaxSend <- 1, conn <- [c \in Clients |-> Conn(c)], wire <- [c \in Clients |-> Wire(c)]

\* The three servers implement the echo service, up to and past their end.
Implements == Service!Spec
=============================================================================
