----------------------------- MODULE ForkServer -----------------------------
(***************************************************************************)
(* DAY10: socket_server.cpp, which forks a child for each connection, with  *)
(* its clients socket_client.cpp.                                           *)
(*                                                                          *)
(* The parent accepts and forks and never waits for a child, so a child     *)
(* that has ended stays a zombie and keeps its place in the table of        *)
(* processes.  Once that is full fork fails, the connection is neither      *)
(* served nor closed, and once the parent has no descriptor left accept     *)
(* fails.  Whatever makes it fail, the server ends.                         *)
(***************************************************************************)
EXTENDS Integers, SequencesExt, FiniteSets, Sockets

CONSTANTS Clients,      \* client processes, one request each
          MsgSize,      \* units in the client's message
          ReadSize,     \* units in the buffers, less the byte for the NUL
          ForkLimits,   \* limits on processes the server may be started under:
                        \* how many children, zombies included, it can have
          MaxOpen       \* connections the parent may hold open at once

ASSUME BoundsAssumption ==
    /\ IsFiniteSet(Clients)
    /\ MsgSize \in Nat \ {0} /\ ReadSize \in Nat \ {0}
    /\ ForkLimits \subseteq Nat /\ MaxOpen \in Nat \ {0}

VARIABLES
    limit,     \* the limit of this run of the server
    parent,    \* the server: "accept" or, having returned, "gone"
    backlog,   \* connections not yet accepted
    child,     \* the child of each connection, where it is, or how it ended
    buf,       \* what the child has read and not yet written back
    sock,      \* the server's end of each connection: "open", "closed", "reset"
    cpc,       \* where each client is
    cend,      \* the client's end of its connection: "open", "closed", "reset"
    up, down,  \* units under way to the server, and back
    got        \* units the client has received

server == <<limit, parent, backlog>>
clients == <<cpc, got>>
vars == <<server, child, buf, sock, clients, cend, up, down>>

Nothing == [c \in Clients |-> <<>>]

\* socket, bind and listen.
Init ==
    /\ limit \in ForkLimits
    /\ parent = "accept" /\ backlog = <<>>
    /\ child = [c \in Clients |-> "none"] /\ buf = Nothing
    /\ sock = [c \in Clients |-> "open"] /\ cend = [c \in Clients |-> "open"]
    /\ cpc = [c \in Clients |-> "connect"] /\ got = [c \in Clients |-> 0]
    /\ up = Nothing /\ down = Nothing

-----------------------------------------------------------------------------
(* The client: main of socket_client.cpp. *)

\* main returns, exit(1) or SIGPIPE: the socket is closed.  The label is
\* "done" if the message was sent, else "failed".
ClientEnds(c, label) ==
    /\ cpc' = [cpc EXCEPT ![c] = label]
    /\ cend' = [cend EXCEPT ![c] = Closed(down'[c])]

Connect(c) ==
    /\ cpc[c] = "connect"
    /\ UNCHANGED down
    /\ IF parent = "accept"
       THEN /\ cpc' = [cpc EXCEPT ![c] = "send"]
            /\ backlog' = Append(backlog, c)
            /\ UNCHANGED cend
       ELSE ClientEnds(c, "failed") /\ UNCHANGED backlog
    /\ UNCHANGED <<limit, parent, child, buf, sock, up, got>>

\* The message: unit n of client c.
Message(c) == [i \in 1 .. MsgSize |-> [from |-> c, n |-> i - 1]]

\* send_message: one write, which the empty connection takes as a whole.
SendMessage(c) ==
    /\ cpc[c] = "send"
    /\ cpc' = [cpc EXCEPT ![c] = "reply"]
    /\ up' = IF sock[c] = "open" THEN [up EXCEPT ![c] = Message(c)] ELSE up
    /\ UNCHANGED <<server, child, buf, sock, cend, down, got>>

\* The server having closed the connection, the write may fail or raise SIGPIPE.
SendFails(c) ==
    /\ cpc[c] = "send" /\ sock[c] # "open"
    /\ UNCHANGED down
    /\ ClientEnds(c, "failed")
    /\ UNCHANGED <<server, child, buf, sock, up, got>>

\* receive_message: one read, of whatever has come.
ReceiveMessage(c) ==
    /\ cpc[c] = "reply"
    /\ \E k \in Receivable(down[c], ReadSize) :
          /\ down' = [down EXCEPT ![c] = Rest(@, k)]
          /\ got' = [got EXCEPT ![c] = @ + k]
    /\ cpc' = [cpc EXCEPT ![c] = "sleep"]
    /\ UNCHANGED <<server, child, buf, sock, cend, up>>

\* The read returns 0 or fails; main looks at neither.
NoMessage(c) ==
    /\ cpc[c] = "reply" /\ Lost(down[c], sock[c])
    /\ cpc' = [cpc EXCEPT ![c] = "sleep"]
    /\ UNCHANGED <<server, child, buf, sock, cend, up, down, got>>

\* sleep(1), and main returns: what is still to come resets the connection.
Return(c) ==
    /\ cpc[c] = "sleep"
    /\ UNCHANGED down
    /\ ClientEnds(c, "done")
    /\ UNCHANGED <<server, child, buf, sock, up, got>>

Client(c) == Connect(c) \/ SendMessage(c) \/ SendFails(c) \/ ReceiveMessage(c)
             \/ NoMessage(c) \/ Return(c)

-----------------------------------------------------------------------------
(* The parent: start(). *)

Running == {c \in Clients : child[c] \in {"read", "write"}}
Zombies == {c \in Clients : child[c] = "zombie"}
Leaked == {c \in Clients : child[c] = "leaked"}

CanFork == Cardinality(Running \cup Zombies) < limit
CanAccept == Cardinality(Leaked) < MaxOpen

\* accept and fork; the parent closes its copy of client_sock.
Accept ==
    /\ parent = "accept" /\ backlog # <<>>
    /\ CanAccept /\ CanFork
    /\ child' = [child EXCEPT ![Head(backlog)] = "read"]
    /\ backlog' = Tail(backlog)
    /\ UNCHANGED <<limit, parent, buf, sock, clients, cend, up, down>>

\* fork fails: neither branch is taken, and client_sock stays open.  No later
\* child inherits it: there is no room for a child again.
ForkFails ==
    /\ parent = "accept" /\ backlog # <<>>
    /\ CanAccept /\ ~CanFork
    /\ child' = [child EXCEPT ![Head(backlog)] = "leaked"]
    /\ backlog' = Tail(backlog)
    /\ UNCHANGED <<limit, parent, buf, sock, clients, cend, up, down>>

\* accept fails, as it may at any time, and start() and main return.  What the
\* parent held is closed, the connections nobody accepted are reset, and somebody
\* else waits for the children, the zombies among them.
AcceptFails ==
    /\ parent = "accept"
    /\ parent' = "gone"
    /\ backlog' = <<>>
    /\ sock' = [c \in Clients |-> CASE c \in ToSet(backlog) -> "reset"
                                     [] c \in Leaked -> Closed(up[c])
                                     [] OTHER -> sock[c]]
    /\ child' = [c \in Clients |-> IF c \in Zombies THEN "reaped" ELSE child[c]]
    /\ UNCHANGED <<limit, buf, clients, cend, up, down>>

-----------------------------------------------------------------------------
(* The child of a connection. *)

Read(c) ==
    /\ child[c] = "read"
    /\ \E k \in Receivable(up[c], ReadSize) :
          /\ buf' = [buf EXCEPT ![c] = SubSeq(up[c], 1, k)]
          /\ up' = [up EXCEPT ![c] = Rest(@, k)]
    /\ child' = [child EXCEPT ![c] = "write"]
    /\ UNCHANGED <<server, sock, clients, cend, down>>

\* One write, for which there is room: more than a message is never under way.
\* A client that has closed answers it with a reset.
WriteBack(c, units) ==
    /\ child[c] = "write" /\ cend[c] # "reset"
    /\ IF cend[c] = "open"
       THEN down' = [down EXCEPT ![c] = @ \o units] /\ UNCHANGED cend
       ELSE cend' = [cend EXCEPT ![c] = "reset"] /\ UNCHANGED down
    /\ buf' = [buf EXCEPT ![c] = <<>>]
    /\ child' = [child EXCEPT ![c] = "read"]
    /\ UNCHANGED <<server, sock, clients, up>>
WriteNothing(c) == WriteBack(c, <<>>)
WriteTwice(c) == WriteBack(c, buf[c] \o buf[c])
WriteMessage(c) == WriteBack(c, Message(c))
Write(c) == WriteBack(c, buf[c])

\* The child closes client_sock and, since its server_sock is closed, accept
\* fails and it returns: a zombie as long as there is a parent.
Exits(c) ==
    /\ child' = [child EXCEPT ![c] = IF parent = "accept" THEN "zombie" ELSE "reaped"]
    /\ sock' = [sock EXCEPT ![c] = Closed(up[c])]
    /\ buf' = [buf EXCEPT ![c] = <<>>]
    /\ UNCHANGED <<server, clients, cend, up, down>>

\* "Client disconnected" or "Recv failed".
NothingCame(c) == up[c] = <<>>
HungUp(c) == up[c] = <<>> /\ cend[c] = "closed"
Disconnected(c) == Lost(up[c], cend[c])
Disconnect(c) == child[c] = "read" /\ Disconnected(c) /\ Exits(c)

\* The write fails or raises SIGPIPE.
WriteFails(c) == child[c] = "write" /\ cend[c] = "reset" /\ Exits(c)

Child(c) == Read(c) \/ Write(c) \/ Disconnect(c) \/ WriteFails(c)

-----------------------------------------------------------------------------
Next == \/ Accept \/ ForkFails \/ AcceptFails
        \/ \E c \in Clients : Client(c) \/ Child(c)

Spec == Init /\ [][Next]_vars

\* Every process runs.  That a client comes at all is not assumed, nor that
\* accept fails but for want of a descriptor, when it does not wait for a client.
Fairness == /\ WF_vars(Accept \/ ForkFails \/ (~CanAccept /\ AcceptFails))
            /\ \A c \in Clients : WF_vars(cpc[c] # "connect" /\ Client(c)) /\ WF_vars(Child(c))
FairSpec == Spec /\ Fairness

-----------------------------------------------------------------------------
(* Properties. *)

Unit == [from : Clients, n : 0 .. MsgSize - 1]

\* Types; a child has what it read exactly while it is about to write, and its
\* end of the connection is open exactly as long as it runs.
TypeOK ==
    /\ limit \in ForkLimits /\ parent \in {"accept", "gone"}
    /\ backlog \in Seq(Clients) /\ IsInjective(backlog)
    /\ child \in [Clients -> {"none", "leaked", "read", "write", "zombie", "reaped"}]
    /\ sock \in [Clients -> {"open", "closed", "reset"}]
    /\ cend \in [Clients -> {"open", "closed", "reset"}]
    /\ cpc \in [Clients -> {"connect", "send", "reply", "sleep", "done", "failed"}]
    /\ got \in [Clients -> 0 .. MsgSize]
    /\ up \in [Clients -> Seq(Unit)] /\ down \in [Clients -> Seq(Unit)]
    /\ buf \in [Clients -> Seq(Unit)]
    /\ Cardinality(Running \cup Zombies) <= limit
    /\ \A c \in Clients :
          /\ Len(up[c]) + Len(buf[c]) + Len(down[c]) + got[c] <= MsgSize
          /\ (child[c] = "write") = (buf[c] # <<>>)
          /\ child[c] \in {"read", "write"} => sock[c] = "open"
          /\ child[c] \in {"zombie", "reaped"} => sock[c] # "open"

\* Whom the parent forked a child for never fails and never ends without an
\* answer, whatever has become of the parent and of the other connections; and
\* nobody does while the parent runs.
Served(c) ==
    child[c] \in {"read", "write", "zombie", "reaped"} \/ parent = "accept" =>
        cpc[c] # "failed" /\ (cpc[c] \in {"sleep", "done"} => got[c] > 0)

\* ... and gets its answer.
Answered == /\ [](\A c \in Clients : Served(c))
            /\ \A c \in Clients : child[c] = "read" ~> got[c] > 0

\* A client in its read, and a child in its, with nothing there to end it.
ClientWaits(c) == cpc[c] = "reply" /\ down[c] = <<>> /\ ~Lost(down[c], sock[c])
ChildWaits(c) == child[c] = "read" /\ up[c] = <<>> /\ ~Lost(up[c], cend[c])

\* Client and child never wait for each other.  Whom a client waits for is a
\* child that can go on, or the accept of a parent that runs; or the parent could
\* not fork for it, runs, and holds its connection open.
NoStandoff(c) == ClientWaits(c) =>
    \/ c \in Running /\ ~ChildWaits(c)
    \/ parent = "accept" /\ (c \in ToSet(backlog) \/ c \in Leaked)

\* Bounds on the steps that a client, and its child, may still take.
Stage == [connect |-> 4, send |-> 3, reply |-> 2, sleep |-> 1, done |-> 0, failed |-> 0]
ClientLeft(c) == Stage[cpc[c]]
Ahead(c) == IF cpc[c] \in {"connect", "send"} THEN MsgSize ELSE Len(up[c])
ChildLeft(c) == CASE child[c] = "none"  -> 2 * MsgSize + 2
                  [] child[c] = "read"  -> 2 * Ahead(c) + 1
                  [] child[c] = "write" -> 2 * Ahead(c) + 2
                  [] OTHER              -> 0

\* Every step but the end of the parent takes a client or a child nearer to its
\* end, and no step takes one further from it: no loop goes round for ever.
Nearer ==
    /\ \A c \in Clients : ClientLeft(c)' <= ClientLeft(c) /\ ChildLeft(c)' <= ChildLeft(c)
    /\ parent = "gone" => parent' = "gone"
    /\ \/ parent' # parent
       \/ \E c \in Clients : ClientLeft(c)' < ClientLeft(c) \/ ChildLeft(c)' < ChildLeft(c)

\* What makes clients and children end once every process that can go on does.
Proceeds == [](\A c \in Clients : NoStandoff(c)) /\ [][Nearer]_vars

\* No child outlives its client, and no client waits for ever but one that the
\* parent has accepted, could not fork for, and keeps holding open.
Ended(c) == cpc[c] \in {"done", "failed"}
AllEnd == \A c \in Clients :
    /\ cpc[c] = "send" ~> (Ended(c) \/ child[c] = "leaked")
    /\ (cpc[c] = "send" /\ parent = "gone") ~> Ended(c)
    /\ child[c] = "read" ~> child[c] \in {"zombie", "reaped"}

\* What DAY4/README.md requires of a long-running parent: a child that has ended
\* is eventually waited for.  It fails, for the server never does.
ZombiesReaped == \A c \in Clients : child[c] = "zombie" ~> child[c] # "zombie"

-----------------------------------------------------------------------------
(* The abstract specification: the same one as of the other servers.          *)

Conn(c) == CASE cpc[c] = "connect" -> "none"
             [] cend[c] # "open" -> "over"
             [] OTHER ->
                    IF sock[c] = "open" THEN "open" ELSE "broken"
Wire(c) == CASE Conn(c) = "open" -> down[c] \o buf[c] \o up[c]
             [] Conn(c) = "broken" -> down[c]
             [] OTHER -> <<>>
Sent(c) == IF cpc[c] \in {"connect", "send", "failed"} THEN 0 ELSE MsgSize

Service == INSTANCE EchoService WITH
    MaxSend <- MsgSize,
    conn <- [c \in Clients |-> Conn(c)], wire <- [c \in Clients |-> Wire(c)],
    sent <- [c \in Clients |-> Sent(c)]

\* The forking server and its clients implement the echo service.
Implements == Service!Spec
=============================================================================
