---------------------------- MODULE FileTransfer ----------------------------
(***************************************************************************)
(* The file upload of 20260918: client_file.cpp and server_file.cpp.        *)
(*                                                                          *)
(* A client connects, sends a file_Info (name and size), reads the answer   *)
(* "OK" and then sends the file.  The server accepts and forks; the child   *)
(* receives the file_Info, answers, and receives `size' bytes into          *)
(* recv_<name>.  A connection is a byte stream each way: one send or recv   *)
(* moves any part of what was asked for, and the loops of send_all,         *)
(* recv_all and recv_file make up for it.                                   *)
(*                                                                          *)
(* A unit stands for a block of bytes.  A file_Info takes InfoSize units,   *)
(* "OK" two, and unit n of a file is the number n: only where a unit comes  *)
(* from matters.                                                            *)
(***************************************************************************)
EXTENDS Integers, SequencesExt, FiniteSets, Sockets

CONSTANTS Clients,     \* client processes, one upload each
          Name,        \* Name[c]: the file name on c's command line
          MaxSize,     \* bound: size of a file, in units
          FirstSizes,  \* sizes the files may have at the start, or Absent
          InfoSize,    \* units in a file_Info
          ChunkSize,   \* units in the buffers of send_file and recv_file
          SockBuf,     \* units a connection holds each way
          Edits,       \* bound: changes of a file by somebody else
          Faults       \* bound: failing calls, on either side

Absent == -1         \* the size of a file that does not exist

ASSUME BoundsAssumption ==
    /\ FirstSizes \subseteq 0 .. MaxSize \cup {Absent}
    /\ MaxSize \in Nat /\ Edits \in Nat /\ Faults \in Nat
    /\ InfoSize \in Nat \ {0} /\ ChunkSize \in Nat \ {0} /\ SockBuf \in Nat \ {0}

Info(k) == [kind |-> "info", n |-> k]
Data(k) == [kind |-> "data", n |-> k]
OK == <<"O", "K">>
Units(Unit(_), from, to) == [i \in 1 .. to - from |-> Unit(from + i - 1)]

VARIABLES
    file,      \* the size of each client's file, or Absent
    edits,     \* changes of files still to come
    faults,    \* failures still to come
    cpc,       \* where each client is
    info,      \* what file_init found: name and size
    todo,      \* what the client's current send_all has still to send
    pos,       \* the client's offset in its file
    cend,      \* the client's end of the connection: "open", "closed", "reset"
    up, down,  \* the units under way to the server, and to the client
    parent,    \* the server: "accept" or, having returned, "gone"
    backlog,   \* connections not yet accepted
    spc,       \* where each client's child is
    sock,      \* the server's end of the connection
    held,      \* connections leaked by the parent that a child has a copy of
    rcvd,      \* units received by the current loop of the child
    ack,       \* what the child's send_all of "OK" has still to send
    out,       \* the child's offset in its output file
    disk,      \* recv_<name> on the server: who created it last, contents
    shared     \* history: the child wrote the file while another had it open

client == <<cpc, info, todo, pos, cend>>
child == <<spc, sock, held, rcvd, ack, out, shared>>
vars == <<file, edits, faults, client, up, down, parent, backlog, child, disk>>

NoName == "none"           \* file_name of a client whose stat failed: ""
Names == {Name[c] : c \in Clients} \cup {NoName}

Init ==
    /\ file \in [Clients -> FirstSizes]
    /\ edits = Edits /\ faults = Faults
    /\ cpc = [c \in Clients |-> "connect"]
    /\ info = [c \in Clients |-> [name |-> NoName, size |-> 0]]
    /\ todo = [c \in Clients |-> <<>>]
    /\ pos = [c \in Clients |-> 0]
    /\ cend = [c \in Clients |-> "open"]
    /\ up = [c \in Clients |-> <<>>] /\ down = [c \in Clients |-> <<>>]
    /\ parent = "accept" /\ backlog = <<>>
    /\ spc = [c \in Clients |-> "none"]
    /\ sock = [c \in Clients |-> "open"]
    /\ held = [c \in Clients |-> {}]
    /\ rcvd = [c \in Clients |-> 0]
    /\ ack = [c \in Clients |-> OK]
    /\ out = [c \in Clients |-> 0]
    /\ disk = [n \in Names |-> [by |-> {}, data |-> <<>>]]
    /\ shared = [c \in Clients |-> FALSE]

-----------------------------------------------------------------------------
(* The client: main of client_file.cpp. *)

Goto(c, label) == cpc' = [cpc EXCEPT ![c] = label]

\* main returns and the destructor closes the socket.  The label says how:
\* "sent" after "File sent successfully!", else "failed".
ClientReturns(c, label) ==
    /\ Goto(c, label)
    /\ cend' = [cend EXCEPT ![c] = Closed(down[c])]

\* socket_client(): the listening socket completes the connection.
Connect(c) ==
    /\ cpc[c] = "connect"
    /\ IF parent = "accept"
       THEN Goto(c, "stat") /\ backlog' = Append(backlog, c) /\ UNCHANGED cend
       ELSE ClientReturns(c, "failed") /\ UNCHANGED backlog
    /\ UNCHANGED <<file, edits, faults, info, todo, pos, up, down, parent, child, disk>>

\* file_init, whose failure main ignores: the file_Info is then all zero.
Stat(c) ==
    /\ cpc[c] = "stat"
    /\ info' = [info EXCEPT ![c] =
                   IF file[c] = Absent THEN [name |-> NoName, size |-> 0]
                                       ELSE [name |-> Name[c], size |-> file[c]]]
    /\ todo' = [todo EXCEPT ![c] = Units(Info, 0, InfoSize)]
    /\ Goto(c, "send_info")
    /\ UNCHANGED <<file, edits, faults, pos, cend, up, down, parent, backlog, child, disk>>

Sending == {"send_info", "send"}
AfterSend == [send_info |-> "reply", send |-> "read"]

\* One send of send_all.  To an end that is closed it may still succeed.
SendSome(c) ==
    /\ cpc[c] \in Sending
    /\ \E k \in 1 .. Len(todo[c]) :
          /\ IF sock[c] = "open"
             THEN Len(up[c]) + k <= SockBuf /\ up' = [up EXCEPT ![c] = @ \o SubSeq(todo[c], 1, k)]
             ELSE UNCHANGED up
          /\ todo' = [todo EXCEPT ![c] = Rest(@, k)]
    /\ Goto(c, IF todo'[c] = <<>> THEN AfterSend[cpc[c]] ELSE cpc[c])
    /\ UNCHANGED <<file, edits, faults, info, pos, cend, down, parent, backlog, child, disk>>

\* send fails, which main ignores for the file_Info and send_file does not; or
\* it raises SIGPIPE, which ends the client.
SendFails(c) ==
    /\ cpc[c] \in Sending
    /\ sock[c] # "open"
    /\ \/ cpc[c] = "send_info" /\ Goto(c, "reply") /\ UNCHANGED cend
       \/ ClientReturns(c, "failed")
    /\ UNCHANGED <<file, edits, faults, info, todo, pos, up, down, parent, backlog, child, disk>>

\* receive_message is one read; main goes on only if it brought all of "OK".
Reply(c) ==
    /\ cpc[c] = "reply"
    /\ \E k \in Receivable(down[c], Len(OK)) :
          /\ down' = [down EXCEPT ![c] = Rest(@, k)]
          /\ IF SubSeq(down[c], 1, k) = OK
             THEN Goto(c, "open") /\ UNCHANGED cend
             ELSE /\ Goto(c, "failed")
                  /\ cend' = [cend EXCEPT ![c] = Closed(down'[c])]
    /\ UNCHANGED <<file, edits, faults, info, todo, pos, up, parent, backlog, child, disk>>

\* At the end of the stream the buffer is "".  After an error main compares
\* an uninitialized buffer: the comparison may go either way.
NoReply(c) ==
    /\ cpc[c] = "reply"
    /\ Lost(down[c], sock[c])
    /\ \/ ClientReturns(c, "failed")
       \/ sock[c] = "reset" /\ Goto(c, "open") /\ UNCHANGED cend
    /\ UNCHANGED <<file, edits, faults, info, todo, pos, up, down, parent, backlog, child, disk>>

\* send_file(file1.file_name)
Open(c) ==
    /\ cpc[c] = "open"
    /\ IF info[c].name = NoName \/ file[c] = Absent
       THEN ClientReturns(c, "failed")
       ELSE Goto(c, "read") /\ UNCHANGED cend
    /\ UNCHANGED <<file, edits, faults, info, todo, pos, up, down, parent, backlog, child, disk>>

\* The next buffer of the file, up to the end it has now, whatever its size was.
Read(c) ==
    /\ cpc[c] = "read"
    /\ LET end == IF pos[c] + ChunkSize < file[c] THEN pos[c] + ChunkSize ELSE file[c]
       IN  IF pos[c] < file[c]
           THEN /\ todo' = [todo EXCEPT ![c] = Units(Data, pos[c], end)]
                /\ pos' = [pos EXCEPT ![c] = end]
                /\ Goto(c, "send") /\ UNCHANGED cend
           ELSE ClientReturns(c, "sent") /\ UNCHANGED <<todo, pos>>
    /\ UNCHANGED <<file, edits, faults, info, up, down, parent, backlog, child, disk>>

\* read of the file fails.
ReadFails(c) ==
    /\ cpc[c] = "read"
    /\ faults > 0 /\ faults' = faults - 1
    /\ ClientReturns(c, "failed")
    /\ UNCHANGED <<file, edits, info, todo, pos, up, down, parent, backlog, child, disk>>

Client(c) == Connect(c) \/ Stat(c) \/ SendSome(c) \/ SendFails(c) \/ Reply(c)
             \/ NoReply(c) \/ Open(c) \/ Read(c) \/ ReadFails(c)

-----------------------------------------------------------------------------
(* The server: start() in the parent, then in the child of each connection. *)

Fault == faults > 0 /\ faults' = faults - 1

\* Connections that fork failed for: the parent never closes them.
Leaked == {c \in Clients : spc[c] = "leaked"}

\* The children that have a copy of c's leaked connection.
Holders(c) == {d \in Clients : c \in held[d]}

\* accept and fork; the parent closes its copy of client_sock.  The child gets
\* a copy of whatever else the parent has open.
Accept ==
    /\ parent = "accept" /\ backlog # <<>>
    /\ backlog' = Tail(backlog)
    /\ spc' = [spc EXCEPT ![Head(backlog)] = "info"]
    /\ held' = [held EXCEPT ![Head(backlog)] = Leaked]
    /\ UNCHANGED <<file, edits, faults, client, up, down, parent, sock, rcvd, ack, out, shared, disk>>

\* fork fails: neither branch is taken, and client_sock stays open.
ForkFails ==
    /\ parent = "accept" /\ backlog # <<>>
    /\ Fault
    /\ backlog' = Tail(backlog)
    /\ spc' = [spc EXCEPT ![Head(backlog)] = "leaked"]
    /\ UNCHANGED <<file, edits, client, up, down, parent, sock, held, rcvd, ack, out, shared, disk>>

\* accept fails: start() and main return.  What no other process holds is
\* closed, the connections nobody accepted are reset.
AcceptFails ==
    /\ parent = "accept"
    /\ Fault
    /\ parent' = "gone"
    /\ backlog' = <<>>
    /\ sock' = [c \in Clients |-> CASE c \in ToSet(backlog) -> "reset"
                                     [] c \in Leaked /\ Holders(c) = {} -> Closed(up[c])
                                     [] OTHER -> sock[c]]
    /\ UNCHANGED <<file, edits, client, up, down, spc, held, rcvd, ack, out, shared, disk>>

\* The child of c has the only copy of d's leaked connection.
LastCopy(c, d) == parent = "gone" /\ Holders(d) = {c}

\* The child ends and what only it held is closed, by close and _exit(1) or by
\* falling out of the loop: accept fails on the closed server_sock.  The label
\* is "received" after "File received successfully!", else "failed".
ChildExits(c, label) ==
    /\ spc' = [spc EXCEPT ![c] = label]
    /\ sock' = [d \in Clients |-> IF d = c \/ LastCopy(c, d) THEN Closed(up'[d]) ELSE sock[d]]
    /\ held' = [held EXCEPT ![c] = {}]

\* sizeof(file_Info), which client and server must agree on.
PaddedSize == InfoSize + 1
StructSize == InfoSize

\* The loop of recv_all goes on until all has come.
AnyCame(c) == rcvd[c] > 0
AllCame(c) == rcvd[c] = StructSize

\* recv_all(client_sock, &file, sizeof(file)): one recv, of what is missing.
RecvInfo(c) ==
    /\ spc[c] = "info"
    /\ \E k \in Receivable(up[c], StructSize - rcvd[c]) :
          /\ up' = [up EXCEPT ![c] = Rest(@, k)]
          /\ rcvd' = [rcvd EXCEPT ![c] = @ + k]
    /\ spc' = [spc EXCEPT ![c] = IF AllCame(c)' THEN "ack" ELSE "info"]
    /\ UNCHANGED <<file, edits, faults, client, down, parent, backlog, sock, held, ack, out, shared, disk>>

\* send_all(client_sock, ok, 2): one send.
SendAck(c) ==
    /\ spc[c] = "ack"
    /\ \E k \in 1 .. Len(ack[c]) :
          /\ IF cend[c] = "open"
             THEN Len(down[c]) + k <= SockBuf /\ down' = [down EXCEPT ![c] = @ \o SubSeq(ack[c], 1, k)]
             ELSE UNCHANGED down
          /\ ack' = [ack EXCEPT ![c] = Rest(@, k)]
    /\ spc' = [spc EXCEPT ![c] = IF ack'[c] = <<>> THEN "create" ELSE "ack"]
    /\ UNCHANGED <<file, edits, faults, client, up, parent, backlog, sock, held, rcvd, out, shared, disk>>

\* "Receive file info failed" or "Send ACK failed": close and _exit(1).
HandshakeFails(c) ==
    /\ \/ spc[c] = "info" /\ Lost(up[c], cend[c])
       \/ spc[c] = "ack" /\ cend[c] # "open"
    /\ UNCHANGED up
    /\ ChildExits(c, "failed")
    /\ UNCHANGED <<file, edits, faults, client, down, parent, backlog, rcvd, ack, out, shared, disk>>

\* The children that have recv_<n> open.
Writers(n) == {d \in Clients : spc[d] = "recv" /\ info[d].name = n}

\* What opening an existing file with O_TRUNC leaves of it.
Kept(data) == data
Truncated(data) == <<>>

\* recv_file: open with O_CREAT and O_TRUNC.
Create(c) ==
    LET n == info[c].name
    IN  /\ spc[c] = "create"
        /\ spc' = [spc EXCEPT ![c] = "recv"]
        /\ disk' = [disk EXCEPT ![n] = [by |-> {c}, data |-> Truncated(@.data)]]
        /\ rcvd' = [rcvd EXCEPT ![c] = 0]
        /\ shared' = [d \in Clients |-> shared[d] \/ d \in Writers(n)
                                        \/ (d = c /\ Writers(n) # {})]
        /\ UNCHANGED <<file, edits, faults, client, up, down, parent, backlog, sock, held, ack, out>>

CreateFails(c) ==
    /\ spc[c] = "create"
    /\ Fault
    /\ UNCHANGED up
    /\ ChildExits(c, "failed")
    /\ UNCHANGED <<file, edits, client, down, parent, backlog, rcvd, ack, out, shared, disk>>

\* Contents after writing `units' at offset `at': what was there is
\* overwritten, a gap left by somebody else's O_TRUNC reads as holes.
Hole == [kind |-> "hole", n |-> 0]
Written(data, at, units) ==
    [i \in 1 .. (IF Len(data) < at + Len(units) THEN at + Len(units) ELSE Len(data)) |->
        IF i > at /\ i <= at + Len(units) THEN units[i - at]
        ELSE IF i <= Len(data) THEN data[i] ELSE Hole]

BufferSize(c) == ChunkSize
Need(c) == IF info[c].size - rcvd[c] < ChunkSize THEN info[c].size - rcvd[c] ELSE ChunkSize
AllButOne(c) == rcvd[c] + 1 >= info[c].size
Complete(c) == rcvd[c] >= info[c].size

\* recv_file: one recv of at most what is missing, and one write.  A write may
\* be short, which recv_file does not notice: it counts what it received.
RecvData(c) ==
    LET n == info[c].name
    IN  /\ spc[c] = "recv"
        /\ \E k \in Receivable(up[c], Need(c)) :
           \E w \in 0 .. k :
              /\ up' = [up EXCEPT ![c] = Rest(@, k)]
              /\ rcvd' = [rcvd EXCEPT ![c] = @ + k]
              /\ IF w = k THEN UNCHANGED faults ELSE Fault
              /\ disk' = [disk EXCEPT ![n].data = Written(@, out[c], SubSeq(up[c], 1, w))]
              /\ out' = [out EXCEPT ![c] = @ + w]
        /\ UNCHANGED <<file, edits, client, down, parent, backlog, spc, sock, held, ack, shared>>

\* recv_file returns true; start() ignores what it returns.
Received(c) ==
    /\ spc[c] = "recv"
    /\ Complete(c)
    /\ UNCHANGED up
    /\ ChildExits(c, "received")
    /\ UNCHANGED <<file, edits, faults, client, down, parent, backlog, rcvd, ack, out, shared, disk>>

\* recv_file returns false: the connection is lost, or the write fails.
ReceiveFails(c) ==
    /\ spc[c] = "recv"
    /\ ~Complete(c)
    /\ \/ Lost(up[c], cend[c]) /\ UNCHANGED <<faults, up>>
       \/ /\ Fault
          /\ \E k \in Receivable(up[c], Need(c)) : up' = [up EXCEPT ![c] = Rest(@, k)]
    /\ ChildExits(c, "failed")
    /\ UNCHANGED <<file, edits, client, down, parent, backlog, rcvd, ack, out, shared, disk>>

Child(c) == RecvInfo(c) \/ SendAck(c) \/ HandshakeFails(c) \/ Create(c) \/ CreateFails(c)
            \/ RecvData(c) \/ Received(c) \/ ReceiveFails(c)

-----------------------------------------------------------------------------
\* Somebody else changes or removes the file; who has it open keeps it.
Edit(c) ==
    /\ edits > 0
    /\ edits' = edits - 1
    /\ \E size \in 0 .. MaxSize \cup {Absent} :
          /\ size # file[c]
          /\ size = Absent => cpc[c] \notin {"read", "send"}
          /\ file' = [file EXCEPT ![c] = size]
    /\ UNCHANGED <<faults, client, up, down, parent, backlog, child, disk>>

Next == \/ Accept \/ ForkFails \/ AcceptFails
        \/ \E c \in Clients : Client(c) \/ Child(c) \/ Edit(c)

Spec == Init /\ [][Next]_vars

\* Each process runs, and the server accepts who waits.  Nothing is assumed
\* of faults and of changes to the files.
Fairness == /\ WF_vars(Accept)
            /\ \A c \in Clients : WF_vars(Client(c)) /\ WF_vars(Child(c))
FairSpec == Spec /\ Fairness

-----------------------------------------------------------------------------
(* Properties. *)

ClientLabels == {"connect", "stat", "reply", "open", "read", "sent", "failed"} \cup Sending
ChildLabels == {"none", "leaked", "info", "ack", "create", "recv", "received", "failed"}
Unit == {Info(k) : k \in 0 .. InfoSize} \cup {Data(k) : k \in 0 .. MaxSize}

\* Types; a socket buffer is never overfull, and neither loop receives more
\* than it asked for: `len - total_received' cannot wrap around.
TypeOK ==
    /\ file \in [Clients -> 0 .. MaxSize \cup {Absent}]
    /\ edits \in 0 .. Edits /\ faults \in 0 .. Faults
    /\ cpc \in [Clients -> ClientLabels] /\ spc \in [Clients -> ChildLabels]
    /\ info \in [Clients -> [name : Names, size : 0 .. MaxSize]]
    /\ pos \in [Clients -> 0 .. MaxSize]
    /\ cend \in [Clients -> {"open", "closed", "reset"}]
    /\ sock \in [Clients -> {"open", "closed", "reset"}]
    /\ held \in [Clients -> SUBSET Clients]
    /\ parent \in {"accept", "gone"}
    /\ backlog \in Seq(Clients) /\ IsInjective(backlog)
    /\ todo \in [Clients -> Seq(Unit)] /\ up \in [Clients -> Seq(Unit)]
    /\ ack \in [Clients -> {<<>>, <<"K">>, OK}]
    /\ down \in [Clients -> {<<>>, <<"O">>, <<"K">>, OK}]
    /\ rcvd \in [Clients -> Nat] /\ out \in [Clients -> Nat]
    /\ disk \in [Names -> [by : SUBSET Clients, data : Seq(Unit \cup {Hole})]]
    /\ \A c \in Clients :
          /\ Len(up[c]) <= SockBuf
          /\ rcvd[c] \in 0 .. (IF spc[c] \in {"recv", "received"} THEN info[c].size
                               ELSE IF InfoSize < MaxSize THEN MaxSize ELSE InfoSize)
          /\ out[c] \in 0 .. rcvd[c] \/ spc[c] \in {"none", "leaked"}
    /\ shared \in [Clients -> BOOLEAN]

\* Client and child agree on what the stream carries, though it has no marks:
\* while the child reads the file_Info only that is in it, nothing is while it
\* answers, and then the file from the very unit the child expects.
InStep ==
    \A c \in Clients :
       /\ spc[c] = "info" => up[c] = Units(Info, rcvd[c], rcvd[c] + Len(up[c]))
       /\ spc[c] = "ack" => up[c] = <<>>
       /\ spc[c] = "recv" => up[c] = Units(Data, rcvd[c], rcvd[c] + Len(up[c]))

\* The child of c created recv_<name> last, and nobody shared it.
Owns(c) == disk[info[c].name].by = {c} /\ ~shared[c]

\* As long as no write is short, recv_<name> holds exactly the units received
\* so far, in order from the first - whatever it held before, whatever others
\* upload, and wherever the transfer broke off.
FileIntact ==
    \A c \in Clients :
       Owns(c) /\ spc[c] \in {"recv", "received", "failed"} /\ out[c] = rcvd[c] =>
          disk[info[c].name].data = Units(Data, 0, out[c])

\* End to end: when nothing failed and no file changed, a client that printed
\* "File sent successfully!" and whose child is over finds all of its file on
\* the server, and the child has printed "File received successfully!".
SentIsStored ==
    \A c \in Clients :
       /\ cpc[c] = "sent" /\ spc[c] \in {"received", "failed"}
       /\ edits = Edits /\ faults = Faults
       /\ Owns(c)
       => spc[c] = "received" /\ disk[info[c].name].data = Units(Data, 0, file[c])

\* What "File received successfully!" says: the file of a child that printed it
\* has the announced size.  It fails, for recv_file only looks at written < 0.
SuccessMeansStored ==
    \A c \in Clients : spc[c] = "received" /\ Owns(c) =>
        Len(disk[info[c].name].data) = info[c].size

\* Who waits for the other side: in recv for units, or in send for room.
ClientWaits(c) ==
    /\ sock[c] = "open"
    /\ \/ cpc[c] = "reply" /\ down[c] = <<>>
       \/ cpc[c] \in Sending /\ Len(up[c]) = SockBuf
ChildWaits(c) ==
    /\ cend[c] = "open"
    /\ \/ spc[c] = "info" /\ up[c] = <<>>
       \/ spc[c] = "ack" /\ Len(down[c]) = SockBuf
       \/ spc[c] = "recv" /\ up[c] = <<>> /\ ~Complete(c)

\* Client and child never wait for each other.  Whom a client waits for is a
\* child that can go on, or the accept of a server that runs; or its connection
\* is leaked, and then still held by the server or by a child.
Running == {"info", "ack", "create", "recv"}
NoStandoff(c) == ClientWaits(c) =>
    \/ spc[c] \in Running /\ ~ChildWaits(c)
    \/ c \in ToSet(backlog) /\ parent = "accept"
    \/ spc[c] = "leaked" /\ (parent = "accept" \/ Holders(c) # {})

\* Bounds on the steps that a client, and its child, may still take.
Stage == [connect |-> InfoSize + 6, stat |-> InfoSize + 5, send_info |-> 4, reply |-> 3,
          open |-> 2, read |-> 1, send |-> 1, sent |-> 0, failed |-> 0]
ClientLeft(c) == Stage[cpc[c]] + 2 * (MaxSize - pos[c]) + Len(todo[c])
ChildLeft(c) ==
    CASE spc[c] = "none"   -> MaxSize + InfoSize + 6
      [] spc[c] = "info"   -> MaxSize + (InfoSize - rcvd[c]) + 5
      [] spc[c] = "ack"    -> MaxSize + Len(ack[c]) + 3
      [] spc[c] = "create" -> MaxSize + 2
      [] spc[c] = "recv"   -> (MaxSize - rcvd[c]) + 1
      [] OTHER             -> 0

\* Every step but an edit, and but the end of the server, takes an upload nearer
\* to its end, and no step takes one further from it: no loop goes round for ever.
Nearer ==
    /\ \A c \in Clients : ClientLeft(c)' <= ClientLeft(c) /\ ChildLeft(c)' <= ChildLeft(c)
    /\ edits' <= edits /\ (parent = "gone" => parent' = "gone")
    /\ \/ edits' < edits \/ parent' # parent
       \/ \E c \in Clients : ClientLeft(c)' < ClientLeft(c) \/ ChildLeft(c)' < ChildLeft(c)

\* What makes every upload end once each process that can go on does.
Proceeds == [](\A c \in Clients : NoStandoff(c)) /\ [][Nearer]_vars

\* A child always comes to its end, whatever the client does or fails to do.
ChildrenExit ==
    \A c \in Clients : spc[c] = "info" ~> spc[c] \in {"received", "failed"}

\* A client waits for ever only if fork failed for it and the server runs on:
\* the parent keeps the connection open and never answers.  When the parent and
\* the last child that has a copy of the connection are over, the client ends.
ClientsExit ==
    \A c \in Clients : \/ <>(cpc[c] \in {"sent", "failed"})
                       \/ <>[](spc[c] = "leaked" /\ parent = "accept")
=============================================================================
