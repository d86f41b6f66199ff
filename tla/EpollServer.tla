----------------------------- MODULE EpollServer -----------------------------
(***************************************************************************)
(* 20260920/epoll_server.cpp.  epoll_create1 takes flags, and its argument  *)
(* is 1 as if it were a size: it fails and the server ends, having said     *)
(* that it listens.  The loop that is never reached is modelled as written: *)
(* the reading of a client is inside the branch of the listening socket.    *)
(***************************************************************************)
EXTENDS Integers, Sequences

CONSTANTS Clients, Listening     \* descriptors

VARIABLES
    pc,         \* "create", "wait", "handle" or, having returned, "gone"
    interest,   \* the descriptors added to epfd
    events,     \* the ready ones that the loop has still to look at
    backlog,    \* connections not yet accepted
    conn        \* each client's: "none", "queued", "accepted", "closed", "refused"

vars == <<pc, interest, events, backlog, conn>>

\* socket, setsockopt, bind, listen, and the message of line 56.
Init ==
    /\ pc = "create" /\ interest = {} /\ events = {} /\ backlog = <<>>
    /\ conn = [c \in Clients |-> "none"]

\* A client connects; nobody listens any more when the socket was closed.
ListenerOpen == pc = "create" \/ Listening \in interest
Connect(c) ==
    /\ conn[c] = "none"
    /\ IF ListenerOpen
       THEN conn' = [conn EXCEPT ![c] = "queued"] /\ backlog' = Append(backlog, c)
       ELSE conn' = [conn EXCEPT ![c] = "refused"] /\ UNCHANGED backlog
    /\ UNCHANGED <<pc, interest, events>>

\* Closing the listening socket resets what is in its queue.
CloseListener(accepted) ==
    /\ backlog' = <<>>
    /\ conn' = [c \in Clients |-> IF c = accepted THEN "accepted"
                                  ELSE IF conn[c] = "queued" THEN "closed" ELSE conn[c]]

\* epoll_create1 knows one flag.
EPOLL_CLOEXEC == 524288
ValidFlags == {0, EPOLL_CLOEXEC}
EpollFlags == 1

CreateFails ==
    /\ pc = "create" /\ EpollFlags \notin ValidFlags
    /\ pc' = "gone"
    /\ CloseListener(Listening)
    /\ UNCHANGED <<interest, events>>

\* epoll_create1 and epoll_ctl(EPOLL_CTL_ADD) of the listening socket.
Create ==
    /\ pc = "create" /\ EpollFlags \in ValidFlags
    /\ pc' = "wait" /\ interest' = {Listening}
    /\ UNCHANGED <<events, backlog, conn>>

\* The listening socket is ready when somebody waits, a client when it has
\* sent something or has gone: at any time.
Wait ==
    /\ pc = "wait"
    /\ events' \in SUBSET interest /\ events' # {}
    /\ Listening \in interest => (Listening \in events') = (backlog # <<>>)
    /\ pc' = "handle"
    /\ UNCHANGED <<interest, backlog, conn>>

\* The listening socket: accept, which may fail and leaves all as it was, and
\* add the client, or close it if that fails; then read - of the listening
\* socket, which fails and is removed and closed.
HandleListening ==
    /\ pc = "handle" /\ Listening \in events
    /\ events' = events \ {Listening}
    /\ LET c == Head(backlog)
       IN  \/ /\ interest' = (interest \cup {c}) \ {Listening}
              /\ CloseListener(c)
           \/ /\ conn' = [conn EXCEPT ![c] = "closed"]
              /\ backlog' = Tail(backlog) /\ UNCHANGED interest
           \/ UNCHANGED <<interest, backlog, conn>>
    /\ UNCHANGED pc

\* No branch is for a client.
HandleClient ==
    /\ pc = "handle"
    /\ \E c \in Clients \cap events : events' = events \ {c}
    /\ UNCHANGED <<pc, interest, backlog, conn>>

EndScan == pc = "handle" /\ events = {} /\ pc' = "wait"
           /\ UNCHANGED <<interest, events, backlog, conn>>

Server == CreateFails \/ Create \/ Wait \/ HandleListening \/ HandleClient \/ EndScan
Next == Server \/ \E c \in Clients : Connect(c)

Spec == Init /\ [][Next]_vars
FairSpec == Spec /\ WF_vars(Server)

\* What the message "Server listening on port 8080" and the notes on the loop
\* promise: who connects to the server is accepted.  It fails.
Accepted == \A c \in Clients : conn[c] = "queued" ~> conn[c] = "accepted"
=============================================================================
