---------------------------- MODULE EchoService ----------------------------
(***************************************************************************)
(* What every echo server of this repository promises, however it waits for *)
(* its clients: a client with an open connection gets back what it sent,    *)
(* every unit once and in order, and nothing else.  The connection may      *)
(* break, as it does when the server ends; then a client still gets some    *)
(* first part of what was under way, and no more.                           *)
(***************************************************************************)
EXTENDS Naturals, Sockets

CONSTANTS Clients,
          MaxSend      \* units one call sends at most: a number

VARIABLES
    conn,    \* each client's connection: "none", "open", "broken" or, when
             \* the client has hung up, "over"
    wire,    \* the units each client sent that may still come back, in order
    sent,    \* how many units each client has sent
    got      \* how many each client has received

vars == <<conn, wire, sent, got>>

Init ==
    /\ conn = [c \in Clients |-> "none"]
    /\ wire = [c \in Clients |-> <<>>]
    /\ sent = [c \in Clients |-> 0] /\ got = [c \in Clients |-> 0]

Open(c) ==
    /\ conn[c] = "none"
    /\ conn' = [conn EXCEPT ![c] = "open"]
    /\ UNCHANGED <<wire, sent, got>>

\* The next k units of c: each is the number of units c sent before it.
Send(c, k) ==
    /\ conn[c] \in {"open", "broken"}
    /\ sent' = [sent EXCEPT ![c] = @ + k]
    /\ wire' = IF conn[c] = "open"
               THEN [wire EXCEPT ![c] = @ \o [i \in 1 .. k |-> [from |-> c, n |-> sent[c] + i - 1]]]
               ELSE wire
    /\ UNCHANGED <<conn, got>>

\* The client receives the first k units, which are the next it has sent.
Receive(c, k) ==
    /\ conn[c] \in {"open", "broken"}
    /\ \A i \in 1 .. k : wire[c][i] = [from |-> c, n |-> got[c] + i - 1]
    /\ wire' = [wire EXCEPT ![c] = Rest(@, k)]
    /\ got' = [got EXCEPT ![c] = @ + k]
    /\ UNCHANGED <<conn, sent>>

HangUp(c) ==
    /\ conn[c] \in {"none", "open", "broken"}
    /\ conn' = [conn EXCEPT ![c] = "over"]
    /\ wire' = [wire EXCEPT ![c] = <<>>]
    /\ UNCHANGED <<sent, got>>

\* The connections of S break; what comes back is a first part of the wire.
Break(S) ==
    /\ S # {} /\ \A c \in S : conn[c] = "open"
    /\ conn' = [c \in Clients |-> IF c \in S THEN "broken" ELSE conn[c]]
    /\ \A c \in Clients :
          /\ Len(wire'[c]) <= Len(wire[c])
          /\ wire'[c] = SubSeq(wire[c], 1, Len(wire'[c]))
          /\ c \notin S => wire'[c] = wire[c]
    /\ wire' = [c \in Clients |-> wire'[c]]
    /\ UNCHANGED <<sent, got>>

Next ==
    \/ \E c \in Clients :
          \/ Open(c) \/ HangUp(c)
          \/ \E k \in 1 .. MaxSend : Send(c, k)
          \/ \E k \in 1 .. Len(wire[c]) : Receive(c, k)
    \/ \E S \in SUBSET Clients : Break(S)

Spec == Init /\ [][Next]_vars
=============================================================================
