------------------------- MODULE EchoServerRefines -------------------------
(***************************************************************************)
(* The select server and both poll servers implement the echo service, for  *)
(* any number of clients and positions and any sizes of the buffers.        *)
(***************************************************************************)
EXTENDS EchoServerProofs

Same(c) == Conn(c)' = Conn(c) /\ Wire(c)' = Wire(c)

\* A step that changes nobody's connection is none of the service's.
LEMMA Stutters ==
    ASSUME \A c \in Clients : Same(c), UNCHANGED <<sent, got>>
    PROVE  UNCHANGED Service!vars
  BY DEF Same, Service!vars

\* One that changes c's changes the two functions at c.
LEMMA OnlyOne ==
    ASSUME NEW c \in Clients, \A x \in Clients : x # c => Same(x)
    PROVE  /\ [x \in Clients |-> Conn(x)]' = [[x \in Clients |-> Conn(x)] EXCEPT ![c] = Conn(c)']
           /\ [x \in Clients |-> Wire(x)]' = [[x \in Clients |-> Wire(x)] EXCEPT ![c] = Wire(c)']
  BY DEF Same

\* A connection with both ends as before and as much under way stays the same.
LEMMA KeptSame ==
    ASSUME NEW c \in Clients,
           (cend'[c] = cend[c]) \/ (cend[c] \in {"closed", "reset"} /\ cend'[c] \in {"closed", "reset"}),
           cend[c] = "open" => /\ sock'[c] = sock[c] /\ UnderWay(c)' = UnderWay(c)
                               /\ (sock[c] # "open" => down'[c] = down[c])
    PROVE  Same(c)
<1>1. Conn(c)' = Conn(c)
  BY DEF Conn
<1>2. CASE cend[c] = "open"
  <2>1. CASE sock[c] = "open"
    <3>1. Conn(c) = "open" /\ Conn(c)' = "open"
      BY <1>1, <1>2, <2>1 DEF Conn
    <3>2. QED
      BY <1>1, <1>2, <3>1 DEF Same, Wire
  <2>2. CASE sock[c] # "open"
    <3>1. Conn(c) = "broken" /\ Conn(c)' = "broken"
      BY <1>1, <1>2, <2>2 DEF Conn
    <3>2. QED
      BY <1>1, <1>2, <2>2, <3>1 DEF Same, Wire
  <2>3. QED
    BY <2>1, <2>2
<1>3. CASE cend[c] # "open"
  <2>1. Conn(c) \in {"none", "over"}
    BY <1>3 DEF Conn
  <2>2. QED
    BY <1>1, <2>1 DEF Same, Wire
<1>4. QED
  BY <1>2, <1>3

LEMMA InitRefines == Init => Service!Init
  BY DEF Init, Service!Init, Conn, Wire
-----------------------------------------------------------------------------
(* The clients. *)

LEMMA ConnectRefines ==
    ASSUME Inv, Inv', NEW c \in Clients, Connect(c)
    PROVE  Service!Next
<1>1. /\ cend[c] = "none" /\ cend'[c] = "open" /\ sock'[c] = "open"
      /\ sent[c] = 0 /\ got[c] = 0 /\ UNCHANGED <<pc, table, scan, buf, up, down, sent, got>>
      /\ \A x \in Clients : x # c => cend'[x] = cend[x] /\ sock'[x] = sock[x]
  BY DEF Connect, Inv, Places, Fresh, TypeOK, clients
<1>2. ASSUME NEW x \in Clients, x # c PROVE Same(x)
  <2>1. UnderWay(x)' = UnderWay(x)
    BY <1>1 DEF UnderWay, InServer
  <2>2. QED
    BY <1>1, <1>2, <2>1, KeptSame
<1>3. Conn(c) = "none" /\ Conn(c)' = "open" /\ Wire(c) = <<>>
  BY <1>1 DEF Conn, Wire
<1>4. Wire(c)' = <<>>
  <2>1. UnderWay(c)' = Due(c)'
    BY <1>1 DEF Inv, InOrder, AllDue
  <2>2. Due(c)' = UnitsOf(c, 0, 0)
    BY <1>1 DEF Due, UnitsOf
  <2>3. UnitsOf(c, 0, 0) = <<>>
    BY UnitsOfSeq, EmptySeq
  <2>4. QED
    BY <1>3, <2>1, <2>2, <2>3 DEF Wire
<1>5. Service!Open(c)
  <2>1. [x \in Clients |-> Wire(x)]' = [x \in Clients |-> Wire(x)]
    BY <1>2, <1>3, <1>4 DEF Same
  <2>2. [x \in Clients |-> Conn(x)]' = [[x \in Clients |-> Conn(x)] EXCEPT ![c] = "open"]
    BY <1>2, <1>3, OnlyOne
  <2>3. QED
    BY <1>1, <1>3, <2>1, <2>2 DEF Service!Open
<1>6. QED
  BY <1>5 DEF Service!Next

LEMMA SendRefines ==
    ASSUME Inv, NEW c \in Clients, Send(c)
    PROVE  Service!Next
<1> DEFINE x == [from |-> c, n |-> sent[c]]
<1>1. /\ cend[c] = "open" /\ sent' = [sent EXCEPT ![c] = @ + 1]
      /\ UNCHANGED <<pc, table, scan, buf, sock, cend, down, got>>
      /\ \A y \in Clients : y # c => up'[y] = up[y]
      /\ sock[c] # "open" => up' = up
  BY DEF Send, loop, Inv, TypeOK
<1>2. ASSUME NEW y \in Clients, y # c PROVE Same(y)
  <2>1. UnderWay(y)' = UnderWay(y)
    BY <1>1, <1>2 DEF UnderWay, InServer
  <2>2. QED
    BY <1>1, <2>1, KeptSame
<1>3. Conn(c) \in {"open", "broken"} /\ Conn(c)' = Conn(c) /\ (Conn(c) = "open" <=> sock[c] = "open")
  BY <1>1 DEF Conn
<1>4. [y \in Clients |-> Conn(y)]' = [y \in Clients |-> Conn(y)]
  BY <1>2, <1>3 DEF Same
<1>5. CASE sock[c] = "open"
  <2> DEFINE w == UnderWay(c)
             one == [i \in 1 .. 1 |-> [from |-> c, n |-> sent[c] + i - 1]]
  <2>1. Wire(c) = w /\ Wire(c)' = Append(w, x)
    BY <1>3, <1>5, SendAppends DEF Wire
  <2>2. w \in Seq(Unit) /\ x \in Unit /\ sent[c] \in Nat
    BY StreamsFacts DEF Inv, TypeOK, Unit
  <2>3. one = <<x>>
    <3>1. sent[c] + 1 - 1 = sent[c]
      BY <2>2
    <3>2. one = UnitsOf(c, sent[c], 1) /\ one[1] = x
      BY <3>1 DEF UnitsOf
    <3>3. one \in Seq(Unit) /\ Len(one) = 1
      BY <2>2, <3>2, UnitsOfSeq
    <3>4. QED
      BY <3>2, <3>3
  <2>4. Wire(c)' = w \o one
    <3> HIDE DEF w, x, one
    <3> QED
      BY <2>1, <2>2, <2>3, AppendIsConcat
  <2>5. [y \in Clients |-> Wire(y)]' = [[y \in Clients |-> Wire(y)] EXCEPT ![c] = @ \o one]
    BY <1>2, <2>1, <2>4, OnlyOne
  <2>6. Service!Send(c, 1)
    BY <1>1, <1>3, <1>4, <1>5, <2>5 DEF Service!Send
  <2>7. QED
    BY <2>6 DEF Service!Next
<1>6. CASE sock[c] # "open"
  <2>1. Wire(c)' = Wire(c)
    BY <1>1, <1>3, <1>6 DEF Wire
  <2>2. [y \in Clients |-> Wire(y)]' = [y \in Clients |-> Wire(y)]
    BY <1>2, <2>1 DEF Same
  <2>3. Service!Send(c, 1)
    BY <1>1, <1>3, <1>4, <1>6, <2>2 DEF Service!Send
  <2>4. QED
    BY <2>3 DEF Service!Next
<1>7. QED
  BY <1>5, <1>6

LEMMA ReceiveRefines ==
    ASSUME Inv, NEW c \in Clients, Receive(c)
    PROVE  Service!Next
<1>1. /\ cend[c] = "open" /\ down[c] # <<>> /\ got' = [got EXCEPT ![c] = @ + 1]
      /\ down'[c] = Tail(down[c]) /\ \A y \in Clients : y # c => down'[y] = down[y]
      /\ UNCHANGED <<pc, table, scan, buf, sock, cend, up, sent>>
  BY DEF Receive, loop, Inv, TypeOK
<1>2. ASSUME NEW y \in Clients, y # c PROVE Same(y)
  <2>1. UnderWay(y)' = UnderWay(y)
    BY <1>1, <1>2 DEF UnderWay, InServer
  <2>2. QED
    BY <1>1, <1>2, <2>1, KeptSame
<1>3. Conn(c) \in {"open", "broken"} /\ Conn(c)' = Conn(c) /\ (Conn(c) = "open" <=> sock[c] = "open")
  BY <1>1 DEF Conn
<1> DEFINE w == Wire(c)
<1>4. /\ w \in Seq(Unit) /\ w # <<>> /\ Wire(c)' = Tail(w)
      /\ w[1] = [from |-> c, n |-> got[c]]
  <2>1. CASE sock[c] = "open"
    <3>1. w = UnderWay(c) /\ Wire(c)' = UnderWay(c)'
      BY <1>3, <2>1 DEF Wire
    <3>2. UnderWay(c)' = Tail(UnderWay(c)) /\ UnderWay(c) # <<>> /\ UnderWay(c) \in Seq(Unit)
      BY ReceiveTakes, StreamsFacts DEF Inv
    <3>3. UnderWay(c) = UnitsOf(c, got[c], sent[c] - got[c])
      BY <1>1, <2>1, DueFacts DEF Inv, InOrder, AllDue
    <3>4. got[c] \in Nat /\ sent[c] - got[c] \in Nat
      BY DueFacts DEF Inv
    <3>5. sent[c] - got[c] # 0
      <4>1. Len(UnderWay(c)) = sent[c] - got[c]
        BY <3>3, <3>4, UnitsOfSeq, SMTT(20)
      <4>2. QED
        BY <3>2, <4>1, EmptySeq
    <3>6. UnderWay(c)[1] = [from |-> c, n |-> got[c] + 1 - 1]
      <4>1. \A k \in 1 .. sent[c] - got[c] :
                UnitsOf(c, got[c], sent[c] - got[c])[k] = [from |-> c, n |-> got[c] + k - 1]
        BY <3>4, UnitsOfSeq
      <4>2. 1 \in 1 .. sent[c] - got[c]
        BY <3>4, <3>5
      <4>3. QED
        BY <3>3, <4>1, <4>2
    <3>7. got[c] + 1 - 1 = got[c]
      BY <3>4
    <3>8. QED
      BY <3>1, <3>2, <3>6, <3>7
  <2>2. CASE sock[c] # "open"
    <3>1. w = down[c] /\ Wire(c)' = Tail(down[c])
      BY <1>1, <1>3, <2>2 DEF Wire
    <3>2. down[c] \in Seq(Unit) /\ got[c] \in Nat /\ Len(down[c]) \in Nat \ {0}
      BY <1>1, ClientTypes, EmptySeq DEF Inv
    <3>3. down[c][1] = [from |-> c, n |-> got[c] + 1 - 1]
      BY <1>1, <3>2 DEF Inv, InOrder, FirstDue
    <3>4. got[c] + 1 - 1 = got[c]
      BY <3>2
    <3>5. QED
      BY <1>1, <3>1, <3>2, <3>3, <3>4
  <2>3. QED
    BY <2>1, <2>2
<1>5. [y \in Clients |-> Conn(y)]' = [y \in Clients |-> Conn(y)]
  BY <1>2, <1>3 DEF Same
<1>6. Len(w) \in Nat \ {0} /\ Wire(c)' = Rest(w, 1)
  <2> HIDE DEF w
  <2>1. Tail(w) = SubSeq(w, 2, Len(w)) /\ Len(w) \in Nat \ {0}
    BY <1>4, TailIsSubSeq, EmptySeq
  <2>2. QED
    BY <1>4, <2>1 DEF Rest
<1>7. [y \in Clients |-> Wire(y)]' = [[y \in Clients |-> Wire(y)] EXCEPT ![c] = Rest(@, 1)]
  BY <1>2, <1>6, OnlyOne
<1>8. \A i \in 1 .. 1 : w[i] = [from |-> c, n |-> got[c] + i - 1]
  <2>1. got[c] + 1 - 1 = got[c]
    BY ClientTypes DEF Inv
  <2>2. QED
    BY <1>4, <2>1
<1>9. Service!Receive(c, 1)
  BY <1>1, <1>3, <1>5, <1>7, <1>8 DEF Service!Receive, Service!Rest, Rest
<1>10. 1 \in 1 .. Len([y \in Clients |-> Wire(y)][c])
  BY <1>6
<1>11. QED
  BY <1>9, <1>10 DEF Service!Next

LEMMA CloseRefines ==
    ASSUME Inv, NEW c \in Clients, Close(c)
    PROVE  Service!Next
<1>1. /\ cend[c] = "open" /\ cend'[c] \in {"closed", "reset"}
      /\ \A y \in Clients : y # c => cend'[y] = cend[y]
      /\ UNCHANGED <<pc, table, scan, buf, sock, up, down, sent, got>>
  BY DEF Close, Closed, loop, clients, Inv, TypeOK
<1>2. ASSUME NEW y \in Clients, y # c PROVE Same(y)
  <2>1. UnderWay(y)' = UnderWay(y)
    BY <1>1 DEF UnderWay, InServer
  <2>2. QED
    BY <1>1, <1>2, <2>1, KeptSame
<1>3. Conn(c) \in {"open", "broken"} /\ Conn(c)' = "over"
  BY <1>1 DEF Conn
<1>4. Wire(c)' = <<>>
  BY <1>3 DEF Wire
<1>5. Service!HangUp(c)
  BY <1>1, <1>2, <1>3, <1>4, OnlyOne DEF Service!HangUp
<1>6. QED
  BY <1>5 DEF Service!Next

-----------------------------------------------------------------------------
(* The server.  All it does is internal, but for closing connections. *)

LEMMA InternalRefines ==
    ASSUME Inv, Poll \/ EndScan \/ Accept \/ AcceptFails
    PROVE  UNCHANGED Service!vars
<1>1. /\ pc # "write" /\ pc' # "write" /\ UNCHANGED <<sock, cend, up, down, sent, got>>
  <2>1. ASSUME Accept \/ AcceptFails PROVE pc = "scan" /\ pc' = pc
    BY <2>1 DEF Accept, AcceptFails, At
  <2>2. QED
    BY <2>1 DEF Poll, EndScan, Accept, AcceptFails, clients
<1>2. ASSUME NEW c \in Clients PROVE Same(c)
  BY <1>1, KeptSame DEF UnderWay, InServer
<1>3. QED
  BY <1>1, <1>2, Stutters

LEMMA ReadRefines ==
    ASSUME Inv, NEW i \in Positions, Read(i)
    PROVE  UNCHANGED Service!vars
<1> PICK c \in Clients : c = table[i]
  BY AtFacts DEF Read
<1>1. UNCHANGED <<sock, cend, down, sent, got>>
  BY DEF Read, clients
<1>2. ASSUME NEW x \in Clients PROVE Same(x)
  BY <1>1, ReadMoves, KeptSame
<1>3. QED
  BY <1>1, <1>2, Stutters

LEMMA DropRefines ==
    ASSUME Inv, NEW i \in Positions, Drop(i)
    PROVE  UNCHANGED Service!vars
<1> PICK c \in Clients : c = table[i]
  BY AtFacts DEF Drop
<1>1. /\ pc = "scan" /\ pc' = pc /\ cend[c] \in {"closed", "reset"}
      /\ \A x \in Clients : x # c => sock'[x] = sock[x]
      /\ UNCHANGED <<cend, up, down, sent, got>>
  BY DEF Drop, At, Lost, clients, Inv, TypeOK
<1>2. ASSUME NEW x \in Clients PROVE Same(x)
  <2>1. UnderWay(x)' = UnderWay(x)
    BY <1>1 DEF UnderWay, InServer
  <2>2. QED
    BY <1>1, <2>1, KeptSame
<1>3. QED
  BY <1>1, <1>2, Stutters

LEMMA WriteRefines ==
    ASSUME Inv, Write
    PROVE  UNCHANGED Service!vars
<1>1. UNCHANGED <<sock, cend, sent, got>> /\ pc = "write"
  BY DEF Write, clients
<1>2. sock[table[scan]] = "open" /\ \A x \in Clients : x # table[scan] => down'[x] = down[x]
  BY <1>1, WriteFacts DEF Write, Inv, TypeOK
<1>3. ASSUME NEW x \in Clients PROVE Same(x)
  BY <1>1, <1>2, WriteMoves, KeptSame
<1>4. QED
  BY <1>1, <1>3, Stutters

LEMMA WriteLostRefines ==
    ASSUME Inv, WriteToClosed \/ WriteFails
    PROVE  UNCHANGED Service!vars
<1>1. pc = "write"
  BY DEF WriteToClosed, WriteFails
<1> PICK c \in Clients : c = table[scan]
  BY <1>1, WriteFacts
<1>2. /\ pc' = "scan" /\ cend[c] \in {"closed", "reset"} /\ cend'[c] = "reset"
      /\ \A x \in Clients : x # c => cend'[x] = cend[x]
      /\ UNCHANGED <<sock, up, down, sent, got>>
  BY DEF WriteToClosed, WriteFails, clients, Inv, TypeOK
<1>3. ASSUME NEW x \in Clients PROVE Same(x)
  <2>1. x # c => UnderWay(x)' = UnderWay(x)
    BY <1>1, <1>2, WriteFacts DEF UnderWay, InServer
  <2>2. QED
    BY <1>2, <2>1, KeptSame
<1>4. QED
  BY <1>2, <1>3, Stutters

\* What is in the socket buffer is a first part of what is under way.
LEMMA FirstPart ==
    ASSUME NEW d \in Seq(Unit), NEW b \in Seq(Unit), NEW u \in Seq(Unit)
    PROVE  Len(d) <= Len(d \o b \o u) /\ d = SubSeq(d \o b \o u, 1, Len(d))
<1> DEFINE w == d \o b \o u
           f == SubSeq(w, 1, Len(d))
<1>1. Len(d) \in Nat /\ Len(b) \in Nat /\ Len(u) \in Nat
  BY LenProperties
<1>2. /\ d \o b \in Seq(Unit) /\ Len(d \o b) = Len(d) + Len(b)
      /\ \A k \in 1 .. Len(d) : (d \o b)[k] = d[k]
  BY <1>1, ConcatProperties
<1>3. /\ w \in Seq(Unit) /\ Len(w) = Len(d) + Len(b) + Len(u)
      /\ \A k \in 1 .. Len(d) : w[k] = (d \o b)[k]
  BY <1>1, <1>2, ConcatProperties
<1> HIDE DEF w
<1>4. \A k \in 1 .. Len(d) : w[k] = d[k] /\ w[k] \in Unit
  BY <1>2, <1>3, ElementOfSeq
<1>5. f \in Seq(Unit) /\ Len(f) = Len(d) /\ \A k \in 1 .. Len(d) : f[k] = w[k]
  BY <1>1, <1>4, SubSeqProperties
<1> HIDE DEF f
<1>6. f = d
  BY <1>4, <1>5, SeqEqual
<1>7. QED
  BY <1>1, <1>3, <1>6 DEF w, f

\* The server closes the connections of S.
LEMMA BreakRefines ==
    ASSUME Inv, NEW S \in SUBSET Clients, UNCHANGED <<cend, down, sent, got>>,
           \A c \in S : cend[c] = "open" /\ sock[c] = "open" /\ sock'[c] # "open",
           \A c \in Clients : c \notin S => Same(c)
    PROVE  Service!Next \/ UNCHANGED Service!vars
<1>1. \A c \in S : Conn(c) = "open" /\ Conn(c)' = "broken"
  BY DEF Conn
<1>2. \A c \in S : Wire(c) = UnderWay(c) /\ Wire(c)' = down[c]
  BY <1>1 DEF Wire
<1>3. CASE S = {}
  BY <1>3, Stutters
<1>4. CASE S # {}
  <2> DEFINE w == [c \in Clients |-> Wire(c)]
             wNext == [c \in Clients |-> Wire(c)']
  <2>1. \A c \in Clients : /\ Len(wNext[c]) <= Len(w[c])
                           /\ wNext[c] = SubSeq(w[c], 1, Len(wNext[c]))
                           /\ c \notin S => wNext[c] = w[c]
    <3> SUFFICES ASSUME NEW c \in Clients
                 PROVE  /\ Len(Wire(c)') <= Len(Wire(c))
                        /\ Wire(c)' = SubSeq(Wire(c), 1, Len(Wire(c)'))
                        /\ c \notin S => Wire(c)' = Wire(c)
      OBVIOUS
    <3>1. down[c] \in Seq(Unit) /\ InServer(c) \in Seq(Unit) /\ up[c] \in Seq(Unit) /\ UnderWay(c) \in Seq(Unit)
      BY StreamsFacts DEF Inv
    <3>2. CASE c \in S
      <4> DEFINE d == down[c]
                 b == InServer(c)
                 u == up[c]
      <4>1. Wire(c) = d \o b \o u /\ Wire(c)' = d
        BY <1>2, <3>2 DEF UnderWay
      <4>2. d \in Seq(Unit) /\ b \in Seq(Unit) /\ u \in Seq(Unit)
        BY <3>1
      <4> HIDE DEF d, b, u
      <4>3. QED
        BY <3>2, <4>1, <4>2, FirstPart
    <3>3. CASE c \notin S
      <4>1. Wire(c)' = Wire(c)
        BY <3>3 DEF Same
      <4>2. Wire(c) \in Seq(Unit)
        BY <3>1, EmptySeq DEF Wire
      <4> DEFINE v == Wire(c)
      <4>3. Len(v) \in Nat /\ v = SubSeq(v, 1, Len(v))
        <5> HIDE DEF v
        <5>1. v \in Seq(Unit)
          BY <4>2 DEF v
        <5>2. QED
          BY <5>1, SubSeqFull, LenProperties
      <4>4. QED
        BY <4>1, <4>3
    <3>4. QED
      BY <3>2, <3>3
  <2>2. [c \in Clients |-> Conn(c)]' =
            [c \in Clients |-> IF c \in S THEN "broken" ELSE [x \in Clients |-> Conn(x)][c]]
    BY <1>1 DEF Same
  <2>3. \A c \in S : [x \in Clients |-> Conn(x)][c] = "open"
    BY <1>1
  <2>4. [c \in Clients |-> Wire(c)]' = wNext
    OBVIOUS
  <2>5. Service!Break(S)
    BY <1>4, <2>1, <2>2, <2>3, <2>4 DEF Service!Break
  <2>6. QED
    BY <2>5 DEF Service!Next
<1>5. QED
  BY <1>3, <1>4

LEMMA EndsRefines ==
    ASSUME Inv, Ends
    PROVE  Service!Next \/ UNCHANGED Service!vars
<1> DEFINE S == {c \in Clients : cend[c] = "open" /\ sock[c] = "open"}
<1>1. /\ UNCHANGED <<cend, up, down, sent, got>>
      /\ \A c \in Clients : IF sock[c] = "open" THEN sock'[c] = "closed" ELSE sock'[c] = sock[c]
  BY DEF Ends, clients
<1>2. ASSUME NEW c \in Clients, c \notin S PROVE Same(c)
  <2>1. CASE cend[c] = "open"
    BY <1>1, <1>2, <2>1 DEF Same, Conn, Wire
  <2>2. CASE cend[c] # "open"
    BY <1>1, <2>2, KeptSame
  <2>3. QED
    BY <2>1, <2>2
<1>3. \A c \in S : cend[c] = "open" /\ sock[c] = "open" /\ sock'[c] # "open"
  BY <1>1
<1> HIDE DEF S
<1>4. S \in SUBSET Clients
  BY DEF S
<1>5. QED
  BY <1>1, <1>2, <1>3, <1>4, BreakRefines

LEMMA AcceptNoRoomRefines ==
    ASSUME Inv, AcceptNoRoom
    PROVE  Service!Next \/ UNCHANGED Service!vars
<1>1. pc = "scan" /\ backlog # <<>>
  BY AtFacts, SlotsAssumption DEF AcceptNoRoom, Positions
<1> PICK c \in Clients : c = Head(backlog)
  BY <1>1, HeadTailProperties DEF Inv, TypeOK
<1>2. /\ pc' = pc /\ UNCHANGED <<cend, up, down, sent, got>>
      /\ \A x \in Clients : x # c => sock'[x] = sock[x]
      /\ sock'[c] \in {sock[c], "closed"}
  BY DEF AcceptNoRoom, clients, Inv, TypeOK
<1>3. ASSUME NEW x \in Clients, x # c \/ cend[x] # "open" \/ sock'[x] = sock[x] PROVE Same(x)
  <2>1. UnderWay(x)' = UnderWay(x)
    BY <1>1, <1>2 DEF UnderWay, InServer
  <2>2. QED
    BY <1>2, <1>3, <2>1, KeptSame
<1>4. CASE cend[c] = "open" /\ sock[c] = "open" /\ sock'[c] # "open"
  <2> DEFINE S == {c}
  <2>1. /\ S \in SUBSET Clients
        /\ \A x \in S : cend[x] = "open" /\ sock[x] = "open" /\ sock'[x] # "open"
        /\ \A x \in Clients : x \notin S => Same(x)
    BY <1>3, <1>4
  <2> HIDE DEF S
  <2>2. QED
    BY <1>2, <2>1, BreakRefines
<1>5. CASE cend[c] # "open" \/ sock'[c] = sock[c]
  BY <1>2, <1>3, <1>5, Stutters
<1>6. CASE cend[c] = "open" /\ sock[c] # "open" /\ sock'[c] # sock[c]
  <2>1. Conn(c) = "broken" /\ Conn(c)' = "broken"
    BY <1>2, <1>6 DEF Conn
  <2>2. Same(c)
    BY <1>2, <2>1 DEF Same, Wire
  <2>3. QED
    BY <1>2, <1>3, <2>2, Stutters
<1>7. QED
  BY <1>2, <1>4, <1>5, <1>6

LEMMA StepRefines == Inv /\ Inv' /\ [Next]_vars => [Service!Next]_(Service!vars)
<1> SUFFICES ASSUME Inv, Inv', [Next]_vars PROVE Service!Next \/ UNCHANGED Service!vars
  OBVIOUS
<1>1. CASE UNCHANGED vars
  <2>1. UNCHANGED <<pc, table, scan, buf, sock, cend, up, down, sent, got>>
    BY <1>1 DEF vars, loop, clients
  <2>2. ASSUME NEW c \in Clients PROVE Same(c)
    BY <2>1 DEF Same, Conn, Wire, UnderWay, InServer
  <2>3. QED
    BY <2>1, <2>2, Stutters
<1>2. CASE \E c \in Clients : Connect(c) \/ Send(c) \/ Receive(c) \/ Close(c)
  BY <1>2, ConnectRefines, SendRefines, ReceiveRefines, CloseRefines
<1>3. CASE Poll \/ EndScan \/ Accept \/ AcceptFails
  BY <1>3, InternalRefines
<1>4. CASE \E i \in Positions : Read(i) \/ Drop(i)
  BY <1>4, ReadRefines, DropRefines
<1>5. CASE Write \/ WriteToClosed \/ WriteFails
  BY <1>5, WriteRefines, WriteLostRefines
<1>6. CASE AcceptNoRoom \/ PollFails \/ Killed
  BY <1>6, AcceptNoRoomRefines, EndsRefines DEF PollFails, Killed
<1>7. QED
  BY <1>1, <1>2, <1>3, <1>4, <1>5, <1>6 DEF Next, Server

\* The three servers implement the echo service: what a client is sent is a
\* first part of what it sent, in order, however the others interfere, whatever
\* fails and whenever the server ends.
THEOREM ImplementsHolds == Spec => Implements
<1>1. Init => Service!Init
  BY InitRefines
<1>2. Inv /\ Inv' /\ [Next]_vars => [Service!Next]_(Service!vars)
  BY StepRefines
<1>3. QED
  BY <1>1, <1>2, Invariance, PTL DEF Spec, Implements, Service!Spec
=============================================================================
