-------------------------- MODULE EchoServerProofs --------------------------
(***************************************************************************)
(* What the runs check of EchoServer for three clients and two slots,      *)
(* proved for any number of both and any sizes of the buffers.             *)
(***************************************************************************)
EXTENDS EchoServer, FiniteSetTheorems, SequenceTheorems, TLAPS

\* The listening socket is at position 0 and nobody is at two positions; the
\* range that is scanned covers all that are taken.
Seats ==
    /\ table[0] = Listening
    /\ \A i \in 1 .. Slots : table[i] # Listening /\ (table[i] # Free => i <= last)
    /\ \A i, j \in Positions : table[i] = table[j] /\ table[i] # Free => i = j

\* Nobody is twice in the queue, or there and at a position.
Queue ==
    /\ \A k, l \in 1 .. Len(backlog) : backlog[k] = backlog[l] => k = l
    /\ \A k \in 1 .. Len(backlog), i \in Positions : table[i] # backlog[k]

Queued(c) == \E k \in 1 .. Len(backlog) : backlog[k] = c
Seated(c) == \E i \in Positions : table[i] = c

\* The server's end is open while it is queued or has a position, and no longer
\* unless it was forgotten.
Held ==
    \A c \in Clients :
       /\ pc # "dead" /\ (Queued(c) \/ Seated(c)) => sock[c] = "open"
       /\ sock[c] = "open" => Queued(c) \/ Seated(c) \/ server = "poll_252e04f"
       /\ sock[c] = "open" => pc # "dead"

\* A client that has not yet connected.
Fresh ==
    \A c \in Clients : cend[c] = "none" =>
        /\ sock[c] = "none" /\ ~Queued(c) /\ ~Seated(c)
        /\ sent[c] = 0 /\ got[c] = 0 /\ up[c] = <<>> /\ down[c] = <<>>

\* All that the scan has not yet reached is still ready.
StillReady == pc \in {"scan", "write"} =>
    \A i \in ready : i >= scan => (i = scan /\ pc = "write") \/ Readable(i)
Writing == pc = "write" => scan \in 1 .. Slots /\ table[scan] \in Clients

\* What a client can still receive is the first part of what is due to it,
\* also on a connection that the server has closed.
FirstDue(c) ==
    cend[c] = "open" =>
        /\ Len(down[c]) <= sent[c] - got[c]
        /\ \A k \in 1 .. Len(down[c]) : down[c][k] = [from |-> c, n |-> got[c] + k - 1]
AllDue(c) == cend[c] = "open" /\ sock[c] = "open" => UnderWay(c) = Due(c)
InOrder == \A c \in Clients : AllDue(c) /\ FirstDue(c)

Places == Seats /\ Queue /\ Held /\ Fresh
Inv == TypeOK /\ Places /\ StillReady /\ Writing /\ InOrder

-----------------------------------------------------------------------------
(* Sequences. *)

\* What is sent comes last, ...
LEMMA SendLast ==
    ASSUME NEW d \in Seq(Unit), NEW b \in Seq(Unit), NEW u \in Seq(Unit), NEW x \in Unit
    PROVE  d \o b \o Append(u, x) = Append(d \o b \o u, x)
<1>1. Append(u, x) = u \o <<x>> /\ <<x>> \in Seq(Unit)
  BY AppendIsConcat
<1>2. d \o b \in Seq(Unit) /\ d \o b \o u \in Seq(Unit)
  BY ConcatProperties
<1>3. Append(d \o b \o u, x) = (d \o b \o u) \o <<x>>
  BY <1>2, AppendIsConcat
<1>4. QED
  BY <1>1, <1>2, <1>3, ConcatAssociative

\* ... what is received came first, ...
LEMMA ReceiveFirst ==
    ASSUME NEW d \in Seq(Unit), NEW b \in Seq(Unit), NEW u \in Seq(Unit), d # <<>>
    PROVE  Tail(d) \o b \o u = Tail(d \o b \o u)
<1> DEFINE s == Tail(d) \o b \o u
           t == Tail(d \o b \o u)
<1>1. Tail(d) \in Seq(Unit) /\ Len(Tail(d)) = Len(d) - 1 /\ Len(d) > 0
      /\ \A i \in 1 .. Len(d) - 1 : Tail(d)[i] = d[i + 1]
  BY HeadTailProperties, LenProperties, EmptySeq
<1>2. /\ Tail(d) \o b \in Seq(Unit) /\ d \o b \in Seq(Unit)
      /\ Len(Tail(d) \o b) = Len(d) - 1 + Len(b) /\ Len(d \o b) = Len(d) + Len(b)
      /\ \A i \in 1 .. Len(d) - 1 + Len(b) :
            (Tail(d) \o b)[i] = IF i <= Len(d) - 1 THEN Tail(d)[i] ELSE b[i - (Len(d) - 1)]
      /\ \A i \in 1 .. Len(d) + Len(b) : (d \o b)[i] = IF i <= Len(d) THEN d[i] ELSE b[i - Len(d)]
  BY <1>1, ConcatProperties
<1>3. Len(d) \in Nat /\ Len(b) \in Nat /\ Len(u) \in Nat
  BY LenProperties
<1>4. \A i \in 1 .. Len(d) - 1 + Len(b) : (Tail(d) \o b)[i] = (d \o b)[i + 1]
  BY <1>1, <1>2, <1>3
<1>5. /\ s \in Seq(Unit) /\ Len(s) = Len(d) - 1 + Len(b) + Len(u)
      /\ \A i \in 1 .. Len(d) - 1 + Len(b) + Len(u) :
            s[i] = IF i <= Len(d) - 1 + Len(b) THEN (Tail(d) \o b)[i] ELSE u[i - (Len(d) - 1 + Len(b))]
  BY <1>2, <1>3, ConcatProperties
<1>6. /\ d \o b \o u \in Seq(Unit) /\ Len(d \o b \o u) = Len(d) + Len(b) + Len(u)
      /\ \A i \in 1 .. Len(d) + Len(b) + Len(u) :
            (d \o b \o u)[i] = IF i <= Len(d) + Len(b) THEN (d \o b)[i] ELSE u[i - (Len(d) + Len(b))]
  BY <1>2, <1>3, ConcatProperties
<1>7. /\ t \in Seq(Unit) /\ Len(t) = Len(d) + Len(b) + Len(u) - 1
      /\ \A i \in 1 .. Len(t) : t[i] = (d \o b \o u)[i + 1]
  BY <1>1, <1>3, <1>6, HeadTailProperties, EmptySeq
<1>8. \A i \in 1 .. Len(s) : s[i] = t[i]
  BY <1>1, <1>3, <1>4, <1>5, <1>6, <1>7
<1> HIDE DEF s, t
<1>9. s = t
  BY <1>3, <1>5, <1>7, <1>8, SeqEqual
<1>10. QED
  BY <1>9 DEF s, t

\* ... and moving units along changes nothing.
LEMMA MoveUp ==
    ASSUME NEW u \in Seq(Unit), NEW need \in Nat, NEW k \in Receivable(u, need)
    PROVE  /\ SubSeq(u, 1, k) \in Seq(Unit) /\ Len(SubSeq(u, 1, k)) = k /\ k \in 1 .. need
           /\ Rest(u, k) \in Seq(Unit) /\ Len(Rest(u, k)) = Len(u) - k
           /\ SubSeq(u, 1, k) \o Rest(u, k) = u
<1>1. Len(u) \in Nat /\ k \in 1 .. Len(u) /\ k \in 1 .. need
  BY LenProperties DEF Receivable
<1>2. \A i \in 1 .. Len(u) : u[i] \in Unit
  BY ElementOfSeq
<1>3. SubSeq(u, 1, k) \in Seq(Unit) /\ Len(SubSeq(u, 1, k)) = k
  BY <1>1, <1>2, SubSeqProperties
<1>4. SubSeq(u, k + 1, Len(u)) \in Seq(Unit) /\ Len(SubSeq(u, k + 1, Len(u))) = Len(u) - k
  BY <1>1, <1>2, SubSeqProperties
<1>5. SubSeq(u, 1, k) \o SubSeq(u, k + 1, Len(u)) = u
  <2>1. 1 \in 1 .. Len(u) + 1 /\ k \in 1 - 1 .. Len(u) /\ Len(u) \in k .. Len(u)
    BY <1>1
  <2>2. SubSeq(u, 1, k) \o SubSeq(u, k + 1, Len(u)) = SubSeq(u, 1, Len(u))
    BY <2>1, ConcatAdjacentSubSeq
  <2>3. QED
    BY <2>2, SubSeqFull
<1>6. QED
  BY <1>1, <1>3, <1>4, <1>5 DEF Rest

LEMMA MoveDown ==
    ASSUME NEW d \in Seq(Unit), NEW b \in Seq(Unit), b # <<>>
    PROVE  Append(d, Head(b)) \o Tail(b) = d \o b
<1>1. Head(b) \in Unit /\ Tail(b) \in Seq(Unit)
  BY HeadTailProperties
<1>2. <<Head(b)>> \o Tail(b) = b
  <2>1. Len(b) \in Nat /\ Len(b) # 0
    BY EmptySeq
  <2>2. b = SubSeq(b, 1, Len(b)) /\ Tail(b) = SubSeq(b, 2, Len(b)) /\ Head(b) = b[1]
    BY SubSeqFull, TailIsSubSeq
  <2>3. SubSeq(b, 1, Len(b)) = <<b[1]>> \o SubSeq(b, 1 + 1, Len(b))
    BY <2>1, SubSeqRecursiveFirst
  <2>4. QED
    BY <2>2, <2>3
<1>3. Append(d, Head(b)) = d \o <<Head(b)>> /\ <<Head(b)>> \in Seq(Unit)
  BY <1>1, AppendIsConcat
<1>4. QED
  BY <1>1, <1>2, <1>3, ConcatAssociative

\* What is due grows at its end and shrinks at its beginning.
UnitsOf(c, g, n) == [k \in 1 .. n |-> [from |-> c, n |-> g + k - 1]]

LEMMA UnitsOfSeq ==
    ASSUME NEW c \in Clients, NEW g \in Nat, NEW n \in Nat
    PROVE  /\ UnitsOf(c, g, n) \in Seq(Unit) /\ Len(UnitsOf(c, g, n)) = n
           /\ \A k \in 1 .. n : UnitsOf(c, g, n)[k] = [from |-> c, n |-> g + k - 1]
<1>1. \A k \in 1 .. n : [from |-> c, n |-> g + k - 1] \in Unit
  BY DEF Unit
<1>2. UnitsOf(c, g, n) \in [1 .. n -> Unit]
  BY <1>1 DEF UnitsOf
<1>3. \A k \in 1 .. n : UnitsOf(c, g, n)[k] = [from |-> c, n |-> g + k - 1]
  BY DEF UnitsOf
<1> HIDE DEF UnitsOf
<1>4. UnitsOf(c, g, n) \in Seq(Unit)
  BY <1>2, SeqDef
<1>5. DOMAIN UnitsOf(c, g, n) = 1 .. n
  BY <1>2
<1>6. Len(UnitsOf(c, g, n)) = n
  BY <1>4, <1>5, LenProperties
<1>7. QED
  BY <1>3, <1>4, <1>6

LEMMA UnitsOfGrow ==
    ASSUME NEW c \in Clients, NEW g \in Nat, NEW n \in Nat
    PROVE  Append(UnitsOf(c, g, n), [from |-> c, n |-> g + n]) = UnitsOf(c, g, n + 1)
<1> DEFINE x == [from |-> c, n |-> g + n]
           s == Append(UnitsOf(c, g, n), x)
<1>1. x \in Unit
  BY DEF Unit
<1>2. UnitsOf(c, g, n) \in Seq(Unit) /\ Len(UnitsOf(c, g, n)) = n
  BY UnitsOfSeq
<1> HIDE DEF x
<1>3. /\ s \in Seq(Unit) /\ Len(s) = n + 1 /\ s[n + 1] = x
      /\ \A k \in 1 .. n : s[k] = UnitsOf(c, g, n)[k]
  BY <1>1, <1>2, AppendProperties
<1> HIDE DEF s
<1>4. \A k \in 1 .. n + 1 : UnitsOf(c, g, n + 1)[k] = [from |-> c, n |-> g + k - 1]
  BY UnitsOfSeq
<1>5. \A k \in 1 .. n : UnitsOf(c, g, n)[k] = [from |-> c, n |-> g + k - 1]
  BY UnitsOfSeq
<1>6. \A k \in 1 .. n + 1 : s[k] = UnitsOf(c, g, n + 1)[k]
  <2>1. UnitsOf(c, g, n + 1)[n + 1] = [from |-> c, n |-> g + (n + 1) - 1]
    BY <1>4
  <2>2. g + (n + 1) - 1 = g + n
    OBVIOUS
  <2>3. s[n + 1] = UnitsOf(c, g, n + 1)[n + 1]
    BY <1>3, <2>1, <2>2 DEF x
  <2>4. \A k \in 1 .. n : s[k] = UnitsOf(c, g, n + 1)[k]
    <3> TAKE k \in 1 .. n
    <3>1. k \in 1 .. n + 1
      OBVIOUS
    <3>2. UnitsOf(c, g, n + 1)[k] = [from |-> c, n |-> g + k - 1]
      BY <1>4, <3>1
    <3>3. UnitsOf(c, g, n)[k] = [from |-> c, n |-> g + k - 1]
      BY <1>5
    <3>4. QED
      BY <1>3, <3>2, <3>3
  <2>5. QED
    BY <2>3, <2>4
<1>7. UnitsOf(c, g, n + 1) \in Seq(Unit) /\ Len(UnitsOf(c, g, n + 1)) = n + 1
  BY UnitsOfSeq
<1>8. s = UnitsOf(c, g, n + 1)
  BY <1>3, <1>6, <1>7, SeqEqual
<1>9. QED
  BY <1>8 DEF s, x

LEMMA UnitsOfShrink ==
    ASSUME NEW c \in Clients, NEW g \in Nat, NEW n \in Nat \ {0}
    PROVE  Tail(UnitsOf(c, g, n)) = UnitsOf(c, g + 1, n - 1)
<1> DEFINE s == Tail(UnitsOf(c, g, n))
<1>1. /\ UnitsOf(c, g, n) \in Seq(Unit) /\ Len(UnitsOf(c, g, n)) = n
      /\ UnitsOf(c, g, n) # <<>>
  BY UnitsOfSeq, EmptySeq
<1>2. /\ s \in Seq(Unit) /\ Len(s) = n - 1
      /\ \A k \in 1 .. n - 1 : s[k] = UnitsOf(c, g, n)[k + 1]
  BY <1>1, HeadTailProperties
<1> HIDE DEF s
<1>3. \A k \in 1 .. n - 1 : s[k] = [from |-> c, n |-> g + 1 + k - 1]
  <2>1. \A k \in 1 .. n : UnitsOf(c, g, n)[k] = [from |-> c, n |-> g + k - 1]
    BY UnitsOfSeq
  <2>2. QED
    BY <1>2, <2>1
<1>4. /\ UnitsOf(c, g + 1, n - 1) \in Seq(Unit) /\ Len(UnitsOf(c, g + 1, n - 1)) = n - 1
      /\ \A k \in 1 .. n - 1 : UnitsOf(c, g + 1, n - 1)[k] = [from |-> c, n |-> g + 1 + k - 1]
  BY UnitsOfSeq, SMTT(20)
<1>5. s = UnitsOf(c, g + 1, n - 1)
  BY <1>2, <1>3, <1>4, SeqEqual
<1>6. QED
  BY <1>5 DEF s

\* An open connection that has everything in order has its first part so.
LEMMA OrderGivesFirst ==
    ASSUME NEW c \in Clients, NEW g \in Nat, NEW n \in Nat,
           NEW d \in Seq(Unit), NEW b \in Seq(Unit), NEW u \in Seq(Unit),
           d \o b \o u = UnitsOf(c, g, n)
    PROVE  Len(d) <= n /\ \A k \in 1 .. Len(d) : d[k] = [from |-> c, n |-> g + k - 1]
<1>1. Len(d) \in Nat /\ Len(b) \in Nat /\ Len(u) \in Nat
  BY LenProperties
<1>2. /\ d \o b \in Seq(Unit) /\ Len(d \o b) = Len(d) + Len(b)
      /\ \A k \in 1 .. Len(d) : (d \o b)[k] = d[k]
  BY <1>1, ConcatProperties
<1>3. /\ Len(d \o b \o u) = Len(d) + Len(b) + Len(u)
      /\ \A k \in 1 .. Len(d) : (d \o b \o u)[k] = (d \o b)[k]
  BY <1>1, <1>2, ConcatProperties
<1>4. Len(d) <= n
  BY <1>1, <1>3, UnitsOfSeq
<1>5. \A k \in 1 .. n : UnitsOf(c, g, n)[k] = [from |-> c, n |-> g + k - 1]
  BY UnitsOfSeq
<1>6. \A k \in 1 .. Len(d) : d[k] = UnitsOf(c, g, n)[k]
  BY <1>2, <1>3
<1>7. QED
  BY <1>1, <1>4, <1>5, <1>6

-----------------------------------------------------------------------------
(* One connection. *)

LEMMA ClientTypes ==
    ASSUME TypeOK, NEW c \in Clients
    PROVE  /\ up[c] \in Seq(Unit) /\ Len(up[c]) \in Nat /\ Len(up[c]) <= SockBuf
           /\ down[c] \in Seq(Unit) /\ Len(down[c]) \in Nat /\ Len(down[c]) <= SockBuf
           /\ sent[c] \in Nat /\ got[c] \in Nat /\ got[c] <= sent[c] /\ sent[c] <= MaxSend[c]
           /\ SockBuf \in Nat \ {0} /\ MaxSend[c] \in Nat
<1>1. up[c] \in Seq(Unit) /\ down[c] \in Seq(Unit)
  BY DEF TypeOK
<1>2. Len(up[c]) \in Nat /\ Len(down[c]) \in Nat
  BY <1>1, LenProperties
<1>3. QED
  BY <1>1, <1>2, SlotsAssumption DEF TypeOK

LEMMA DueFacts ==
    ASSUME TypeOK, NEW c \in Clients
    PROVE  /\ sent[c] \in Nat /\ got[c] \in Nat /\ sent[c] - got[c] \in Nat
           /\ Due(c) = UnitsOf(c, got[c], sent[c] - got[c])
  BY DEF TypeOK, Due, UnitsOf

LEMMA StreamsFacts ==
    ASSUME TypeOK, Writing, NEW c \in Clients
    PROVE  /\ up[c] \in Seq(Unit) /\ down[c] \in Seq(Unit) /\ buf \in Seq(Unit)
           /\ InServer(c) \in Seq(Unit)
           /\ UnderWay(c) \in Seq(Unit)
<1>1. up[c] \in Seq(Unit) /\ down[c] \in Seq(Unit) /\ buf \in Seq(Unit)
  BY DEF TypeOK
<1>2. InServer(c) \in Seq(Unit)
  BY <1>1, EmptySeq DEF InServer
<1>3. UnderWay(c) \in Seq(Unit)
  BY <1>1, <1>2, ConcatProperties DEF UnderWay
<1>4. QED
  BY <1>1, <1>2, <1>3

\* A step that does not touch what is under way on c keeps it in order.
LEMMA KeptInOrder ==
    ASSUME NEW c \in Clients, AllDue(c) /\ FirstDue(c),
           cend'[c] = "open" => cend[c] = "open", sock'[c] = "open" => sock[c] = "open",
           down'[c] = down[c], sent'[c] = sent[c], got'[c] = got[c],
           sock'[c] = "open" /\ cend'[c] = "open" => UnderWay(c)' = UnderWay(c)
    PROVE  AllDue(c)' /\ FirstDue(c)'
<1>1. Due(c)' = Due(c)
  BY DEF Due
<1>2. AllDue(c)'
  BY <1>1 DEF AllDue
<1>3. FirstDue(c)'
  BY DEF FirstDue
<1>4. QED
  BY <1>2, <1>3

-----------------------------------------------------------------------------
(* The initial state and the clients. *)

LEMMA InitInv == Init => Inv
<1> SUFFICES ASSUME Init PROVE Inv
  OBVIOUS
<1>1. <<>> \in Seq(Unit) /\ <<>> \in Seq(Clients) /\ Len(<<>>) = 0
  BY EmptySeq
<1>2. TypeOK
  BY <1>1, SlotsAssumption, ServersAssumption DEF Init, TypeOK, Positions, Nothing
<1>3. Places
  BY <1>1, SlotsAssumption DEF Init, Places, Seats, Queue, Held, Fresh, Queued, Seated, Positions, Nothing
<1>4. StillReady /\ Writing /\ InOrder
  BY DEF Init, StillReady, Writing, InOrder, AllDue, FirstDue
<1>5. QED
  BY <1>2, <1>3, <1>4 DEF Inv

LEMMA ConnectInv ==
    ASSUME Inv, NEW c \in Clients, Connect(c)
    PROVE  Inv'
<1>1. /\ cend[c] = "none" /\ sock[c] = "none" /\ ~Queued(c) /\ ~Seated(c) /\ pc # "dead"
      /\ sent[c] = 0 /\ got[c] = 0 /\ up[c] = <<>> /\ down[c] = <<>>
  BY DEF Connect, Inv, Places, Fresh
<1>2. /\ \A x \in Clients : x # c => cend'[x] = cend[x] /\ sock'[x] = sock[x]
      /\ cend'[c] = "open" /\ sock'[c] = "open" /\ backlog' = Append(backlog, c)
      /\ UNCHANGED <<server, pc, table, last, ready, scan, buf, up, down, sent, got>>
  BY DEF Connect, Inv, TypeOK, clients
<1>3. /\ backlog' \in Seq(Clients) /\ Len(backlog') = Len(backlog) + 1 /\ Len(backlog) \in Nat
      /\ backlog' # <<>> /\ backlog'[Len(backlog) + 1] = c
      /\ \A k \in 1 .. Len(backlog) : backlog'[k] = backlog[k]
  BY <1>2, AppendProperties, LenProperties DEF Inv, TypeOK
<1>4. TypeOK'
  BY <1>1, <1>2, <1>3 DEF Connect, Inv, TypeOK
<1>5. \A x \in Clients : (Queued(x)' <=> Queued(x) \/ x = c) /\ (Seated(x)' <=> Seated(x))
  BY <1>2, <1>3 DEF Queued, Seated
<1>6. Seats' /\ Queue'
  <2>1. \A k \in 1 .. Len(backlog) : backlog[k] # c
    BY <1>1 DEF Queued
  <2>2. \A i \in Positions : table[i] # c
    BY <1>1 DEF Seated
  <2>3. \A k, l \in 1 .. Len(backlog') : backlog'[k] = backlog'[l] => k = l
    BY <1>3, <2>1 DEF Inv, Places, Queue
  <2>4. \A k \in 1 .. Len(backlog'), i \in Positions : table'[i] # backlog'[k]
    BY <1>2, <1>3, <2>2 DEF Inv, Places, Queue
  <2>5. Seats'
    BY <1>2 DEF Inv, Places, Seats
  <2>6. QED
    BY <2>3, <2>4, <2>5 DEF Queue
<1>7. Held' /\ Fresh'
  BY <1>1, <1>2, <1>5 DEF Inv, Places, Held, Fresh
<1>8. StillReady' /\ Writing'
  <2>1. \A i \in Positions : Readable(i) => Readable(i)'
    BY <1>1, <1>2, <1>3 DEF Readable, Seated
  <2>2. ready \subseteq Positions
    BY DEF Inv, TypeOK
  <2>3. QED
    BY <1>2, <2>1, <2>2 DEF Inv, StillReady, Writing
<1>9. InOrder'
  <2>1. AllDue(c)'
    <3>1. InServer(c)' = <<>>
      BY <1>1, <1>2, SlotsAssumption DEF Inv, Writing, InServer, Seated, Positions
    <3>2. UnderWay(c)' = <<>>
      BY <1>1, <1>2, <3>1, EmptySeq, ConcatEmptySeq DEF UnderWay
    <3>3. Due(c)' = UnitsOf(c, 0, 0)
      BY <1>1, <1>2 DEF Due, UnitsOf
    <3>4. UnitsOf(c, 0, 0) = <<>>
      BY UnitsOfSeq, EmptySeq
    <3>5. QED
      BY <3>2, <3>3, <3>4 DEF AllDue
  <2>2. FirstDue(c)'
    BY <1>1, <1>2, EmptySeq DEF FirstDue
  <2>3. ASSUME NEW x \in Clients, x # c PROVE AllDue(x)' /\ FirstDue(x)'
    <3>1. UnderWay(x)' = UnderWay(x)
      BY <1>2 DEF UnderWay, InServer
    <3>2. QED
      BY <1>2, <2>3, <3>1, KeptInOrder DEF Inv, InOrder
  <2>4. QED
    BY <2>1, <2>2, <2>3 DEF InOrder
<1>10. QED
  BY <1>4, <1>6, <1>7, <1>8, <1>9 DEF Inv, Places

\* The table, the queue and the ends of the connections stay as they are.
LEMMA PlacesUnchanged ==
    ASSUME Places, UNCHANGED <<server, pc, table, last, backlog, sock, cend>>,
           \A c \in Clients : cend[c] = "none" =>
               /\ sent'[c] = sent[c] /\ got'[c] = got[c] /\ up'[c] = up[c] /\ down'[c] = down[c]
    PROVE  Places'
  BY DEF Places, Seats, Queue, Held, Fresh, Queued, Seated

LEMMA SendAppends ==
    ASSUME Inv, NEW c \in Clients, Send(c), sock[c] = "open"
    PROVE  UnderWay(c)' = Append(UnderWay(c), [from |-> c, n |-> sent[c]])
<1> DEFINE x == [from |-> c, n |-> sent[c]]
           d == down[c]
           b == InServer(c)
           u == up[c]
<1>1. x \in Unit
  BY DEF Inv, TypeOK, Unit
<1>2. d \in Seq(Unit) /\ b \in Seq(Unit) /\ u \in Seq(Unit)
  BY StreamsFacts DEF Inv
<1>3. up'[c] = Append(u, x) /\ InServer(c)' = b /\ down'[c] = d
  BY DEF Send, loop, Inv, TypeOK, InServer
<1>4. UnderWay(c)' = d \o b \o Append(u, x) /\ UnderWay(c) = d \o b \o u
  BY <1>3 DEF UnderWay
<1> HIDE DEF d, b, u, x
<1>5. d \o b \o Append(u, x) = Append(d \o b \o u, x)
  BY <1>1, <1>2, SendLast
<1>6. QED
  BY <1>4, <1>5 DEF x

LEMMA SendInv ==
    ASSUME Inv, NEW c \in Clients, Send(c)
    PROVE  Inv'
<1> DEFINE x == [from |-> c, n |-> sent[c]]
<1>1. x \in Unit
  BY DEF Inv, TypeOK, Unit
<1>2. /\ cend[c] = "open" /\ sent[c] < MaxSend[c] /\ sent' = [sent EXCEPT ![c] = @ + 1]
      /\ sock[c] = "open" => Len(up[c]) < SockBuf /\ up' = [up EXCEPT ![c] = Append(@, x)]
      /\ sock[c] # "open" => up' = up
      /\ UNCHANGED <<server, pc, table, last, ready, scan, buf, backlog, sock, cend, down, got>>
  BY DEF Send, loop
<1> HIDE DEF x
<1>3. /\ up[c] \in Seq(Unit) /\ Append(up[c], x) \in Seq(Unit)
      /\ Len(Append(up[c], x)) = Len(up[c]) + 1 /\ Append(up[c], x) # <<>> /\ Len(up[c]) \in Nat
  <2>1. up[c] \in Seq(Unit) /\ Len(up[c]) \in Nat
    BY ClientTypes DEF Inv
  <2>2. QED
    BY <1>1, <2>1, AppendProperties
<1>4. TypeOK'
  <2>1. up' \in [Clients -> Seq(Unit)] /\ sent' \in [Clients -> Nat]
    <3>1. up \in [Clients -> Seq(Unit)] /\ sent \in [Clients -> Nat]
      BY DEF Inv, TypeOK
    <3>2. up' \in [Clients -> Seq(Unit)]
      BY <1>2, <1>3, <3>1
    <3>3. QED
      BY <1>2, <3>1, <3>2
  <2>2. ASSUME NEW y \in Clients
        PROVE  Len(up'[y]) <= SockBuf /\ sent'[y] <= MaxSend[y] /\ got[y] <= sent'[y]
    <3>1. up'[y] = up[y] \/ (y = c /\ Len(up'[y]) = Len(up[c]) + 1 /\ Len(up[c]) < SockBuf)
      BY <1>2, <1>3 DEF Inv, TypeOK
    <3>2. sent'[y] = sent[y] \/ (y = c /\ sent'[y] = sent[c] + 1)
      BY <1>2 DEF Inv, TypeOK
    <3>3. QED
      BY <1>2, <3>1, <3>2, ClientTypes DEF Inv
  <2>3. QED
    BY <1>2, <2>1, <2>2 DEF Inv, TypeOK
<1>5. Places'
  BY <1>2, PlacesUnchanged DEF Inv, TypeOK
<1>6. StillReady' /\ Writing'
  <2>1. \A y \in Clients : up[y] # <<>> => up'[y] # <<>>
    BY <1>2, <1>3 DEF Inv, TypeOK
  <2>2. \A i \in Positions : Readable(i) => Readable(i)'
    BY <1>2, <2>1 DEF Readable
  <2>3. QED
    BY <1>2, <2>2 DEF Inv, TypeOK, StillReady, Writing
<1>7. ASSUME NEW y \in Clients, y # c PROVE AllDue(y)' /\ FirstDue(y)'
  <2>1. UnderWay(y)' = UnderWay(y)
    BY <1>2, <1>7 DEF UnderWay, InServer, Inv, TypeOK
  <2>2. QED
    BY <1>2, <1>7, <2>1, KeptInOrder DEF Inv, InOrder, TypeOK
<1>8. AllDue(c)'
  <2> SUFFICES ASSUME sock[c] = "open" PROVE UnderWay(c)' = Due(c)'
    BY <1>2 DEF AllDue
  <2>1. UnderWay(c)' = Append(UnderWay(c), x)
    BY SendAppends DEF x
  <2>2. UnderWay(c) = UnitsOf(c, got[c], sent[c] - got[c])
    BY <1>2, DueFacts DEF Inv, InOrder, AllDue
  <2>3. got[c] \in Nat /\ sent[c] \in Nat /\ sent[c] - got[c] \in Nat /\ got[c] + (sent[c] - got[c]) = sent[c]
    BY DueFacts DEF Inv
  <2>4. Append(UnitsOf(c, got[c], sent[c] - got[c]), x) = UnitsOf(c, got[c], sent[c] - got[c] + 1)
    BY <2>3, UnitsOfGrow DEF x
  <2>5. Due(c)' = UnitsOf(c, got[c], sent[c] - got[c] + 1)
    <3>1. sent'[c] = sent[c] + 1 /\ got'[c] = got[c]
      BY <1>2 DEF Inv, TypeOK
    <3>2. sent'[c] - got'[c] = sent[c] - got[c] + 1
      BY <2>3, <3>1
    <3>3. QED
      BY <3>1, <3>2 DEF Due, UnitsOf
  <2>6. QED
    BY <2>1, <2>2, <2>4, <2>5
<1>9. FirstDue(c)'
  <2>1. sent'[c] = sent[c] + 1 /\ got'[c] = got[c] /\ down'[c] = down[c] /\ Len(down[c]) \in Nat
    BY <1>2, LenProperties DEF Inv, TypeOK
  <2>2. QED
    BY <1>2, <2>1, DueFacts DEF Inv, InOrder, FirstDue
<1>10. QED
  BY <1>4, <1>5, <1>6, <1>7, <1>8, <1>9 DEF Inv, InOrder

LEMMA ReceiveTakes ==
    ASSUME Inv, NEW c \in Clients, Receive(c)
    PROVE  UnderWay(c)' = Tail(UnderWay(c)) /\ UnderWay(c) # <<>>
<1> DEFINE d == down[c]
           b == InServer(c)
           u == up[c]
<1>1. d # <<>> /\ d \in Seq(Unit) /\ b \in Seq(Unit) /\ u \in Seq(Unit)
  BY StreamsFacts DEF Inv, Receive
<1>2. up'[c] = u /\ InServer(c)' = b /\ down'[c] = Tail(d)
  BY DEF Receive, loop, Inv, TypeOK, InServer
<1>3. UnderWay(c)' = Tail(d) \o b \o u /\ UnderWay(c) = d \o b \o u
  BY <1>2 DEF UnderWay
<1> HIDE DEF d, b, u
<1>4. Tail(d) \o b \o u = Tail(d \o b \o u)
  BY <1>1, ReceiveFirst
<1>5. d \o b \in Seq(Unit) /\ d \o b \o u # <<>>
  BY <1>1, ConcatProperties, ConcatEqualIffEmpty, ConcatSimplifications
<1>6. QED
  BY <1>3, <1>4, <1>5

LEMMA ReceiveInv ==
    ASSUME Inv, NEW c \in Clients, Receive(c)
    PROVE  Inv'
<1>1. /\ cend[c] = "open" /\ down[c] # <<>>
      /\ down' = [down EXCEPT ![c] = Tail(@)] /\ got' = [got EXCEPT ![c] = @ + 1]
      /\ UNCHANGED <<server, pc, table, last, ready, scan, buf, backlog, sock, cend, up, sent>>
  BY DEF Receive, loop
<1>2. /\ down[c] \in Seq(Unit) /\ Tail(down[c]) \in Seq(Unit) /\ Len(Tail(down[c])) = Len(down[c]) - 1
      /\ Len(down[c]) \in Nat \ {0}
      /\ \A k \in 1 .. Len(down[c]) - 1 : Tail(down[c])[k] = down[c][k + 1]
  BY <1>1, HeadTailProperties, EmptySeq DEF Inv, TypeOK
<1>3. got[c] \in Nat /\ sent[c] \in Nat /\ sent[c] - got[c] \in Nat \ {0} /\ Len(down[c]) <= sent[c] - got[c]
  BY <1>1, <1>2, DueFacts DEF Inv, InOrder, FirstDue
<1>4. down'[c] = Tail(down[c]) /\ got'[c] = got[c] + 1
  BY <1>1 DEF Inv, TypeOK
<1>5. TypeOK'
  <2>1. down' \in [Clients -> Seq(Unit)] /\ \A y \in Clients : Len(down'[y]) <= SockBuf
    BY <1>1, <1>2, SlotsAssumption DEF Inv, TypeOK
  <2>2. got' \in [Clients -> Nat] /\ \A y \in Clients : got'[y] <= sent[y]
    BY <1>1, <1>3 DEF Inv, TypeOK
  <2>3. QED
    BY <1>1, <2>1, <2>2 DEF Inv, TypeOK
<1>6. Places'
  BY <1>1, PlacesUnchanged DEF Inv, TypeOK
<1>7. StillReady' /\ Writing'
  BY <1>1 DEF Inv, StillReady, Writing, Readable
<1>8. ASSUME NEW y \in Clients, y # c PROVE AllDue(y)' /\ FirstDue(y)'
  <2>1. UnderWay(y)' = UnderWay(y)
    BY <1>1, <1>8 DEF UnderWay, InServer, Inv, TypeOK
  <2>2. QED
    BY <1>1, <1>8, <2>1, KeptInOrder DEF Inv, InOrder, TypeOK
<1>9. AllDue(c)'
  <2> SUFFICES ASSUME sock[c] = "open" PROVE UnderWay(c)' = Due(c)'
    BY <1>1 DEF AllDue
  <2>1. UnderWay(c)' = Tail(UnderWay(c))
    BY ReceiveTakes
  <2>2. UnderWay(c) = UnitsOf(c, got[c], sent[c] - got[c])
    BY <1>1, DueFacts DEF Inv, InOrder, AllDue
  <2>3. Tail(UnitsOf(c, got[c], sent[c] - got[c])) = UnitsOf(c, got[c] + 1, sent[c] - got[c] - 1)
    BY <1>3, UnitsOfShrink
  <2>4. Due(c)' = UnitsOf(c, got[c] + 1, sent[c] - got[c] - 1)
    <3>1. sent'[c] - got'[c] = sent[c] - got[c] - 1
      BY <1>1, <1>3, <1>4
    <3>2. QED
      BY <1>4, <3>1 DEF Due, UnitsOf
  <2>5. QED
    BY <2>1, <2>2, <2>3, <2>4
<1>10. FirstDue(c)'
  <2>1. \A k \in 1 .. Len(down[c]) : down[c][k] = [from |-> c, n |-> got[c] + k - 1]
    BY <1>1 DEF Inv, InOrder, FirstDue
  <2>2. \A k \in 1 .. Len(down'[c]) : down'[c][k] = [from |-> c, n |-> got'[c] + k - 1]
    <3> TAKE k \in 1 .. Len(down'[c])
    <3>1. k + 1 \in 1 .. Len(down[c]) /\ down'[c][k] = down[c][k + 1]
      BY <1>2, <1>4
    <3>2. got[c] + (k + 1) - 1 = got'[c] + k - 1
      BY <1>3, <1>4
    <3>3. QED
      BY <2>1, <3>1, <3>2
  <2>3. Len(down'[c]) <= sent'[c] - got'[c]
    <3>1. sent'[c] = sent[c] /\ got'[c] = got[c] + 1 /\ Len(down'[c]) = Len(down[c]) - 1
      BY <1>1, <1>2, <1>4
    <3>2. QED
      BY <1>2, <1>3, <3>1
  <2>4. QED
    BY <2>2, <2>3 DEF FirstDue
<1>11. QED
  BY <1>5, <1>6, <1>7, <1>8, <1>9, <1>10 DEF Inv, InOrder

LEMMA CloseInv ==
    ASSUME Inv, NEW c \in Clients, Close(c)
    PROVE  Inv'
<1>1. /\ cend[c] = "open" /\ cend'[c] \in {"closed", "reset"}
      /\ cend' \in [Clients -> {"none", "open", "closed", "reset"}]
      /\ \A y \in Clients : y # c => cend'[y] = cend[y]
      /\ UNCHANGED <<server, pc, table, last, ready, scan, buf, backlog, sock, up, down, sent, got>>
  BY DEF Close, Closed, loop, clients, Inv, TypeOK
<1>2. TypeOK'
  BY <1>1 DEF Inv, TypeOK
<1>3. Places'
  BY <1>1 DEF Inv, Places, Seats, Queue, Held, Fresh, Queued, Seated
<1>4. StillReady' /\ Writing'
  <2>1. \A i \in Positions : Readable(i) => Readable(i)'
    BY <1>1 DEF Readable
  <2>2. QED
    BY <1>1, <2>1 DEF Inv, TypeOK, StillReady, Writing
<1>5. InOrder'
  <2>1. ASSUME NEW y \in Clients PROVE AllDue(y)' /\ FirstDue(y)'
    <3>1. UnderWay(y)' = UnderWay(y)
      BY <1>1 DEF UnderWay, InServer
    <3>2. QED
      BY <1>1, <3>1, KeptInOrder DEF Inv, InOrder
  <2>2. QED
    BY <2>1 DEF InOrder
<1>6. QED
  BY <1>2, <1>3, <1>4, <1>5 DEF Inv

-----------------------------------------------------------------------------
(* The server. *)

\* What the scan has reached is ready.
LEMMA AtFacts ==
    ASSUME Inv, NEW i \in Positions, At(i)
    PROVE  /\ pc = "scan" /\ i \in ready /\ i >= scan /\ Readable(i) /\ scan \in Nat /\ Slots \in Nat
           /\ i > 0 => i \in 1 .. Slots /\ table[i] \in Clients
           /\ i = 0 => scan = 0 /\ backlog # <<>>
<1>1. /\ pc = "scan" /\ i \in ready /\ i >= scan /\ table[i] # Free
      /\ scan \in 0 .. Slots + 1 /\ Slots \in Nat
  BY SlotsAssumption DEF At, Pending, Inv, TypeOK, Positions
<1>2. Readable(i)
  BY <1>1 DEF Inv, StillReady
<1>3. i > 0 => i \in 1 .. Slots /\ table[i] \in Clients
  BY <1>1, <1>2 DEF Inv, Places, Seats, Readable, Positions
<1>4. i = 0 => scan = 0 /\ backlog # <<>>
  BY <1>1, <1>2 DEF Inv, Places, Seats, Readable
<1>5. QED
  BY <1>1, <1>2, <1>3, <1>4

\* A step that moves no units keeps all in order.
LEMMA NothingMoves ==
    ASSUME Inv, UNCHANGED <<up, down, sent, got>>,
           \A c \in Clients : /\ cend'[c] = "open" => cend[c] = "open"
                              /\ sock'[c] = "open" => sock[c] = "open"
                              /\ sock'[c] = "open" /\ cend'[c] = "open" => InServer(c)' = InServer(c)
    PROVE  InOrder'
<1>1. ASSUME NEW c \in Clients PROVE AllDue(c)' /\ FirstDue(c)'
  <2>1. sock'[c] = "open" /\ cend'[c] = "open" => UnderWay(c)' = UnderWay(c)
    BY DEF UnderWay
  <2>2. QED
    BY <2>1, KeptInOrder DEF Inv, InOrder
<1>2. QED
  BY <1>1 DEF InOrder

LEMMA PollInv == Inv /\ Poll => Inv'
<1> SUFFICES ASSUME Inv, Poll PROVE Inv'
  OBVIOUS
<1>1. /\ pc = "wait" /\ pc' = "scan" /\ scan' = 0 /\ ready' = {i \in 0 .. last : Readable(i)}
      /\ UNCHANGED <<server, table, last, buf, backlog, sock, cend, up, down, sent, got>>
  BY DEF Poll, clients
<1>2. TypeOK'
  BY <1>1, SlotsAssumption DEF Inv, TypeOK, Positions
<1>3. Places'
  BY <1>1 DEF Inv, Places, Seats, Queue, Held, Fresh, Queued, Seated
<1>4. StillReady' /\ Writing'
  BY <1>1 DEF StillReady, Writing, Readable
<1>5. InOrder'
  BY <1>1, NothingMoves DEF InServer
<1>6. QED
  BY <1>2, <1>3, <1>4, <1>5 DEF Inv

LEMMA EndScanInv == Inv /\ EndScan => Inv'
<1> SUFFICES ASSUME Inv, EndScan PROVE Inv'
  OBVIOUS
<1>1. /\ pc = "scan" /\ pc' = "wait"
      /\ UNCHANGED <<server, table, last, ready, scan, buf, backlog, sock, cend, up, down, sent, got>>
  BY DEF EndScan, clients
<1>2. TypeOK'
  BY <1>1 DEF Inv, TypeOK
<1>3. Places'
  BY <1>1 DEF Inv, Places, Seats, Queue, Held, Fresh, Queued, Seated
<1>4. StillReady' /\ Writing'
  BY <1>1 DEF StillReady, Writing
<1>5. InOrder'
  BY <1>1, NothingMoves DEF InServer
<1>6. QED
  BY <1>2, <1>3, <1>4, <1>5 DEF Inv

LEMMA EndsInv == Inv /\ Ends => Inv'
<1> SUFFICES ASSUME Inv, Ends PROVE Inv'
  OBVIOUS
<1>1. /\ pc' = "dead" /\ buf' = <<>>
      /\ sock' = [c \in Clients |-> IF sock[c] = "open" THEN "closed" ELSE sock[c]]
      /\ UNCHANGED <<server, table, last, ready, scan, backlog, cend, up, down, sent, got>>
  BY DEF Ends, clients
<1>2. TypeOK'
  <2>1. buf' \in Seq(Unit) /\ Len(buf') = 0
    BY <1>1, EmptySeq
  <2>2. QED
    BY <1>1, <2>1, SlotsAssumption DEF Inv, TypeOK
<1>3. Places'
  BY <1>1 DEF Inv, Places, Seats, Queue, Held, Fresh, Queued, Seated
<1>4. StillReady' /\ Writing'
  BY <1>1 DEF StillReady, Writing
<1>5. InOrder'
  BY <1>1, NothingMoves
<1>6. QED
  BY <1>2, <1>3, <1>4, <1>5 DEF Inv

\* The head of the queue leaves it.
LEMMA Dequeued ==
    ASSUME Inv, backlog # <<>>, backlog' = Tail(backlog)
    PROVE  /\ Head(backlog) \in Clients /\ backlog' \in Seq(Clients)
           /\ Queued(Head(backlog)) /\ ~Seated(Head(backlog))
           /\ \A k, l \in 1 .. Len(backlog') : backlog'[k] = backlog'[l] => k = l
           /\ \A k \in 1 .. Len(backlog') : /\ backlog'[k] # Head(backlog)
                                             /\ \A i \in Positions : table[i] # backlog'[k]
           /\ \A x \in Clients : Queued(x)' <=> Queued(x) /\ x # Head(backlog)
<1>1. /\ Head(backlog) \in Clients /\ backlog' \in Seq(Clients) /\ Len(backlog') = Len(backlog) - 1
      /\ \A k \in 1 .. Len(backlog') : backlog'[k] = backlog[k + 1]
  BY HeadTailProperties DEF Inv, TypeOK
<1>2. Len(backlog) \in Nat \ {0} /\ Head(backlog) = backlog[1]
  BY EmptySeq DEF Inv, TypeOK
<1>3. /\ \A k \in 1 .. Len(backlog') : k + 1 \in 1 .. Len(backlog) /\ k + 1 # 1
      /\ \A k \in 1 .. Len(backlog) : k # 1 => k - 1 \in 1 .. Len(backlog') /\ backlog'[k - 1] = backlog[k]
      /\ 1 \in 1 .. Len(backlog)
  BY <1>1, <1>2
<1>4. /\ \A k, l \in 1 .. Len(backlog) : backlog[k] = backlog[l] => k = l
      /\ \A k \in 1 .. Len(backlog), i \in Positions : table[i] # backlog[k]
  BY DEF Inv, Places, Queue
<1>5. Queued(Head(backlog)) /\ ~Seated(Head(backlog))
  BY <1>2, <1>3, <1>4 DEF Queued, Seated
<1>6. \A k, l \in 1 .. Len(backlog') : backlog'[k] = backlog'[l] => k = l
  <2> TAKE k, l \in 1 .. Len(backlog')
  <2> HAVE backlog'[k] = backlog'[l]
  <2>1. k + 1 = l + 1
    BY <1>1, <1>3, <1>4
  <2>2. k \in Int /\ l \in Int
    OBVIOUS
  <2>3. QED
    BY <2>1, <2>2
<1>7. \A k \in 1 .. Len(backlog') : /\ backlog'[k] # Head(backlog)
                                    /\ \A i \in Positions : table[i] # backlog'[k]
  BY <1>1, <1>2, <1>3, <1>4
<1>8. \A x \in Clients : Queued(x)' <=> Queued(x) /\ x # Head(backlog)
  <2> TAKE x \in Clients
  <2>1. Queued(x)' => Queued(x) /\ x # Head(backlog)
    BY <1>1, <1>3, <1>7 DEF Queued
  <2>2. Queued(x) /\ x # Head(backlog) => Queued(x)'
    BY <1>2, <1>3 DEF Queued
  <2>3. QED
    BY <2>1, <2>2
<1>9. QED
  BY <1>1, <1>5, <1>6, <1>7, <1>8

LEMMA AcceptFailsInv == Inv /\ AcceptFails => Inv'
<1> SUFFICES ASSUME Inv, AcceptFails PROVE Inv'
  OBVIOUS
<1>1. /\ pc = "scan" /\ scan' = 1 /\ scan = 0
      /\ UNCHANGED <<server, pc, table, last, ready, buf, backlog, sock, cend, up, down, sent, got>>
  BY AtFacts DEF AcceptFails, clients, At, Pending, Positions, Inv, TypeOK
<1>2. TypeOK'
  BY <1>1, SlotsAssumption DEF Inv, TypeOK
<1>3. Places'
  BY <1>1 DEF Inv, Places, Seats, Queue, Held, Fresh, Queued, Seated
<1>4. StillReady' /\ Writing'
  BY <1>1 DEF Inv, TypeOK, Positions, StillReady, Writing, Readable
<1>5. InOrder'
  BY <1>1, NothingMoves DEF InServer
<1>6. QED
  BY <1>2, <1>3, <1>4, <1>5 DEF Inv

LEMMA AcceptInv == Inv /\ Accept => Inv'
<1> SUFFICES ASSUME Inv, Accept PROVE Inv'
  OBVIOUS
<1> DEFINE c == Head(backlog)
<1>1. At(0) /\ 0 \in Positions
  BY SlotsAssumption DEF Accept, Positions
<1>2. pc = "scan" /\ scan = 0 /\ backlog # <<>> /\ backlog' = Tail(backlog)
  BY <1>1, AtFacts DEF Accept
<1>3. PICK j \in 1 .. Slots :
          /\ table[j] = Free /\ table' = [table EXCEPT ![j] = c]
          /\ last' = IF j > last THEN j ELSE last
  BY DEF Accept, FreeSlots, NewLast
<1>4. /\ scan' = 1
      /\ UNCHANGED <<server, pc, ready, buf, sock, cend, up, down, sent, got>>
  BY DEF Accept, clients
<1>5. /\ c \in Clients /\ backlog' \in Seq(Clients) /\ Queued(c) /\ ~Seated(c)
      /\ \A k, l \in 1 .. Len(backlog') : backlog'[k] = backlog'[l] => k = l
      /\ \A k \in 1 .. Len(backlog') : /\ backlog'[k] # c
                                        /\ \A i \in Positions : table[i] # backlog'[k]
      /\ \A x \in Clients : Queued(x)' <=> Queued(x) /\ x # c
  BY <1>2, Dequeued
<1> HIDE DEF c
<1>6. /\ j \in Positions /\ j # 0 /\ Slots \in Nat /\ last \in Positions
      /\ table'[j] = c /\ \A i \in Positions : i # j => table'[i] = table[i]
      /\ c # Free /\ c # Listening
  BY <1>3, <1>5, SlotsAssumption DEF Inv, TypeOK, Positions
<1>7. TypeOK'
  <2>1. table' \in [Positions -> Clients \cup {Listening, Free}]
    BY <1>3, <1>5 DEF Inv, TypeOK
  <2>2. last' \in Positions /\ scan' \in 0 .. Slots + 1
    BY <1>3, <1>4, <1>6 DEF Positions
  <2>3. QED
    BY <1>4, <1>5, <2>1, <2>2 DEF Inv, TypeOK
<1>8. Seats'
  <2>1. table'[0] = Listening
    BY <1>1, <1>6 DEF Inv, Places, Seats
  <2>2. last <= last' /\ j <= last'
    BY <1>3, <1>6 DEF Positions
  <2>3. \A i \in 1 .. Slots : table'[i] # Listening /\ (table'[i] # Free => i <= last')
    <3> TAKE i \in 1 .. Slots
    <3>1. i \in Positions
      BY DEF Positions
    <3>2. CASE i = j
      BY <1>6, <2>2, <3>2
    <3>3. CASE i # j
      <4>1. table'[i] = table[i]
        BY <1>6, <3>1, <3>3
      <4>2. last \in Int /\ last' \in Int
        BY <1>3, <1>6 DEF Positions
      <4>3. QED
        BY <2>2, <4>1, <4>2 DEF Inv, Places, Seats
    <3>4. QED
      BY <3>2, <3>3
  <2>4. \A i, k \in Positions : table'[i] = table'[k] /\ table'[i] # Free => i = k
    BY <1>5, <1>6 DEF Inv, Places, Seats, Seated
  <2>5. QED
    BY <2>1, <2>3, <2>4 DEF Seats
<1>9. Queue'
  BY <1>5, <1>6 DEF Queue
<1>10. \A x \in Clients : Seated(x)' <=> Seated(x) \/ x = c
  BY <1>3, <1>5, <1>6, SlotsAssumption DEF Seated
<1>11. Held' /\ Fresh'
  BY <1>4, <1>5, <1>10 DEF Inv, Places, Held, Fresh
<1>12. StillReady' /\ Writing'
  <2>1. ASSUME NEW i \in ready, i >= 1 PROVE Readable(i)'
    <3>1. i \in Positions /\ Readable(i)
      BY <1>2, <2>1 DEF Inv, TypeOK, Positions, StillReady
    <3>2. i \in 1 .. Slots /\ table[i] # Listening
      BY <2>1, <3>1 DEF Inv, Places, Seats, Positions
    <3>3. table[i] # Free
      BY <3>1, <3>2, SlotsAssumption DEF Readable
    <3>4. table'[i] = table[i]
      BY <1>3, <1>6, <3>1, <3>3
    <3>5. QED
      BY <1>4, <3>1, <3>2, <3>4 DEF Readable
  <2>2. QED
    BY <1>2, <1>4, <2>1 DEF StillReady, Writing
<1>13. InOrder'
  BY <1>2, <1>4, NothingMoves DEF InServer
<1>14. QED
  BY <1>7, <1>8, <1>9, <1>11, <1>12, <1>13 DEF Inv, Places

LEMMA AcceptNoRoomInv == Inv /\ AcceptNoRoom => Inv'
<1> SUFFICES ASSUME Inv, AcceptNoRoom PROVE Inv'
  OBVIOUS
<1> DEFINE c == Head(backlog)
<1>1. At(0) /\ 0 \in Positions
  BY SlotsAssumption DEF AcceptNoRoom, Positions
<1>2. pc = "scan" /\ scan = 0 /\ backlog # <<>> /\ backlog' = Tail(backlog)
  BY <1>1, AtFacts DEF AcceptNoRoom
<1>3. /\ server # "select" /\ scan' = 1
      /\ sock' = IF server = "poll" THEN [sock EXCEPT ![c] = "closed"] ELSE sock
      /\ UNCHANGED <<server, pc, table, last, ready, buf, cend, up, down, sent, got>>
  BY DEF AcceptNoRoom, clients
<1>4. /\ c \in Clients /\ backlog' \in Seq(Clients) /\ Queued(c) /\ ~Seated(c)
      /\ \A k, l \in 1 .. Len(backlog') : backlog'[k] = backlog'[l] => k = l
      /\ \A k \in 1 .. Len(backlog') : /\ backlog'[k] # c
                                        /\ \A i \in Positions : table[i] # backlog'[k]
      /\ \A x \in Clients : Queued(x)' <=> Queued(x) /\ x # c
  BY <1>2, Dequeued
<1> HIDE DEF c
<1>5. TypeOK'
  <2>1. sock' \in [Clients -> {"none", "open", "closed"}]
    BY <1>3 DEF Inv, TypeOK
  <2>2. scan' \in 0 .. Slots + 1
    BY <1>3, SlotsAssumption
  <2>3. QED
    BY <1>3, <1>4, <2>1, <2>2 DEF Inv, TypeOK
<1>6. Seats' /\ Queue'
  BY <1>3, <1>4 DEF Inv, Places, Seats, Queue
<1>7. /\ server \in {"poll", "poll_252e04f"}
      /\ server = "poll" => sock'[c] = "closed"
      /\ \A x \in Clients : (x # c => sock'[x] = sock[x]) /\ (sock'[x] = "open" => sock[x] = "open")
  BY <1>3, <1>4, ServersAssumption DEF Inv, TypeOK
<1>8. Held' /\ Fresh'
  <2>1. \A x \in Clients : Seated(x)' <=> Seated(x)
    BY <1>3 DEF Seated
  <2>2. QED
    BY <1>3, <1>4, <1>7, <2>1 DEF Inv, Places, Held, Fresh
<1>9. StillReady' /\ Writing'
  <2>1. ASSUME NEW i \in ready, i >= 1 PROVE Readable(i)'
    <3>1. i \in Positions /\ Readable(i)
      BY <1>2, <2>1 DEF Inv, TypeOK, Positions, StillReady
    <3>2. table[i] # Listening
      BY <2>1, <3>1 DEF Inv, Places, Seats, Positions
    <3>3. QED
      BY <1>3, <3>1, <3>2 DEF Readable
  <2>2. QED
    BY <1>2, <1>3, <2>1 DEF StillReady, Writing
<1>10. InOrder'
  BY <1>2, <1>3, <1>7, NothingMoves DEF InServer
<1>11. QED
  BY <1>5, <1>6, <1>8, <1>9, <1>10 DEF Inv, Places

LEMMA DropInv == ASSUME NEW i \in Positions PROVE Inv /\ Drop(i) => Inv'
<1> SUFFICES ASSUME Inv, Drop(i) PROVE Inv'
  OBVIOUS
<1> DEFINE c == table[i]
<1>1. i > 0 /\ Lost(up[c], cend[c])
  BY DEF Drop
<1>2. /\ pc = "scan" /\ i >= scan /\ i \in 1 .. Slots /\ c \in Clients
      /\ Slots \in Nat /\ scan \in Nat
  BY <1>1, AtFacts DEF Drop
<1>3. /\ table' = [table EXCEPT ![i] = Free] /\ sock' = [sock EXCEPT ![c] = "closed"]
      /\ ready' \subseteq ready /\ scan' = i + 1
      /\ UNCHANGED <<server, pc, last, buf, backlog, cend, up, down, sent, got>>
  BY DEF Drop, clients
<1>4. cend[c] \in {"closed", "reset"} /\ Seated(c)
  BY <1>1, <1>2 DEF Lost, Seated
<1> HIDE DEF c
<1>5. /\ table'[i] = Free /\ \A j \in Positions : j # i => table'[j] = table[j]
      /\ \A j \in Positions : table'[j] # Free => table'[j] = table[j]
      /\ \A j \in Positions : j # i => table'[j] # c
      /\ c # Free /\ table[i] = c /\ i # 0 /\ 0 \in Positions
  <2>1. table[i] = c /\ c # Free
    BY <1>2, SlotsAssumption DEF c
  <2>2. 0 \in Positions /\ i # 0
    BY <1>2 DEF Positions
  <2>3. table'[i] = Free /\ \A j \in Positions : j # i => table'[j] = table[j]
    BY <1>3 DEF Inv, TypeOK
  <2>4. \A j \in Positions : j # i => table[j] # c
    BY <2>1 DEF Inv, Places, Seats
  <2>5. QED
    BY <2>1, <2>2, <2>3, <2>4
<1>6. TypeOK'
  <2>1. scan' \in 0 .. Slots + 1
    BY <1>2, <1>3
  <2>2. table' \in [Positions -> Clients \cup {Listening, Free}] /\ sock' \in [Clients -> {"none", "open", "closed"}]
    BY <1>3 DEF Inv, TypeOK
  <2>3. QED
    BY <1>3, <2>1, <2>2 DEF Inv, TypeOK
<1>7. Seats'
  <2>1. \A j \in 1 .. Slots : table'[j] # Listening /\ (table'[j] # Free => j <= last')
    <3> TAKE j \in 1 .. Slots
    <3>1. j \in Positions
      BY DEF Positions
    <3>2. QED
      BY <1>3, <1>5, <3>1, SlotsAssumption DEF Inv, Places, Seats
  <2>2. QED
    BY <1>5, <2>1 DEF Inv, Places, Seats
<1>8. Queue'
  <2>1. \A k \in 1 .. Len(backlog) : backlog[k] \in Clients
    BY ElementOfSeq DEF Inv, TypeOK
  <2>2. QED
    BY <1>3, <1>5, <2>1, SlotsAssumption DEF Inv, Places, Queue
<1>9. Held' /\ Fresh'
  <2>1. \A x \in Clients : (Seated(x)' <=> Seated(x) /\ x # c) /\ (Queued(x)' <=> Queued(x))
    BY <1>2, <1>3, <1>5, SlotsAssumption DEF Seated, Queued
  <2>2. sock'[c] = "closed" /\ \A x \in Clients : x # c => sock'[x] = sock[x]
    BY <1>2, <1>3 DEF Inv, TypeOK
  <2>3. ~Queued(c)
    BY <1>4 DEF Inv, Places, Queue, Queued, Seated
  <2>4. QED
    BY <1>2, <1>3, <1>4, <2>1, <2>2, <2>3 DEF Inv, Places, Held, Fresh
<1>10. StillReady' /\ Writing'
  <2>1. ASSUME NEW j \in ready, j >= i + 1 PROVE Readable(j)'
    <3>1. j \in Positions /\ Readable(j)
      BY <1>2, <2>1 DEF Inv, TypeOK, Positions, StillReady
    <3>2. table'[j] = table[j]
      BY <1>2, <1>5, <2>1, <3>1
    <3>3. QED
      BY <1>3, <3>1, <3>2 DEF Readable
  <2>2. QED
    BY <1>2, <1>3, <2>1 DEF StillReady, Writing
<1>11. InOrder'
  <2>1. \A x \in Clients : sock'[x] = "open" => sock[x] = "open"
    BY <1>2, <1>3 DEF Inv, TypeOK
  <2>2. QED
    BY <1>2, <1>3, <2>1, NothingMoves DEF InServer
<1>12. QED
  BY <1>6, <1>7, <1>8, <1>9, <1>10, <1>11 DEF Inv, Places

\* What read takes from a connection it holds: nothing under way is lost.
LEMMA ReadMoves ==
    ASSUME Inv, NEW i \in Positions, Read(i), NEW c \in Clients, c = table[i]
    PROVE  /\ buf' \in Seq(Unit) /\ Len(buf') \in 1 .. ReadSize /\ buf' # <<>>
           /\ up'[c] \in Seq(Unit) /\ Len(up'[c]) = Len(up[c]) - Len(buf')
           /\ \A x \in Clients : x # c => up'[x] = up[x]
           /\ up' \in [Clients -> Seq(Unit)]
           /\ \A x \in Clients : UnderWay(x)' = UnderWay(x)
<1>1. pc = "scan"
  BY AtFacts DEF Read
<1>2. PICK k \in Receivable(up[c], ReadSize) :
          buf' = SubSeq(up[c], 1, k) /\ up' = [up EXCEPT ![c] = Rest(@, k)]
  BY DEF Read
<1>3. /\ pc' = "write" /\ scan' = i
      /\ UNCHANGED <<table, down>>
  BY DEF Read
<1>4. table[i] = c
  OBVIOUS
<1>5. /\ buf' \in Seq(Unit) /\ Len(buf') = k /\ k \in 1 .. ReadSize
      /\ up'[c] \in Seq(Unit) /\ Len(up'[c]) = Len(up[c]) - k
      /\ buf' \o up'[c] = up[c] /\ buf' # <<>>
      /\ \A x \in Clients : x # c => up'[x] = up[x]
      /\ up' \in [Clients -> Seq(Unit)]
  <2> DEFINE u == up[c]
  <2>1. u \in Seq(Unit) /\ ReadSize \in Nat
    BY ClientTypes, SlotsAssumption DEF Inv
  <2>2. up'[c] = Rest(u, k) /\ \A x \in Clients : x # c => up'[x] = up[x]
    BY <1>2 DEF Inv, TypeOK
  <2>3. k \in Receivable(u, ReadSize) /\ buf' = SubSeq(u, 1, k)
    BY <1>2
  <2> HIDE DEF u
  <2>4. /\ buf' \in Seq(Unit) /\ Len(buf') = k /\ k \in 1 .. ReadSize
        /\ Rest(u, k) \in Seq(Unit) /\ Len(Rest(u, k)) = Len(u) - k
        /\ buf' \o Rest(u, k) = u
    BY <2>1, <2>3, MoveUp
  <2>5. buf' # <<>>
    BY <2>4, EmptySeq
  <2>6. up' \in [Clients -> Seq(Unit)]
    <3>1. up \in [Clients -> Seq(Unit)] /\ up' = [up EXCEPT ![c] = Rest(u, k)]
      BY <1>2 DEF Inv, TypeOK, u
    <3>2. QED
      BY <2>4, <3>1
  <2>7. QED
    BY <2>2, <2>4, <2>5, <2>6 DEF u
<1>6. ASSUME NEW x \in Clients PROVE UnderWay(x)' = UnderWay(x)
  <2>1. CASE x # c
    <3>1. InServer(x)' = InServer(x)
      BY <1>1, <1>3, <1>4, <2>1 DEF InServer
    <3>2. QED
      BY <1>3, <1>5, <2>1, <3>1 DEF UnderWay
  <2>2. CASE x = c
    <3>1. InServer(x)' = buf' /\ InServer(x) = <<>>
      BY <1>1, <1>3, <1>4, <2>2 DEF InServer
    <3> DEFINE d == down[c]
               r == up'[c]
    <3>2. d \in Seq(Unit) /\ buf' \in Seq(Unit) /\ r \in Seq(Unit)
      BY <1>1, <1>5, ClientTypes DEF Inv
    <3>3. UnderWay(x)' = d \o buf' \o r /\ UnderWay(x) = d \o <<>> \o (buf' \o r)
      BY <1>3, <1>5, <2>2, <3>1 DEF UnderWay
    <3> HIDE DEF d, r
    <3>4. d \o buf' \o r = d \o (buf' \o r)
      BY <3>2, ConcatAssociative
    <3>5. d \o <<>> = d
      BY <3>2, ConcatEmptySeq
    <3>6. QED
      BY <3>3, <3>4, <3>5
  <2>3. QED
    BY <2>1, <2>2
<1>7. Len(buf') \in 1 .. ReadSize /\ Len(up'[c]) = Len(up[c]) - Len(buf')
  BY <1>5
<1>8. QED
  BY <1>5, <1>6, <1>7

LEMMA ReadInv == ASSUME NEW i \in Positions PROVE Inv /\ Read(i) => Inv'
<1> SUFFICES ASSUME Inv, Read(i) PROVE Inv'
  OBVIOUS
<1> PICK c \in Clients : c = table[i]
  BY AtFacts DEF Read
<1>1. /\ pc = "scan" /\ i >= scan /\ i \in 1 .. Slots
      /\ Slots \in Nat /\ scan \in Nat
  BY AtFacts DEF Read
<1>2. /\ buf' \in Seq(Unit) /\ Len(buf') \in 1 .. ReadSize /\ buf' # <<>>
      /\ up'[c] \in Seq(Unit) /\ Len(up'[c]) = Len(up[c]) - Len(buf')
      /\ \A x \in Clients : x # c => up'[x] = up[x]
      /\ up' \in [Clients -> Seq(Unit)]
      /\ \A x \in Clients : UnderWay(x)' = UnderWay(x)
  BY ReadMoves
<1>3. /\ pc' = "write" /\ scan' = i
      /\ UNCHANGED <<server, table, last, ready, backlog, sock, cend, down, sent, got>>
  BY DEF Read, clients
<1>4. \A j \in Positions : j # i => table[j] # c
  BY <1>1, SlotsAssumption DEF Inv, Places, Seats
<1>5. TypeOK'
  <2>1. \A x \in Clients : Len(up'[x]) <= SockBuf
    <3> TAKE x \in Clients
    <3>1. Len(up[x]) \in Nat /\ Len(up[x]) <= SockBuf /\ SockBuf \in Nat /\ ReadSize \in Nat
      BY ClientTypes, SlotsAssumption DEF Inv
    <3>2. CASE x = c
      BY <1>2, <3>1, <3>2
    <3>3. CASE x # c
      BY <1>2, <3>1, <3>3
    <3>4. QED
      BY <3>2, <3>3
  <2>2. scan' \in 0 .. Slots + 1 /\ Len(buf') <= ReadSize
    BY <1>1, <1>3, <1>2, SlotsAssumption
  <2>3. QED
    BY <1>3, <1>2, <2>1, <2>2 DEF Inv, TypeOK
<1>6. Places'
  <2>1. cend[c] # "none"
    BY <1>1, SlotsAssumption DEF Inv, Places, Fresh, Seated, Positions
  <2>2. Fresh'
    BY <1>3, <1>2, <2>1 DEF Inv, Places, Fresh, Queued, Seated
  <2>3. Seats' /\ Queue' /\ Held'
    BY <1>1, <1>3 DEF Inv, Places, Seats, Queue, Held, Queued, Seated
  <2>4. QED
    BY <2>2, <2>3 DEF Places
<1>7. StillReady' /\ Writing'
  <2>1. ASSUME NEW j \in ready, j >= i, j # i PROVE Readable(j)'
    <3>1. j \in Positions /\ Readable(j)
      BY <1>1, <2>1 DEF Inv, TypeOK, Positions, StillReady
    <3>2. table[j] # c
      BY <1>4, <2>1, <3>1
    <3>3. QED
      BY <1>3, <1>2, <3>1, <3>2 DEF Readable
  <2>2. QED
    BY <1>1, <1>3, <2>1 DEF StillReady, Writing
<1>8. ASSUME NEW x \in Clients PROVE AllDue(x)' /\ FirstDue(x)'
  <2>1. UnderWay(x)' = UnderWay(x)
    BY <1>2
  <2>2. QED
    BY <1>3, <2>1, KeptInOrder DEF Inv, InOrder
<1>9. QED
  BY <1>5, <1>6, <1>7, <1>8 DEF Inv, InOrder

\* What write touches.
LEMMA WriteFacts ==
    ASSUME Inv, pc = "write"
    PROVE  /\ scan \in 1 .. Slots /\ scan \in Positions /\ Slots \in Nat
           /\ table[scan] \in Clients /\ table[scan] # Free
           /\ sock[table[scan]] = "open" /\ cend[table[scan]] # "none"
           /\ buf # <<>> /\ buf \in Seq(Unit) /\ InServer(table[scan]) = buf
           /\ \A x \in Clients : x # table[scan] => InServer(x) = <<>>
<1>1. scan \in 1 .. Slots /\ scan \in Positions /\ table[scan] \in Clients /\ table[scan] # Free /\ Slots \in Nat
  BY SlotsAssumption DEF Inv, Writing, Positions
<1>2. Seated(table[scan])
  BY <1>1 DEF Seated
<1>3. sock[table[scan]] = "open" /\ cend[table[scan]] # "none"
  BY <1>1, <1>2 DEF Inv, Places, Held, Fresh
<1>4. buf # <<>> /\ buf \in Seq(Unit)
  BY DEF Inv, TypeOK
<1>5. QED
  BY <1>1, <1>3, <1>4 DEF InServer

\* A write that fails, or meets a closed connection.
LEMMA WriteLostInv == Inv /\ (WriteToClosed \/ WriteFails) => Inv'
<1> SUFFICES ASSUME Inv, WriteToClosed \/ WriteFails PROVE Inv'
  OBVIOUS
<1> DEFINE c == table[scan]
<1>1. /\ pc = "write" /\ cend[c] \in {"closed", "reset"} /\ cend'[c] = "reset"
      /\ \A x \in Clients : x # c => cend'[x] = cend[x]
      /\ cend' \in [Clients -> {"none", "open", "closed", "reset"}]
      /\ buf' = <<>> /\ pc' = "scan" /\ scan' = scan + 1
      /\ UNCHANGED <<server, table, last, ready, backlog, sock, up, down, sent, got>>
  BY WriteFacts DEF WriteToClosed, WriteFails, clients, Inv, TypeOK
<1>2. c \in Clients /\ scan \in 1 .. Slots /\ Slots \in Nat
  BY <1>1, WriteFacts
<1>3. \A x \in Clients : x # c => InServer(x) = <<>>
  BY <1>1, WriteFacts
<1> HIDE DEF c
<1>4. TypeOK'
  <2>1. buf' \in Seq(Unit) /\ Len(buf') = 0 /\ scan' \in 0 .. Slots + 1
    BY <1>1, <1>2, EmptySeq
  <2>2. QED
    BY <1>1, <2>1, SlotsAssumption DEF Inv, TypeOK
<1>5. Places'
  <2>1. Fresh'
    BY <1>1 DEF Inv, Places, Fresh, Queued, Seated
  <2>2. Seats' /\ Queue' /\ Held'
    BY <1>1 DEF Inv, Places, Seats, Queue, Held, Queued, Seated
  <2>3. QED
    BY <2>1, <2>2 DEF Places
<1>6. StillReady' /\ Writing'
  <2>1. \A i \in Positions : Readable(i) => Readable(i)'
    BY <1>1 DEF Readable
  <2>2. \A i \in ready : i >= scan + 1 => i \in Positions /\ Readable(i)
    BY <1>1, <1>2 DEF Inv, TypeOK, Positions, StillReady
  <2>3. QED
    BY <1>1, <2>1, <2>2 DEF StillReady, Writing
<1>7. InOrder'
  BY <1>1, <1>3, NothingMoves DEF InServer
<1>8. QED
  BY <1>4, <1>5, <1>6, <1>7 DEF Inv

\* What is written back is on the same way as before.
LEMMA WriteMoves ==
    ASSUME Inv, Write
    PROVE  \A x \in Clients : UnderWay(x)' = UnderWay(x)
<1>1. pc = "write"
  BY DEF Write
<1> PICK c \in Clients : c = table[scan]
  BY <1>1, WriteFacts
<1> DEFINE d == down[c]
           u == up[c]
<1>2. /\ down' = [down EXCEPT ![c] = Append(@, Head(buf))] /\ buf' = Tail(buf)
      /\ (pc' = "scan" /\ buf' = <<>>) \/ (pc' = "write" /\ scan' = scan)
      /\ UNCHANGED <<table, up>>
  BY DEF Write
<1>3. /\ buf # <<>> /\ buf \in Seq(Unit) /\ InServer(c) = buf
      /\ \A x \in Clients : x # c => InServer(x) = <<>>
  BY <1>1, WriteFacts
<1>4. d \in Seq(Unit) /\ down'[c] = Append(d, Head(buf)) /\ \A x \in Clients : x # c => down'[x] = down[x]
  BY <1>2 DEF Inv, TypeOK
<1>5. InServer(c)' = buf' /\ \A x \in Clients : x # c => InServer(x)' = <<>>
  BY <1>2 DEF InServer
<1>6. UnderWay(c)' = UnderWay(c)
  <2>1. Append(d, Head(buf)) \o Tail(buf) = d \o buf
    BY <1>3, <1>4, MoveDown
  <2>2. /\ UnderWay(c)' = Append(d, Head(buf)) \o Tail(buf) \o u
        /\ UnderWay(c) = d \o buf \o u
    BY <1>2, <1>3, <1>4, <1>5 DEF UnderWay
  <2>3. QED
    BY <2>1, <2>2
<1>7. \A x \in Clients : x # c => UnderWay(x)' = UnderWay(x)
  BY <1>2, <1>3, <1>4, <1>5 DEF UnderWay
<1>8. QED
  BY <1>6, <1>7

LEMMA WriteInv == Inv /\ Write => Inv'
<1> SUFFICES ASSUME Inv, Write PROVE Inv'
  OBVIOUS
<1>0. pc = "write"
  BY DEF Write
<1> PICK c \in Clients : c = table[scan]
  BY <1>0, WriteFacts
<1> DEFINE d == down[c]
<1>1. /\ pc = "write" /\ cend[c] = "open" /\ Len(d) < SockBuf
      /\ down' = [down EXCEPT ![c] = Append(@, Head(buf))] /\ buf' = Tail(buf)
      /\ \/ buf' = <<>> /\ pc' = "scan" /\ scan' = scan + 1
         \/ buf' # <<>> /\ pc' = "write" /\ scan' = scan
      /\ UNCHANGED <<server, table, last, ready, backlog, sock, cend, up, sent, got>>
  BY DEF Write, clients
<1>2. /\ c \in Clients /\ scan \in 1 .. Slots /\ Slots \in Nat /\ scan \in Positions
      /\ sock[c] = "open" /\ buf # <<>> /\ buf \in Seq(Unit) /\ InServer(c) = buf
      /\ \A x \in Clients : x # c => InServer(x) = <<>>
  BY <1>1, WriteFacts
<1>3. /\ d \in Seq(Unit) /\ Len(d) \in Nat /\ Head(buf) \in Unit
      /\ buf' \in Seq(Unit) /\ Len(buf') = Len(buf) - 1 /\ Len(buf) \in Nat /\ Len(buf) <= ReadSize
  <2>1. d \in Seq(Unit) /\ Len(d) \in Nat
    BY <1>2, ClientTypes DEF Inv
  <2>2. QED
    BY <1>1, <1>2, <2>1, HeadTailProperties, LenProperties DEF Inv, TypeOK
<1>4. Append(d, Head(buf)) \in Seq(Unit) /\ Len(Append(d, Head(buf))) = Len(d) + 1
  BY <1>3, AppendProperties
<1>5. /\ down'[c] = Append(d, Head(buf)) /\ \A x \in Clients : x # c => down'[x] = down[x]
      /\ down' \in [Clients -> Seq(Unit)]
  <2>1. down \in [Clients -> Seq(Unit)]
    BY DEF Inv, TypeOK
  <2>2. QED
    BY <1>1, <1>2, <1>4, <2>1
<1>6. table[scan] = c
  OBVIOUS
<1>7. TypeOK'
  <2>1. \A x \in Clients : Len(down'[x]) <= SockBuf
    <3> TAKE x \in Clients
    <3>1. Len(down[x]) <= SockBuf /\ SockBuf \in Nat
      BY ClientTypes DEF Inv
    <3>2. QED
      BY <1>1, <1>3, <1>4, <1>5, <3>1
  <2>2. scan' \in 0 .. Slots + 1 /\ Len(buf') <= ReadSize
    BY <1>1, <1>2, <1>3, SlotsAssumption
  <2>3. QED
    BY <1>1, <1>3, <1>5, <2>1, <2>2 DEF Inv, TypeOK
<1>8. Places'
  <2>1. Fresh'
    BY <1>1, <1>5 DEF Inv, Places, Fresh, Queued, Seated
  <2>2. Seats' /\ Queue' /\ Held'
    BY <1>1 DEF Inv, Places, Seats, Queue, Held, Queued, Seated
  <2>3. QED
    BY <2>1, <2>2 DEF Places
<1>9. StillReady' /\ Writing'
  <2>1. \A i \in Positions : Readable(i) => Readable(i)'
    BY <1>1 DEF Readable
  <2>2. \A i \in ready : i >= scan /\ i # scan => i \in Positions /\ Readable(i)
    BY <1>1, <1>2 DEF Inv, TypeOK, Positions, StillReady
  <2>3. \A i \in ready : i >= scan + 1 => i >= scan /\ i # scan
    BY <1>2 DEF Inv, TypeOK, Positions
  <2>4. QED
    BY <1>1, <1>2, <1>6, <2>1, <2>2, <2>3 DEF StillReady, Writing
<1>10. ASSUME NEW x \in Clients, x # c PROVE AllDue(x)' /\ FirstDue(x)'
  BY <1>1, <1>5, <1>10, WriteMoves, KeptInOrder DEF Inv, InOrder
<1>11. AllDue(c)' /\ FirstDue(c)'
  <2> DEFINE e == Append(d, Head(buf))
             b == Tail(buf)
             u == up[c]
             g == got[c]
             n == sent[c] - got[c]
  <2>1. UnderWay(c) = UnitsOf(c, g, n) /\ Due(c)' = UnitsOf(c, g, n)
    BY <1>1, <1>2, DueFacts DEF Inv, InOrder, AllDue, Due, UnitsOf
  <2>2. AllDue(c)'
    BY <2>1, WriteMoves DEF AllDue
  <2>3. g \in Nat /\ n \in Nat /\ e \in Seq(Unit) /\ u \in Seq(Unit) /\ b \in Seq(Unit)
    BY <1>1, <1>2, <1>3, <1>4, DueFacts, ClientTypes DEF Inv
  <2>4. e \o b \o u = UnitsOf(c, g, n)
    <3>1. UnderWay(c) = d \o buf \o u
      BY <1>2 DEF UnderWay
    <3>2. e \o b = d \o buf
      BY <1>1, <1>2, <1>3, MoveDown
    <3>3. QED
      BY <2>1, <3>1, <3>2
  <2>5. down'[c] = e /\ got'[c] = g /\ sent'[c] - got'[c] = n
    BY <1>1, <1>5
  <2> HIDE DEF e, b, u, g, n
  <2>6. Len(e) <= n /\ \A k \in 1 .. Len(e) : e[k] = [from |-> c, n |-> g + k - 1]
    BY <2>3, <2>4, OrderGivesFirst, ZenonT(40)
  <2>7. FirstDue(c)'
    BY <2>5, <2>6 DEF FirstDue
  <2>8. QED
    BY <2>2, <2>7
<1>12. QED
  BY <1>7, <1>8, <1>9, <1>10, <1>11 DEF Inv, InOrder

LEMMA NextInv == Inv /\ [Next]_vars => Inv'
<1> SUFFICES ASSUME Inv, [Next]_vars PROVE Inv'
  OBVIOUS
<1>1. CASE UNCHANGED vars
  <2>1. /\ UNCHANGED <<server, pc, table, last, ready, scan, buf, backlog, sock, cend, up, down, sent, got>>
    BY <1>1 DEF vars, loop, clients
  <2>2. TypeOK'
    BY <2>1 DEF Inv, TypeOK
  <2>3. Places'
    BY <2>1, PlacesUnchanged DEF Inv
  <2>4. StillReady' /\ Writing'
    BY <2>1 DEF Inv, StillReady, Writing, Readable
  <2>5. InOrder'
    BY <2>1, NothingMoves DEF InServer
  <2>6. QED
    BY <2>2, <2>3, <2>4, <2>5 DEF Inv
<1>2. CASE \E c \in Clients : Connect(c) \/ Send(c) \/ Receive(c) \/ Close(c)
  BY <1>2, ConnectInv, SendInv, ReceiveInv, CloseInv
<1>3. CASE Poll \/ EndScan \/ PollFails \/ Killed
  BY <1>3, PollInv, EndScanInv, EndsInv DEF PollFails, Killed
<1>4. CASE Accept \/ AcceptFails \/ AcceptNoRoom
  BY <1>4, AcceptInv, AcceptFailsInv, AcceptNoRoomInv
<1>5. CASE Write \/ WriteToClosed \/ WriteFails
  BY <1>5, WriteInv, WriteLostInv
<1>6. CASE \E i \in Positions : Read(i) \/ Drop(i)
  BY <1>6, ReadInv, DropInv
<1>7. QED
  BY <1>1, <1>2, <1>3, <1>4, <1>5, <1>6 DEF Next, Server

LEMMA Invariance == Spec => []Inv
<1>1. Init => Inv
  BY InitInv
<1>2. Inv /\ [Next]_vars => Inv'
  BY NextInv
<1>3. QED
  BY <1>1, <1>2, PTL DEF Spec

-----------------------------------------------------------------------------
(* The properties. *)

\* Types; nobody receives more than it sent, and the socket buffers and the
\* server's own never hold more than they have room for.
THEOREM TypesHold == Spec => []TypeOK
<1>1. Inv => TypeOK
  BY DEF Inv
<1>2. QED
  BY <1>1, Invariance, PTL

\* Neither accept nor read ever blocks the loop, whatever was accepted, read
\* and closed since select or poll returned.
THEOREM NeverBlocksHolds == Spec => []NeverBlocks
<1>1. Inv => NeverBlocks
  BY DEF Inv, StillReady, NeverBlocks, Pending
<1>2. QED
  BY <1>1, Invariance, PTL

\* The queue and the positions, as the invariant speaks of them.
LEMMA Sights ==
    ASSUME Inv, NEW c \in Clients
    PROVE  /\ c \in ToSet(backlog) <=> Queued(c)
           /\ Seated(c) => Cardinality(PlacesOf(c)) = 1 /\ PlacesOf(c) # {}
           /\ ~Seated(c) => PlacesOf(c) = {}
<1>1. c \in ToSet(backlog) <=> Queued(c)
  <2>1. DOMAIN backlog = 1 .. Len(backlog)
    BY LenProperties DEF Inv, TypeOK
  <2>2. QED
    BY <2>1 DEF ToSet, Queued
<1>2. \A i \in Positions : table[i] = c => i \in PlacesOf(c) /\ PlacesOf(c) = {i}
  <2> SUFFICES ASSUME NEW i \in Positions, table[i] = c PROVE i \in PlacesOf(c) /\ PlacesOf(c) = {i}
    OBVIOUS
  <2>1. c # Listening /\ c # Free /\ Slots \in Nat /\ last \in Positions
    BY SlotsAssumption DEF Inv, TypeOK
  <2>2. i \in 1 .. Slots
    BY <2>1 DEF Inv, Places, Seats, Positions
  <2>3. i \in PlacesOf(c)
    BY <2>1, <2>2 DEF Inv, Places, Seats, Positions, PlacesOf
  <2>4. \A j \in PlacesOf(c) : j = i
    <3> TAKE j \in PlacesOf(c)
    <3>1. j \in Positions /\ table[j] = c
      BY <2>1 DEF PlacesOf, Positions
    <3>2. QED
      BY <2>1, <3>1 DEF Inv, Places, Seats
  <2>5. QED
    BY <2>3, <2>4
<1>3. \A i \in PlacesOf(c) : i \in Positions /\ table[i] = c
  BY SlotsAssumption DEF Inv, TypeOK, Positions, PlacesOf
<1>4. Seated(c) => Cardinality(PlacesOf(c)) = 1 /\ PlacesOf(c) # {}
  BY <1>2, FS_Singleton DEF Seated
<1>5. ~Seated(c) => PlacesOf(c) = {}
  BY <1>3 DEF Seated
<1>6. QED
  BY <1>1, <1>4, <1>5

LEMMA PlacesHold ==
    ASSUME Inv, NEW c \in Clients
    PROVE  AtItsPlace(c)
<1> SUFFICES ASSUME pc # "dead"
             PROVE  /\ PlacesOf(c) # {} => Accepted(c)
                    /\ Accepted(c) => \/ Cardinality(PlacesOf(c)) = 1
                                      \/ server = "poll_252e04f" /\ PlacesOf(c) = {}
  BY DEF AtItsPlace
<1>1. PlacesOf(c) # {} => Seated(c) /\ ~Queued(c) /\ sock[c] = "open"
  BY Sights DEF Seated, Queued, Inv, Places, Queue, Held
<1>2. sock[c] = "open" /\ ~Queued(c) => Seated(c) \/ server = "poll_252e04f"
  BY DEF Inv, Places, Held
<1>3. QED
  BY <1>1, <1>2, Sights DEF Accepted

\* Who leaves the queue without a position, or a position, with its connection
\* still open was accepted by poll_252e04f when it had no room.
LEMMA ForgottenWhenFull == Inv /\ [Next]_vars => ForgetsOnlyWhenFull
<1> SUFFICES ASSUME Inv, [Next]_vars, NEW c \in Clients,
                    InSight(c), ~InSight(c)', sock'[c] = "open"
             PROVE  server = "poll_252e04f" /\ FreeSlots = {}
  BY DEF ForgetsOnlyWhenFull
<1>1. Inv'
  BY NextInv
<1>2. /\ Queued(c) \/ Seated(c)
      /\ ~Queued(c)' /\ ~Seated(c)'
  <2>1. Queued(c) \/ Seated(c)
    BY Sights DEF InSight
  <2>2. (c \in ToSet(backlog))' <=> Queued(c)'
    <3>1. DOMAIN backlog' = 1 .. Len(backlog')
      BY <1>1, LenProperties DEF Inv, TypeOK
    <3>2. QED
      BY <3>1 DEF ToSet, Queued
  <2>3. Seated(c)' => PlacesOf(c)' # {}
    <3> SUFFICES ASSUME NEW i \in Positions, table'[i] = c PROVE i \in PlacesOf(c)'
      BY DEF Seated
    <3>1. c # Listening /\ c # Free /\ Slots \in Nat /\ last' \in Positions
      BY <1>1, SlotsAssumption DEF Inv, TypeOK
    <3>2. i \in 1 .. Slots
      BY <1>1, <3>1 DEF Inv, Places, Seats, Positions
    <3>3. QED
      BY <1>1, <3>1, <3>2 DEF Inv, Places, Seats, Positions, PlacesOf
  <2>4. QED
    BY <2>1, <2>2, <2>3 DEF InSight
<1>3. server = "poll_252e04f"
  <2>1. server' = "poll_252e04f"
    BY <1>1, <1>2 DEF Inv, Places, Held
  <2>2. server' = server
    BY DEF Next, Server, Connect, Send, Receive, Close, Poll, PollFails, EndScan, Accept, AcceptFails,
           AcceptNoRoom, Write, WriteToClosed, WriteFails, Killed, Ends, Read, Drop, vars
  <2>3. QED
    BY <2>1, <2>2
<1>4. table' = table => ~(backlog' = backlog)
  BY <1>2 DEF Queued, Seated
<1>5. CASE AcceptNoRoom
  BY <1>3, <1>5 DEF AcceptNoRoom
<1>6. CASE Accept
  <2>1. 0 \in Positions /\ backlog # <<>> /\ backlog' = Tail(backlog)
    BY <1>6, AtFacts, SlotsAssumption DEF Accept, Positions
  <2>2. PICK j \in 1 .. Slots : table[j] = Free /\ table' = [table EXCEPT ![j] = Head(backlog)]
    BY <1>6 DEF Accept, FreeSlots
  <2>3. Slots \in Nat /\ j \in Positions
    BY SlotsAssumption DEF Positions
  <2>4. /\ table'[j] = Head(backlog)
        /\ \A i \in Positions : table[i] = c => table'[i] = c
    BY <2>2, <2>3, SlotsAssumption DEF Inv, TypeOK
  <2>5. Queued(c) /\ c # Head(backlog) => Queued(c)'
    BY <2>1, Dequeued
  <2>6. QED
    BY <1>2, <2>3, <2>4, <2>5 DEF Seated
<1>7. ASSUME NEW i \in Positions, Drop(i) PROVE FALSE
  <2>1. i > 0 /\ At(i) /\ backlog' = backlog
    BY <1>7 DEF Drop
  <2>2. table[i] \in Clients
    BY <2>1, AtFacts
  <2>3. c # table[i]
    BY <1>7, <2>2 DEF Drop, Inv, TypeOK
  <2>4. \A k \in Positions : table[k] = c => table'[k] = c
    BY <1>7, <2>3 DEF Drop, Inv, TypeOK
  <2>5. QED
    BY <1>2, <2>1, <2>4 DEF Queued, Seated
<1>8. ASSUME NEW d \in Clients, Connect(d) PROVE FALSE
  <2>1. backlog' = Append(backlog, d) /\ table' = table
    BY <1>8 DEF Connect
  <2>2. Queued(c) => Queued(c)'
    <3> SUFFICES ASSUME NEW k \in 1 .. Len(backlog), backlog[k] = c PROVE Queued(c)'
      BY DEF Queued
    <3>1. Len(backlog') = Len(backlog) + 1 /\ backlog'[k] = c /\ Len(backlog) \in Nat
      BY <2>1, AppendProperties, LenProperties DEF Inv, TypeOK
    <3>2. k \in 1 .. Len(backlog')
      BY <3>1
    <3>3. QED
      BY <3>1, <3>2 DEF Queued
  <2>3. QED
    BY <1>2, <2>1, <2>2 DEF Seated
<1>9. QED
  BY <1>4, <1>5, <1>6, <1>7, <1>8
     DEF Next, Server, Send, Receive, Close, Poll, PollFails, EndScan, AcceptFails,
         Write, WriteToClosed, WriteFails, Killed, Ends, Read, vars, loop

\* Every connection that was accepted is polled, at one position, until the
\* server closes it; but for those that one side of the merge forgets, and that
\* happens only when it accepts with all positions taken.
THEOREM WatchedHolds == Spec => Watched
<1>1. Inv => \A c \in Clients : AtItsPlace(c)
  BY PlacesHold
<1>2. Inv /\ [Next]_vars => [ForgetsOnlyWhenFull]_vars
  BY ForgottenWhenFull
<1>3. QED
  BY <1>1, <1>2, Invariance, PTL DEF Spec, Watched

\* Every client gets back its own units, once and in order.
THEOREM OrderHolds == Spec => []EchoInOrder
<1>1. Inv => EchoInOrder
  BY DEF Inv, InOrder, AllDue, EchoInOrder
<1>2. QED
  BY <1>1, Invariance, PTL
=============================================================================
