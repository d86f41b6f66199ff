------------------------- MODULE ForkServerProofs -------------------------
(***************************************************************************)
(* What the run checks of ForkServer for three clients, proved for any      *)
(* number of clients, any sizes of message and buffers and any limits.      *)
(***************************************************************************)
EXTENDS ForkServer, FiniteSetTheorems, SequenceTheorems, TLAPS

\* Only a client that has ended has closed its end.
Ends == \A c \in Clients : cend[c] = "open" <=> cpc[c] \notin {"done", "failed"}

In(c, queue) == \E k \in 1 .. Len(queue) : queue[k] = c
Queued(c) == In(c, backlog)

\* Nothing is under way before the client sends, and the server knows nothing
\* of a client that has not connected.
Fresh ==
    \A c \in Clients :
       /\ cpc[c] \in {"connect", "send"} =>
             up[c] = <<>> /\ down[c] = <<>> /\ buf[c] = <<>> /\ got[c] = 0
       /\ cpc[c] = "connect" => sock[c] = "open" /\ child[c] = "none" /\ ~Queued(c)

\* The server's end of a connection without a child is open while the parent runs.
Waiting ==
    /\ backlog # <<>> => parent = "accept"
    /\ \A c \in Clients :
          /\ Queued(c) => child[c] = "none" /\ sock[c] = "open"
          /\ child[c] = "leaked" /\ parent = "accept" => sock[c] = "open"

\* What may still come back is what the client waits for next.
InOrder ==
    \A c \in Clients : \A k \in 1 .. Len(Wire(c)) : Wire(c)[k] = [from |-> c, n |-> got[c] + k - 1]

Places == Ends /\ Fresh /\ Waiting
Inv == TypeOK /\ Places /\ InOrder

-----------------------------------------------------------------------------
(* Sequences. *)

\* A recv splits the stream.
LEMMA Split ==
    ASSUME NEW u \in Seq(Unit), NEW need \in Nat, NEW k \in Receivable(u, need)
    PROVE  /\ k \in 1 .. Len(u) /\ k \in 1 .. need
           /\ SubSeq(u, 1, k) \in Seq(Unit) /\ Len(SubSeq(u, 1, k)) = k
           /\ \A i \in 1 .. k : SubSeq(u, 1, k)[i] = u[i]
           /\ Rest(u, k) \in Seq(Unit) /\ Len(Rest(u, k)) = Len(u) - k
           /\ \A i \in 1 .. Len(u) - k : Rest(u, k)[i] = u[i + k]
           /\ SubSeq(u, 1, k) \o Rest(u, k) = u
<1>1. Len(u) \in Nat /\ k \in 1 .. Len(u) /\ k \in 1 .. need
  BY LenProperties DEF Receivable
<1>2. \A i \in 1 .. Len(u) : u[i] \in Unit
  BY ElementOfSeq
<1>3. /\ SubSeq(u, 1, k) \in Seq(Unit) /\ Len(SubSeq(u, 1, k)) = k
      /\ \A i \in 1 .. k : SubSeq(u, 1, k)[i] = u[i]
  BY <1>1, <1>2, SubSeqProperties
<1>4. /\ SubSeq(u, k + 1, Len(u)) \in Seq(Unit) /\ Len(SubSeq(u, k + 1, Len(u))) = Len(u) - k
      /\ \A i \in 1 .. Len(u) - k : SubSeq(u, k + 1, Len(u))[i] = u[i + k]
  BY <1>1, <1>2, SubSeqProperties
<1>5. SubSeq(u, 1, k) \o SubSeq(u, k + 1, Len(u)) = u
  <2>1. 1 \in 1 .. Len(u) + 1 /\ k \in 1 - 1 .. Len(u) /\ Len(u) \in k .. Len(u)
    BY <1>1
  <2>2. SubSeq(u, 1, k) \o SubSeq(u, k + 1, Len(u)) = SubSeq(u, 1, Len(u))
    BY <2>1, ConcatAdjacentSubSeq
  <2>3. QED
    BY <2>2, SubSeqFull
<1>6. QED
  BY <1>1, <1>3, <1>4, <1>5 DEF Rest

\* Three streams after another.
LEMMA Three ==
    ASSUME NEW d \in Seq(Unit), NEW b \in Seq(Unit), NEW u \in Seq(Unit)
    PROVE  /\ d \o b \o u \in Seq(Unit) /\ Len(d \o b \o u) = Len(d) + Len(b) + Len(u)
           /\ d \o b \o u = d \o (b \o u)
           /\ \A i \in 1 .. Len(d) : (d \o b \o u)[i] = d[i]
<1>1. Len(d) \in Nat /\ Len(b) \in Nat /\ Len(u) \in Nat
  BY LenProperties
<1>2. /\ d \o b \in Seq(Unit) /\ Len(d \o b) = Len(d) + Len(b)
      /\ \A i \in 1 .. Len(d) : (d \o b)[i] = d[i]
  BY <1>1, ConcatProperties
<1>3. /\ d \o b \o u \in Seq(Unit) /\ Len(d \o b \o u) = Len(d) + Len(b) + Len(u)
      /\ \A i \in 1 .. Len(d) : (d \o b \o u)[i] = (d \o b)[i]
  BY <1>1, <1>2, ConcatProperties
<1>4. QED
  BY <1>2, <1>3, ConcatAssociative

\* What is received came first.
LEMMA RestOfThree ==
    ASSUME NEW d \in Seq(Unit), NEW b \in Seq(Unit), NEW u \in Seq(Unit), NEW k \in 1 .. Len(d)
    PROVE  Rest(d, k) \o b \o u = Rest(d \o b \o u, k)
<1> DEFINE t == b \o u
           s == d \o t
           r == Rest(d, k)
           q == Rest(s, k)
<1>1. Len(d) \in Nat /\ t \in Seq(Unit) /\ Len(t) \in Nat /\ k \in Nat
  BY LenProperties, ConcatProperties
<1>2. d \o b \o u = s
  BY Three
<1>3. k \in Receivable(d, k)
  BY <1>1 DEF Receivable
<1>4. /\ r \in Seq(Unit) /\ Len(r) = Len(d) - k
      /\ \A i \in 1 .. Len(d) - k : r[i] = d[i + k]
  BY <1>1, <1>3, Split
<1> HIDE DEF r
<1>5. r \o b \o u = r \o t
  BY <1>4, Three
<1> HIDE DEF t
<1>6. /\ s \in Seq(Unit) /\ Len(s) = Len(d) + Len(t)
      /\ \A i \in 1 .. Len(d) + Len(t) : s[i] = IF i <= Len(d) THEN d[i] ELSE t[i - Len(d)]
  BY <1>1, ConcatProperties
<1> HIDE DEF s
<1>7. k \in Receivable(s, k)
  BY <1>1, <1>6 DEF Receivable
<1>8. /\ q \in Seq(Unit) /\ Len(q) = Len(s) - k
      /\ \A i \in 1 .. Len(s) - k : q[i] = s[i + k]
  BY <1>1, <1>6, <1>7, Split
<1> HIDE DEF q
<1>9. /\ r \o t \in Seq(Unit) /\ Len(r \o t) = Len(r) + Len(t)
      /\ \A i \in 1 .. Len(r) + Len(t) : (r \o t)[i] = IF i <= Len(r) THEN r[i] ELSE t[i - Len(r)]
  BY <1>1, <1>4, ConcatProperties
<1> DEFINE rt == r \o t
<1> HIDE DEF rt
<1>10. /\ rt \in Seq(Unit) /\ Len(rt) = Len(q)
       /\ \A i \in 1 .. Len(q) : rt[i] = IF i <= Len(d) - k THEN r[i] ELSE t[i - (Len(d) - k)]
  BY <1>1, <1>4, <1>6, <1>8, <1>9 DEF rt
<1>11. \A i \in 1 .. Len(q) : rt[i] = q[i]
  <2> TAKE i \in 1 .. Len(q)
  <2>1. q[i] = s[i + k] /\ i + k \in 1 .. Len(d) + Len(t)
    BY <1>1, <1>6, <1>8
  <2>2. CASE i <= Len(d) - k
    BY <1>1, <1>4, <1>6, <1>8, <1>10, <2>1, <2>2
  <2>3. CASE i > Len(d) - k
    <3>1. i - (Len(d) - k) = i + k - Len(d) /\ ~(i + k <= Len(d))
      BY <1>1, <2>3
    <3>2. q[i] = t[i + k - Len(d)]
      BY <1>6, <2>1, <3>1
    <3>3. rt[i] = t[i - (Len(d) - k)]
      BY <1>1, <1>10, <2>3
    <3>4. QED
      BY <3>1, <3>2, <3>3
  <2>4. QED
    BY <1>1, <2>2, <2>3
<1>12. rt = q
  BY <1>8, <1>10, <1>11, SeqEqual
<1>13. QED
  BY <1>2, <1>5, <1>12 DEF q, r, rt

LEMMA MessageFacts ==
    ASSUME NEW c \in Clients
    PROVE  Message(c) \in Seq(Unit) /\ Len(Message(c)) = MsgSize
           /\ \A i \in 1 .. MsgSize : Message(c)[i] = [from |-> c, n |-> i - 1]
<1>1. MsgSize \in Nat
  BY BoundsAssumption
<1>2. \A i \in 1 .. MsgSize : Message(c)[i] = [from |-> c, n |-> i - 1]
  BY DEF Message
<1>3. \A i \in 1 .. MsgSize : [from |-> c, n |-> i - 1] \in Unit
  BY <1>1 DEF Unit
<1>4. Message(c) \in [1 .. MsgSize -> Unit]
  BY <1>3 DEF Message
<1>5. Message(c) \in Seq(Unit)
  BY <1>1, <1>4, SeqDef
<1>6. Len(Message(c)) = MsgSize
  BY <1>1, <1>4, <1>5, LenProperties
<1>7. QED
  BY <1>2, <1>5, <1>6

\* The queue of connections.
LEMMA QueueAppend ==
    ASSUME NEW q \in Seq(Clients), IsInjective(q), NEW c \in Clients, ~In(c, q)
    PROVE  /\ Append(q, c) \in Seq(Clients) /\ IsInjective(Append(q, c))
           /\ \A x \in Clients : In(x, Append(q, c)) <=> In(x, q) \/ x = c
<1> DEFINE a == Append(q, c)
<1>1. /\ Len(q) \in Nat /\ DOMAIN q = 1 .. Len(q)
      /\ a \in Seq(Clients) /\ Len(a) = Len(q) + 1 /\ DOMAIN a = 1 .. Len(q) + 1
      /\ \A i \in 1 .. Len(q) : a[i] = q[i]
      /\ a[Len(q) + 1] = c
  BY AppendProperties, LenProperties
<1> HIDE DEF a
<1>2. \A i \in 1 .. Len(q) + 1 : i \in 1 .. Len(q) \/ i = Len(q) + 1
  BY <1>1
<1>3. IsInjective(a)
  BY <1>1, <1>2 DEF IsInjective, In
<1>4. \A x \in Clients : In(x, a) <=> In(x, q) \/ x = c
  BY <1>1, <1>2 DEF In
<1>5. QED
  BY <1>1, <1>3, <1>4 DEF a

LEMMA QueueTail ==
    ASSUME NEW q \in Seq(Clients), IsInjective(q), q # <<>>
    PROVE  /\ Tail(q) \in Seq(Clients) /\ IsInjective(Tail(q))
           /\ Head(q) \in Clients /\ In(Head(q), q)
           /\ \A x \in Clients : In(x, Tail(q)) <=> In(x, q) /\ x # Head(q)
<1> DEFINE t == Tail(q)
<1>1. /\ Len(q) \in Nat \ {0} /\ DOMAIN q = 1 .. Len(q) /\ Head(q) = q[1]
      /\ t \in Seq(Clients) /\ Len(t) = Len(q) - 1 /\ DOMAIN t = 1 .. Len(q) - 1
      /\ \A i \in 1 .. Len(q) - 1 : t[i] = q[i + 1]
      /\ Head(q) \in Clients
  BY HeadTailProperties, LenProperties, EmptySeq
<1> HIDE DEF t
<1>2. \A i, j \in 1 .. Len(q) : q[i] = q[j] => i = j
  BY <1>1 DEF IsInjective
<1>3. \A i \in 1 .. Len(q) : i = 1 \/ (i - 1 \in 1 .. Len(q) - 1 /\ (i - 1) + 1 = i)
  BY <1>1
<1>4. \A i \in 1 .. Len(q) - 1 : i + 1 \in 1 .. Len(q) /\ i + 1 # 1
  BY <1>1
<1>5. IsInjective(t)
  <2> SUFFICES ASSUME NEW i \in 1 .. Len(q) - 1, NEW j \in 1 .. Len(q) - 1, t[i] = t[j] PROVE i = j
    BY <1>1 DEF IsInjective
  <2>1. i + 1 = j + 1
    BY <1>1, <1>2, <1>4
  <2>2. QED
    BY <2>1
<1>6. \A x \in Clients : In(x, t) <=> In(x, q) /\ x # Head(q)
  <2> SUFFICES ASSUME NEW x \in Clients PROVE In(x, t) <=> In(x, q) /\ x # Head(q)
    OBVIOUS
  <2>1. ASSUME In(x, t) PROVE In(x, q) /\ x # Head(q)
    <3> PICK i \in 1 .. Len(q) - 1 : t[i] = x
      BY <1>1, <2>1 DEF In
    <3>1. i + 1 \in 1 .. Len(q) /\ i + 1 # 1 /\ q[i + 1] = x
      BY <1>1, <1>4
    <3>2. 1 \in 1 .. Len(q)
      BY <1>1
    <3>3. x # q[1]
      BY <1>2, <3>1, <3>2
    <3>4. QED
      BY <1>1, <3>1, <3>3 DEF In
  <2>2. ASSUME In(x, q), x # Head(q) PROVE In(x, t)
    <3> PICK i \in 1 .. Len(q) : q[i] = x
      BY <2>2 DEF In
    <3>1. i - 1 \in 1 .. Len(q) - 1 /\ (i - 1) + 1 = i
      BY <1>1, <1>3, <2>2
    <3>2. t[i - 1] = x
      BY <1>1, <3>1
    <3>3. QED
      BY <1>1, <3>1, <3>2 DEF In
  <2>3. QED
    BY <2>1, <2>2
<1>7. In(Head(q), q)
  BY <1>1 DEF In
<1>8. QED
  BY <1>1, <1>5, <1>6, <1>7 DEF t

LEMMA QueueIsSet ==
    ASSUME NEW q \in Seq(Clients), NEW c \in Clients
    PROVE  c \in ToSet(q) <=> In(c, q)
<1>1. DOMAIN q = 1 .. Len(q)
  BY LenProperties
<1>2. QED
  BY <1>1 DEF ToSet, In

-----------------------------------------------------------------------------
(* Types. *)

FunctionTypes ==
    /\ limit \in ForkLimits /\ parent \in {"accept", "gone"}
    /\ backlog \in Seq(Clients) /\ IsInjective(backlog)
    /\ child \in [Clients -> {"none", "leaked", "read", "write", "zombie", "reaped"}]
    /\ sock \in [Clients -> {"open", "closed", "reset"}]
    /\ cend \in [Clients -> {"open", "closed", "reset"}]
    /\ cpc \in [Clients -> {"connect", "send", "reply", "sleep", "done", "failed"}]
    /\ got \in [Clients -> 0 .. MsgSize]
    /\ up \in [Clients -> Seq(Unit)] /\ down \in [Clients -> Seq(Unit)]
    /\ buf \in [Clients -> Seq(Unit)]
WithinLimit == Cardinality(Running \cup Zombies) <= limit
Connection(c) ==
    /\ Len(up[c]) + Len(buf[c]) + Len(down[c]) + got[c] <= MsgSize
    /\ (child[c] = "write") = (buf[c] # <<>>)
    /\ child[c] \in {"read", "write"} => sock[c] = "open"
    /\ child[c] \in {"zombie", "reaped"} => sock[c] # "open"

LEMMA TypeParts == TypeOK <=> FunctionTypes /\ WithinLimit /\ \A c \in Clients : Connection(c)
  BY DEF TypeOK, FunctionTypes, WithinLimit, Connection

LEMMA TypePartsNext == FunctionTypes' /\ WithinLimit' /\ (\A c \in Clients : Connection(c)') => TypeOK'
  BY DEF TypeOK, FunctionTypes, WithinLimit, Connection

LEMMA Lengths ==
    ASSUME TypeOK, NEW c \in Clients
    PROVE  /\ up[c] \in Seq(Unit) /\ down[c] \in Seq(Unit) /\ buf[c] \in Seq(Unit)
           /\ Len(up[c]) \in Nat /\ Len(down[c]) \in Nat /\ Len(buf[c]) \in Nat
           /\ got[c] \in Nat /\ MsgSize \in Nat \ {0} /\ ReadSize \in Nat \ {0}
           /\ Len(<<>>) = 0 /\ <<>> \in Seq(Unit)
           /\ Connection(c)
           /\ Len(up[c]) + Len(buf[c]) + Len(down[c]) + got[c] <= MsgSize
<1>1. up[c] \in Seq(Unit) /\ down[c] \in Seq(Unit) /\ buf[c] \in Seq(Unit)
  BY TypeParts DEF FunctionTypes
<1>2. Len(up[c]) \in Nat /\ Len(down[c]) \in Nat /\ Len(buf[c]) \in Nat
  BY <1>1, LenProperties
<1>3. got[c] \in Nat /\ MsgSize \in Nat \ {0} /\ ReadSize \in Nat \ {0} /\ Connection(c)
  BY TypeParts, BoundsAssumption DEF FunctionTypes
<1>4. Len(up[c]) + Len(buf[c]) + Len(down[c]) + got[c] <= MsgSize
  BY <1>3 DEF Connection
<1>5. QED
  BY <1>1, <1>2, <1>3, <1>4, EmptySeq

LEMMA ConnectionKept ==
    ASSUME NEW c \in Clients, Connection(c), up'[c] = up[c], buf'[c] = buf[c], down'[c] = down[c],
           got'[c] = got[c], child'[c] = child[c], sock'[c] = sock[c]
    PROVE  Connection(c)'
  BY DEF Connection

\* No more places of the table of processes are taken.
LEMMA NoMoreProcesses ==
    ASSUME TypeOK, limit' = limit,
           (Running \cup Zombies)' \subseteq Running \cup Zombies
    PROVE  WithinLimit'
<1> DEFINE P == Running \cup Zombies
<1>1. IsFiniteSet(P)
  BY BoundsAssumption, FS_Subset DEF Running, Zombies
<1>2. Cardinality(P') \in Nat /\ Cardinality(P) \in Nat /\ Cardinality(P') <= Cardinality(P)
  <2> HIDE DEF P
  <2>1. P' \subseteq P
    BY DEF P
  <2>2. QED
    BY <1>1, <2>1, FS_Subset, FS_CardinalityType
<1>3. Cardinality(P) <= limit /\ limit \in Nat
  BY TypeParts, BoundsAssumption DEF WithinLimit, FunctionTypes
<1>4. QED
  BY <1>2, <1>3 DEF WithinLimit

-----------------------------------------------------------------------------
(* The initial state and the clients. *)

Good == TypeOK /\ Places

LEMMA InitGood == Init => Good
<1> SUFFICES ASSUME Init PROVE Good
  OBVIOUS
<1>1. <<>> \in Seq(Unit) /\ <<>> \in Seq(Clients) /\ Len(<<>>) = 0
  BY EmptySeq
<1>2. FunctionTypes
  <2>1. IsInjective(<<>>)
    BY DEF IsInjective
  <2>2. QED
    BY <1>1, <2>1, BoundsAssumption DEF Init, FunctionTypes, Nothing
<1>3. WithinLimit
  <2>1. Running \cup Zombies = {}
    BY DEF Init, Running, Zombies
  <2>2. Cardinality(Running \cup Zombies) = 0
    BY <2>1, FS_EmptySet
  <2>3. limit \in Nat
    BY BoundsAssumption DEF Init
  <2>4. QED
    BY <2>2, <2>3 DEF WithinLimit
<1>4. \A c \in Clients : Connection(c)
  BY <1>1, BoundsAssumption DEF Init, Connection, Nothing
<1>5. Places
  BY <1>1 DEF Init, Places, Ends, Fresh, Waiting, Queued, In, Nothing
<1>6. QED
  BY <1>2, <1>3, <1>4, <1>5, TypeParts DEF Good

\* A client's step leaves the table of processes alone.
LEMMA SameProcesses ==
    ASSUME TypeOK, UNCHANGED <<limit, child>>
    PROVE  WithinLimit'
  BY NoMoreProcesses DEF Running, Zombies

LEMMA ConnectQueue ==
    ASSUME Good, NEW c \in Clients, Connect(c)
    PROVE  /\ backlog' \in Seq(Clients) /\ IsInjective(backlog')
           /\ \A x \in Clients : Queued(x)' <=> Queued(x) \/ (parent = "accept" /\ x = c)
<1>1. FunctionTypes /\ ~Queued(c)
  BY TypeParts DEF Connect, Good, Places, Fresh
<1>2. CASE parent = "accept"
  <2>1. backlog' = Append(backlog, c) /\ backlog \in Seq(Clients) /\ IsInjective(backlog) /\ ~In(c, backlog)
    BY <1>1, <1>2 DEF Connect, FunctionTypes, Queued
  <2>2. QED
    BY <1>2, <2>1, QueueAppend DEF Queued
<1>3. CASE parent # "accept"
  BY <1>1, <1>3 DEF Connect, FunctionTypes, Queued
<1>4. QED
  BY <1>2, <1>3

LEMMA ConnectGood ==
    ASSUME Good, NEW c \in Clients, Connect(c)
    PROVE  Good'
<1>1. /\ cpc[c] = "connect" /\ UNCHANGED <<limit, parent, child, buf, sock, up, down, got>>
      /\ FunctionTypes /\ ~Queued(c) /\ child[c] = "none" /\ sock[c] = "open"
  BY TypeParts DEF Connect, Good, Places, Fresh
<1>2. backlog' \in Seq(Clients) /\ IsInjective(backlog')
      /\ \A x \in Clients : Queued(x)' <=> Queued(x) \/ (parent = "accept" /\ x = c)
  BY ConnectQueue
<1>3. FunctionTypes'
  BY <1>1, <1>2 DEF Connect, ClientEnds, Closed, FunctionTypes
<1>4. Places'
  <2>1. Ends'
    BY <1>1 DEF Good, Places, Ends, FunctionTypes, Connect, ClientEnds, Closed
  <2>2. Fresh'
    BY <1>1, <1>2 DEF Good, Places, Fresh, FunctionTypes, Connect, ClientEnds
  <2>3. Waiting'
    BY <1>1, <1>2 DEF Good, Places, Waiting, FunctionTypes, Connect, ClientEnds
  <2>4. QED
    BY <2>1, <2>2, <2>3 DEF Places
<1>5. \A x \in Clients : Connection(x)'
  BY <1>1, TypeParts, ConnectionKept DEF Good
<1>6. QED
  BY <1>1, <1>3, <1>4, <1>5, SameProcesses, TypePartsNext DEF Good

LEMMA SendMessageGood ==
    ASSUME Good, NEW c \in Clients, SendMessage(c)
    PROVE  Good'
<1>1. /\ cpc[c] = "send" /\ UNCHANGED <<limit, parent, backlog, child, buf, sock, cend, down, got>>
      /\ FunctionTypes /\ cpc' = [cpc EXCEPT ![c] = "reply"]
      /\ up[c] = <<>> /\ down[c] = <<>> /\ buf[c] = <<>> /\ got[c] = 0
  BY TypeParts DEF SendMessage, server, Good, Places, Fresh
<1> DEFINE msg == Message(c)
<1>2. msg \in Seq(Unit) /\ Len(msg) = MsgSize
  BY MessageFacts
<1> HIDE DEF msg
<1>3. up' = up \/ up' = [up EXCEPT ![c] = msg]
  BY DEF SendMessage, msg
<1>4. FunctionTypes'
  BY <1>1, <1>2, <1>3 DEF FunctionTypes
<1>5. Places'
  BY <1>1, <1>3 DEF Good, Places, Ends, Fresh, Waiting, FunctionTypes, Queued
<1>6. \A x \in Clients : Connection(x)'
  <2> TAKE x \in Clients
  <2>1. CASE up'[x] = up[x]
    BY <1>1, <2>1, TypeParts, ConnectionKept DEF Good
  <2>2. CASE up'[x] # up[x]
    <3>1. x = c /\ up'[x] = msg
      BY <1>1, <1>3, <2>2 DEF FunctionTypes
    <3>2. /\ Len(up'[x]) = MsgSize /\ Len(buf'[x]) = 0 /\ Len(down'[x]) = 0 /\ got'[x] = 0
          /\ MsgSize \in Nat /\ Connection(x)
      BY <1>1, <1>2, <3>1, Lengths DEF Good
    <3>3. Len(up'[x]) + Len(buf'[x]) + Len(down'[x]) + got'[x] <= MsgSize
      BY <3>2
    <3>4. QED
      BY <1>1, <3>2, <3>3 DEF Connection
  <2>3. QED
    BY <2>1, <2>2
<1>7. QED
  BY <1>1, <1>4, <1>5, <1>6, SameProcesses, TypePartsNext DEF Good

LEMMA ClientEndsGood ==
    ASSUME Good, NEW c \in Clients, SendFails(c) \/ Return(c)
    PROVE  Good'
<1>1. /\ cpc[c] \in {"send", "sleep"} /\ FunctionTypes
      /\ UNCHANGED <<limit, parent, backlog, child, buf, sock, up, down, got>>
      /\ \E l \in {"done", "failed"} : cpc' = [cpc EXCEPT ![c] = l]
      /\ \E e \in {"closed", "reset"} : cend' = [cend EXCEPT ![c] = e]
  BY TypeParts DEF SendFails, Return, ClientEnds, Closed, server, Good
<1>2. FunctionTypes'
  BY <1>1 DEF FunctionTypes
<1>3. Places'
  BY <1>1, SMTT(20) DEF Good, Places, Ends, Fresh, Waiting, FunctionTypes, Queued
<1>4. \A x \in Clients : Connection(x)'
  BY <1>1, TypeParts, ConnectionKept DEF Good
<1>5. QED
  BY <1>1, <1>2, <1>3, <1>4, SameProcesses, TypePartsNext DEF Good

LEMMA NoMessageGood ==
    ASSUME Good, NEW c \in Clients, NoMessage(c)
    PROVE  Good'
<1>1. /\ cpc[c] = "reply" /\ FunctionTypes /\ cpc' = [cpc EXCEPT ![c] = "sleep"]
      /\ UNCHANGED <<limit, parent, backlog, child, buf, sock, cend, up, down, got>>
  BY TypeParts DEF NoMessage, server, Good
<1>2. FunctionTypes'
  BY <1>1 DEF FunctionTypes
<1>3. Places'
  BY <1>1 DEF Good, Places, Ends, Fresh, Waiting, FunctionTypes, Queued
<1>4. \A x \in Clients : Connection(x)'
  BY <1>1, TypeParts, ConnectionKept DEF Good
<1>5. QED
  BY <1>1, <1>2, <1>3, <1>4, SameProcesses, TypePartsNext DEF Good

LEMMA UnitsLost ==
    ASSUME NEW a \in Nat, NEW b \in Nat, NEW d \in Nat, NEW g \in Nat, NEW m \in Nat, a + b + d + g <= m
    PROVE  /\ a + 0 + d + g <= m /\ a + 0 + (d + b) + g <= m
           /\ \A k \in 1 .. a : b = 0 => (a - k) + k + d + g <= m
  OBVIOUS

LEMMA UnitsMove ==
    ASSUME NEW a \in Nat, NEW b \in Nat, NEW d \in Nat, NEW g \in Nat, NEW m \in Nat,
           NEW k \in 1 .. d, a + b + d + g <= m
    PROVE  g + k \in 0 .. m /\ a + b + (d - k) + (g + k) <= m /\ d - k \in Nat
  OBVIOUS

LEMMA ReceiveMessageGood ==
    ASSUME Good, NEW c \in Clients, ReceiveMessage(c)
    PROVE  Good'
<1> PICK k \in Receivable(down[c], ReadSize) :
        down' = [down EXCEPT ![c] = Rest(@, k)] /\ got' = [got EXCEPT ![c] = @ + k]
  BY DEF ReceiveMessage
<1>1. /\ cpc[c] = "reply" /\ FunctionTypes /\ cpc' = [cpc EXCEPT ![c] = "sleep"]
      /\ UNCHANGED <<limit, parent, backlog, child, buf, sock, cend, up>>
  BY TypeParts DEF ReceiveMessage, server, Good
<1> DEFINE d == down[c]
           r == Rest(down[c], k)
<1>2. r \in Seq(Unit) /\ Len(r) = Len(d) - k /\ k \in 1 .. Len(d)
  BY Split, Lengths DEF Good
<1>3. down' = [down EXCEPT ![c] = r]
  OBVIOUS
<1> HIDE DEF r
<1>4. got[c] + k \in 0 .. MsgSize /\ Len(up[c]) + Len(buf[c]) + Len(r) + (got[c] + k) <= MsgSize
  BY <1>2, UnitsMove, Lengths DEF Good
<1>5. FunctionTypes'
  BY <1>1, <1>2, <1>3, <1>4 DEF FunctionTypes
<1>6. Places'
  BY <1>1, <1>3 DEF Good, Places, Ends, Fresh, Waiting, FunctionTypes, Queued
<1>7. \A x \in Clients : Connection(x)'
  <2> TAKE x \in Clients
  <2>1. CASE x = c
    <3>1. down'[x] = r /\ got'[x] = got[c] + k
      BY <1>1, <1>3, <2>1 DEF FunctionTypes
    <3>2. up'[c] = up[c] /\ buf'[c] = buf[c] /\ Connection(c)
      BY <1>1, Lengths DEF Good
    <3>3. QED
      BY <1>1, <1>4, <2>1, <3>1, <3>2 DEF Connection
  <2>2. CASE x # c
    <3>1. down'[x] = down[x] /\ got'[x] = got[x]
      BY <1>1, <1>3, <2>2 DEF FunctionTypes
    <3>2. QED
      BY <1>1, <3>1, TypeParts, ConnectionKept DEF Good
  <2>3. QED
    BY <2>1, <2>2
<1>8. QED
  BY <1>1, <1>5, <1>6, <1>7, SameProcesses, TypePartsNext DEF Good

-----------------------------------------------------------------------------
(* The parent. *)

LEMMA QueueStep ==
    ASSUME Good, backlog # <<>>, backlog' = Tail(backlog)
    PROVE  /\ backlog' \in Seq(Clients) /\ IsInjective(backlog')
           /\ Head(backlog) \in Clients
           /\ child[Head(backlog)] = "none" /\ sock[Head(backlog)] = "open"
           /\ cpc[Head(backlog)] # "connect"
           /\ \A x \in Clients : Queued(x)' <=> Queued(x) /\ x # Head(backlog)
<1>1. backlog \in Seq(Clients) /\ IsInjective(backlog)
  BY TypeParts DEF Good, FunctionTypes
<1>2. /\ backlog' \in Seq(Clients) /\ IsInjective(backlog')
      /\ Head(backlog) \in Clients /\ Queued(Head(backlog))
      /\ \A x \in Clients : Queued(x)' <=> Queued(x) /\ x # Head(backlog)
  BY <1>1, QueueTail DEF Queued
<1>3. QED
  BY <1>2 DEF Good, Places, Waiting, Fresh

\* The connection at the head of the queue gets a child or stays without.
LEMMA TakenGood ==
    ASSUME Good, parent = "accept", backlog # <<>>, backlog' = Tail(backlog),
           NEW label \in {"read", "leaked"},
           child' = [child EXCEPT ![Head(backlog)] = label],
           UNCHANGED <<limit, parent, buf, sock, cpc, got, cend, up, down>>
    PROVE  FunctionTypes' /\ Places' /\ \A x \in Clients : Connection(x)'
<1> DEFINE h == Head(backlog)
<1>1. /\ backlog' \in Seq(Clients) /\ IsInjective(backlog') /\ h \in Clients
      /\ child[h] = "none" /\ sock[h] = "open" /\ cpc[h] # "connect"
      /\ \A x \in Clients : Queued(x)' <=> Queued(x) /\ x # h
      /\ FunctionTypes
  BY QueueStep, TypeParts DEF Good
<1>2. child' = [child EXCEPT ![h] = label]
  OBVIOUS
<1> HIDE DEF h
<1>3. FunctionTypes'
  BY <1>1, <1>2 DEF FunctionTypes
<1>4. child'[h] = label /\ \A x \in Clients : x # h => child'[x] = child[x]
  BY <1>1, <1>2 DEF FunctionTypes
<1>5. Ends'
  BY DEF Good, Places, Ends
<1>6. Fresh'
  BY <1>1, <1>4 DEF Good, Places, Fresh
<1>7. Waiting'
  BY <1>1, <1>4 DEF Good, Places, Waiting
<1>8. \A x \in Clients : Connection(x)'
  <2> TAKE x \in Clients
  <2>1. Connection(x)
    BY TypeParts DEF Good
  <2>2. QED
    BY <1>1, <1>4, <2>1 DEF Connection
<1>9. QED
  BY <1>3, <1>5, <1>6, <1>7, <1>8 DEF Places

LEMMA AcceptGood ==
    ASSUME Good, Accept
    PROVE  Good'
<1> DEFINE h == Head(backlog)
           P == Running \cup Zombies
<1>1. FunctionTypes' /\ Places' /\ \A x \in Clients : Connection(x)'
  BY TakenGood DEF Accept, clients
<1>2. h \in Clients /\ child[h] = "none" /\ child' = [child EXCEPT ![h] = "read"] /\ limit' = limit
  BY QueueStep DEF Accept
<1>3. P' = P \cup {h} /\ h \notin P
  <2>1. child'[h] = "read" /\ \A x \in Clients : x # h => child'[x] = child[x]
    BY <1>2, TypeParts DEF Good, FunctionTypes
  <2> HIDE DEF h
  <2>2. QED
    BY <1>2, <2>1 DEF Running, Zombies
<1>4. IsFiniteSet(P)
  BY BoundsAssumption, FS_Subset DEF Running, Zombies
<1>5. Cardinality(P') = Cardinality(P) + 1 /\ Cardinality(P) \in Nat
  <2> HIDE DEF P, h
  <2>1. QED
    BY <1>3, <1>4, FS_AddElement, FS_CardinalityType
<1>6. Cardinality(P) < limit /\ limit \in Nat
  BY BoundsAssumption, TypeParts DEF Accept, CanFork, Good, FunctionTypes
<1>7. Cardinality(P') <= limit'
  BY <1>2, <1>5, <1>6
<1>8. QED
  BY <1>1, <1>7, TypePartsNext DEF Good, WithinLimit

LEMMA ForkFailsGood ==
    ASSUME Good, ForkFails
    PROVE  Good'
<1>1. FunctionTypes' /\ Places' /\ \A x \in Clients : Connection(x)'
  BY TakenGood DEF ForkFails, clients
<1>2. Head(backlog) \in Clients /\ child[Head(backlog)] = "none"
      /\ child' = [child EXCEPT ![Head(backlog)] = "leaked"] /\ limit' = limit
  BY QueueStep DEF ForkFails
<1>3. (Running \cup Zombies)' \subseteq Running \cup Zombies
  BY <1>2, TypeParts DEF Good, FunctionTypes, Running, Zombies
<1>4. QED
  BY <1>1, <1>2, <1>3, NoMoreProcesses, TypePartsNext DEF Good

\* Whose connection the end of the parent closes.
Dropped(c) == Queued(c) \/ child[c] = "leaked"

LEMMA AcceptFailsFacts ==
    ASSUME Good, AcceptFails, NEW c \in Clients
    PROVE  /\ Dropped(c) => sock[c] = "open" /\ sock'[c] \in {"closed", "reset"} /\ cpc[c] # "connect"
           /\ ~Dropped(c) => sock'[c] = sock[c]
           /\ child'[c] = IF child[c] = "zombie" THEN "reaped" ELSE child[c]
<1>1. c \in ToSet(backlog) <=> Queued(c)
  BY QueueIsSet, TypeParts DEF Good, FunctionTypes, Queued
<1>2. /\ sock'[c] = (CASE Queued(c) -> "reset"
                        [] child[c] = "leaked" -> Closed(up[c])
                        [] OTHER -> sock[c])
      /\ child'[c] = IF child[c] = "zombie" THEN "reaped" ELSE child[c]
  BY <1>1 DEF AcceptFails, Leaked, Zombies
<1>3. ~(Queued(c) /\ child[c] = "leaked")
  BY DEF Good, Places, Waiting
<1>4. Dropped(c) => sock[c] = "open" /\ cpc[c] # "connect"
  BY DEF Good, Places, Waiting, Fresh, Dropped, AcceptFails
<1>5. QED
  BY <1>2, <1>3, <1>4 DEF Dropped, Closed

LEMMA AcceptFailsGood ==
    ASSUME Good, AcceptFails
    PROVE  Good'
<1>1. /\ parent' = "gone" /\ backlog' = <<>> /\ UNCHANGED <<limit, buf, cpc, got, cend, up, down>>
      /\ sock' = [c \in Clients |-> sock'[c]] /\ child' = [c \in Clients |-> child'[c]]
      /\ FunctionTypes
  BY TypeParts DEF AcceptFails, clients, Good
<1>2. /\ backlog' \in Seq(Clients) /\ IsInjective(backlog') /\ \A c \in Clients : ~Queued(c)'
  BY <1>1, EmptySeq DEF IsInjective, Queued, In
<1>3. FunctionTypes'
  <2>1. \A c \in Clients : /\ sock'[c] \in {"open", "closed", "reset"}
                          /\ child'[c] \in {"none", "leaked", "read", "write", "zombie", "reaped"}
    BY <1>1, AcceptFailsFacts DEF FunctionTypes
  <2>2. QED
    BY <1>1, <1>2, <2>1 DEF FunctionTypes
<1>4. Ends'
  BY <1>1 DEF Good, Places, Ends
<1>5. Fresh'
  BY <1>1, <1>2, AcceptFailsFacts DEF Good, Places, Fresh
<1>6. Waiting'
  BY <1>1, <1>2 DEF Waiting
<1>7. \A c \in Clients : Connection(c)'
  <2> TAKE c \in Clients
  <2>1. Connection(c)
    BY TypeParts DEF Good
  <2>2. Dropped(c) => child[c] \in {"none", "leaked"}
    BY DEF Good, Places, Waiting, Dropped
  <2>3. QED
    BY <1>1, <2>1, <2>2, AcceptFailsFacts DEF Connection
<1>8. (Running \cup Zombies)' \subseteq Running \cup Zombies
  BY AcceptFailsFacts DEF Running, Zombies
<1>9. QED
  BY <1>1, <1>3, <1>4, <1>5, <1>6, <1>7, <1>8, NoMoreProcesses, TypePartsNext DEF Good, Places

-----------------------------------------------------------------------------
(* The children. *)

LEMMA ReadGood ==
    ASSUME Good, NEW c \in Clients, Read(c)
    PROVE  Good'
<1> PICK k \in Receivable(up[c], ReadSize) :
        buf' = [buf EXCEPT ![c] = SubSeq(up[c], 1, k)] /\ up' = [up EXCEPT ![c] = Rest(@, k)]
  BY DEF Read
<1> DEFINE s == SubSeq(up[c], 1, k)
           r == Rest(up[c], k)
<1>1. /\ child[c] = "read" /\ FunctionTypes /\ child' = [child EXCEPT ![c] = "write"]
      /\ UNCHANGED <<limit, parent, backlog, sock, cpc, got, cend, down>>
      /\ up' = [up EXCEPT ![c] = r] /\ buf' = [buf EXCEPT ![c] = s]
  BY TypeParts DEF Read, server, clients, Good
<1>2. s \in Seq(Unit) /\ r \in Seq(Unit) /\ Len(s) = k /\ Len(r) = Len(up[c]) - k /\ k \in 1 .. Len(up[c])
  BY Split, Lengths DEF Good
<1> HIDE DEF s, r
<1>3. FunctionTypes'
  BY <1>1, <1>2 DEF FunctionTypes
<1>4. /\ child'[c] = "write" /\ up'[c] = r /\ buf'[c] = s
      /\ \A x \in Clients : x # c => child'[x] = child[x] /\ up'[x] = up[x] /\ buf'[x] = buf[x]
  BY <1>1 DEF FunctionTypes
<1>5. buf[c] = <<>> /\ s # <<>> /\ up[c] # <<>>
  <2>1. buf[c] = <<>>
    BY <1>1, Lengths DEF Good, Connection
  <2>2. s # <<>> /\ up[c] # <<>>
    BY <1>2, EmptySeq
  <2>3. QED
    BY <2>1, <2>2
<1>6. Places'
  <2>1. Ends'
    BY <1>1 DEF Good, Places, Ends
  <2>2. Fresh'
    BY <1>1, <1>4, <1>5 DEF Good, Places, Fresh, Queued
  <2>3. Waiting'
    BY <1>1, <1>4 DEF Good, Places, Waiting, Queued
  <2>4. QED
    BY <2>1, <2>2, <2>3 DEF Places
<1>7. \A x \in Clients : Connection(x)'
  <2> TAKE x \in Clients
  <2>1. CASE x = c
    <3>1. Len(r) + Len(s) + Len(down[c]) + got[c] <= MsgSize
      <4>1. Len(buf[c]) = 0
        BY <1>5, Lengths DEF Good
      <4>2. (Len(up[c]) - k) + k + Len(down[c]) + got[c] <= MsgSize
        BY <1>2, <4>1, Lengths, UnitsLost DEF Good
      <4>3. QED
        BY <1>2, <4>2
    <3>2. Connection(c)
      BY Lengths DEF Good
    <3>3. QED
      BY <1>1, <1>4, <1>5, <2>1, <3>1, <3>2 DEF Connection
  <2>2. CASE x # c
    BY <1>1, <1>4, <2>2, TypeParts, ConnectionKept DEF Good
  <2>3. QED
    BY <2>1, <2>2
<1>8. (Running \cup Zombies)' \subseteq Running \cup Zombies
  BY <1>1, <1>4 DEF Running, Zombies
<1>9. QED
  BY <1>1, <1>3, <1>6, <1>7, <1>8, NoMoreProcesses, TypePartsNext DEF Good

LEMMA WriteGood ==
    ASSUME Good, NEW c \in Clients, Write(c)
    PROVE  Good'
<1> DEFINE b == buf[c]
           d == down[c]
           new == d \o b
<1>1. /\ child[c] = "write" /\ FunctionTypes /\ child' = [child EXCEPT ![c] = "read"]
      /\ cend[c] # "reset" /\ UNCHANGED <<limit, parent, backlog, sock, cpc, got, up>>
      /\ buf' = [buf EXCEPT ![c] = <<>>]
      /\ \/ cend[c] = "open" /\ down' = [down EXCEPT ![c] = new] /\ cend' = cend
         \/ cend[c] # "open" /\ cend' = [cend EXCEPT ![c] = "reset"] /\ down' = down
  BY TypeParts DEF Write, WriteBack, server, clients, Good
<1>2. new \in Seq(Unit) /\ Len(new) = Len(d) + Len(b) /\ <<>> \in Seq(Unit) /\ Len(<<>>) = 0
  <2>1. d \in Seq(Unit) /\ b \in Seq(Unit)
    BY Lengths DEF Good
  <2> HIDE DEF d, b
  <2>2. QED
    BY <2>1, ConcatProperties, EmptySeq
<1>3. b # <<>>
  BY <1>1, Lengths DEF Good, Connection
<1> HIDE DEF new
<1>4. FunctionTypes'
  BY <1>1, <1>2 DEF FunctionTypes
<1>5. /\ child'[c] = "read" /\ buf'[c] = <<>> /\ down'[c] \in {d, new}
      /\ \A x \in Clients : x # c => child'[x] = child[x] /\ buf'[x] = buf[x] /\ down'[x] = down[x]
  BY <1>1 DEF FunctionTypes
<1>6. Places'
  <2>1. Ends'
    BY <1>1 DEF Good, Places, Ends, FunctionTypes
  <2>2. Fresh'
    BY <1>1, <1>3, <1>5 DEF Good, Places, Fresh, Queued
  <2>3. Waiting'
    BY <1>1, <1>5 DEF Good, Places, Waiting, Queued
  <2>4. QED
    BY <2>1, <2>2, <2>3 DEF Places
<1>7. \A x \in Clients : Connection(x)'
  <2> TAKE x \in Clients
  <2>1. CASE x = c
    <3>1. Len(up[c]) + 0 + Len(down'[c]) + got[c] <= MsgSize
      <4>1. /\ Len(up[c]) + 0 + Len(d) + got[c] <= MsgSize
            /\ Len(up[c]) + 0 + (Len(d) + Len(b)) + got[c] <= MsgSize
        BY Lengths, UnitsLost DEF Good
      <4>2. Len(down'[c]) = Len(d) \/ Len(down'[c]) = Len(d) + Len(b)
        BY <1>2, <1>5
      <4> HIDE DEF b, d
      <4>3. QED
        BY <4>1, <4>2
    <3>2. Connection(c)
      BY Lengths DEF Good
    <3>3. QED
      BY <1>1, <1>2, <1>5, <2>1, <3>1, <3>2 DEF Connection
  <2>2. CASE x # c
    BY <1>1, <1>5, <2>2, TypeParts, ConnectionKept DEF Good
  <2>3. QED
    BY <2>1, <2>2
<1>8. (Running \cup Zombies)' \subseteq Running \cup Zombies
  BY <1>1, <1>5 DEF Running, Zombies
<1>9. QED
  BY <1>1, <1>4, <1>6, <1>7, <1>8, NoMoreProcesses, TypePartsNext DEF Good

LEMMA ExitsGood ==
    ASSUME Good, NEW c \in Clients, Disconnect(c) \/ WriteFails(c)
    PROVE  Good'
<1>1. /\ child[c] \in {"read", "write"} /\ cend[c] # "open" /\ FunctionTypes
      /\ \E l \in {"zombie", "reaped"} : child' = [child EXCEPT ![c] = l]
      /\ \E e \in {"closed", "reset"} : sock' = [sock EXCEPT ![c] = e]
      /\ buf' = [buf EXCEPT ![c] = <<>>]
      /\ UNCHANGED <<limit, parent, backlog, cpc, got, cend, up, down>>
  BY TypeParts DEF Disconnect, Disconnected, Lost, WriteFails, Exits, Closed, server, clients, Good
<1>2. FunctionTypes'
  BY <1>1, EmptySeq DEF FunctionTypes
<1>3. /\ child'[c] \in {"zombie", "reaped"} /\ sock'[c] # "open" /\ buf'[c] = <<>>
      /\ \A x \in Clients : x # c => child'[x] = child[x] /\ buf'[x] = buf[x] /\ sock'[x] = sock[x]
  BY <1>1 DEF FunctionTypes
<1>4. cpc[c] \in {"done", "failed"}
  BY <1>1 DEF Good, Places, Ends
<1>5. Places'
  <2>1. Ends'
    BY <1>1 DEF Good, Places, Ends
  <2>2. Fresh'
    BY <1>1, <1>3, <1>4 DEF Good, Places, Fresh, Queued
  <2>3. Waiting'
    BY <1>1, <1>3 DEF Good, Places, Waiting, Queued
  <2>4. QED
    BY <2>1, <2>2, <2>3 DEF Places
<1>6. \A x \in Clients : Connection(x)'
  <2> TAKE x \in Clients
  <2>1. CASE x = c
    <3>1. Len(up[c]) + 0 + Len(down[c]) + got[c] <= MsgSize
      BY Lengths, UnitsLost DEF Good
    <3>2. QED
      BY <1>1, <1>3, <2>1, <3>1, EmptySeq DEF Connection
  <2>2. CASE x # c
    BY <1>1, <1>3, <2>2, TypeParts, ConnectionKept DEF Good
  <2>3. QED
    BY <2>1, <2>2
<1>7. (Running \cup Zombies)' \subseteq Running \cup Zombies
  BY <1>1, <1>3 DEF Running, Zombies
<1>8. QED
  BY <1>1, <1>2, <1>5, <1>6, <1>7, NoMoreProcesses, TypePartsNext DEF Good

-----------------------------------------------------------------------------
(* The echo service.  Every step is the service's or changes nothing of it,  *)
(* and leaves what is under way in order.                                    *)

Same(c) == Conn(c)' = Conn(c) /\ Wire(c)' = Wire(c) /\ Sent(c)' = Sent(c)
Ordered(c) == \A k \in 1 .. Len(Wire(c)) : Wire(c)[k] = [from |-> c, n |-> got[c] + k - 1]
Refines == InOrder' /\ (Service!Next \/ UNCHANGED Service!vars)

\* A step that changes nobody's connection is none of the service's.
LEMMA Stutters ==
    ASSUME InOrder, \A c \in Clients : Same(c), got' = got
    PROVE  Refines
<1>1. InOrder'
  BY DEF InOrder, Same
<1>2. UNCHANGED Service!vars
  BY DEF Same, Service!vars
<1>3. QED
  BY <1>1, <1>2 DEF Refines

\* One that changes c's changes the functions at c.
LEMMA OnlyOne ==
    ASSUME NEW c \in Clients, \A x \in Clients : x # c => Same(x)
    PROVE  /\ [x \in Clients |-> Conn(x)]' = [[x \in Clients |-> Conn(x)] EXCEPT ![c] = Conn(c)']
           /\ [x \in Clients |-> Wire(x)]' = [[x \in Clients |-> Wire(x)] EXCEPT ![c] = Wire(c)']
           /\ [x \in Clients |-> Sent(x)]' = [[x \in Clients |-> Sent(x)] EXCEPT ![c] = Sent(c)']
  BY DEF Same

LEMMA OrderOfOne ==
    ASSUME InOrder, NEW c \in Clients, \A x \in Clients : x # c => Same(x) /\ got'[x] = got[x],
           Ordered(c)'
    PROVE  InOrder'
  BY DEF InOrder, Ordered, Same

\* What the service sees of a connection.
LEMMA Untouched ==
    ASSUME NEW c \in Clients,
           cpc'[c] = cpc[c], sock'[c] = sock[c], up'[c] = up[c], down'[c] = down[c], buf'[c] = buf[c],
           (cend[c] = "open") = (cend'[c] = "open")
    PROVE  Same(c)
  BY DEF Same, Conn, Wire, Sent

LEMMA ConnectRefines ==
    ASSUME Good, InOrder, NEW c \in Clients, Connect(c)
    PROVE  Refines
<1>1. /\ cpc[c] = "connect" /\ cend[c] = "open" /\ sock[c] = "open" /\ FunctionTypes
      /\ up[c] = <<>> /\ down[c] = <<>> /\ buf[c] = <<>>
      /\ UNCHANGED <<sock, up, down, buf, got>>
  BY TypeParts DEF Connect, Good, Places, Ends, Fresh
<1>2. \/ cpc' = [cpc EXCEPT ![c] = "send"] /\ cend' = cend
      \/ cpc' = [cpc EXCEPT ![c] = "failed"] /\ \E e \in {"closed", "reset"} : cend' = [cend EXCEPT ![c] = e]
  BY DEF Connect, ClientEnds, Closed
<1>3. \A x \in Clients : x # c => Same(x)
  BY <1>1, <1>2, Untouched DEF FunctionTypes
<1>4. Conn(c) = "none" /\ Wire(c) = <<>> /\ Sent(c) = 0 /\ Sent(c)' = 0
  BY <1>1, <1>2 DEF Conn, Wire, Sent, FunctionTypes
<1>5. Wire(c)' = <<>> /\ Conn(c)' \in {"open", "over"}
  <2>1. <<>> \o <<>> \o <<>> = <<>>
    BY EmptySeq, ConcatEmptySeq
  <2>2. Wire(c)' \in {<<>> \o <<>> \o <<>>, <<>>}
    BY <1>1 DEF Wire
  <2>3. QED
    BY <1>1, <1>2, <2>1, <2>2 DEF Conn, FunctionTypes
<1>6. Ordered(c)'
  BY <1>5, EmptySeq DEF Ordered
<1>7. Service!Open(c) \/ Service!HangUp(c)
  BY <1>1, <1>3, <1>4, <1>5, OnlyOne DEF Service!Open, Service!HangUp
<1>8. QED
  BY <1>1, <1>3, <1>6, <1>7, OrderOfOne DEF Refines, Service!Next

LEMMA SendMessageRefines ==
    ASSUME Good, InOrder, NEW c \in Clients, SendMessage(c)
    PROVE  Refines
<1>1. /\ cpc[c] = "send" /\ cend[c] = "open" /\ FunctionTypes
      /\ up[c] = <<>> /\ down[c] = <<>> /\ buf[c] = <<>> /\ got[c] = 0
      /\ cpc' = [cpc EXCEPT ![c] = "reply"]
      /\ up' = IF sock[c] = "open" THEN [up EXCEPT ![c] = Message(c)] ELSE up
      /\ UNCHANGED <<sock, cend, down, buf, got>>
  BY TypeParts DEF SendMessage, Good, Places, Ends, Fresh
<1>2. \A x \in Clients : x # c => Same(x)
  BY <1>1, Untouched DEF FunctionTypes
<1>3. /\ Conn(c) = IF sock[c] = "open" THEN "open" ELSE "broken"
      /\ Conn(c)' = Conn(c) /\ Sent(c) = 0 /\ Sent(c)' = MsgSize
  BY <1>1 DEF Conn, Sent, FunctionTypes
<1>4. <<>> \o <<>> = <<>> /\ <<>> \o <<>> \o <<>> = <<>> /\ <<>> \o <<>> \o Message(c) = Message(c)
  BY MessageFacts, EmptySeq, ConcatEmptySeq
<1>5. Wire(c) = <<>> /\ Wire(c)' = IF sock[c] = "open" THEN Message(c) ELSE <<>>
  BY <1>1, <1>3, <1>4 DEF Wire, FunctionTypes
<1> DEFINE new == [i \in 1 .. MsgSize |-> [from |-> c, n |-> Sent(c) + i - 1]]
<1>6. new = Message(c)
  <2>1. MsgSize \in Nat
    BY BoundsAssumption
  <2>2. \A i \in 1 .. MsgSize : Sent(c) + i - 1 = i - 1
    BY <1>3, <2>1
  <2>3. QED
    BY <2>2 DEF Message
<1>7. Wire(c)' = IF sock[c] = "open" THEN Wire(c) \o new ELSE Wire(c)
  <2>1. <<>> \o Message(c) = Message(c)
    BY MessageFacts, ConcatEmptySeq
  <2> HIDE DEF new
  <2>2. QED
    BY <1>5, <1>6, <2>1
<1>8. Service!Send(c, MsgSize)
  <2>1. [x \in Clients |-> Conn(x)]' = [x \in Clients |-> Conn(x)]
    BY <1>2, <1>3 DEF Same
  <2>2. [x \in Clients |-> Sent(x)]' = [[x \in Clients |-> Sent(x)] EXCEPT ![c] = @ + MsgSize]
    <3>1. Sent(c)' = Sent(c) + MsgSize
      BY <1>3, BoundsAssumption
    <3>2. QED
      BY <1>2, <3>1, OnlyOne
  <2>3. [x \in Clients |-> Wire(x)]' = IF sock[c] = "open"
            THEN [[x \in Clients |-> Wire(x)] EXCEPT ![c] = @ \o new]
            ELSE [x \in Clients |-> Wire(x)]
    <3> HIDE DEF new
    <3>1. CASE sock[c] = "open"
      BY <1>2, <1>7, <3>1, OnlyOne
    <3>2. CASE sock[c] # "open"
      BY <1>2, <1>7, <3>2 DEF Same
    <3>3. QED
      BY <3>1, <3>2
  <2>4. QED
    BY <1>1, <1>3, <2>1, <2>2, <2>3 DEF Service!Send
<1>9. MsgSize \in 1 .. MsgSize
  BY BoundsAssumption
<1>10. Ordered(c)'
  <2>1. \A k \in 1 .. MsgSize : got'[c] + k - 1 = k - 1
    BY <1>1, BoundsAssumption
  <2>2. QED
    BY <1>5, <2>1, MessageFacts, EmptySeq DEF Ordered
<1>11. QED
  BY <1>1, <1>2, <1>8, <1>9, <1>10, OrderOfOne DEF Refines, Service!Next

LEMMA ClientEndsRefines ==
    ASSUME Good, InOrder, NEW c \in Clients, SendFails(c) \/ Return(c)
    PROVE  Refines
<1>1. /\ cpc[c] \in {"send", "sleep"} /\ cend[c] = "open" /\ FunctionTypes
      /\ cpc' = [cpc EXCEPT ![c] = IF cpc[c] = "send" THEN "failed" ELSE "done"]
      /\ \E e \in {"closed", "reset"} : cend' = [cend EXCEPT ![c] = e]
      /\ UNCHANGED <<sock, up, down, buf, got>>
  BY TypeParts DEF SendFails, Return, ClientEnds, Closed, Good, Places, Ends
<1>2. \A x \in Clients : x # c => Same(x)
  BY <1>1, Untouched DEF FunctionTypes
<1>3. Conn(c) \in {"open", "broken"} /\ Conn(c)' = "over" /\ Wire(c)' = <<>> /\ Sent(c)' = Sent(c)
  BY <1>1 DEF Conn, Wire, Sent, FunctionTypes
<1>4. Ordered(c)'
  BY <1>3, EmptySeq DEF Ordered
<1>5. Service!HangUp(c)
  <2>1. [x \in Clients |-> Sent(x)]' = [x \in Clients |-> Sent(x)]
    BY <1>2, <1>3 DEF Same
  <2>2. QED
    BY <1>1, <1>2, <1>3, <2>1, OnlyOne DEF Service!HangUp
<1>6. QED
  BY <1>1, <1>2, <1>4, <1>5, OrderOfOne DEF Refines, Service!Next

LEMMA NoMessageRefines ==
    ASSUME Good, InOrder, NEW c \in Clients, NoMessage(c)
    PROVE  Refines
<1>1. /\ cpc[c] = "reply" /\ FunctionTypes /\ cpc' = [cpc EXCEPT ![c] = "sleep"]
      /\ UNCHANGED <<sock, cend, up, down, buf, got>>
  BY TypeParts DEF NoMessage, Good
<1>2. \A x \in Clients : Same(x)
  BY <1>1 DEF Same, Conn, Wire, Sent, FunctionTypes
<1>3. QED
  BY <1>1, <1>2, Stutters

LEMMA ReceiveMessageRefines ==
    ASSUME Good, InOrder, NEW c \in Clients, ReceiveMessage(c)
    PROVE  Refines
<1> PICK k \in Receivable(down[c], ReadSize) :
        down' = [down EXCEPT ![c] = Rest(@, k)] /\ got' = [got EXCEPT ![c] = @ + k]
  BY DEF ReceiveMessage
<1> DEFINE w == Wire(c)
           d == down[c]
           b == buf[c]
           u == up[c]
<1>1. /\ cpc[c] = "reply" /\ cend[c] = "open" /\ FunctionTypes /\ cpc' = [cpc EXCEPT ![c] = "sleep"]
      /\ UNCHANGED <<sock, cend, up, buf>>
      /\ down'[c] = Rest(d, k) /\ \A x \in Clients : x # c => down'[x] = down[x] /\ got'[x] = got[x]
      /\ got'[c] = got[c] + k
  BY TypeParts DEF ReceiveMessage, Good, Places, Ends, FunctionTypes
<1>2. \A x \in Clients : x # c => Same(x)
  BY <1>1, Untouched DEF FunctionTypes
<1>3. /\ Conn(c) \in {"open", "broken"} /\ Conn(c)' = Conn(c) /\ Sent(c)' = Sent(c)
      /\ Conn(c) = "open" <=> sock[c] = "open"
  BY <1>1 DEF Conn, Sent, FunctionTypes
<1>4. d \in Seq(Unit) /\ b \in Seq(Unit) /\ u \in Seq(Unit) /\ got[c] \in Nat
  BY Lengths DEF Good
<1>5. k \in 1 .. Len(d) /\ Len(d) \in Nat
  BY <1>4, Split, LenProperties, BoundsAssumption
<1>6. w \in Seq(Unit) /\ Wire(c)' = Rest(w, k) /\ k \in 1 .. Len(w) /\ Len(w) \in Nat
  <2>1. CASE sock[c] = "open"
    <3>1. w = d \o b \o u /\ Wire(c)' = Rest(d, k) \o b \o u
      BY <1>1, <1>3, <2>1 DEF Wire
    <3> HIDE DEF d, b, u, w
    <3>2. Wire(c)' = Rest(w, k)
      BY <1>4, <1>5, <3>1, RestOfThree
    <3>3. w \in Seq(Unit) /\ Len(w) = Len(d) + Len(b) + Len(u) /\ Len(b) \in Nat /\ Len(u) \in Nat
      BY <1>4, <3>1, Three, LenProperties
    <3>4. QED
      BY <1>5, <3>2, <3>3
  <2>2. CASE sock[c] # "open"
    BY <1>1, <1>3, <1>4, <1>5, <2>2 DEF Wire
  <2>3. QED
    BY <2>1, <2>2
<1>7. \A i \in 1 .. Len(w) : w[i] = [from |-> c, n |-> got[c] + i - 1]
  BY DEF InOrder
<1> HIDE DEF w
<1>8. Service!Receive(c, k)
  <2>1. [x \in Clients |-> Conn(x)]' = [x \in Clients |-> Conn(x)]
        /\ [x \in Clients |-> Sent(x)]' = [x \in Clients |-> Sent(x)]
    BY <1>2, <1>3 DEF Same
  <2>2. [x \in Clients |-> Wire(x)]' = [[x \in Clients |-> Wire(x)] EXCEPT ![c] = Rest(@, k)]
    BY <1>2, <1>6, OnlyOne DEF w
  <2>3. \A i \in 1 .. k : w[i] = [from |-> c, n |-> got[c] + i - 1]
    BY <1>6, <1>7
  <2>4. QED
    BY <1>1, <1>3, <2>1, <2>2, <2>3 DEF w, Service!Receive, Service!Rest, Rest
<1>9. k \in 1 .. Len([x \in Clients |-> Wire(x)][c])
  BY <1>6 DEF w
<1>10. Ordered(c)'
  <2>1. k \in Receivable(w, k) /\ k \in Nat
    BY <1>6 DEF Receivable
  <2>2. Len(Wire(c)') = Len(w) - k /\ \A i \in 1 .. Len(w) - k : Wire(c)'[i] = w[i + k]
    BY <1>6, <2>1, Split
  <2>3. \A i \in 1 .. Len(w) - k : w[i + k] = [from |-> c, n |-> got[c] + k + i - 1]
    <3> TAKE i \in 1 .. Len(w) - k
    <3>1. i + k \in 1 .. Len(w) /\ got[c] + (i + k) - 1 = got[c] + k + i - 1
      BY <1>4, <1>6, <2>1
    <3>2. QED
      BY <1>7, <3>1
  <2>4. QED
    BY <1>1, <2>2, <2>3 DEF Ordered
<1>11. QED
  BY <1>1, <1>2, <1>8, <1>9, <1>10, OrderOfOne DEF Refines, Service!Next

\* Whom the parent takes from the queue, and into what, no client sees.
LEMMA TakenRefines ==
    ASSUME InOrder, Accept \/ ForkFails
    PROVE  Refines
<1>1. UNCHANGED <<cpc, cend, sock, up, down, buf, got>>
  BY DEF Accept, ForkFails, clients
<1>2. \A x \in Clients : Same(x)
  BY <1>1 DEF Same, Conn, Wire, Sent
<1>3. QED
  BY <1>1, <1>2, Stutters

\* The first stream of three is their first part.
LEMMA FirstPart ==
    ASSUME NEW d \in Seq(Unit), NEW b \in Seq(Unit), NEW u \in Seq(Unit)
    PROVE  Len(d) <= Len(d \o b \o u) /\ d = SubSeq(d \o b \o u, 1, Len(d))
<1> DEFINE w == d \o b \o u
           f == SubSeq(w, 1, Len(d))
<1>1. Len(d) \in Nat /\ Len(b) \in Nat /\ Len(u) \in Nat
  BY LenProperties
<1>2. /\ w \in Seq(Unit) /\ Len(w) = Len(d) + Len(b) + Len(u)
      /\ \A i \in 1 .. Len(d) : w[i] = d[i]
  BY Three
<1> HIDE DEF w
<1>3. \A i \in 1 .. Len(d) : w[i] = d[i] /\ w[i] \in Unit
  BY <1>2, ElementOfSeq
<1>4. f \in Seq(Unit) /\ Len(f) = Len(d) /\ \A i \in 1 .. Len(d) : f[i] = w[i]
  BY <1>1, <1>3, SubSeqProperties
<1> HIDE DEF f
<1>5. f = d
  BY <1>3, <1>4, SeqEqual
<1>6. QED
  BY <1>1, <1>2, <1>5 DEF w, f

\* The parent ends: what it had not handed to a child breaks.
LEMMA AcceptFailsRefines ==
    ASSUME Good, InOrder, AcceptFails
    PROVE  Refines
<1> DEFINE S == {c \in Clients : Dropped(c) /\ cend[c] = "open"}
           w == [c \in Clients |-> Wire(c)]
           wNext == [c \in Clients |-> Wire(c)']
<1>1. UNCHANGED <<cpc, cend, up, down, buf, got>>
  BY DEF AcceptFails, clients
<1>2. ASSUME NEW c \in Clients, c \notin S PROVE Same(c)
  <2>1. CASE cend[c] = "open"
    BY <1>1, <1>2, <2>1, AcceptFailsFacts, Untouched
  <2>2. CASE cend[c] # "open"
    BY <1>1, <2>2 DEF Same, Conn, Wire, Sent
  <2>3. QED
    BY <2>1, <2>2
<1>3. ASSUME NEW c \in S
      PROVE  /\ Conn(c) = "open" /\ Conn(c)' = "broken" /\ Sent(c)' = Sent(c)
             /\ Wire(c) = down[c] \o buf[c] \o up[c] /\ Wire(c)' = down[c]
  BY <1>1, AcceptFailsFacts DEF Conn, Wire, Sent
<1>4. ASSUME NEW c \in Clients
      PROVE  /\ Len(wNext[c]) <= Len(w[c]) /\ wNext[c] = SubSeq(w[c], 1, Len(wNext[c]))
             /\ c \notin S => wNext[c] = w[c]
             /\ Ordered(c)'
  <2>1. wNext[c] = Wire(c)' /\ w[c] = Wire(c) /\ Ordered(c)
    BY DEF InOrder, Ordered
  <2> DEFINE d == down[c]
             b == buf[c]
             u == up[c]
  <2>2. d \in Seq(Unit) /\ b \in Seq(Unit) /\ u \in Seq(Unit)
    BY Lengths DEF Good
  <2>3. CASE c \in S
    <3>1. Wire(c) = d \o b \o u /\ Wire(c)' = d
      BY <1>3, <2>3
    <3> HIDE DEF d, b, u, w, wNext
    <3>2. Len(d) <= Len(d \o b \o u) /\ d = SubSeq(d \o b \o u, 1, Len(d))
      BY <2>2, FirstPart
    <3>3. /\ Len(d) \in Nat /\ Len(d \o b \o u) \in Nat
          /\ \A i \in 1 .. Len(d) : (d \o b \o u)[i] = d[i]
      BY <2>2, Three, LenProperties
    <3>4. \A i \in 1 .. Len(d) : d[i] = [from |-> c, n |-> got[c] + i - 1]
      <4> TAKE i \in 1 .. Len(d)
      <4>1. i \in 1 .. Len(d \o b \o u)
        BY <3>2, <3>3
      <4>2. (d \o b \o u)[i] = [from |-> c, n |-> got[c] + i - 1]
        BY <2>1, <3>1, <4>1 DEF Ordered
      <4>3. QED
        BY <3>3, <4>2
    <3>5. Ordered(c)'
      BY <1>1, <3>1, <3>4 DEF Ordered
    <3>6. QED
      BY <2>1, <2>3, <3>1, <3>2, <3>5
  <2>4. CASE c \notin S
    <3>1. Wire(c)' = Wire(c)
      BY <1>2, <2>4 DEF Same
    <3>2. Wire(c) \in Seq(Unit)
      <4>1. Wire(c) \in {d \o b \o u, d, <<>>}
        BY DEF Wire
      <4> HIDE DEF d, b, u
      <4>2. d \o b \o u \in Seq(Unit)
        BY <2>2, Three
      <4>3. <<>> \in Seq(Unit)
        BY EmptySeq
      <4>4. QED
        BY <2>2, <4>1, <4>2, <4>3
    <3> DEFINE v == Wire(c)
    <3> HIDE DEF v, w, wNext
    <3>3. Len(v) \in Nat /\ v = SubSeq(v, 1, Len(v))
      <4>1. v \in Seq(Unit)
        BY <3>2 DEF v
      <4>2. QED
        BY <4>1, SubSeqFull, LenProperties
    <3>4. Ordered(c)'
      BY <1>1, <2>1, <3>1 DEF Ordered
    <3>5. QED
      BY <2>1, <3>1, <3>3, <3>4 DEF v
  <2>5. QED
    BY <2>3, <2>4
<1>5. InOrder'
  BY <1>4 DEF InOrder, Ordered
<1>6. CASE S = {}
  BY <1>1, <1>2, <1>6, Stutters
<1>7. CASE S # {}
  <2>1. w' = wNext /\ [c \in Clients |-> Sent(c)]' = [c \in Clients |-> Sent(c)]
    <3>1. \A c \in Clients : Sent(c)' = Sent(c)
      BY <1>1 DEF Sent
    <3>2. QED
      BY <3>1
  <2>2. [c \in Clients |-> Conn(c)]' =
            [c \in Clients |-> IF c \in S THEN "broken" ELSE [x \in Clients |-> Conn(x)][c]]
    <3>1. \A c \in Clients : Conn(c)' = IF c \in S THEN "broken" ELSE Conn(c)
      <4> TAKE c \in Clients
      <4>1. CASE c \in S
        BY <1>3, <4>1
      <4>2. CASE c \notin S
        BY <1>2, <4>2 DEF Same
      <4> HIDE DEF S
      <4>3. QED
        BY <4>1, <4>2
    <3> HIDE DEF S
    <3>2. QED
      BY <3>1
  <2>3. \A c \in S : [x \in Clients |-> Conn(x)][c] = "open"
    BY <1>3
  <2>4. S \in SUBSET Clients
    OBVIOUS
  <2>5. w' = [c \in Clients |-> w'[c]]
    BY <2>1
  <2> HIDE DEF S
  <2>6. Service!Break(S)
    BY <1>1, <1>4, <1>7, <2>1, <2>2, <2>3, <2>5 DEF Service!Break
  <2>7. QED
    BY <1>5, <2>4, <2>6 DEF Refines, Service!Next
<1>8. QED
  BY <1>6, <1>7

LEMMA ReadRefines ==
    ASSUME Good, InOrder, NEW c \in Clients, Read(c)
    PROVE  Refines
<1> PICK k \in Receivable(up[c], ReadSize) :
        buf' = [buf EXCEPT ![c] = SubSeq(up[c], 1, k)] /\ up' = [up EXCEPT ![c] = Rest(@, k)]
  BY DEF Read
<1> DEFINE d == down[c]
           u == up[c]
<1>1. /\ child[c] = "read" /\ FunctionTypes
      /\ UNCHANGED <<sock, cpc, got, cend, down>>
      /\ up'[c] = Rest(u, k) /\ buf'[c] = SubSeq(u, 1, k)
      /\ \A x \in Clients : x # c => up'[x] = up[x] /\ buf'[x] = buf[x]
  BY TypeParts DEF Read, clients, Good, FunctionTypes
<1>2. buf[c] = <<>> /\ sock[c] = "open"
  BY <1>1, Lengths DEF Good, Connection
<1>3. d \in Seq(Unit) /\ u \in Seq(Unit)
  BY Lengths DEF Good
<1>4. d \o SubSeq(u, 1, k) \o Rest(u, k) = d \o <<>> \o u
  <2>1. SubSeq(u, 1, k) \in Seq(Unit) /\ Rest(u, k) \in Seq(Unit) /\ SubSeq(u, 1, k) \o Rest(u, k) = u
    BY <1>3, Split, BoundsAssumption
  <2> DEFINE s == SubSeq(u, 1, k)
             r == Rest(u, k)
  <2> HIDE DEF d, u, s, r
  <2>2. d \o s \o r = d \o (s \o r)
    BY <1>3, <2>1, Three DEF s, r
  <2>3. d \o <<>> = d
    BY <1>3, ConcatEmptySeq
  <2>4. QED
    BY <2>1, <2>2, <2>3 DEF s, r
<1>5. Same(c)
  <2>1. Conn(c)' = Conn(c) /\ Sent(c)' = Sent(c)
    BY <1>1 DEF Conn, Sent
  <2>2. Conn(c) # "broken"
    BY <1>2 DEF Conn
  <2>3. Wire(c)' = Wire(c)
    BY <1>1, <1>2, <1>4, <2>1, <2>2 DEF Wire
  <2>4. QED
    BY <2>1, <2>3 DEF Same
<1>6. \A x \in Clients : Same(x)
  BY <1>1, <1>5, Untouched
<1>7. QED
  BY <1>1, <1>6, Stutters

LEMMA WriteRefines ==
    ASSUME Good, InOrder, NEW c \in Clients, Write(c)
    PROVE  Refines
<1> DEFINE d == down[c]
           b == buf[c]
           u == up[c]
<1>1. /\ child[c] = "write" /\ FunctionTypes /\ cend[c] # "reset" /\ UNCHANGED <<sock, cpc, got, up>>
      /\ buf'[c] = <<>>
      /\ \/ cend[c] = "open" /\ down'[c] = d \o b /\ cend' = cend
         \/ cend[c] = "closed" /\ cend'[c] = "reset" /\ down' = down
      /\ \A x \in Clients : x # c => /\ buf'[x] = buf[x] /\ down'[x] = down[x] /\ cend'[x] = cend[x]
  BY TypeParts DEF Write, WriteBack, clients, Good, FunctionTypes
<1>2. sock[c] = "open"
  BY <1>1, Lengths DEF Good, Connection
<1>3. (d \o b) \o <<>> \o u = d \o b \o u
  <2>1. d \in Seq(Unit) /\ b \in Seq(Unit) /\ u \in Seq(Unit)
    BY Lengths DEF Good
  <2> HIDE DEF d, b, u
  <2>2. d \o b \in Seq(Unit)
    BY <2>1, ConcatProperties
  <2>3. (d \o b) \o <<>> = d \o b
    BY <2>2, ConcatEmptySeq
  <2>4. QED
    BY <2>3
<1>4. Same(c)
  <2>1. Conn(c)' = Conn(c) /\ Sent(c)' = Sent(c) /\ Conn(c) # "broken"
    BY <1>1, <1>2 DEF Conn, Sent
  <2>2. Wire(c)' = Wire(c)
    <3>1. CASE Conn(c) = "open"
      <4>1. cend[c] = "open"
        BY <3>1 DEF Conn
      <4>2. QED
        BY <1>1, <1>3, <2>1, <3>1, <4>1 DEF Wire
    <3>2. CASE Conn(c) # "open"
      BY <2>1, <3>2 DEF Wire
    <3>3. QED
      BY <3>1, <3>2
  <2>3. QED
    BY <2>1, <2>2 DEF Same
<1>5. \A x \in Clients : Same(x)
  BY <1>1, <1>4, Untouched
<1>6. QED
  BY <1>1, <1>5, Stutters

LEMMA ExitsRefines ==
    ASSUME Good, InOrder, NEW c \in Clients, Disconnect(c) \/ WriteFails(c)
    PROVE  Refines
<1>1. /\ cend[c] # "open" /\ UNCHANGED <<cpc, got, cend, up, down>> /\ FunctionTypes
      /\ \A x \in Clients : x # c => sock'[x] = sock[x] /\ buf'[x] = buf[x]
  BY TypeParts DEF Disconnect, Disconnected, Lost, WriteFails, Exits, clients, Good, FunctionTypes
<1>2. Same(c)
  BY <1>1 DEF Same, Conn, Wire, Sent
<1>3. \A x \in Clients : Same(x)
  BY <1>1, <1>2, Untouched
<1>4. QED
  BY <1>1, <1>3, Stutters

-----------------------------------------------------------------------------
(* The theorems. *)

LEMMA InitRefines == Init => Inv /\ Service!Init
<1> SUFFICES ASSUME Init PROVE Inv /\ Service!Init
  OBVIOUS
<1>1. \A c \in Clients : Conn(c) = "none" /\ Wire(c) = <<>> /\ Sent(c) = 0 /\ got[c] = 0
  BY DEF Init, Conn, Wire, Sent
<1>2. InOrder
  BY <1>1, EmptySeq DEF InOrder
<1>3. Service!Init
  BY <1>1 DEF Service!Init, Init
<1>4. QED
  BY <1>2, <1>3, InitGood DEF Inv, Good

LEMMA NextKeeps == Inv /\ [Next]_vars => Inv' /\ [Service!Next]_(Service!vars)
<1> SUFFICES ASSUME Inv, [Next]_vars PROVE Good' /\ Refines
  BY DEF Inv, Good, Refines
<1>1. Good /\ InOrder
  BY DEF Inv, Good
<1>2. ASSUME NEW c \in Clients, Client(c) PROVE Good' /\ Refines
  <2>1. CASE Connect(c)
    BY <1>1, <2>1, ConnectGood, ConnectRefines
  <2>2. CASE SendMessage(c)
    BY <1>1, <2>2, SendMessageGood, SendMessageRefines
  <2>3. CASE SendFails(c) \/ Return(c)
    BY <1>1, <2>3, ClientEndsGood, ClientEndsRefines
  <2>4. CASE ReceiveMessage(c)
    BY <1>1, <2>4, ReceiveMessageGood, ReceiveMessageRefines
  <2>5. CASE NoMessage(c)
    BY <1>1, <2>5, NoMessageGood, NoMessageRefines
  <2>6. QED
    BY <1>2, <2>1, <2>2, <2>3, <2>4, <2>5 DEF Client
<1>3. ASSUME NEW c \in Clients, Child(c) PROVE Good' /\ Refines
  <2>1. CASE Read(c)
    BY <1>1, <2>1, ReadGood, ReadRefines
  <2>2. CASE Write(c)
    BY <1>1, <2>2, WriteGood, WriteRefines
  <2>3. CASE Disconnect(c) \/ WriteFails(c)
    BY <1>1, <2>3, ExitsGood, ExitsRefines
  <2>4. QED
    BY <1>3, <2>1, <2>2, <2>3 DEF Child
<1>4. CASE Accept
  BY <1>1, <1>4, AcceptGood, TakenRefines
<1>5. CASE ForkFails
  BY <1>1, <1>5, ForkFailsGood, TakenRefines
<1>6. CASE AcceptFails
  BY <1>1, <1>6, AcceptFailsGood, AcceptFailsRefines
<1>7. CASE UNCHANGED vars
  <2>1. UNCHANGED <<limit, parent, backlog, child, buf, sock, cpc, got, cend, up, down>>
    BY <1>7 DEF vars, server, clients
  <2>2. Good'
    BY <1>1, <2>1 DEF Good, TypeOK, Running, Zombies, Places, Ends, Fresh, Waiting, Queued
  <2>3. \A x \in Clients : Same(x)
    BY <2>1 DEF Same, Conn, Wire, Sent
  <2>4. QED
    BY <1>1, <2>1, <2>2, <2>3, Stutters
<1>8. QED
  BY <1>2, <1>3, <1>4, <1>5, <1>6, <1>7 DEF Next

LEMMA Invariance == Spec => []Inv
<1>1. Init => Inv
  BY InitRefines
<1>2. Inv /\ [Next]_vars => Inv'
  BY NextKeeps
<1>3. QED
  BY <1>1, <1>2, PTL DEF Spec

\* Types; the children and zombies stay within the limit of processes, a child
\* has what it read exactly while it is about to write, and the server's end of
\* a connection is open exactly as long as its child runs.
THEOREM TypesHold == Spec => []TypeOK
<1>1. Inv => TypeOK
  BY DEF Inv
<1>2. QED
  BY <1>1, Invariance, PTL

\* The forking server and its clients implement the echo service: whatever
\* fails and whenever the parent ends, nobody gets but its own units in order.
THEOREM ImplementsHolds == Spec => Implements
<1>1. Init => Service!Init
  BY InitRefines
<1>2. Inv /\ [Next]_vars => [Service!Next]_(Service!vars)
  BY NextKeeps
<1>3. QED
  BY <1>1, <1>2, Invariance, PTL DEF Spec, Implements, Service!Spec

-----------------------------------------------------------------------------
(* Nobody waits for ever, as far as safety can say it. *)

Started(c) == child[c] \in {"read", "write", "zombie", "reaped"}

\* What each connection rests on: the parent knows of it as long as it is open and
\* has no child (the first three), a child goes only after its client, and as long
\* as both are there all of the message is on its way, or received.
Steady(c) ==
    /\ child[c] = "none" /\ cpc[c] \in {"send", "reply"} /\ sock[c] = "open" => Queued(c)
    /\ child[c] = "none" /\ parent = "accept" => sock[c] = "open"
    /\ child[c] = "leaked" /\ sock[c] = "open" => parent = "accept"
    /\ child[c] \in {"none", "leaked"} => down[c] = <<>>
    /\ child[c] \in {"zombie", "reaped"} => cend[c] # "open"
    /\ cpc[c] = "reply" => got[c] = 0
    /\ cpc[c] \in {"reply", "sleep"} /\ sock[c] = "open" =>
          Len(up[c]) + Len(buf[c]) + Len(down[c]) + got[c] = MsgSize
    /\ Started(c) \/ parent = "accept" =>
          cpc[c] # "failed" /\ (cpc[c] \in {"sleep", "done"} => got[c] > 0)

AllSteady == \A c \in Clients : Steady(c)

LEMMA SteadyKept ==
    ASSUME NEW c \in Clients, Steady(c),
           child'[c] = child[c], cpc'[c] = cpc[c], sock'[c] = sock[c], cend'[c] = cend[c],
           up'[c] = up[c], buf'[c] = buf[c], down'[c] = down[c], got'[c] = got[c],
           Queued(c) => Queued(c)', parent' = parent
    PROVE  Steady(c)'
BY DEF Steady, Started

LEMMA InitSteady == Init => AllSteady
<1> SUFFICES ASSUME Init, NEW c \in Clients PROVE Steady(c)
  BY DEF AllSteady
<1>1. /\ child[c] = "none" /\ cpc[c] = "connect" /\ sock[c] = "open" /\ parent = "accept"
      /\ down[c] = <<>>
  BY DEF Init, Nothing
<1>2. QED
  BY <1>1 DEF Steady, Started

\* A client that cannot go on as it should has no child: that would have gone
\* only after its client.
LEMMA Deserted ==
    ASSUME Good, AllSteady, NEW c \in Clients, cpc[c] \in {"send", "reply"}, sock[c] # "open"
    PROVE  ~Started(c) /\ parent # "accept"
<1>1. cend[c] = "open" /\ Connection(c) /\ Steady(c)
  BY TypeParts DEF Good, Places, Ends, AllSteady
<1>2. child[c] \notin {"zombie", "reaped"} /\ child[c] \notin {"read", "write"}
  BY <1>1 DEF Steady, Connection
<1>3. child[c] \in {"none", "leaked"}
  BY <1>2, TypeParts DEF Good, FunctionTypes
<1>4. child[c] = "leaked" /\ parent = "accept" => sock[c] = "open"
  BY DEF Good, Places, Waiting
<1>5. QED
  BY <1>1, <1>2, <1>3, <1>4 DEF Steady, Started

LEMMA ClientSteady ==
    ASSUME Good, AllSteady, NEW c \in Clients, Client(c)
    PROVE  AllSteady'
<1> SUFFICES ASSUME NEW x \in Clients PROVE Steady(x)'
  BY DEF AllSteady
<1>1. /\ FunctionTypes /\ Steady(x) /\ Steady(c) /\ Connection(c)
      /\ cpc[c] \in {"connect", "send"} => up[c] = <<>> /\ down[c] = <<>> /\ buf[c] = <<>> /\ got[c] = 0
      /\ cpc[c] = "connect" => sock[c] = "open" /\ child[c] = "none"
      /\ cend[c] = "open" <=> cpc[c] \notin {"done", "failed"}
  BY TypeParts DEF Good, Places, Fresh, Ends, AllSteady
<1>2. CASE Connect(c)
  <2>1. /\ cpc[c] = "connect" /\ UNCHANGED <<parent, child, buf, sock, up, down, got>>
        /\ \A y \in Clients : Queued(y)' <=> Queued(y) \/ (parent = "accept" /\ y = c)
    BY <1>2, ConnectQueue DEF Connect
  <2>2. CASE x # c
    <3>1. cpc'[x] = cpc[x] /\ cend'[x] = cend[x]
      BY <1>1, <1>2, <2>2 DEF Connect, ClientEnds, FunctionTypes
    <3>2. QED
      BY <1>1, <2>1, <3>1, SteadyKept
  <2>3. CASE x = c /\ parent = "accept"
    <3>1. cpc'[c] = "send" /\ Queued(c)'
      BY <1>1, <1>2, <2>1, <2>3 DEF Connect, FunctionTypes
    <3>2. QED
      BY <1>1, <2>1, <2>3, <3>1 DEF Steady, Started
  <2>4. CASE x = c /\ parent # "accept"
    <3>1. cpc'[c] = "failed"
      BY <1>1, <1>2, <2>4 DEF Connect, ClientEnds, FunctionTypes
    <3>2. QED
      BY <1>1, <2>1, <2>4, <3>1 DEF Steady, Started
  <2>5. QED
    BY <2>2, <2>3, <2>4
<1>3. CASE SendMessage(c)
  <2>1. /\ cpc[c] = "send" /\ UNCHANGED <<parent, backlog, child, buf, sock, cend, down, got>>
        /\ cpc' = [cpc EXCEPT ![c] = "reply"]
        /\ up' = IF sock[c] = "open" THEN [up EXCEPT ![c] = Message(c)] ELSE up
    BY <1>3 DEF SendMessage, server
  <2>2. CASE x # c
    <3>1. cpc'[x] = cpc[x] /\ up'[x] = up[x]
      BY <1>1, <2>1, <2>2 DEF FunctionTypes
    <3>2. QED
      BY <1>1, <2>1, <3>1, SteadyKept DEF Queued
  <2>3. CASE x = c
    <3>1. cpc'[c] = "reply" /\ (sock[c] = "open" => up'[c] = Message(c))
      BY <1>1, <2>1 DEF FunctionTypes
    <3>2. sock[c] = "open" => Len(up'[c]) + Len(buf'[c]) + Len(down'[c]) + got'[c] = MsgSize
      <4>1. Len(Message(c)) = MsgSize /\ Len(buf[c]) = 0 /\ Len(down[c]) = 0 /\ got[c] = 0 /\ MsgSize \in Nat
        BY <1>1, <2>1, MessageFacts, Lengths DEF Good
      <4>2. MsgSize + 0 + 0 + 0 = MsgSize
        BY <4>1
      <4>3. QED
        BY <2>1, <3>1, <4>1, <4>2
    <3>3. QED
      BY <1>1, <2>1, <2>3, <3>1, <3>2 DEF Steady, Started, Queued
  <2>4. QED
    BY <2>2, <2>3
<1>4. CASE SendFails(c)
  <2>1. /\ cpc[c] = "send" /\ sock[c] # "open" /\ UNCHANGED <<parent, backlog, child, buf, sock, up, down, got>>
        /\ cpc' = [cpc EXCEPT ![c] = "failed"] /\ cend' = [cend EXCEPT ![c] = Closed(down[c])]
    BY <1>4 DEF SendFails, ClientEnds, server
  <2>2. CASE x # c
    <3>1. cpc'[x] = cpc[x] /\ cend'[x] = cend[x]
      BY <1>1, <2>1, <2>2 DEF FunctionTypes
    <3>2. QED
      BY <1>1, <2>1, <3>1, SteadyKept DEF Queued
  <2>3. CASE x = c
    <3>1. cpc'[c] = "failed" /\ cend'[c] # "open"
      BY <1>1, <2>1 DEF FunctionTypes, Closed
    <3>2. ~Started(c) /\ parent # "accept"
      BY <2>1, Deserted
    <3>3. QED
      BY <1>1, <2>1, <2>3, <3>1, <3>2 DEF Steady, Started, Queued
  <2>4. QED
    BY <2>2, <2>3
<1>5. CASE ReceiveMessage(c)
  <2> PICK k \in Receivable(down[c], ReadSize) :
          down' = [down EXCEPT ![c] = Rest(@, k)] /\ got' = [got EXCEPT ![c] = @ + k]
    BY <1>5 DEF ReceiveMessage
  <2>1. /\ cpc[c] = "reply" /\ UNCHANGED <<parent, backlog, child, buf, sock, cend, up>>
        /\ cpc' = [cpc EXCEPT ![c] = "sleep"]
    BY <1>5 DEF ReceiveMessage, server
  <2>2. CASE x # c
    <3>1. cpc'[x] = cpc[x] /\ down'[x] = down[x] /\ got'[x] = got[x]
      BY <1>1, <2>1, <2>2 DEF FunctionTypes
    <3>2. QED
      BY <1>1, <2>1, <3>1, SteadyKept DEF Queued
  <2>3. CASE x = c
    <3>1. cpc'[c] = "sleep" /\ down'[c] = Rest(down[c], k) /\ got'[c] = got[c] + k
      BY <1>1, <2>1 DEF FunctionTypes
    <3>2. k \in 1 .. Len(down[c]) /\ Len(Rest(down[c], k)) = Len(down[c]) - k
      BY Split, Lengths DEF Good
    <3>3. got'[c] > 0 /\ down[c] # <<>>
      <4>1. got[c] \in Nat /\ Len(down[c]) \in Nat /\ Len(<<>>) = 0
        BY Lengths DEF Good
      <4>2. Len(down[c]) # 0
        BY <3>2, <4>1
      <4>3. got[c] + k > 0
        BY <3>2, <4>1
      <4>4. QED
        BY <3>1, <4>1, <4>2, <4>3
    <3>4. sock[c] = "open" => Len(up'[c]) + Len(buf'[c]) + Len(down'[c]) + got'[c] = MsgSize
      <4> DEFINE a == Len(up[c])
                 b == Len(buf[c])
                 d == Len(down[c])
                 g == got[c]
      <4>1. sock[c] = "open" => a + b + d + g = MsgSize
        BY <1>1, <2>1 DEF Steady
      <4>2. a \in Nat /\ b \in Nat /\ d \in Nat /\ g \in Nat /\ MsgSize \in Nat /\ k \in 1 .. d
        BY <3>2, Lengths DEF Good
      <4>3. Len(up'[c]) = a /\ Len(buf'[c]) = b /\ Len(down'[c]) = d - k /\ got'[c] = g + k
        BY <2>1, <3>1, <3>2
      <4> HIDE DEF a, b, d, g
      <4>4. a + b + (d - k) + (g + k) = a + b + d + g
        BY <4>2
      <4>5. QED
        BY <4>1, <4>3, <4>4
    <3>5. QED
      BY <1>1, <2>1, <2>3, <3>1, <3>3, <3>4 DEF Steady, Started, Queued
  <2>4. QED
    BY <2>2, <2>3
<1>6. CASE NoMessage(c)
  <2>1. /\ cpc[c] = "reply" /\ sock[c] # "open"
        /\ UNCHANGED <<parent, backlog, child, buf, sock, cend, up, down, got>>
        /\ cpc' = [cpc EXCEPT ![c] = "sleep"]
    BY <1>6 DEF NoMessage, server, Lost
  <2>2. CASE x # c
    <3>1. cpc'[x] = cpc[x]
      BY <1>1, <2>1, <2>2 DEF FunctionTypes
    <3>2. QED
      BY <1>1, <2>1, <3>1, SteadyKept DEF Queued
  <2>3. CASE x = c
    <3>1. cpc'[c] = "sleep"
      BY <1>1, <2>1 DEF FunctionTypes
    <3>2. ~Started(c) /\ parent # "accept"
      BY <2>1, Deserted
    <3>3. QED
      BY <1>1, <2>1, <2>3, <3>1, <3>2 DEF Steady, Started, Queued
  <2>4. QED
    BY <2>2, <2>3
<1>7. CASE Return(c)
  <2>1. /\ cpc[c] = "sleep" /\ UNCHANGED <<parent, backlog, child, buf, sock, up, down, got>>
        /\ cpc' = [cpc EXCEPT ![c] = "done"] /\ cend' = [cend EXCEPT ![c] = Closed(down[c])]
    BY <1>7 DEF Return, ClientEnds, server
  <2>2. CASE x # c
    <3>1. cpc'[x] = cpc[x] /\ cend'[x] = cend[x]
      BY <1>1, <2>1, <2>2 DEF FunctionTypes
    <3>2. QED
      BY <1>1, <2>1, <3>1, SteadyKept DEF Queued
  <2>3. CASE x = c
    <3>1. cpc'[c] = "done" /\ cend'[c] # "open"
      BY <1>1, <2>1 DEF FunctionTypes, Closed
    <3>2. QED
      BY <1>1, <2>1, <2>3, <3>1 DEF Steady, Started, Queued
  <2>4. QED
    BY <2>2, <2>3
<1>8. QED
  BY <1>2, <1>3, <1>4, <1>5, <1>6, <1>7 DEF Client

LEMMA ParentSteady ==
    ASSUME Good, AllSteady, Accept \/ ForkFails \/ AcceptFails
    PROVE  AllSteady'
<1> SUFFICES ASSUME NEW x \in Clients PROVE Steady(x)'
  BY DEF AllSteady
<1>1. FunctionTypes /\ Steady(x) /\ Connection(x)
  BY TypeParts DEF Good, AllSteady
<1>2. CASE Accept \/ ForkFails
  <2> DEFINE h == Head(backlog)
  <2>1. PICK l \in {"read", "leaked"} : child' = [child EXCEPT ![h] = l]
    BY <1>2 DEF Accept, ForkFails
  <2>2. /\ parent = "accept" /\ UNCHANGED <<parent, buf, sock, cpc, got, cend, up, down>>
        /\ backlog # <<>> /\ backlog' = Tail(backlog)
    BY <1>2 DEF Accept, ForkFails, clients
  <2>3. /\ h \in Clients /\ child[h] = "none" /\ sock[h] = "open" /\ cpc[h] # "connect"
        /\ \A y \in Clients : Queued(y)' <=> Queued(y) /\ y # h
    BY <2>2, QueueStep
  <2> HIDE DEF h
  <2>4. CASE x # h
    <3>1. child'[x] = child[x]
      BY <1>1, <2>1, <2>4 DEF FunctionTypes
    <3>2. QED
      BY <1>1, <2>2, <2>3, <2>4, <3>1, SteadyKept
  <2>5. CASE x = h
    <3>1. child'[x] = l
      BY <1>1, <2>1, <2>5 DEF FunctionTypes
    <3>2. QED
      BY <1>1, <2>2, <2>3, <2>5, <3>1 DEF Steady, Started
  <2>6. QED
    BY <2>4, <2>5
<1>3. CASE AcceptFails
  <2>1. parent' = "gone" /\ UNCHANGED <<buf, cpc, got, cend, up, down>>
    BY <1>3 DEF AcceptFails, clients
  <2>2. /\ Dropped(x) => sock[x] = "open" /\ sock'[x] \in {"closed", "reset"}
        /\ ~Dropped(x) => sock'[x] = sock[x]
        /\ child'[x] = IF child[x] = "zombie" THEN "reaped" ELSE child[x]
    BY <1>3, AcceptFailsFacts
  <2>3. Dropped(x) <=> Queued(x) \/ child[x] = "leaked"
    BY DEF Dropped
  <2>4. QED
    BY <1>1, <2>1, <2>2, <2>3 DEF Steady, Started
<1>4. QED
  BY <1>2, <1>3

LEMMA ChildSteady ==
    ASSUME Good, AllSteady, NEW c \in Clients, Child(c)
    PROVE  AllSteady'
<1> SUFFICES ASSUME NEW x \in Clients PROVE Steady(x)'
  BY DEF AllSteady
<1>1. /\ FunctionTypes /\ Steady(x) /\ Steady(c) /\ Connection(c)
      /\ cend[c] = "open" <=> cpc[c] \notin {"done", "failed"}
  BY TypeParts DEF Good, Places, Ends, AllSteady
<1> DEFINE a == Len(up[c])
           b == Len(buf[c])
           d == Len(down[c])
           g == got[c]
<1>2. /\ a \in Nat /\ b \in Nat /\ d \in Nat /\ g \in Nat /\ MsgSize \in Nat
      /\ cpc[c] \in {"reply", "sleep"} /\ sock[c] = "open" => a + b + d + g = MsgSize
  BY <1>1, Lengths DEF Good, Steady
<1>3. CASE Read(c)
  <2> PICK k \in Receivable(up[c], ReadSize) :
          buf' = [buf EXCEPT ![c] = SubSeq(up[c], 1, k)] /\ up' = [up EXCEPT ![c] = Rest(@, k)]
    BY <1>3 DEF Read
  <2>1. /\ child[c] = "read" /\ child' = [child EXCEPT ![c] = "write"]
        /\ UNCHANGED <<parent, backlog, sock, cpc, got, cend, down>>
    BY <1>3 DEF Read, server, clients
  <2>2. CASE x # c
    <3>1. child'[x] = child[x] /\ buf'[x] = buf[x] /\ up'[x] = up[x]
      BY <1>1, <2>1, <2>2 DEF FunctionTypes
    <3>2. QED
      BY <1>1, <2>1, <3>1, SteadyKept DEF Queued
  <2>3. CASE x = c
    <3>1. /\ child'[c] = "write" /\ up'[c] = Rest(up[c], k) /\ buf'[c] = SubSeq(up[c], 1, k)
          /\ buf[c] = <<>>
      BY <1>1, <2>1 DEF FunctionTypes, Connection
    <3>2. k \in 1 .. a /\ Len(up'[c]) = a - k /\ Len(buf'[c]) = k
      <4>1. /\ k \in 1 .. Len(up[c]) /\ Len(Rest(up[c], k)) = Len(up[c]) - k
            /\ Len(SubSeq(up[c], 1, k)) = k
        BY Split, Lengths DEF Good
      <4>2. QED
        BY <3>1, <4>1
    <3>3. b = 0
      BY <3>1, EmptySeq
    <3>4. Len(down'[c]) = d /\ got'[c] = g
      BY <2>1
    <3> HIDE DEF a, b, d, g
    <3>5. (a - k) + k + d + g = a + b + d + g
      BY <1>2, <3>2, <3>3
    <3>6. cpc[c] \in {"reply", "sleep"} /\ sock[c] = "open" =>
              Len(up'[c]) + Len(buf'[c]) + Len(down'[c]) + got'[c] = MsgSize
      BY <1>2, <3>2, <3>4, <3>5
    <3>7. QED
      BY <1>1, <2>1, <2>3, <3>1, <3>6 DEF Steady, Started, Queued
  <2>4. QED
    BY <2>2, <2>3
<1>4. CASE Write(c)
  <2>1. /\ child[c] = "write" /\ child' = [child EXCEPT ![c] = "read"]
        /\ UNCHANGED <<parent, backlog, sock, cpc, got, up>>
        /\ buf' = [buf EXCEPT ![c] = <<>>]
        /\ \/ cend[c] = "open" /\ down' = [down EXCEPT ![c] = @ \o buf[c]] /\ cend' = cend
           \/ cend[c] # "open" /\ cend' = [cend EXCEPT ![c] = "reset"] /\ down' = down
    BY <1>4 DEF Write, WriteBack, server, clients
  <2>2. CASE x # c
    <3>1. child'[x] = child[x] /\ buf'[x] = buf[x] /\ down'[x] = down[x] /\ cend'[x] = cend[x]
      BY <1>1, <2>1, <2>2 DEF FunctionTypes
    <3>2. QED
      BY <1>1, <2>1, <3>1, SteadyKept DEF Queued
  <2>3. CASE x = c
    <3>1. child'[c] = "read" /\ buf'[c] = <<>>
      BY <1>1, <2>1 DEF FunctionTypes
    <3>2. cpc[c] \in {"reply", "sleep"} /\ sock[c] = "open" =>
              Len(up'[c]) + Len(buf'[c]) + Len(down'[c]) + got'[c] = MsgSize
      <4>1. SUFFICES ASSUME cpc[c] \in {"reply", "sleep"}, sock[c] = "open"
                     PROVE  Len(up'[c]) + Len(buf'[c]) + Len(down'[c]) + got'[c] = MsgSize
        OBVIOUS
      <4>2. down'[c] = down[c] \o buf[c]
        BY <1>1, <2>1, <4>1 DEF FunctionTypes
      <4>3. Len(down[c] \o buf[c]) = d + b /\ Len(<<>>) = 0
        BY ConcatProperties, Lengths DEF Good
      <4>4. Len(up'[c]) = a /\ Len(buf'[c]) = 0 /\ Len(down'[c]) = d + b /\ got'[c] = g
        BY <2>1, <3>1, <4>2, <4>3
      <4> HIDE DEF a, b, d, g
      <4>5. a + 0 + (d + b) + g = a + b + d + g
        BY <1>2
      <4>6. QED
        BY <1>2, <4>1, <4>4, <4>5
    <3>3. QED
      BY <1>1, <2>1, <2>3, <3>1, <3>2 DEF Steady, Started, Queued
  <2>4. QED
    BY <2>2, <2>3
<1>5. CASE Disconnect(c) \/ WriteFails(c)
  <2>1. /\ child[c] \in {"read", "write"} /\ cend[c] # "open"
        /\ \E l \in {"zombie", "reaped"} : child' = [child EXCEPT ![c] = l]
        /\ \E e \in {"closed", "reset"} : sock' = [sock EXCEPT ![c] = e]
        /\ buf' = [buf EXCEPT ![c] = <<>>]
        /\ UNCHANGED <<parent, backlog, cpc, got, cend, up, down>>
    BY <1>5 DEF Disconnect, Disconnected, Lost, WriteFails, Exits, Closed, server, clients
  <2>2. CASE x # c
    <3>1. child'[x] = child[x] /\ buf'[x] = buf[x] /\ sock'[x] = sock[x]
      BY <1>1, <2>1, <2>2 DEF FunctionTypes
    <3>2. QED
      BY <1>1, <2>1, <3>1, SteadyKept DEF Queued
  <2>3. CASE x = c
    <3>1. child'[c] \in {"zombie", "reaped"} /\ sock'[c] # "open"
      BY <1>1, <2>1 DEF FunctionTypes
    <3>2. QED
      BY <1>1, <2>1, <2>3, <3>1 DEF Steady, Started, Queued
  <2>4. QED
    BY <2>2, <2>3
<1>6. QED
  BY <1>3, <1>4, <1>5 DEF Child

LEMMA NextSteady == Inv /\ AllSteady /\ [Next]_vars => AllSteady'
<1> SUFFICES ASSUME Inv, AllSteady, [Next]_vars PROVE AllSteady'
  OBVIOUS
<1>1. Good
  BY DEF Inv, Good
<1>2. CASE UNCHANGED vars
  BY <1>2, SteadyKept DEF AllSteady, vars, server, clients, Queued
<1>3. QED
  BY <1>1, <1>2, ClientSteady, ParentSteady, ChildSteady DEF Next

LEMMA SteadyHolds == Spec => [](Inv /\ AllSteady)
<1>1. Init => Inv /\ AllSteady
  BY InitRefines, InitSteady
<1>2. Inv /\ AllSteady /\ [Next]_vars => (Inv /\ AllSteady)'
  BY NextKeeps, NextSteady
<1>3. QED
  BY <1>1, <1>2, PTL DEF Spec

LEMMA NobodyStuck == Good /\ AllSteady => \A c \in Clients : NoStandoff(c)
<1> SUFFICES ASSUME Good, AllSteady, NEW c \in Clients, ClientWaits(c)
             PROVE  \/ c \in Running /\ ~ChildWaits(c)
                    \/ parent = "accept" /\ (c \in ToSet(backlog) \/ c \in Leaked)
  BY DEF NoStandoff
<1>1. FunctionTypes /\ Steady(c) /\ Connection(c)
  BY TypeParts DEF Good, AllSteady
<1>2. cpc[c] = "reply" /\ down[c] = <<>> /\ sock[c] = "open"
  BY <1>1 DEF ClientWaits, Lost, FunctionTypes
<1>3. CASE child[c] = "none"
  <2>1. Queued(c)
    BY <1>1, <1>2, <1>3 DEF Steady
  <2>2. c \in ToSet(backlog)
    BY <1>1, <2>1, QueueIsSet DEF FunctionTypes, Queued
  <2>3. backlog # <<>>
    BY <2>1 DEF Queued, In
  <2>4. QED
    BY <2>2, <2>3 DEF Good, Places, Waiting
<1>4. CASE child[c] = "leaked"
  BY <1>1, <1>2, <1>4 DEF Steady, Leaked
<1>5. CASE child[c] = "read"
  <2>1. buf[c] = <<>> /\ got[c] = 0
    BY <1>1, <1>2, <1>5 DEF Connection, Steady
  <2>2. Len(up[c]) + Len(buf[c]) + Len(down[c]) + got[c] = MsgSize
    BY <1>1, <1>2 DEF Steady
  <2>3. Len(buf[c]) = 0 /\ Len(down[c]) = 0
    BY <1>2, <2>1, EmptySeq
  <2>4. Len(up[c]) \in Nat /\ MsgSize \in Nat \ {0}
    BY Lengths DEF Good
  <2>5. Len(up[c]) # 0
    BY <2>1, <2>2, <2>3, <2>4
  <2>6. up[c] # <<>>
    BY <2>5, EmptySeq
  <2>7. QED
    BY <1>5, <2>6 DEF ChildWaits, Running
<1>6. CASE child[c] = "write"
  BY <1>6 DEF ChildWaits, Running
<1>7. QED
  BY <1>1, <1>2, <1>3, <1>4, <1>5, <1>6 DEF FunctionTypes, Connection

-----------------------------------------------------------------------------
(* Every step takes a client or a child nearer to its end. *)

LEMMA LeftNumbers ==
    ASSUME Good, NEW c \in Clients
    PROVE  /\ ClientLeft(c) \in 0 .. 4 /\ ChildLeft(c) \in Nat
           /\ Ahead(c) \in 0 .. MsgSize /\ MsgSize \in Nat
<1>1. cpc[c] \in {"connect", "send", "reply", "sleep", "done", "failed"}
  BY TypeParts DEF Good, FunctionTypes
<1>2. ClientLeft(c) \in 0 .. 4
  BY <1>1 DEF ClientLeft, Stage
<1>3. MsgSize \in Nat /\ Len(up[c]) \in 0 .. MsgSize
  <2> DEFINE a == Len(up[c])
             b == Len(buf[c])
             d == Len(down[c])
  <2>1. a \in Nat /\ b \in Nat /\ d \in Nat /\ got[c] \in Nat /\ MsgSize \in Nat /\ a + b + d + got[c] <= MsgSize
    BY Lengths DEF Good
  <2> HIDE DEF a, b, d
  <2>2. a \in 0 .. MsgSize
    BY <2>1
  <2>3. QED
    BY <2>1, <2>2 DEF a
<1>4. Ahead(c) \in 0 .. MsgSize
  BY <1>3 DEF Ahead
<1>5. ChildLeft(c) \in Nat
  BY <1>3, <1>4 DEF ChildLeft
<1>6. QED
  BY <1>2, <1>3, <1>4, <1>5

\* A step of one client or of its child.
LEMMA OneNearer ==
    ASSUME Good, NEW c \in Clients, parent' = parent,
           \A x \in Clients : x # c => cpc'[x] = cpc[x] /\ child'[x] = child[x] /\ up'[x] = up[x],
           ClientLeft(c)' <= ClientLeft(c), ChildLeft(c)' <= ChildLeft(c),
           ClientLeft(c)' < ClientLeft(c) \/ ChildLeft(c)' < ChildLeft(c)
    PROVE  Nearer
<1>1. ASSUME NEW x \in Clients, x # c
      PROVE  ClientLeft(x)' = ClientLeft(x) /\ ChildLeft(x)' = ChildLeft(x)
  BY <1>1 DEF ClientLeft, ChildLeft, Ahead
<1>2. ASSUME NEW x \in Clients
      PROVE  ClientLeft(x)' <= ClientLeft(x) /\ ChildLeft(x)' <= ChildLeft(x)
  <2>1. CASE x = c
    BY <2>1
  <2>2. CASE x # c
    <3>1. ClientLeft(x)' = ClientLeft(x) /\ ChildLeft(x)' = ChildLeft(x)
      BY <1>1, <2>2
    <3>2. ClientLeft(x) \in Int /\ ChildLeft(x) \in Int
      BY LeftNumbers
    <3> DEFINE m == ClientLeft(x)
               n == ChildLeft(x)
    <3> HIDE DEF m, n
    <3>3. m <= m /\ n <= n
      BY <3>2 DEF m, n
    <3>4. QED
      BY <3>1, <3>3 DEF m, n
  <2>3. QED
    BY <2>1, <2>2
<1>3. QED
  BY <1>2, Zenon DEF Nearer

\* A client that goes on, and sends nothing more than it was to send.
LEMMA ClientIsNearer ==
    ASSUME Good, NEW c \in Clients, Client(c)
    PROVE  Nearer
<1>1. /\ FunctionTypes
      /\ cpc[c] \in {"connect", "send"} => up[c] = <<>>
  BY TypeParts DEF Good, Places, Fresh
<1>2. /\ parent' = parent /\ child' = child
      /\ \A x \in Clients : x # c => cpc'[x] = cpc[x] /\ up'[x] = up[x]
  BY <1>1 DEF Client, Connect, SendMessage, SendFails, ReceiveMessage, NoMessage, Return, ClientEnds,
              server, FunctionTypes
<1>3. Stage[cpc'[c]] < Stage[cpc[c]]
  BY <1>1 DEF Client, Connect, SendMessage, SendFails, ReceiveMessage, NoMessage, Return, ClientEnds,
              Stage, FunctionTypes
<1>4. Ahead(c)' <= Ahead(c)
  <2>1. /\ Len(<<>>) = 0 /\ Len(Message(c)) = MsgSize /\ MsgSize \in Nat /\ Len(up[c]) \in Nat
        /\ Ahead(c) \in 0 .. MsgSize
    BY MessageFacts, Lengths, LeftNumbers DEF Good
  <2>2. CASE Connect(c)
    <3>1. cpc[c] = "connect" /\ cpc'[c] \in {"send", "failed"} /\ up'[c] = <<>>
      BY <1>1, <2>2 DEF Connect, ClientEnds, FunctionTypes
    <3>2. QED
      BY <2>1, <3>1 DEF Ahead
  <2>3. CASE SendMessage(c)
    <3>1. cpc[c] = "send" /\ cpc'[c] = "reply" /\ up'[c] \in {Message(c), <<>>}
      BY <1>1, <2>3 DEF SendMessage, FunctionTypes
    <3>2. QED
      BY <2>1, <3>1 DEF Ahead
  <2>4. CASE SendFails(c)
    <3>1. cpc[c] = "send" /\ cpc'[c] = "failed" /\ up'[c] = <<>>
      BY <1>1, <2>4 DEF SendFails, ClientEnds, FunctionTypes
    <3>2. QED
      BY <2>1, <3>1 DEF Ahead
  <2>5. CASE ReceiveMessage(c) \/ NoMessage(c) \/ Return(c)
    <3>1. cpc[c] \in {"reply", "sleep"} /\ cpc'[c] \in {"sleep", "done"} /\ up'[c] = up[c]
      BY <1>1, <2>5 DEF ReceiveMessage, NoMessage, Return, ClientEnds, FunctionTypes
    <3>2. QED
      BY <2>1, <3>1 DEF Ahead
  <2>6. QED
    BY <2>2, <2>3, <2>4, <2>5 DEF Client
<1>5. Ahead(c)' \in Nat /\ Ahead(c) \in Nat
  <2>1. up'[c] \in {up[c], Message(c)}
    BY <1>1 DEF Client, Connect, SendMessage, SendFails, ReceiveMessage, NoMessage, Return, ClientEnds,
                FunctionTypes
  <2>2. Len(up'[c]) \in Nat /\ MsgSize \in Nat
    BY <2>1, MessageFacts, Lengths DEF Good
  <2>3. QED
    BY <2>2, LeftNumbers DEF Ahead
<1>6. ChildLeft(c)' <= ChildLeft(c)
  <2> DEFINE m == Ahead(c)'
             n == Ahead(c)
  <2>1. /\ ChildLeft(c)' = CASE child[c] = "none"  -> 2 * MsgSize + 2
                             [] child[c] = "read"  -> 2 * m + 1
                             [] child[c] = "write" -> 2 * m + 2
                             [] OTHER              -> 0
        /\ ChildLeft(c) = CASE child[c] = "none"  -> 2 * MsgSize + 2
                            [] child[c] = "read"  -> 2 * n + 1
                            [] child[c] = "write" -> 2 * n + 2
                            [] OTHER              -> 0
    BY <1>2 DEF ChildLeft
  <2>2. m \in Nat /\ n \in Nat /\ m <= n /\ MsgSize \in Nat
    BY <1>4, <1>5, BoundsAssumption
  <2> HIDE DEF m, n
  <2>3. QED
    BY <2>1, <2>2
<1>7. ClientLeft(c)' < ClientLeft(c) /\ ClientLeft(c)' <= ClientLeft(c)
  <2>1. cpc'[c] \in {"connect", "send", "reply", "sleep", "done", "failed"}
    BY <1>1 DEF Client, Connect, SendMessage, SendFails, ReceiveMessage, NoMessage, Return, ClientEnds,
                FunctionTypes
  <2>2. Stage[cpc'[c]] \in 0 .. 4 /\ Stage[cpc[c]] \in 0 .. 4
    BY <1>1, <2>1 DEF Stage, FunctionTypes
  <2>3. QED
    BY <1>3, <2>2 DEF ClientLeft
<1>9. QED
  BY <1>2, <1>6, <1>7, OneNearer

LEMMA ChildIsNearer ==
    ASSUME Good, NEW c \in Clients, Child(c)
    PROVE  Nearer
<1> DEFINE n == Ahead(c)
<1>1. n \in Nat /\ Len(up[c]) \in Nat /\ up[c] \in Seq(Unit) /\ Len(<<>>) = 0
  <2>1. n \in 0 .. MsgSize
    BY LeftNumbers
  <2> HIDE DEF n
  <2>2. n \in Nat
    BY <2>1, BoundsAssumption
  <2>3. QED
    BY <2>2, Lengths DEF Good
<1>2. CASE Read(c)
  <2> PICK k \in Receivable(up[c], ReadSize) : up' = [up EXCEPT ![c] = Rest(@, k)]
    BY <1>2 DEF Read
  <2>1. /\ child[c] = "read" /\ child' = [child EXCEPT ![c] = "write"] /\ parent' = parent /\ cpc' = cpc
        /\ FunctionTypes
    BY <1>2, TypeParts DEF Read, server, clients, Good
  <2>2. k \in 1 .. Len(up[c]) /\ Len(Rest(up[c], k)) = Len(up[c]) - k
    BY Split, Lengths DEF Good
  <2>3. cpc[c] \notin {"connect", "send"}
    <3>1. up[c] # <<>>
      BY <1>1, <2>2
    <3>2. QED
      BY <3>1 DEF Good, Places, Fresh
  <2>4. child'[c] = "write" /\ Ahead(c) = Len(up[c]) /\ Ahead(c)' = Len(up[c]) - k
    BY <2>1, <2>2, <2>3 DEF FunctionTypes, Ahead
  <2>5. ChildLeft(c) = 2 * Len(up[c]) + 1 /\ ChildLeft(c)' = 2 * (Len(up[c]) - k) + 2
    BY <2>1, <2>4 DEF ChildLeft
  <2>6. ChildLeft(c)' < ChildLeft(c) /\ ChildLeft(c)' <= ChildLeft(c)
    BY <1>1, <2>2, <2>5
  <2>7. ClientLeft(c)' <= ClientLeft(c)
    <3>1. ClientLeft(c)' = ClientLeft(c) /\ ClientLeft(c) \in Int
      BY <2>1, LeftNumbers DEF ClientLeft
    <3>2. QED
      BY <3>1
  <2>8. \A x \in Clients : x # c => cpc'[x] = cpc[x] /\ child'[x] = child[x] /\ up'[x] = up[x]
    BY <2>1 DEF FunctionTypes
  <2>9. QED
    BY <2>1, <2>6, <2>7, <2>8, OneNearer
<1>3. CASE Write(c) \/ Disconnect(c) \/ WriteFails(c)
  <2>1. /\ FunctionTypes /\ parent' = parent /\ cpc' = cpc /\ up' = up
        /\ \/ child[c] = "write" /\ child' = [child EXCEPT ![c] = "read"]
           \/ /\ child[c] \in {"read", "write"}
              /\ \E l \in {"zombie", "reaped"} : child' = [child EXCEPT ![c] = l]
    BY <1>3, TypeParts DEF Write, WriteBack, Disconnect, WriteFails, Exits, server, clients, Good
  <2>2. \/ child[c] = "write" /\ child'[c] = "read"
        \/ child[c] \in {"read", "write"} /\ child'[c] \in {"zombie", "reaped"}
    BY <2>1 DEF FunctionTypes
  <2>3. Ahead(c)' = n
    BY <2>1 DEF Ahead
  <2>4. \/ ChildLeft(c) = 2 * n + 2 /\ ChildLeft(c)' = 2 * n + 1
        \/ ChildLeft(c) \in {2 * n + 1, 2 * n + 2} /\ ChildLeft(c)' = 0
    BY <2>2, <2>3 DEF ChildLeft
  <2> HIDE DEF n
  <2>5. ChildLeft(c)' < ChildLeft(c) /\ ChildLeft(c)' <= ChildLeft(c)
    BY <1>1, <2>4
  <2>6. ClientLeft(c)' <= ClientLeft(c)
    <3>1. ClientLeft(c)' = ClientLeft(c) /\ ClientLeft(c) \in Int
      BY <2>1, LeftNumbers DEF ClientLeft
    <3>2. QED
      BY <3>1
  <2>7. \A x \in Clients : x # c => cpc'[x] = cpc[x] /\ child'[x] = child[x] /\ up'[x] = up[x]
    BY <2>1 DEF FunctionTypes
  <2>8. QED
    BY <2>1, <2>5, <2>6, <2>7, OneNearer
<1>4. QED
  BY <1>2, <1>3 DEF Child

LEMMA ParentIsNearer ==
    ASSUME Good, Accept \/ ForkFails \/ AcceptFails
    PROVE  Nearer
<1>1. CASE Accept \/ ForkFails
  <2>1. /\ UNCHANGED <<parent, cpc, up>> /\ backlog # <<>> /\ backlog' = Tail(backlog) /\ FunctionTypes
    BY <1>1, TypeParts DEF Accept, ForkFails, clients, Good
  <2>2. PICK h \in Clients : h = Head(backlog) /\ child[h] = "none"
    BY <2>1, QueueStep
  <2>3. PICK l \in {"read", "leaked"} : child' = [child EXCEPT ![h] = l]
    BY <1>1, <2>2 DEF Accept, ForkFails
  <2>4. child'[h] \in {"read", "leaked"} /\ \A x \in Clients : x # h => child'[x] = child[x]
    BY <2>3, <2>1, <2>2 DEF FunctionTypes
  <2>5. Ahead(h)' = Ahead(h)
    BY <2>1 DEF Ahead
  <2>6. Ahead(h) \in 0 .. MsgSize /\ MsgSize \in Nat
    BY <2>2, LeftNumbers
  <2>7. ChildLeft(h) = 2 * MsgSize + 2 /\ ChildLeft(h)' \in {2 * Ahead(h) + 1, 0}
    BY <2>2, <2>4, <2>5 DEF ChildLeft
  <2>8. ChildLeft(h)' < ChildLeft(h) /\ ChildLeft(h)' <= ChildLeft(h)
    <3> DEFINE n == Ahead(h)
    <3>1. ChildLeft(h)' \in {2 * n + 1, 0} /\ n \in 0 .. MsgSize
      BY <2>7, <2>6
    <3> HIDE DEF n
    <3>2. 2 * n + 1 < 2 * MsgSize + 2 /\ 0 < 2 * MsgSize + 2
      BY <2>6, <3>1
    <3>3. QED
      BY <2>7, <2>6, <3>1, <3>2
  <2>9. ClientLeft(h)' <= ClientLeft(h)
    <3>1. ClientLeft(h)' = ClientLeft(h)
      BY <2>1 DEF ClientLeft
    <3>2. ClientLeft(h) \in 0 .. 4
      BY <2>2, LeftNumbers
    <3> DEFINE n == ClientLeft(h)
    <3> HIDE DEF n
    <3>3. n <= n
      BY <3>2 DEF n
    <3>4. QED
      BY <3>1, <3>3 DEF n
  <2>10. QED
    BY <2>1, <2>2, <2>4, <2>8, <2>9, OneNearer
<1>2. CASE AcceptFails
  <2>1. parent = "accept" /\ parent' = "gone" /\ UNCHANGED <<cpc, up>>
    BY <1>2 DEF AcceptFails, clients
  <2>2. ASSUME NEW c \in Clients
        PROVE  ClientLeft(c)' <= ClientLeft(c) /\ ChildLeft(c)' <= ChildLeft(c)
    <3>1. child'[c] = IF child[c] = "zombie" THEN "reaped" ELSE child[c]
      BY <1>2, AcceptFailsFacts
    <3>2. ClientLeft(c)' = ClientLeft(c) /\ ChildLeft(c)' = ChildLeft(c)
      BY <2>1, <3>1 DEF ClientLeft, ChildLeft, Ahead
    <3>3. ClientLeft(c) \in Int /\ ChildLeft(c) \in Int
      BY LeftNumbers
    <3> DEFINE m == ClientLeft(c)
               n == ChildLeft(c)
    <3> HIDE DEF m, n
    <3>4. m <= m /\ n <= n
      BY <3>3 DEF m, n
    <3>5. QED
      BY <3>2, <3>4 DEF m, n
  <2>3. QED
    BY <2>1, <2>2, Zenon DEF Nearer
<1>3. QED
  BY <1>1, <1>2

\* Whom the parent forked a child for is not let down, and nobody is while it runs.
THEOREM ServedHolds == Spec => [](\A c \in Clients : Served(c))
<1>1. AllSteady => \A c \in Clients : Served(c)
  BY DEF AllSteady, Steady, Started, Served
<1>2. QED
  BY <1>1, SteadyHolds, PTL

\* Client and child never wait for each other, and each step takes one of them
\* nearer to its end, for any number of clients and any sizes and limits: that
\* every process that can go on does is all that is left to assume.
THEOREM ProceedsHolds == Spec => Proceeds
<1>1. Inv /\ AllSteady => \A c \in Clients : NoStandoff(c)
  BY NobodyStuck DEF Inv, Good
<1>2. Inv /\ AllSteady /\ [Next]_vars => [Nearer]_vars
  BY ClientIsNearer, ChildIsNearer, ParentIsNearer DEF Inv, Good, Next
<1>3. QED
  BY <1>1, <1>2, SteadyHolds, PTL DEF Spec, Proceeds
=============================================================================
