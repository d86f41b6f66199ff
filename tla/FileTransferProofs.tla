------------------------ MODULE FileTransferProofs ------------------------
(***************************************************************************)
(* What the run checks of FileTransfer for two clients, proved for any      *)
(* number of clients, any names and sizes, any number of changes of the     *)
(* files and of failing calls.                                              *)
(***************************************************************************)
EXTENDS FileTransfer, SequenceTheorems, TLAPS

In(c, queue) == \E k \in 1 .. Len(queue) : queue[k] = c
Queued(c) == In(c, backlog)

\* Units of one kind, in order from number `from' on.
Run(s, kind, from) == \A i \in 1 .. Len(s) : s[i] = [kind |-> kind, n |-> from + i - 1]

Early == {"none", "leaked", "info"}      \* the child has not all of the file_Info

\* Who is where: the ends of the connection, and what each side has come to.
Ends(c) ==
    /\ cend[c] = "open" <=> cpc[c] \notin {"sent", "failed"}
    /\ spc[c] \in {"info", "ack", "create", "recv"} => sock[c] = "open"
    /\ spc[c] \in {"received", "failed"} => sock[c] # "open"
    /\ spc[c] \notin Early => cpc[c] \notin {"connect", "stat", "send_info"}
    /\ Queued(c) => spc[c] = "none" /\ sock[c] = "open" /\ cpc[c] # "connect"
    /\ cpc[c] = "connect" => spc[c] = "none" /\ sock[c] = "open"
    /\ cpc[c] \in {"read", "send"} => file[c] # Absent
    /\ cpc[c] \in {"connect", "stat"} => rcvd[c] = 0 /\ up[c] = <<>>

\* How far the loops of both sides are.
Counts(c) ==
    /\ Len(up[c]) <= SockBuf /\ out[c] <= rcvd[c]
    /\ spc[c] \in {"none", "leaked"} => rcvd[c] = 0
    /\ spc[c] \in Early \cup {"ack", "create"} => out[c] = 0
    /\ spc[c] = "info" => rcvd[c] < InfoSize
    /\ spc[c] \in {"ack", "create"} => rcvd[c] = InfoSize
    /\ spc[c] \in {"recv", "received"} => rcvd[c] <= info[c].size
    /\ spc[c] = "failed" => rcvd[c] <= InfoSize \/ rcvd[c] <= MaxSize
    /\ cpc[c] \in Sending => todo[c] # <<>>
    /\ cpc[c] \notin {"read", "send", "sent", "failed"} => pos[c] = 0

\* How much of the file the child has received.
Base(c) == IF spc[c] = "recv" THEN rcvd[c] ELSE 0

\* What the stream to the server carries.
Stream(c) ==
    sock[c] = "open" =>
      /\ spc[c] \in Early =>
            /\ Run(up[c], "info", rcvd[c]) /\ rcvd[c] + Len(up[c]) <= InfoSize
            /\ cpc[c] = "send_info" => /\ Run(todo[c], "info", rcvd[c] + Len(up[c]))
                                       /\ rcvd[c] + Len(up[c]) + Len(todo[c]) = InfoSize
      /\ spc[c] = "ack" => up[c] = <<>>
      /\ spc[c] \in {"create", "recv"} =>
            /\ Run(up[c], "data", Base(c)) /\ Base(c) + Len(up[c]) <= pos[c]
            /\ cpc[c] \in {"open", "read", "sent"} => Base(c) + Len(up[c]) = pos[c]
            /\ cpc[c] = "send" => /\ Run(todo[c], "data", Base(c) + Len(up[c]))
                                  /\ Base(c) + Len(up[c]) + Len(todo[c]) = pos[c]
      /\ cpc[c] \in {"open", "read", "send", "sent"} => spc[c] \in {"create", "recv"}

\* The answer: sent by the child once it has the file_Info, read by the client
\* once.
Answer(c) ==
    /\ spc[c] \in Early => ack[c] = OK
    /\ spc[c] = "ack" => ack[c] # <<>>
    /\ spc[c] \in {"create", "recv", "received"} => ack[c] = <<>>
    /\ ack[c] = OK => down[c] = <<>>
    /\ ack[c] = <<"K">> => down[c] \in {<<>>, <<"O">>}
    /\ ack[c] = <<"K">> /\ cend[c] = "open" => down[c] = <<"O">>

\* Who created a file last is a child that came so far, and if it is alone in
\* that nobody else has the file open.
Creators ==
    \A c \in Clients : \A n \in Names : c \in disk[n].by =>
        info[c].name = n /\ spc[c] \in {"recv", "received", "failed"}
Alone ==
    \A c, d \in Clients :
        Owns(c) /\ spc[d] = "recv" /\ info[d].name = info[c].name => d = c

\* As long as nothing failed and no file changed.
NoFaults == faults = Faults
NoEdits == edits = Edits
Smooth(c) ==
    /\ NoFaults => /\ spc[c] \in {"recv", "received"} => out[c] = rcvd[c]
                   /\ cpc[c] \in {"connect", "stat", "send_info", "reply"} => sock[c] # "reset"
                   /\ cpc[c] \in {"open", "read", "send"} => down[c] = <<>>
                   /\ cpc[c] = "sent" => cend[c] = "closed"
    /\ NoEdits => /\ info[c].name # NoName => info[c].size = file[c]
                  /\ cpc[c] = "sent" => pos[c] >= info[c].size
    /\ NoFaults /\ NoEdits => (spc[c] = "failed" => cpc[c] = "failed")
    /\ spc[c] = "received" => rcvd[c] = info[c].size
    /\ cpc[c] \in {"read", "send", "sent"} => info[c].name # NoName

FunctionTypes ==
    /\ file \in [Clients -> 0 .. MaxSize \cup {Absent}]
    /\ edits \in 0 .. Edits /\ faults \in 0 .. Faults
    /\ cpc \in [Clients -> ClientLabels] /\ spc \in [Clients -> ChildLabels]
    /\ info \in [Clients -> [name : Names, size : 0 .. MaxSize]]
    /\ pos \in [Clients -> 0 .. MaxSize]
    /\ cend \in [Clients -> {"open", "closed", "reset"}]
    /\ sock \in [Clients -> {"open", "closed", "reset"}]
    /\ parent \in {"accept", "gone"}
    /\ backlog \in Seq(Clients) /\ IsInjective(backlog)
    /\ todo \in [Clients -> Seq(Unit)] /\ up \in [Clients -> Seq(Unit)]
    /\ ack \in [Clients -> {<<>>, <<"K">>, OK}]
    /\ down \in [Clients -> {<<>>, <<"O">>, <<"K">>, OK}]
    /\ rcvd \in [Clients -> Nat] /\ out \in [Clients -> Nat]
    /\ disk \in [Names -> [by : SUBSET Clients, data : Seq(Unit \cup {Hole})]]
    /\ shared \in [Clients -> BOOLEAN]

\* The connections that fork failed for.  Only children that run have copies,
\* and such a connection is open exactly as long as some process has it.
LeakedOpen ==
    \A c \in Leaked : sock[c] = "open" <=> parent = "accept" \/ Holders(c) # {}
Copies ==
    /\ held \in [Clients -> SUBSET Clients]
    /\ Leaked # {} => ~NoFaults
    /\ \A c \in Clients : held[c] \subseteq Leaked /\ (held[c] # {} => spc[c] \in Running)
    /\ LeakedOpen

Good(c) == Ends(c) /\ Counts(c) /\ Stream(c) /\ Answer(c) /\ Smooth(c)
AllGood == FunctionTypes /\ \A c \in Clients : Good(c)
Inv == AllGood /\ Copies /\ Creators /\ Alone /\ FileIntact

-----------------------------------------------------------------------------
(* Sequences. *)

\* What recv takes is the first of the stream, what it leaves the rest.
LEMMA Split ==
    ASSUME NEW s \in Seq(Unit), NEW k \in 1 .. Len(s)
    PROVE  /\ SubSeq(s, 1, k) \in Seq(Unit) /\ Len(SubSeq(s, 1, k)) = k
           /\ \A i \in 1 .. k : SubSeq(s, 1, k)[i] = s[i]
           /\ Rest(s, k) \in Seq(Unit) /\ Len(Rest(s, k)) = Len(s) - k
           /\ \A i \in 1 .. Len(s) - k : Rest(s, k)[i] = s[i + k]
           /\ k \in Nat /\ Len(s) \in Nat
<1>1. Len(s) \in Nat /\ k \in Nat /\ k <= Len(s)
  BY LenProperties
<1>2. \A i \in 1 .. Len(s) : s[i] \in Unit
  BY ElementOfSeq
<1>3. /\ SubSeq(s, 1, k) \in Seq(Unit) /\ Len(SubSeq(s, 1, k)) = k
      /\ \A i \in 1 .. k : SubSeq(s, 1, k)[i] = s[i]
  BY <1>1, <1>2, SubSeqProperties
<1>4. /\ SubSeq(s, k + 1, Len(s)) \in Seq(Unit) /\ Len(SubSeq(s, k + 1, Len(s))) = Len(s) - k
      /\ \A i \in 1 .. Len(s) - k : SubSeq(s, k + 1, Len(s))[i] = s[i + k]
  BY <1>1, <1>2, SubSeqProperties
<1>5. QED
  BY <1>1, <1>3, <1>4 DEF Rest

LEMMA RunSplit ==
    ASSUME NEW s \in Seq(Unit), NEW k \in 1 .. Len(s), NEW kind, NEW from \in Nat, Run(s, kind, from)
    PROVE  Run(SubSeq(s, 1, k), kind, from) /\ Run(Rest(s, k), kind, from + k)
<1> DEFINE a == SubSeq(s, 1, k)
           b == Rest(s, k)
<1>1. /\ Len(a) = k /\ \A i \in 1 .. k : a[i] = s[i]
      /\ Len(b) = Len(s) - k /\ \A i \in 1 .. Len(s) - k : b[i] = s[i + k]
      /\ k \in Nat /\ Len(s) \in Nat
  BY Split
<1> HIDE DEF a, b
<1>2. Run(a, kind, from)
  <2> SUFFICES ASSUME NEW i \in 1 .. k PROVE a[i] = [kind |-> kind, n |-> from + i - 1]
    BY <1>1 DEF Run
  <2>1. i \in 1 .. Len(s) /\ a[i] = s[i]
    BY <1>1
  <2>2. QED
    BY <2>1 DEF Run
<1>3. Run(b, kind, from + k)
  <2> SUFFICES ASSUME NEW i \in 1 .. Len(s) - k PROVE b[i] = [kind |-> kind, n |-> from + k + i - 1]
    BY <1>1 DEF Run
  <2>1. i + k \in 1 .. Len(s) /\ from + (i + k) - 1 = from + k + i - 1
    BY <1>1
  <2>2. QED
    BY <1>1, <2>1 DEF Run
<1>4. QED
  BY <1>2, <1>3 DEF a, b

LEMMA RunConcat ==
    ASSUME NEW s \in Seq(Unit), NEW t \in Seq(Unit), NEW kind, NEW from \in Nat,
           Run(s, kind, from), Run(t, kind, from + Len(s))
    PROVE  Run(s \o t, kind, from)
<1> DEFINE a == s \o t
<1>1. /\ Len(s) \in Nat /\ Len(t) \in Nat /\ Len(a) = Len(s) + Len(t)
      /\ \A i \in 1 .. Len(s) + Len(t) : a[i] = IF i <= Len(s) THEN s[i] ELSE t[i - Len(s)]
  BY LenProperties, ConcatProperties
<1> HIDE DEF a
<1>2. ASSUME NEW i \in 1 .. Len(s) + Len(t) PROVE a[i] = [kind |-> kind, n |-> from + i - 1]
  <2>1. CASE i <= Len(s)
    <3>1. i \in 1 .. Len(s) /\ a[i] = s[i]
      BY <1>1, <2>1
    <3>2. QED
      BY <3>1 DEF Run
  <2>2. CASE i > Len(s)
    <3>1. /\ i - Len(s) \in 1 .. Len(t) /\ from + Len(s) + (i - Len(s)) - 1 = from + i - 1
          /\ ~(i <= Len(s))
      BY <1>1, <2>2
    <3>2. QED
      BY <1>1, <3>1 DEF Run
  <2>3. QED
    BY <1>1, <2>1, <2>2
<1>3. QED
  BY <1>1, <1>2 DEF Run, a

\* The units of a file_Info, and of a file, from one number to another.
Infos(a, b) == [i \in 1 .. b - a |-> [kind |-> "info", n |-> a + i - 1]]
Datas(a, b) == [i \in 1 .. b - a |-> [kind |-> "data", n |-> a + i - 1]]

LEMMA UnitsAre ==
    ASSUME NEW a, NEW b
    PROVE  Units(Info, a, b) = Infos(a, b) /\ Units(Data, a, b) = Datas(a, b)
  BY DEF Units, Info, Data, Infos, Datas

LEMMA InfosRun ==
    ASSUME NEW a \in Nat, NEW b \in Nat, a <= b, b <= InfoSize
    PROVE  Infos(a, b) \in Seq(Unit) /\ Len(Infos(a, b)) = b - a /\ Run(Infos(a, b), "info", a)
<1> DEFINE n == b - a
           s == Infos(a, b)
<1>1. n \in Nat /\ InfoSize \in Nat
  BY BoundsAssumption
<1>2. \A i \in 1 .. n : [kind |-> "info", n |-> a + i - 1] \in Unit
  <2> TAKE i \in 1 .. n
  <2>1. a + i - 1 \in 0 .. InfoSize
    BY <1>1
  <2>2. QED
    BY <2>1 DEF Unit, Info
<1>3. s \in [1 .. n -> Unit] /\ \A i \in 1 .. n : s[i] = [kind |-> "info", n |-> a + i - 1]
  BY <1>2 DEF Infos
<1> HIDE DEF n, s
<1>4. s \in Seq(Unit)
  BY <1>1, <1>3, SeqDef
<1>5. Len(s) = n
  BY <1>1, <1>3, <1>4, LenProperties
<1>6. QED
  BY <1>3, <1>4, <1>5 DEF Run, n, s

LEMMA DatasRun ==
    ASSUME NEW a \in Nat, NEW b \in Nat, a <= b, b <= MaxSize
    PROVE  Datas(a, b) \in Seq(Unit) /\ Len(Datas(a, b)) = b - a /\ Run(Datas(a, b), "data", a)
<1> DEFINE n == b - a
           s == Datas(a, b)
<1>1. n \in Nat /\ MaxSize \in Nat
  BY BoundsAssumption
<1>2. \A i \in 1 .. n : [kind |-> "data", n |-> a + i - 1] \in Unit
  <2> TAKE i \in 1 .. n
  <2>1. a + i - 1 \in 0 .. MaxSize
    BY <1>1
  <2>2. QED
    BY <2>1 DEF Unit, Data
<1>3. s \in [1 .. n -> Unit] /\ \A i \in 1 .. n : s[i] = [kind |-> "data", n |-> a + i - 1]
  BY <1>2 DEF Datas
<1> HIDE DEF n, s
<1>4. s \in Seq(Unit)
  BY <1>1, <1>3, SeqDef
<1>5. Len(s) = n
  BY <1>1, <1>3, <1>4, LenProperties
<1>6. QED
  BY <1>3, <1>4, <1>5 DEF Run, n, s

\* A stream is known by where it begins.
LEMMA RunIs ==
    ASSUME NEW s \in Seq(Unit), NEW from \in Nat
    PROVE  /\ Run(s, "info", from) => s = Infos(from, from + Len(s))
           /\ Run(s, "data", from) => s = Datas(from, from + Len(s))
<1>1. Len(s) \in Nat /\ s = [i \in 1 .. Len(s) |-> s[i]]
  BY LenProperties
<1>2. from + Len(s) - from = Len(s)
  BY <1>1
<1>3. QED
  BY <1>1, <1>2 DEF Run, Infos, Datas

-----------------------------------------------------------------------------
(* Types, and what a step leaves alone. *)

LEMMA GoodTypes == AllGood /\ Copies => TypeOK
<1> SUFFICES ASSUME AllGood, Copies PROVE TypeOK
  OBVIOUS
<1>1. FunctionTypes
  BY DEF AllGood
<1>2. ASSUME NEW c \in Clients
      PROVE  /\ Len(up[c]) <= SockBuf
             /\ rcvd[c] \in 0 .. (IF spc[c] \in {"recv", "received"} THEN info[c].size
                                 ELSE IF InfoSize < MaxSize THEN MaxSize ELSE InfoSize)
             /\ out[c] \in 0 .. rcvd[c] \/ spc[c] \in {"none", "leaked"}
  <2>1. /\ rcvd[c] \in Nat /\ out[c] \in Nat /\ info[c].size \in Nat /\ InfoSize \in Nat /\ MaxSize \in Nat
        /\ spc[c] \in ChildLabels
    BY <1>1, BoundsAssumption DEF FunctionTypes
  <2>2. Counts(c)
    BY DEF AllGood, Good
  <2>3. Len(up[c]) <= SockBuf /\ out[c] \in 0 .. rcvd[c]
    BY <2>1, <2>2 DEF Counts
  <2>4. CASE spc[c] \in {"recv", "received"}
    BY <2>1, <2>2, <2>3, <2>4 DEF Counts
  <2>5. CASE spc[c] \notin {"recv", "received"}
    <3>1. rcvd[c] <= InfoSize \/ rcvd[c] <= MaxSize
      BY <2>1, <2>2, <2>5 DEF Counts, ChildLabels
    <3>2. QED
      BY <2>1, <2>3, <2>5, <3>1
  <2>6. QED
    BY <2>4, <2>5
<1>3. QED
  BY <1>1, <1>2 DEF TypeOK, FunctionTypes, Copies

LEMMA At ==
    ASSUME FunctionTypes, NEW c \in Clients
    PROVE  /\ up[c] \in Seq(Unit) /\ todo[c] \in Seq(Unit)
           /\ Len(up[c]) \in Nat /\ Len(todo[c]) \in Nat
           /\ rcvd[c] \in Nat /\ out[c] \in Nat
           /\ pos[c] \in Nat /\ pos[c] <= MaxSize
           /\ info[c].name \in Names /\ info[c].size \in Nat /\ info[c].size <= MaxSize
           /\ file[c] \in Int
           /\ MaxSize \in Nat /\ InfoSize \in Nat \ {0} /\ ChunkSize \in Nat \ {0} /\ SockBuf \in Nat \ {0}
           /\ faults \in Nat /\ faults <= Faults /\ Faults \in Nat
           /\ edits \in Nat /\ edits <= Edits /\ Edits \in Nat
           /\ <<>> \in Seq(Unit) /\ Len(<<>>) = 0
<1>1. /\ up[c] \in Seq(Unit) /\ todo[c] \in Seq(Unit) /\ info[c] \in [name : Names, size : 0 .. MaxSize]
      /\ pos[c] \in 0 .. MaxSize /\ file[c] \in 0 .. MaxSize \cup {Absent}
  BY DEF FunctionTypes
<1>2. Len(up[c]) \in Nat /\ Len(todo[c]) \in Nat
  BY <1>1, LenProperties
<1>3. QED
  BY <1>1, <1>2, EmptySeq, BoundsAssumption DEF FunctionTypes, Absent

\* What a step does not touch stays good.
Untouched(x) ==
    /\ cpc'[x] = cpc[x] /\ info'[x] = info[x] /\ todo'[x] = todo[x] /\ pos'[x] = pos[x]
    /\ cend'[x] = cend[x] /\ up'[x] = up[x] /\ down'[x] = down[x] /\ spc'[x] = spc[x]
    /\ sock'[x] = sock[x] /\ rcvd'[x] = rcvd[x] /\ ack'[x] = ack[x] /\ out'[x] = out[x]
    /\ file'[x] = file[x]

LEMMA UntouchedGood ==
    ASSUME FunctionTypes, NEW x \in Clients, Good(x), Untouched(x), Queued(x)' => Queued(x),
           NoFaults' => NoFaults, NoEdits' => NoEdits
    PROVE  Good(x)'
<1>1. Ends(x)'
  BY DEF Good, Ends, Untouched
<1>2. Counts(x)'
  BY DEF Good, Counts, Untouched
<1>3. Stream(x)'
  BY DEF Good, Stream, Untouched, Base
<1>4. Answer(x)'
  BY DEF Good, Answer, Untouched
<1>5. Smooth(x)'
  BY DEF Good, Smooth, Untouched
<1>6. QED
  BY <1>1, <1>2, <1>3, <1>4, <1>5 DEF Good

\* One client or child moves: what is left to show is that it is good itself.
LEMMA OneStep ==
    ASSUME AllGood, FunctionTypes', NEW c \in Clients, Good(c)',
           \A x \in Clients : x # c => Untouched(x) /\ (Queued(x)' => Queued(x)),
           faults' = faults \/ (faults > 0 /\ faults' = faults - 1),
           edits' = edits \/ (edits > 0 /\ edits' = edits - 1)
    PROVE  AllGood'
<1>1. (NoFaults' => NoFaults) /\ (NoEdits' => NoEdits)
  BY At DEF AllGood, NoFaults, NoEdits
<1>2. ASSUME NEW x \in Clients PROVE Good(x)'
  BY <1>1, <1>2, UntouchedGood DEF AllGood
<1>3. QED
  BY <1>2 DEF AllGood

LEMMA QueueAppend ==
    ASSUME NEW q \in Seq(Clients), IsInjective(q), NEW c \in Clients, ~In(c, q)
    PROVE  /\ Append(q, c) \in Seq(Clients) /\ IsInjective(Append(q, c))
           /\ \A x \in Clients : In(x, Append(q, c)) <=> In(x, q) \/ x = c
<1> DEFINE a == Append(q, c)
<1>1. /\ Len(q) \in Nat /\ DOMAIN q = 1 .. Len(q)
      /\ a \in Seq(Clients) /\ Len(a) = Len(q) + 1 /\ DOMAIN a = 1 .. Len(q) + 1
      /\ \A i \in 1 .. Len(q) : a[i] = q[i]
      /\ a[Len(q) + 1] = c
  BY AppendProperties, LenProperties
<1> HIDE DEF a
<1>2. \A i \in 1 .. Len(q) + 1 : i \in 1 .. Len(q) \/ i = Len(q) + 1
  BY <1>1
<1>3. IsInjective(a)
  BY <1>1, <1>2 DEF IsInjective, In
<1>4. \A x \in Clients : In(x, a) <=> In(x, q) \/ x = c
  BY <1>1, <1>2 DEF In
<1>5. QED
  BY <1>1, <1>3, <1>4 DEF a

LEMMA QueueTail ==
    ASSUME NEW q \in Seq(Clients), IsInjective(q), q # <<>>
    PROVE  /\ Tail(q) \in Seq(Clients) /\ IsInjective(Tail(q))
           /\ Head(q) \in Clients /\ In(Head(q), q)
           /\ \A x \in Clients : In(x, Tail(q)) <=> In(x, q) /\ x # Head(q)
<1> DEFINE t == Tail(q)
<1>1. /\ Len(q) \in Nat \ {0} /\ DOMAIN q = 1 .. Len(q) /\ Head(q) = q[1]
      /\ t \in Seq(Clients) /\ Len(t) = Len(q) - 1 /\ DOMAIN t = 1 .. Len(q) - 1
      /\ \A i \in 1 .. Len(q) - 1 : t[i] = q[i + 1]
      /\ Head(q) \in Clients
  BY HeadTailProperties, LenProperties, EmptySeq
<1> HIDE DEF t
<1>2. \A i, j \in 1 .. Len(q) : q[i] = q[j] => i = j
  BY <1>1 DEF IsInjective
<1>3. \A i \in 1 .. Len(q) : i = 1 \/ (i - 1 \in 1 .. Len(q) - 1 /\ (i - 1) + 1 = i)
  BY <1>1
<1>4. \A i \in 1 .. Len(q) - 1 : i + 1 \in 1 .. Len(q) /\ i + 1 # 1
  BY <1>1
<1>5. IsInjective(t)
  <2> SUFFICES ASSUME NEW i \in 1 .. Len(q) - 1, NEW j \in 1 .. Len(q) - 1, t[i] = t[j] PROVE i = j
    BY <1>1 DEF IsInjective
  <2>1. i + 1 = j + 1
    BY <1>1, <1>2, <1>4
  <2>2. QED
    BY <2>1
<1>6. \A x \in Clients : In(x, t) <=> In(x, q) /\ x # Head(q)
  <2> SUFFICES ASSUME NEW x \in Clients PROVE In(x, t) <=> In(x, q) /\ x # Head(q)
    OBVIOUS
  <2>1. ASSUME In(x, t) PROVE In(x, q) /\ x # Head(q)
    <3> PICK i \in 1 .. Len(q) - 1 : t[i] = x
      BY <1>1, <2>1 DEF In
    <3>1. i + 1 \in 1 .. Len(q) /\ i + 1 # 1 /\ q[i + 1] = x
      BY <1>1, <1>4
    <3>2. 1 \in 1 .. Len(q)
      BY <1>1
    <3>3. x # q[1]
      BY <1>2, <3>1, <3>2
    <3>4. QED
      BY <1>1, <3>1, <3>3 DEF In
  <2>2. ASSUME In(x, q), x # Head(q) PROVE In(x, t)
    <3> PICK i \in 1 .. Len(q) : q[i] = x
      BY <2>2 DEF In
    <3>1. i - 1 \in 1 .. Len(q) - 1 /\ (i - 1) + 1 = i
      BY <1>1, <1>3, <2>2
    <3>2. t[i - 1] = x
      BY <1>1, <3>1
    <3>3. QED
      BY <1>1, <3>1, <3>2 DEF In
  <2>3. QED
    BY <2>1, <2>2
<1>7. In(Head(q), q)
  BY <1>1 DEF In
<1>8. QED
  BY <1>1, <1>5, <1>6, <1>7 DEF t

-----------------------------------------------------------------------------
(* The client. *)

LEMMA ConnectGood ==
    ASSUME AllGood, NEW c \in Clients, Connect(c)
    PROVE  AllGood'
<1>1. /\ FunctionTypes /\ Good(c) /\ cpc[c] = "connect" /\ cend[c] = "open" /\ ~Queued(c)
      /\ UNCHANGED <<file, edits, faults, info, todo, pos, up, down, parent, spc, sock, rcvd, ack, out, shared, disk>>
  BY DEF AllGood, Good, Ends, Connect, child
<1>2. /\ backlog' \in Seq(Clients) /\ IsInjective(backlog')
      /\ \A x \in Clients : Queued(x)' <=> Queued(x) \/ (parent = "accept" /\ x = c)
  <2>1. CASE parent = "accept"
    <3>1. backlog' = Append(backlog, c) /\ backlog \in Seq(Clients) /\ IsInjective(backlog) /\ ~In(c, backlog)
      BY <1>1, <2>1 DEF Connect, FunctionTypes, Queued
    <3>2. QED
      BY <2>1, <3>1, QueueAppend DEF Queued
  <2>2. CASE parent # "accept"
    BY <1>1, <2>2 DEF Connect, FunctionTypes, Queued
  <2>3. QED
    BY <2>1, <2>2
<1>3. PICK label \in ClientLabels, e \in {"open", "closed", "reset"} :
         /\ cpc' = [cpc EXCEPT ![c] = label] /\ cend' = [cend EXCEPT ![c] = e]
         /\ \/ parent = "accept" /\ label = "stat" /\ e = "open"
            \/ parent # "accept" /\ label = "failed" /\ e # "open"
  <2>1. CASE parent = "accept"
    <3>1. cpc' = [cpc EXCEPT ![c] = "stat"] /\ cend' = [cend EXCEPT ![c] = "open"]
      BY <1>1, <2>1 DEF Connect, Goto, FunctionTypes
    <3>2. QED
      BY <2>1, <3>1 DEF ClientLabels
  <2>2. CASE parent # "accept"
    <3>1. cpc' = [cpc EXCEPT ![c] = "failed"] /\ cend' = [cend EXCEPT ![c] = Closed(down[c])]
      BY <1>1, <2>2 DEF Connect, Goto, ClientReturns
    <3>2. QED
      BY <2>2, <3>1 DEF ClientLabels, Closed
  <2>3. QED
    BY <2>1, <2>2
<1>4. FunctionTypes'
  <2>1. cpc' \in [Clients -> ClientLabels]
    BY <1>1, <1>3 DEF FunctionTypes
  <2>2. cend' \in [Clients -> {"open", "closed", "reset"}]
    BY <1>1, <1>3 DEF FunctionTypes
  <2>3. QED
    BY <1>1, <1>2, <2>1, <2>2 DEF FunctionTypes
<1>5. cpc'[c] = label /\ cend'[c] = e
  BY <1>1, <1>3 DEF FunctionTypes
<1>6. Good(c)'
  <2>1. Ends(c)'
    BY <1>1, <1>2, <1>3, <1>5 DEF Good, Ends, Early
  <2>2. Counts(c)'
    BY <1>1, <1>3, <1>5 DEF Good, Counts, Sending
  <2>3. Stream(c)'
    BY <1>1, <1>3, <1>5 DEF Good, Stream, Base, Ends
  <2>4. Answer(c)'
    BY <1>1, <1>3, <1>5 DEF Good, Answer, Ends, Early
  <2>5. Smooth(c)'
    <3>1. Smooth(c) /\ spc[c] = "none" /\ sock[c] = "open" /\ (label = "stat" \/ label = "failed")
      BY <1>1, <1>3 DEF Good, Ends
    <3>2. QED
      BY <1>1, <1>5, <3>1 DEF Smooth, NoFaults, NoEdits
  <2>6. QED
    BY <2>1, <2>2, <2>3, <2>4, <2>5 DEF Good
<1>7. ASSUME NEW x \in Clients, x # c PROVE Untouched(x) /\ (Queued(x)' => Queued(x))
  BY <1>1, <1>2, <1>3, <1>7 DEF Untouched, FunctionTypes
<1>8. QED
  BY <1>1, <1>4, <1>6, <1>7, OneStep

LEMMA StatGood ==
    ASSUME AllGood, NEW c \in Clients, Stat(c)
    PROVE  AllGood'
<1> DEFINE i == IF file[c] = Absent THEN [name |-> NoName, size |-> 0] ELSE [name |-> Name[c], size |-> file[c]]
           t == Infos(0, InfoSize)
<1>1. /\ FunctionTypes /\ Good(c) /\ cpc[c] = "stat"
      /\ UNCHANGED <<file, edits, faults, pos, cend, up, down, parent, backlog, spc, sock, rcvd, ack, out, shared, disk>>
      /\ cpc' = [cpc EXCEPT ![c] = "send_info"]
      /\ todo' = [todo EXCEPT ![c] = t]
      /\ info' = [info EXCEPT ![c] = i]
  BY UnitsAre DEF AllGood, Stat, child, Goto
<1>2. /\ i \in [name : Names, size : 0 .. MaxSize]
      /\ i.name # NoName => i.size = file[c]
  <2>1. file[c] \in 0 .. MaxSize \cup {Absent} /\ MaxSize \in Nat /\ Name[c] \in Names /\ NoName \in Names
    BY <1>1, BoundsAssumption DEF FunctionTypes, Names
  <2>2. QED
    BY <2>1
<1>3. /\ t \in Seq(Unit) /\ Len(t) = InfoSize /\ Run(t, "info", 0) /\ InfoSize \in Nat \ {0}
      /\ t # <<>>
  <2>1. 0 \in Nat /\ InfoSize \in Nat \ {0} /\ InfoSize <= InfoSize /\ 0 <= InfoSize
    BY BoundsAssumption
  <2>2. t \in Seq(Unit) /\ Len(t) = InfoSize - 0 /\ Run(t, "info", 0)
    BY <2>1, InfosRun
  <2>3. QED
    BY <2>1, <2>2, EmptySeq
<1> HIDE DEF i, t
<1>4. FunctionTypes'
  <2>1. cpc' \in [Clients -> ClientLabels]
    BY <1>1 DEF FunctionTypes, ClientLabels, Sending
  <2>2. todo' \in [Clients -> Seq(Unit)]
    BY <1>1, <1>3 DEF FunctionTypes
  <2>3. info' \in [Clients -> [name : Names, size : 0 .. MaxSize]]
    BY <1>1, <1>2 DEF FunctionTypes
  <2>4. QED
    BY <1>1, <2>1, <2>2, <2>3 DEF FunctionTypes
<1>5. cpc'[c] = "send_info" /\ todo'[c] = t /\ info'[c] = i
  BY <1>1 DEF FunctionTypes
<1>6. spc[c] \in Early /\ rcvd[c] = 0 /\ up[c] = <<>> /\ Len(up[c]) = 0
  BY <1>1, At DEF Good, Ends
<1>7. Good(c)'
  <2>1. Ends(c)'
    BY <1>1, <1>5, <1>6 DEF Good, Ends, Queued, In
  <2>2. Counts(c)'
    BY <1>1, <1>3, <1>5, <1>6 DEF Good, Counts, Sending, Early
  <2>3. Stream(c)'
    <3>1. Run(<<>>, "info", 0)
      BY DEF Run
    <3>2. QED
      BY <1>1, <1>3, <1>5, <1>6, <3>1 DEF Stream, Base, Early
  <2>4. Answer(c)'
    BY <1>1, <1>5 DEF Good, Answer, Early
  <2>5. Smooth(c)'
    BY <1>1, <1>2, <1>5, <1>6 DEF Good, Smooth, NoFaults, NoEdits, Early
  <2>6. QED
    BY <2>1, <2>2, <2>3, <2>4, <2>5 DEF Good
<1>8. ASSUME NEW x \in Clients, x # c PROVE Untouched(x) /\ (Queued(x)' => Queued(x))
  BY <1>1, <1>8 DEF Untouched, FunctionTypes, Queued, In
<1>9. QED
  BY <1>1, <1>4, <1>7, <1>8, OneStep

\* The first units of what is to be sent are now under way.
LEMMA RunMoved ==
    ASSUME NEW u \in Seq(Unit), NEW t \in Seq(Unit), NEW k \in 1 .. Len(t), NEW kind, NEW from \in Nat,
           Run(u, kind, from), Run(t, kind, from + Len(u))
    PROVE  /\ Run(u \o SubSeq(t, 1, k), kind, from)
           /\ Run(Rest(t, k), kind, from + Len(u \o SubSeq(t, 1, k)))
<1> DEFINE a == SubSeq(t, 1, k)
<1>1. Len(u) \in Nat /\ a \in Seq(Unit) /\ Len(a) = k /\ k \in Nat
  BY LenProperties, Split
<1>2. Run(a, kind, from + Len(u)) /\ Run(Rest(t, k), kind, from + Len(u) + k)
  BY <1>1, RunSplit
<1> HIDE DEF a
<1>3. Run(u \o a, kind, from) /\ Len(u \o a) = Len(u) + k
  BY <1>1, <1>2, RunConcat, ConcatProperties
<1> DEFINE v == u \o a
<1> HIDE DEF v
<1>4. from + Len(v) = from + Len(u) + k
  BY <1>1, <1>3 DEF v
<1>5. QED
  BY <1>2, <1>3, <1>4 DEF a, v

LEMMA SumMoved ==
    ASSUME NEW b \in Nat, NEW u \in Nat, NEW t \in Nat, NEW k \in Nat, NEW total \in Nat,
           NEW v, NEW r, b + u + t = total, k <= t, v = u + k, r = t - k
    PROVE  b + v <= total /\ b + v + r = total
  OBVIOUS

LEMMA SendSomeGood ==
    ASSUME AllGood, NEW c \in Clients, SendSome(c)
    PROVE  AllGood'
<1>1. /\ FunctionTypes /\ Good(c) /\ cpc[c] \in Sending
      /\ UNCHANGED <<file, edits, faults, info, pos, cend, down, parent, backlog, spc, sock, rcvd, ack, out, shared, disk>>
  BY DEF AllGood, SendSome, child
<1>2. PICK k \in 1 .. Len(todo[c]) :
         /\ IF sock[c] = "open"
            THEN Len(up[c]) + k <= SockBuf /\ up' = [up EXCEPT ![c] = up[c] \o SubSeq(todo[c], 1, k)]
            ELSE up' = up
         /\ todo' = [todo EXCEPT ![c] = Rest(todo[c], k)]
  BY DEF SendSome
<1> DEFINE t == todo[c]
           u == up[c]
           a == SubSeq(t, 1, k)
           r == Rest(t, k)
           v == u \o a
           w == IF sock[c] = "open" THEN v ELSE u
           label == IF r = <<>> THEN AfterSend[cpc[c]] ELSE cpc[c]
<1>3. /\ t \in Seq(Unit) /\ u \in Seq(Unit) /\ Len(t) \in Nat /\ Len(u) \in Nat
      /\ a \in Seq(Unit) /\ Len(a) = k /\ r \in Seq(Unit) /\ Len(r) = Len(t) - k
      /\ k \in Nat /\ k >= 1 /\ k <= Len(t)
  <2>1. t \in Seq(Unit) /\ u \in Seq(Unit) /\ Len(t) \in Nat /\ Len(u) \in Nat
    BY <1>1, At
  <2>2. /\ a \in Seq(Unit) /\ Len(a) = k /\ r \in Seq(Unit) /\ Len(r) = Len(t) - k
        /\ k \in Nat
    BY <2>1, Split
  <2>3. k >= 1 /\ k <= Len(t)
    BY <2>1
  <2>4. QED
    BY <2>1, <2>2, <2>3
<1>4. v \in Seq(Unit) /\ Len(v) = Len(u) + k
  BY <1>3, ConcatProperties
<1>5. up' = [up EXCEPT ![c] = w] /\ todo' = [todo EXCEPT ![c] = r]
  BY <1>1, <1>2 DEF FunctionTypes
<1>6. up'[c] = w /\ todo'[c] = r
  BY <1>1, <1>5 DEF FunctionTypes
<1>7. cpc' = [cpc EXCEPT ![c] = label]
  <2>1. cpc' = [cpc EXCEPT ![c] = IF todo'[c] = <<>> THEN AfterSend[cpc[c]] ELSE cpc[c]]
    BY DEF SendSome, Goto
  <2>2. QED
    BY <1>6, <2>1
<1>8. /\ cpc'[c] = label /\ label \in ClientLabels
      /\ r # <<>> => label = cpc[c]
      /\ r = <<>> => /\ Len(r) = 0
                     /\ \/ cpc[c] = "send_info" /\ label = "reply"
                        \/ cpc[c] = "send" /\ label = "read"
      /\ cpc[c] = "send_info" \/ cpc[c] = "send"
  <2>1. label \in ClientLabels
    BY <1>1 DEF AfterSend, Sending, ClientLabels
  <2>2. cpc[c] = "send_info" \/ cpc[c] = "send"
    BY <1>1 DEF Sending
  <2>3. r = <<>> => /\ Len(r) = 0
                     /\ \/ cpc[c] = "send_info" /\ label = "reply"
                        \/ cpc[c] = "send" /\ label = "read"
    <3>1. AfterSend["send_info"] = "reply" /\ AfterSend["send"] = "read"
      BY DEF AfterSend
    <3>2. Len(<<>>) = 0
      BY EmptySeq
    <3>3. r = <<>> => Len(r) = 0
      BY <3>2
    <3>4. r = <<>> => label = AfterSend[cpc[c]]
      OBVIOUS
    <3>5. QED
      BY <2>2, <3>1, <3>3, <3>4
  <2>4. QED
    BY <1>1, <1>7, <2>1, <2>2, <2>3 DEF FunctionTypes
<1>9. w \in Seq(Unit) /\ (sock[c] = "open" => w = v /\ Len(v) <= SockBuf) /\ (sock[c] # "open" => w = u)
  BY <1>2, <1>3, <1>4
<1>10. /\ \A kind : Run(u, kind, rcvd[c]) /\ Run(t, kind, rcvd[c] + Len(u)) =>
                       Run(v, kind, rcvd[c]) /\ Run(r, kind, rcvd[c] + Len(v))
       /\ \A kind : Run(u, kind, Base(c)) /\ Run(t, kind, Base(c) + Len(u)) =>
                       Run(v, kind, Base(c)) /\ Run(r, kind, Base(c) + Len(v))
  <2>1. rcvd[c] \in Nat /\ Base(c) \in Nat
    BY <1>1, At DEF Base
  <2>2. QED
    BY <1>3, <2>1, RunMoved
<1> HIDE DEF t, u, a, r, v, w, label
<1>11. FunctionTypes'
  <2>1. cpc' \in [Clients -> ClientLabels]
    BY <1>1, <1>7, <1>8 DEF FunctionTypes
  <2>2. todo' \in [Clients -> Seq(Unit)]
    BY <1>1, <1>3, <1>5 DEF FunctionTypes
  <2>3. up' \in [Clients -> Seq(Unit)]
    BY <1>1, <1>5, <1>9 DEF FunctionTypes
  <2>4. QED
    BY <1>1, <2>1, <2>2, <2>3 DEF FunctionTypes
<1>12. u = up[c] /\ t = todo[c]
  BY DEF u, t
<1>13. \A b \in Nat, total \in Nat : b + Len(u) + Len(t) = total =>
          b + Len(v) <= total /\ b + Len(v) + Len(r) = total
  <2>1. Len(u) \in Nat /\ Len(t) \in Nat /\ k \in Nat /\ k <= Len(t) /\ Len(v) = Len(u) + k /\ Len(r) = Len(t) - k
    BY <1>3, <1>4
  <2>2. QED
    BY <2>1, SumMoved
<1>14. Good(c)'
  <2>1. Ends(c)'
    BY <1>1, <1>6, <1>8 DEF Good, Ends, Queued, In, Early
  <2>2. Counts(c)'
    <3>1. Len(up'[c]) <= SockBuf
      BY <1>1, <1>6, <1>9, <1>12 DEF Good, Counts
    <3>2. QED
      BY <1>1, <1>6, <1>8, <3>1 DEF Good, Counts, Sending
  <2>3. Stream(c)'
    <3>1. CASE sock[c] # "open"
      BY <1>1, <3>1 DEF Stream
    <3>2. CASE sock[c] = "open" /\ cpc[c] = "send_info"
      <4>1. /\ spc[c] \in Early /\ Run(u, "info", rcvd[c]) /\ Run(t, "info", rcvd[c] + Len(u))
            /\ rcvd[c] + Len(u) + Len(t) = InfoSize
        BY <1>1, <1>12, <3>2 DEF Good, Stream, Ends
      <4>2. /\ Run(v, "info", rcvd[c]) /\ Run(r, "info", rcvd[c] + Len(v))
            /\ rcvd[c] + Len(v) <= InfoSize /\ rcvd[c] + Len(v) + Len(r) = InfoSize
            /\ rcvd[c] \in Nat /\ up'[c] = v /\ todo'[c] = r
        <5>1. rcvd[c] \in Nat /\ InfoSize \in Nat
          BY <1>1, At
        <5>2. Run(v, "info", rcvd[c]) /\ Run(r, "info", rcvd[c] + Len(v))
          BY <1>10, <4>1
        <5>3. rcvd[c] + Len(v) <= InfoSize /\ rcvd[c] + Len(v) + Len(r) = InfoSize
          BY <1>13, <4>1, <5>1
        <5>4. QED
          BY <1>6, <1>9, <3>2, <5>1, <5>2, <5>3
      <4>3. cpc'[c] \in {"send_info", "reply"}
        BY <1>8, <3>2
      <4>4. QED
        BY <1>1, <3>2, <4>1, <4>2, <4>3 DEF Stream, Early
    <3>3. CASE sock[c] = "open" /\ cpc[c] = "send"
      <4>1. /\ spc[c] \in {"create", "recv"} /\ Run(u, "data", Base(c)) /\ Run(t, "data", Base(c) + Len(u))
            /\ Base(c) + Len(u) + Len(t) = pos[c]
        BY <1>1, <1>12, <3>3 DEF Good, Stream
      <4>2. /\ Run(v, "data", Base(c)) /\ Run(r, "data", Base(c) + Len(v))
            /\ Base(c) + Len(v) <= pos[c] /\ Base(c) + Len(v) + Len(r) = pos[c]
            /\ up'[c] = v /\ todo'[c] = r
        <5>1. Base(c) \in Nat
          BY <1>1, At DEF Base
        <5>2. Run(v, "data", Base(c)) /\ Run(r, "data", Base(c) + Len(v))
          BY <1>10, <4>1
        <5>3. pos[c] \in Nat
          BY <1>1, At
        <5>4. Base(c) + Len(v) <= pos[c] /\ Base(c) + Len(v) + Len(r) = pos[c]
          BY <1>13, <4>1, <5>1, <5>3
        <5>5. QED
          BY <1>6, <1>9, <3>3, <5>2, <5>4
      <4>3. cpc'[c] = "send" \/ (cpc'[c] = "read" /\ Base(c) + Len(v) = pos[c])
        <5>1. Base(c) + Len(v) \in Nat
          <6>1. Base(c) \in Nat
            BY <1>1, At DEF Base
          <6>2. QED
            BY <1>3, <1>4, <6>1
        <5>2. QED
          BY <1>8, <3>3, <4>2, <5>1
      <4>4. Base(c)' = Base(c)
        BY <1>1 DEF Base
      <4>5. QED
        BY <1>1, <3>3, <4>1, <4>2, <4>3, <4>4 DEF Stream, Early
    <3>4. QED
      BY <1>8, <3>1, <3>2, <3>3
  <2>4. Answer(c)'
    BY <1>1, <1>6, <1>8 DEF Good, Answer, Early
  <2>5. Smooth(c)'
    BY <1>1, <1>6, <1>8 DEF Good, Smooth, NoFaults, NoEdits
  <2>6. QED
    BY <2>1, <2>2, <2>3, <2>4, <2>5 DEF Good
<1>15. ASSUME NEW x \in Clients, x # c PROVE Untouched(x) /\ (Queued(x)' => Queued(x))
  BY <1>1, <1>5, <1>7, <1>15 DEF Untouched, FunctionTypes, Queued, In
<1>16. QED
  BY <1>1, <1>11, <1>14, <1>15, OneStep

\* The client goes on, or returns: nothing but that changes.
LEMMA ClientMoves ==
    ASSUME AllGood, NEW c \in Clients, NEW label \in ClientLabels, NEW e \in {"open", "closed", "reset"},
           cpc' = [cpc EXCEPT ![c] = label], cend' = [cend EXCEPT ![c] = e],
           UNCHANGED <<file, edits, info, todo, pos, up, down, parent, backlog, child, disk>>,
           faults' = faults \/ (faults > 0 /\ faults' = faults - 1),
           Good(c)'
    PROVE  AllGood'
<1>1. FunctionTypes
  BY DEF AllGood
<1>2. FunctionTypes'
  <2>1. cpc' \in [Clients -> ClientLabels]
    BY <1>1 DEF FunctionTypes
  <2>2. cend' \in [Clients -> {"open", "closed", "reset"}]
    BY <1>1 DEF FunctionTypes
  <2>3. faults' \in 0 .. Faults
    <3>1. faults \in 0 .. Faults /\ Faults \in Nat
      BY <1>1, BoundsAssumption DEF FunctionTypes
    <3>2. QED
      BY <3>1
  <2>4. QED
    BY <1>1, <2>1, <2>2, <2>3 DEF FunctionTypes, child
<1>3. ASSUME NEW x \in Clients, x # c PROVE Untouched(x) /\ (Queued(x)' => Queued(x))
  BY <1>1, <1>3 DEF Untouched, FunctionTypes, Queued, In, child
<1>4. QED
  BY <1>2, <1>3, OneStep

\* main returns with an error, whatever has failed.
LEMMA ClientFailsGood ==
    ASSUME AllGood, NEW c \in Clients, ClientReturns(c, "failed"),
           cpc[c] \notin {"connect", "sent", "failed"},
           UNCHANGED <<file, edits, info, todo, pos, up, down, parent, backlog, child, disk>>,
           faults' = faults \/ (faults > 0 /\ faults' = faults - 1)
    PROVE  AllGood'
<1> DEFINE e == Closed(down[c])
<1>1. /\ FunctionTypes /\ Good(c) /\ e \in {"closed", "reset"}
      /\ UNCHANGED <<spc, sock, rcvd, ack, out, shared>>
      /\ cpc' = [cpc EXCEPT ![c] = "failed"] /\ cend' = [cend EXCEPT ![c] = e]
  BY DEF AllGood, ClientReturns, Goto, Closed, child
<1> HIDE DEF e
<1>2. cpc'[c] = "failed" /\ cend'[c] = e /\ cend'[c] # "open" /\ "failed" \in ClientLabels
  BY <1>1 DEF FunctionTypes, ClientLabels
<1>3. (NoFaults' => NoFaults) /\ (NoEdits' => NoEdits)
  BY <1>1, At DEF NoFaults, NoEdits
<1>4. Good(c)'
  <2>1. Ends(c)'
    BY <1>1, <1>2 DEF Good, Ends, Queued, In
  <2>2. Counts(c)'
    BY <1>1, <1>2 DEF Good, Counts, Sending
  <2>3. Stream(c)'
    BY <1>1, <1>2 DEF Good, Stream, Base
  <2>4. Answer(c)'
    BY <1>1, <1>2 DEF Good, Answer
  <2>5. Smooth(c)'
    BY <1>1, <1>2, <1>3 DEF Good, Smooth
  <2>6. QED
    BY <2>1, <2>2, <2>3, <2>4, <2>5 DEF Good
<1>5. QED
  BY <1>1, <1>2, <1>4, ClientMoves

LEMMA SendFailsGood ==
    ASSUME AllGood, NEW c \in Clients, SendFails(c)
    PROVE  AllGood'
<1>1. /\ FunctionTypes /\ Good(c) /\ (cpc[c] = "send_info" \/ cpc[c] = "send") /\ sock[c] # "open"
      /\ UNCHANGED <<file, edits, faults, info, todo, pos, up, down, parent, backlog, child, disk>>
      /\ UNCHANGED <<spc, sock, rcvd, ack, out, shared>>
  BY DEF AllGood, SendFails, Sending, child
<1>2. CASE ClientReturns(c, "failed")
  BY <1>1, <1>2, ClientFailsGood
<1>3. CASE cpc[c] = "send_info" /\ Goto(c, "reply") /\ UNCHANGED cend
  <2>1. /\ cpc' = [cpc EXCEPT ![c] = "reply"] /\ cend' = [cend EXCEPT ![c] = cend[c]]
        /\ cpc'[c] = "reply" /\ "reply" \in ClientLabels /\ cend' = cend
        /\ cend[c] \in {"open", "closed", "reset"}
    BY <1>1, <1>3 DEF Goto, FunctionTypes, ClientLabels
  <2>2. Good(c)'
    <3>1. Ends(c)'
      BY <1>1, <1>3, <2>1 DEF Good, Ends, Queued, In, Early
    <3>2. Counts(c)'
      BY <1>1, <1>3, <2>1 DEF Good, Counts, Sending
    <3>3. Stream(c)'
      BY <1>1, <2>1 DEF Stream
    <3>4. Answer(c)'
      BY <1>1, <2>1 DEF Good, Answer
    <3>5. Smooth(c)'
      BY <1>1, <1>3, <2>1 DEF Good, Smooth, NoFaults, NoEdits
    <3>6. QED
      BY <3>1, <3>2, <3>3, <3>4, <3>5 DEF Good
  <2>3. QED
    BY <1>1, <2>1, <2>2, ClientMoves
<1>4. QED
  BY <1>2, <1>3 DEF SendFails

LEMMA NoReplyGood ==
    ASSUME AllGood, NEW c \in Clients, NoReply(c)
    PROVE  AllGood'
<1>1. /\ FunctionTypes /\ Good(c) /\ cpc[c] = "reply"
      /\ UNCHANGED <<file, edits, faults, info, todo, pos, up, down, parent, backlog, child, disk>>
      /\ UNCHANGED <<spc, sock, rcvd, ack, out, shared>>
  BY DEF AllGood, NoReply, child
<1>2. CASE ClientReturns(c, "failed")
  BY <1>1, <1>2, ClientFailsGood
<1>3. CASE sock[c] = "reset" /\ Goto(c, "open") /\ UNCHANGED cend
  <2>1. /\ cpc' = [cpc EXCEPT ![c] = "open"] /\ cend' = [cend EXCEPT ![c] = cend[c]]
        /\ cpc'[c] = "open" /\ "open" \in ClientLabels /\ cend' = cend
        /\ cend[c] \in {"open", "closed", "reset"}
    BY <1>1, <1>3 DEF Goto, FunctionTypes, ClientLabels
  <2>2. Good(c)'
    <3>1. Ends(c)'
      BY <1>1, <1>3, <2>1 DEF Good, Ends, Queued, In, Early
    <3>2. Counts(c)'
      BY <1>1, <1>3, <2>1 DEF Good, Counts, Sending
    <3>3. Stream(c)'
      BY <1>1, <1>3, <2>1 DEF Stream
    <3>4. Answer(c)'
      BY <1>1, <2>1 DEF Good, Answer
    <3>5. Smooth(c)'
      BY <1>1, <1>3, <2>1 DEF Good, Smooth, NoFaults, NoEdits
    <3>6. QED
      BY <3>1, <3>2, <3>3, <3>4, <3>5 DEF Good
  <2>3. QED
    BY <1>1, <2>1, <2>2, ClientMoves
<1>4. QED
  BY <1>2, <1>3 DEF NoReply

LEMMA OpenGood ==
    ASSUME AllGood, NEW c \in Clients, Open(c)
    PROVE  AllGood'
<1>1. /\ FunctionTypes /\ Good(c) /\ cpc[c] = "open"
      /\ UNCHANGED <<file, edits, faults, info, todo, pos, up, down, parent, backlog, child, disk>>
      /\ UNCHANGED <<spc, sock, rcvd, ack, out, shared>>
  BY DEF AllGood, Open, child
<1>2. CASE info[c].name = NoName \/ file[c] = Absent
  <2>1. ClientReturns(c, "failed")
    BY <1>2 DEF Open
  <2>2. QED
    BY <1>1, <2>1, ClientFailsGood
<1>3. CASE info[c].name # NoName /\ file[c] # Absent
  <2>1. /\ cpc' = [cpc EXCEPT ![c] = "read"] /\ cend' = [cend EXCEPT ![c] = cend[c]]
        /\ cpc'[c] = "read" /\ "read" \in ClientLabels /\ cend' = cend
        /\ cend[c] \in {"open", "closed", "reset"}
    BY <1>1, <1>3 DEF Open, Goto, FunctionTypes, ClientLabels
  <2>2. Good(c)'
    <3>1. Ends(c)'
      BY <1>1, <1>3, <2>1 DEF Good, Ends, Queued, In, Early
    <3>2. Counts(c)'
      BY <1>1, <1>3, <2>1 DEF Good, Counts, Sending
    <3>3. Stream(c)'
      BY <1>1, <1>3, <2>1 DEF Good, Stream, Base, Early
    <3>4. Answer(c)'
      BY <1>1, <2>1 DEF Good, Answer
    <3>5. Smooth(c)'
      BY <1>1, <1>3, <2>1 DEF Good, Smooth, NoFaults, NoEdits
    <3>6. QED
      BY <3>1, <3>2, <3>3, <3>4, <3>5 DEF Good
  <2>3. QED
    BY <1>1, <2>1, <2>2, ClientMoves
<1>4. QED
  BY <1>2, <1>3

LEMMA ReadFailsGood ==
    ASSUME AllGood, NEW c \in Clients, ReadFails(c)
    PROVE  AllGood'
  BY ClientFailsGood DEF ReadFails

\* Parts of the answer.
Parts == {<<>>, <<"O">>, <<"K">>, OK}

LEMMA AnswerSplit ==
    ASSUME NEW d \in Parts, NEW k \in 1 .. Len(d)
    PROVE  /\ d # <<>> /\ SubSeq(d, 1, k) \in Parts /\ SubSeq(d, 1, k) # <<>> /\ Rest(d, k) \in Parts
           /\ k = Len(d) => SubSeq(d, 1, k) = d /\ Rest(d, k) = <<>>
           /\ k # Len(d) => d = OK /\ SubSeq(d, 1, k) = <<"O">> /\ Rest(d, k) = <<"K">>
<1> DEFINE T == {"O", "K"}
           a == SubSeq(d, 1, k)
           r == SubSeq(d, k + 1, Len(d))
<1>1. /\ d \in Seq(T) /\ Len(d) \in {0, 1, 2}
      /\ Len(d) = 2 => d = OK
      /\ <<"O">> \in Seq(T) /\ <<"K">> \in Seq(T) /\ <<>> \in Seq(T) /\ OK \in Seq(T)
      /\ Len(<<>>) = 0 /\ Len(<<"O">>) = 1 /\ Len(<<"K">>) = 1 /\ Len(OK) = 2
      /\ OK[1] = "O" /\ OK[2] = "K" /\ <<"O">>[1] = "O" /\ <<"K">>[1] = "K"
  <2>1. /\ <<"O">> \in Seq(T) /\ <<"K">> \in Seq(T) /\ <<>> \in Seq(T) /\ <<"O", "K">> \in Seq(T)
        /\ Len(<<"O">>) = 1 /\ Len(<<"K">>) = 1 /\ Len(<<"O", "K">>) = 2
    OBVIOUS
  <2>2. /\ <<"O", "K">>[1] = "O" /\ <<"O", "K">>[2] = "K" /\ <<"O">>[1] = "O" /\ <<"K">>[1] = "K"
    OBVIOUS
  <2>3. Len(<<>>) = 0
    BY EmptySeq
  <2>4. d = <<>> \/ d = <<"O">> \/ d = <<"K">> \/ d = <<"O", "K">>
    BY DEF Parts, OK
  <2>5. d \in Seq(T) /\ (Len(d) = 0 \/ Len(d) = 1 \/ Len(d) = 2)
    BY <2>1, <2>3, <2>4
  <2>6. Len(d) = 2 => d = <<"O", "K">>
    BY <2>1, <2>3, <2>4
  <2>7. QED
    BY <2>1, <2>2, <2>3, <2>5, <2>6 DEF OK
<1>2. Len(d) \in Nat /\ k \in 1 .. Len(d) /\ k \in Nat /\ d # <<>>
  <2>1. Len(d) \in Nat /\ k \in 1 .. Len(d)
    BY LenProperties, <1>1
  <2>2. d # <<>>
    BY <1>1, <2>1
  <2>3. QED
    BY <2>1, <2>2
<1>3. \A i \in 1 .. Len(d) : d[i] \in T
  BY <1>1, ElementOfSeq
<1> HIDE DEF T
<1>4. a \in Seq(T) /\ Len(a) = k /\ \A i \in 1 .. k : a[i] = d[i]
  BY <1>2, <1>3, SubSeqProperties
<1>5. r \in Seq(T) /\ Len(r) = Len(d) - k /\ \A i \in 1 .. Len(d) - k : r[i] = d[k + i]
  BY <1>2, <1>3, SubSeqProperties
<1> HIDE DEF a, r
<1>6. CASE k = Len(d)
  <2>1. r = <<>>
    BY <1>1, <1>2, <1>5, <1>6, EmptySeq
  <2>2. a = d
    BY <1>1, <1>2, <1>4, <1>6, SeqEqual
  <2>3. QED
    BY <1>2, <1>6, <2>1, <2>2 DEF a, r, Rest, Parts
<1>7. CASE k # Len(d)
  <2>1. d = OK /\ k = 1 /\ Len(d) = 2
    <3>1. Len(d) = 2 /\ k = 1
      <4>1. Len(d) = 0 \/ Len(d) = 1 \/ Len(d) = 2
        BY <1>1
      <4>2. ASSUME NEW n \in Nat, k \in 1 .. n, k # n, n = 0 \/ n = 1 \/ n = 2
            PROVE  n = 2 /\ k = 1
        BY <4>2
      <4>3. QED
        BY <1>2, <1>7, <4>1, <4>2
    <3>2. QED
      BY <1>1, <3>1
  <2>2. a = <<"O">>
    <3>1. Len(a) = 1 /\ a[1] = "O"
      BY <1>1, <1>4, <2>1
    <3>2. Len(a) = Len(<<"O">>) /\ \A i \in 1 .. Len(a) : a[i] = <<"O">>[i]
      BY <1>1, <3>1
    <3>3. QED
      BY <1>1, <1>4, <3>2, SeqEqual
  <2>3. r = <<"K">>
    <3>1. Len(r) = 1 /\ r[1] = "K"
      BY <1>1, <1>5, <2>1
    <3>2. Len(r) = Len(<<"K">>) /\ \A i \in 1 .. Len(r) : r[i] = <<"K">>[i]
      BY <1>1, <3>1
    <3>3. QED
      BY <1>1, <1>5, <3>2, SeqEqual
  <2>4. QED
    BY <1>1, <1>2, <1>7, <2>1, <2>2, <2>3 DEF a, r, Rest, Parts
<1>8. QED
  BY <1>6, <1>7

LEMMA ReplyGood ==
    ASSUME AllGood, NEW c \in Clients, Reply(c)
    PROVE  AllGood'
<1> DEFINE d == down[c]
<1>1. /\ FunctionTypes /\ Good(c) /\ cpc[c] = "reply" /\ cend[c] = "open"
      /\ UNCHANGED <<file, edits, faults, info, todo, pos, up, parent, backlog, spc, sock, rcvd, ack, out, shared, disk>>
      /\ d \in Parts
  BY DEF AllGood, Good, Ends, Reply, child, FunctionTypes, Parts
<1>2. PICK k \in Receivable(d, Len(OK)) :
         /\ down' = [down EXCEPT ![c] = Rest(d, k)]
         /\ IF SubSeq(d, 1, k) = OK
            THEN Goto(c, "open") /\ UNCHANGED cend
            ELSE Goto(c, "failed") /\ cend' = [cend EXCEPT ![c] = Closed(down'[c])]
  BY DEF Reply
<1>3. k \in 1 .. Len(d)
  <2>1. Len(d) \in Nat /\ Len(OK) \in Nat
    <3>1. d = <<>> \/ d = <<"O">> \/ d = <<"K">> \/ d = <<"O", "K">>
      BY <1>1 DEF Parts, OK
    <3>2. Len(<<>>) = 0
      BY EmptySeq
    <3>3. Len(d) \in Nat
      BY <3>1, <3>2
    <3>4. QED
      BY <3>3 DEF OK
  <2>2. QED
    BY <2>1 DEF Receivable
<1> DEFINE r == Rest(d, k)
           e == IF SubSeq(d, 1, k) = OK THEN "open" ELSE Closed(r)
           label == IF SubSeq(d, 1, k) = OK THEN "open" ELSE "failed"
<1>4. /\ r \in Parts /\ d # <<>>
      /\ SubSeq(d, 1, k) = OK => d = OK /\ r = <<>>
      /\ d = <<"O">> => r = <<>>
  <2>1. /\ d # <<>> /\ r \in Parts
        /\ k = Len(d) => SubSeq(d, 1, k) = d /\ r = <<>>
        /\ k # Len(d) => d = OK /\ SubSeq(d, 1, k) = <<"O">>
    BY <1>1, <1>3, AnswerSplit
  <2>2. <<"O">> # OK
    BY DEF OK
  <2>3. QED
    BY <2>1, <2>2
<1>5. down' = [down EXCEPT ![c] = r] /\ down'[c] = r
  BY <1>1, <1>2 DEF FunctionTypes
<1>6. /\ cpc' = [cpc EXCEPT ![c] = label] /\ cend' = [cend EXCEPT ![c] = e]
      /\ cpc'[c] = label /\ cend'[c] = e
      /\ e \in {"open", "closed", "reset"}
      /\ \/ label = "open" /\ e = "open" /\ d = OK /\ r = <<>>
         \/ label = "failed" /\ e # "open"
  <2>1. CASE SubSeq(d, 1, k) = OK
    BY <1>1, <1>2, <1>4, <2>1 DEF Goto, FunctionTypes
  <2>2. CASE SubSeq(d, 1, k) # OK
    BY <1>1, <1>2, <1>5, <2>2 DEF Goto, FunctionTypes, Closed
  <2>3. QED
    BY <2>1, <2>2
<1>7. d = down[c]
  OBVIOUS
<1> HIDE DEF d, r, e, label
<1>8. FunctionTypes'
  <2>1. cpc' \in [Clients -> ClientLabels]
    BY <1>1, <1>6 DEF FunctionTypes, ClientLabels
  <2>2. cend' \in [Clients -> {"open", "closed", "reset"}]
    BY <1>1, <1>6 DEF FunctionTypes
  <2>3. down' \in [Clients -> {<<>>, <<"O">>, <<"K">>, OK}]
    BY <1>1, <1>4, <1>5 DEF FunctionTypes, Parts
  <2>4. QED
    BY <1>1, <2>1, <2>2, <2>3 DEF FunctionTypes
<1>9. Good(c)'
  <2>1. Ends(c)'
    BY <1>1, <1>6 DEF Good, Ends, Queued, In
  <2>2. Counts(c)'
    BY <1>1, <1>6 DEF Good, Counts, Sending
  <2>3. Stream(c)'
    <3>1. CASE label = "failed" \/ sock[c] # "open"
      BY <1>1, <1>6, <3>1 DEF Good, Stream, Base
    <3>2. CASE label = "open" /\ sock[c] = "open"
      <4>1. ack[c] = <<>> /\ spc[c] \in {"create", "recv"} /\ pos[c] = 0
        <5>1. OK # <<>> /\ OK # <<"O">> /\ <<"K">> # OK /\ <<"K">> # <<>>
          BY DEF OK
        <5>2. d = OK /\ ack[c] \in {<<>>, <<"K">>, OK} /\ spc[c] \in ChildLabels
          BY <1>1, <1>6, <3>2 DEF FunctionTypes
        <5>3. ack[c] = <<>>
          BY <1>1, <1>7, <5>1, <5>2 DEF Good, Answer
        <5>4. QED
          BY <1>1, <3>2, <5>1, <5>2, <5>3 DEF Good, Answer, Ends, Counts, Early, ChildLabels
      <4>2. Base(c) + Len(up[c]) = pos[c]
        <5>1. Base(c) + Len(up[c]) <= 0 /\ Base(c) \in Nat /\ Len(up[c]) \in Nat
          BY <1>1, <3>2, <4>1, At DEF Good, Stream, Base
        <5>2. QED
          BY <4>1, <5>1
      <4>3. QED
        BY <1>1, <1>6, <3>2, <4>1, <4>2 DEF Good, Stream, Base, Early
    <3>3. QED
      BY <1>6, <3>1, <3>2
  <2>4. Answer(c)'
    <3>1. OK # <<>> /\ OK # <<"O">> /\ <<"O">> # <<>>
      BY DEF OK
    <3>2. Answer(c) /\ d = down[c] /\ ack' = ack /\ spc' = spc /\ ack[c] # OK
      BY <1>1, <1>4, <1>7 DEF Good, Answer
    <3>3. CASE ack[c] = <<"K">>
      <4>1. d = <<"O">> /\ r = <<>> /\ cend'[c] # "open"
        BY <1>4, <1>6, <3>1, <3>2, <3>3 DEF Answer
      <4>2. QED
        BY <1>5, <1>6, <3>2, <3>3, <4>1 DEF Answer
    <3>4. CASE ack[c] # <<"K">>
      BY <3>2, <3>4 DEF Answer
    <3>5. QED
      BY <3>3, <3>4
  <2>5. Smooth(c)'
    BY <1>1, <1>5, <1>6 DEF Good, Smooth, NoFaults, NoEdits
  <2>6. QED
    BY <2>1, <2>2, <2>3, <2>4, <2>5 DEF Good
<1>10. ASSUME NEW x \in Clients, x # c PROVE Untouched(x) /\ (Queued(x)' => Queued(x))
  BY <1>1, <1>5, <1>6, <1>10 DEF Untouched, FunctionTypes, Queued, In
<1>11. QED
  BY <1>1, <1>8, <1>9, <1>10, OneStep

LEMMA ReadGood ==
    ASSUME AllGood, NEW c \in Clients, Read(c)
    PROVE  AllGood'
<1> DEFINE end == IF pos[c] + ChunkSize < file[c] THEN pos[c] + ChunkSize ELSE file[c]
           t == Datas(pos[c], end)
<1>1. /\ FunctionTypes /\ Good(c) /\ cpc[c] = "read" /\ cend[c] = "open"
      /\ UNCHANGED <<file, edits, faults, info, up, down, parent, backlog, spc, sock, held, rcvd, ack, out, shared, disk>>
      /\ file[c] \in 0 .. MaxSize
  BY DEF AllGood, Good, Ends, Read, child, FunctionTypes
<1>2. /\ pos[c] \in Nat /\ ChunkSize \in Nat \ {0} /\ MaxSize \in Nat /\ file[c] \in Nat
      /\ end \in 0 .. MaxSize /\ (pos[c] < file[c] => pos[c] < end) /\ end \in Nat /\ end <= MaxSize
  <2>1. pos[c] \in Nat /\ ChunkSize \in Nat \ {0} /\ MaxSize \in Nat
    BY <1>1, At
  <2>2. QED
    BY <1>1, <2>1
<1>3. CASE pos[c] < file[c]
  <2>1. /\ todo' = [todo EXCEPT ![c] = t] /\ pos' = [pos EXCEPT ![c] = end]
        /\ cpc' = [cpc EXCEPT ![c] = "send"] /\ cend' = cend
    BY <1>3, UnitsAre DEF Read, Goto
  <2>2. t \in Seq(Unit) /\ Len(t) = end - pos[c] /\ Run(t, "data", pos[c]) /\ t # <<>>
    <3>1. pos[c] <= end
      BY <1>2, <1>3
    <3>2. t \in Seq(Unit) /\ Len(t) = end - pos[c] /\ Run(t, "data", pos[c])
      BY <1>2, <3>1, DatasRun
    <3>3. Len(t) # 0
      BY <1>2, <1>3, <3>2
    <3>4. QED
      BY <3>2, <3>3, EmptySeq
  <2> HIDE DEF t, end
  <2>3. FunctionTypes'
    <3>1. cpc' \in [Clients -> ClientLabels]
      BY <1>1, <2>1 DEF FunctionTypes, ClientLabels, Sending
    <3>2. todo' \in [Clients -> Seq(Unit)]
      BY <1>1, <2>1, <2>2 DEF FunctionTypes
    <3>3. pos' \in [Clients -> 0 .. MaxSize]
      BY <1>1, <1>2, <2>1 DEF FunctionTypes
    <3>4. QED
      BY <1>1, <2>1, <3>1, <3>2, <3>3 DEF FunctionTypes
  <2>4. cpc'[c] = "send" /\ todo'[c] = t /\ pos'[c] = end
    BY <1>1, <2>1 DEF FunctionTypes
  <2>5. Good(c)'
    <3>1. Ends(c)'
      BY <1>1, <2>1, <2>4 DEF Good, Ends, Queued, In
    <3>2. Counts(c)'
      BY <1>1, <2>2, <2>4 DEF Good, Counts, Sending
    <3>3. Stream(c)'
      <4>1. CASE sock[c] # "open"
        BY <1>1, <4>1 DEF Stream
      <4>2. CASE sock[c] = "open"
        <5>1. /\ spc[c] \in {"create", "recv"} /\ Base(c) + Len(up[c]) = pos[c]
              /\ Run(up[c], "data", Base(c)) /\ spc[c] \notin Early /\ spc[c] # "ack"
          BY <1>1, <4>2 DEF Good, Stream, Early
        <5>2. Base(c) + Len(up[c]) + Len(t) = end /\ Base(c) + Len(up[c]) <= end
          <6>1. pos[c] + Len(t) = end /\ pos[c] <= end
            BY <1>2, <1>3, <2>2
          <6>2. QED
            BY <5>1, <6>1
        <5>3. Base(c)' = Base(c)
          BY <1>1 DEF Base
        <5>4. QED
          BY <1>1, <2>2, <2>4, <5>1, <5>2, <5>3 DEF Stream
      <4>3. QED
        BY <4>1, <4>2
    <3>4. Answer(c)'
      BY <1>1, <2>1, <2>4 DEF Good, Answer
    <3>5. Smooth(c)'
      BY <1>1, <2>4 DEF Good, Smooth, NoFaults, NoEdits
    <3>6. QED
      BY <3>1, <3>2, <3>3, <3>4, <3>5 DEF Good
  <2>6. ASSUME NEW x \in Clients, x # c PROVE Untouched(x) /\ (Queued(x)' => Queued(x))
    BY <1>1, <2>1, <2>6 DEF Untouched, FunctionTypes, Queued, In
  <2>7. QED
    BY <1>1, <2>3, <2>5, <2>6, OneStep
<1>4. CASE ~(pos[c] < file[c])
  <2> DEFINE e == Closed(down[c])
  <2>1. /\ cpc' = [cpc EXCEPT ![c] = "sent"] /\ cend' = [cend EXCEPT ![c] = e]
        /\ UNCHANGED <<todo, pos>>
    BY <1>4 DEF Read, ClientReturns, Goto
  <2>2. /\ e \in {"closed", "reset"} /\ (down[c] = <<>> => e = "closed")
        /\ e \in {"open", "closed", "reset"} /\ "sent" \in ClientLabels
    BY DEF Closed, ClientLabels
  <2> HIDE DEF e
  <2>3. cpc'[c] = "sent" /\ cend'[c] = e /\ cend'[c] # "open" /\ pos[c] >= file[c]
    BY <1>1, <1>2, <1>4, <2>1, <2>2 DEF FunctionTypes
  <2>4. Good(c)'
    <3>1. Ends(c)'
      BY <1>1, <2>1, <2>3 DEF Good, Ends, Queued, In
    <3>2. Counts(c)'
      BY <1>1, <2>1, <2>3 DEF Good, Counts, Sending
    <3>3. Stream(c)'
      BY <1>1, <2>1, <2>3 DEF Good, Stream, Base
    <3>4. Answer(c)'
      BY <1>1, <2>1, <2>3 DEF Good, Answer
    <3>5. Smooth(c)'
      BY <1>1, <2>1, <2>2, <2>3 DEF Good, Smooth, NoFaults, NoEdits
    <3>6. QED
      BY <3>1, <3>2, <3>3, <3>4, <3>5 DEF Good
  <2>5. UNCHANGED <<file, edits, info, todo, pos, up, down, parent, backlog, child, disk>>
    BY <1>1, <2>1 DEF child
  <2>6. QED
    BY <1>1, <2>1, <2>2, <2>4, <2>5, ClientMoves
<1>5. QED
  BY <1>3, <1>4

LEMMA ClientGood ==
    ASSUME AllGood, NEW c \in Clients, Client(c)
    PROVE  AllGood'
  BY ConnectGood, StatGood, SendSomeGood, SendFailsGood, ReplyGood, NoReplyGood, OpenGood,
     ReadGood, ReadFailsGood DEF Client

-----------------------------------------------------------------------------
(* The server. *)

\* The connection at the head of the queue gets a child or stays without.
LEMMA TakenGood ==
    ASSUME AllGood, backlog # <<>>, backlog' = Tail(backlog),
           NEW label \in {"info", "leaked"},
           spc' = [spc EXCEPT ![Head(backlog)] = label],
           UNCHANGED <<file, edits, client, up, down, parent, sock, rcvd, ack, out, shared, disk>>,
           faults' = faults \/ (faults > 0 /\ faults' = faults - 1)
    PROVE  AllGood'
<1> DEFINE h == Head(backlog)
<1>1. /\ FunctionTypes /\ backlog' \in Seq(Clients) /\ IsInjective(backlog') /\ h \in Clients
      /\ Queued(h)
      /\ \A x \in Clients : Queued(x)' <=> Queued(x) /\ x # h
      /\ UNCHANGED <<cpc, info, todo, pos, cend>>
  <2>1. FunctionTypes /\ backlog \in Seq(Clients) /\ IsInjective(backlog) /\ backlog # <<>>
    BY DEF AllGood, FunctionTypes
  <2>2. UNCHANGED <<cpc, info, todo, pos, cend>>
    BY DEF client
  <2>3. QED
    BY <2>1, <2>2, QueueTail DEF Queued
<1>2. PICK c \in Clients : c = h
  BY <1>1
<1>3. spc' = [spc EXCEPT ![c] = label]
  BY <1>2
<1>4. Queued(c) /\ \A x \in Clients : Queued(x)' <=> Queued(x) /\ x # c
  BY <1>1, <1>2
<1> HIDE DEF h
<1>5. Good(c) /\ spc[c] = "none" /\ sock[c] = "open" /\ cpc[c] # "connect" /\ spc'[c] = label
  BY <1>1, <1>3, <1>4 DEF AllGood, Good, Ends, FunctionTypes
<1>6. FunctionTypes'
  <2>1. spc' \in [Clients -> ChildLabels]
    BY <1>1, <1>3 DEF FunctionTypes, ChildLabels
  <2>2. faults' \in 0 .. Faults
    <3>1. faults \in 0 .. Faults /\ Faults \in Nat
      BY <1>1, BoundsAssumption DEF FunctionTypes
    <3>2. QED
      BY <3>1
  <2>3. QED
    BY <1>1, <2>1, <2>2 DEF FunctionTypes
<1>7. Good(c)'
  <2>1. Ends(c)'
    BY <1>1, <1>5, <1>4 DEF Good, Ends, Early
  <2>2. Counts(c)'
    BY <1>1, <1>5, BoundsAssumption DEF Good, Counts, Early
  <2>3. Stream(c)'
    BY <1>1, <1>5 DEF Good, Stream, Early
  <2>4. Answer(c)'
    BY <1>1, <1>5 DEF Good, Answer, Early
  <2>5. Smooth(c)'
    <3>1. NoFaults' => NoFaults
      BY <1>1, <1>5, At DEF NoFaults
    <3>2. QED
      BY <1>1, <1>5, <3>1 DEF Good, Smooth, NoEdits
  <2>6. QED
    BY <2>1, <2>2, <2>3, <2>4, <2>5 DEF Good
<1>8. ASSUME NEW x \in Clients, x # c PROVE Untouched(x) /\ (Queued(x)' => Queued(x))
  BY <1>1, <1>3, <1>8, <1>4 DEF Untouched, FunctionTypes
<1>9. QED
  BY <1>1, <1>6, <1>7, <1>8, OneStep

LEMMA AcceptFailsGood ==
    ASSUME AllGood, AcceptFails
    PROVE  AllGood'
<1>1. /\ FunctionTypes /\ UNCHANGED <<cpc, info, todo, pos, cend>>
      /\ UNCHANGED <<file, edits, up, down, spc, rcvd, ack, out, shared, disk>>
      /\ faults > 0 /\ faults' = faults - 1 /\ parent' = "gone" /\ backlog' = <<>>
  BY DEF AllGood, AcceptFails, Fault, client
<1>2. \A x \in Clients : x \in ToSet(backlog) <=> Queued(x)
  <2>1. DOMAIN backlog = 1 .. Len(backlog)
    BY <1>1, LenProperties DEF FunctionTypes
  <2>2. QED
    BY <2>1 DEF ToSet, Queued, In
<1>3. \A x \in Clients :
         /\ Queued(x) /\ spc[x] # "leaked" => sock'[x] = "reset"
         /\ ~Queued(x) /\ spc[x] = "leaked" => sock'[x] = Closed(up[x]) \/ sock'[x] = sock[x]
         /\ ~Queued(x) /\ spc[x] # "leaked" => sock'[x] = sock[x]
  BY <1>2 DEF AcceptFails, Leaked
<1>4. \A x \in Clients : ~Queued(x)' /\ ~NoFaults'
  <2>1. \A x \in Clients : ~In(x, <<>>)
    BY EmptySeq DEF In
  <2>2. faults \in Nat /\ faults <= Faults /\ Faults \in Nat
    BY <1>1, BoundsAssumption DEF FunctionTypes
  <2>3. QED
    BY <1>1, <2>1, <2>2 DEF Queued, NoFaults
<1>5. FunctionTypes'
  <2>1. sock' \in [Clients -> {"open", "closed", "reset"}]
    <3>1. ASSUME NEW x \in Clients PROVE sock'[x] \in {"open", "closed", "reset"}
      <4>1. sock[x] \in {"open", "closed", "reset"} /\ Closed(up[x]) \in {"open", "closed", "reset"}
        BY <1>1 DEF FunctionTypes, Closed
      <4>2. ~Queued(x) \/ spc[x] # "leaked"
        BY DEF AllGood, Good, Ends
      <4>3. QED
        BY <1>3, <4>1, <4>2
    <3>2. sock' = [x \in Clients |-> sock'[x]]
      BY DEF AcceptFails
    <3>3. QED
      BY <3>1, <3>2
  <2>2. faults' \in 0 .. Faults
    <3>1. faults \in 0 .. Faults /\ Faults \in Nat
      BY <1>1, BoundsAssumption DEF FunctionTypes
    <3>2. QED
      BY <1>1, <3>1
  <2>3. backlog' \in Seq(Clients) /\ IsInjective(backlog')
    <3>1. <<>> \in Seq(Clients) /\ DOMAIN <<>> = {}
      BY EmptySeq
    <3>2. QED
      BY <1>1, <3>1 DEF IsInjective
  <2>4. QED
    BY <1>1, <2>1, <2>2, <2>3 DEF FunctionTypes
<1>6. ASSUME NEW x \in Clients PROVE Good(x)'
  <2>1. Good(x) /\ spc[x] \in ChildLabels
    BY <1>1 DEF AllGood, FunctionTypes
  <2>2. /\ spc[x] \notin {"none", "leaked"} => sock'[x] = sock[x]
        /\ sock'[x] = "open" => sock[x] = "open"
        /\ cpc[x] = "connect" => sock'[x] = "open"
    <3>1. /\ Queued(x) /\ spc[x] # "leaked" => sock'[x] = "reset"
          /\ ~Queued(x) /\ spc[x] = "leaked" => sock'[x] = Closed(up[x]) \/ sock'[x] = sock[x]
          /\ ~Queued(x) /\ spc[x] # "leaked" => sock'[x] = sock[x]
      BY <1>3
    <3>2. (Queued(x) => spc[x] = "none" /\ cpc[x] # "connect") /\ (cpc[x] = "connect" => spc[x] = "none" /\ sock[x] = "open")
      BY <2>1 DEF Good, Ends
    <3>3. Closed(up[x]) # "open"
      BY DEF Closed
    <3>4. QED
      BY <3>1, <3>2, <3>3
  <2>3. Ends(x)'
    BY <1>1, <1>4, <2>1, <2>2 DEF Good, Ends
  <2>4. Counts(x)'
    BY <1>1, <2>1 DEF Good, Counts
  <2>5. Stream(x)'
    BY <1>1, <2>1, <2>2 DEF Good, Stream, Base
  <2>6. Answer(x)'
    BY <1>1, <2>1 DEF Good, Answer
  <2>7. Smooth(x)'
    BY <1>1, <1>4, <2>1 DEF Good, Smooth, NoEdits
  <2>8. QED
    BY <2>3, <2>4, <2>5, <2>6, <2>7 DEF Good
<1>7. QED
  BY <1>5, <1>6 DEF AllGood

LEMMA ParentGood ==
    ASSUME AllGood, Accept \/ ForkFails \/ AcceptFails
    PROVE  AllGood'
<1>1. CASE Accept
  BY <1>1, TakenGood DEF Accept
<1>2. CASE ForkFails
  BY <1>2, TakenGood DEF ForkFails, Fault
<1>3. QED
  BY <1>1, <1>2, AcceptFailsGood

LEMMA EditGood ==
    ASSUME AllGood, NEW c \in Clients, Edit(c)
    PROVE  AllGood'
<1>1. /\ FunctionTypes /\ Good(c) /\ edits > 0 /\ edits' = edits - 1
      /\ UNCHANGED <<faults, cpc, info, todo, pos, cend, up, down, parent, backlog, spc, sock, rcvd, ack, out, shared, disk>>
  BY DEF AllGood, Edit, client, child
<1>2. PICK size \in 0 .. MaxSize \cup {Absent} :
         (size = Absent => cpc[c] \notin {"read", "send"}) /\ file' = [file EXCEPT ![c] = size]
  BY DEF Edit
<1>3. file'[c] = size /\ edits \in Nat /\ edits <= Edits /\ Edits \in Nat
  BY <1>1, <1>2, BoundsAssumption DEF FunctionTypes
<1>4. FunctionTypes'
  <2>1. file' \in [Clients -> 0 .. MaxSize \cup {Absent}]
    BY <1>1, <1>2 DEF FunctionTypes
  <2>2. edits' \in 0 .. Edits
    BY <1>1, <1>3
  <2>3. QED
    BY <1>1, <2>1, <2>2 DEF FunctionTypes
<1>5. Good(c)'
  <2>1. Ends(c)'
    BY <1>1, <1>2, <1>3 DEF Good, Ends, Queued, In
  <2>2. Counts(c)'
    BY <1>1 DEF Good, Counts
  <2>3. Stream(c)'
    BY <1>1 DEF Good, Stream, Base
  <2>4. Answer(c)'
    BY <1>1 DEF Good, Answer
  <2>5. Smooth(c)'
    <3>1. ~NoEdits'
      BY <1>1, <1>3 DEF NoEdits
    <3>2. QED
      BY <1>1, <3>1 DEF Good, Smooth, NoFaults
  <2>6. QED
    BY <2>1, <2>2, <2>3, <2>4, <2>5 DEF Good
<1>6. ASSUME NEW x \in Clients, x # c PROVE Untouched(x) /\ (Queued(x)' => Queued(x))
  BY <1>1, <1>2, <1>6 DEF Untouched, FunctionTypes, Queued, In
<1>7. QED
  BY <1>1, <1>4, <1>5, <1>6, OneStep

-----------------------------------------------------------------------------
(* The child. *)

\* What recv takes of the stream and what it leaves.
LEMMA RecvSplit ==
    ASSUME NEW s \in Seq(Unit), NEW need \in Nat, NEW k \in Receivable(s, need)
    PROVE  /\ k \in 1 .. Len(s) /\ k \in Nat /\ k >= 1 /\ k <= need /\ k <= Len(s)
           /\ Rest(s, k) \in Seq(Unit) /\ Len(Rest(s, k)) \in Nat /\ Len(Rest(s, k)) = Len(s) - k
<1>1. k \in 1 .. Len(s) /\ k \in Nat /\ k >= 1 /\ k <= need /\ k <= Len(s) /\ Len(s) \in Nat
  BY LenProperties DEF Receivable
<1>2. Rest(s, k) \in Seq(Unit) /\ Len(Rest(s, k)) = Len(s) - k
  BY <1>1, Split
<1>3. QED
  BY <1>1, <1>2

\* A child moves: the rest stays as it is.
LEMMA ChildMoves ==
    ASSUME AllGood, NEW c \in Clients,
           NEW u \in Seq(Unit), NEW s \in ChildLabels, NEW e \in {"open", "closed", "reset"},
           NEW r \in Nat, NEW o \in Nat,
           up' = [up EXCEPT ![c] = u], spc' = [spc EXCEPT ![c] = s], sock' = [sock EXCEPT ![c] = e],
           rcvd' = [rcvd EXCEPT ![c] = r], out' = [out EXCEPT ![c] = o],
           UNCHANGED <<file, edits, client, down, parent, backlog, ack>>,
           disk' \in [Names -> [by : SUBSET Clients, data : Seq(Unit \cup {Hole})]],
           shared' \in [Clients -> BOOLEAN],
           faults' = faults \/ (faults > 0 /\ faults' = faults - 1),
           Good(c)'
    PROVE  AllGood'
<1>1. FunctionTypes /\ UNCHANGED <<cpc, info, todo, pos, cend>>
  BY DEF AllGood, client
<1>2. FunctionTypes'
  <2>1. up' \in [Clients -> Seq(Unit)]
    BY <1>1 DEF FunctionTypes
  <2>2. spc' \in [Clients -> ChildLabels]
    BY <1>1 DEF FunctionTypes
  <2>3. sock' \in [Clients -> {"open", "closed", "reset"}]
    BY <1>1 DEF FunctionTypes
  <2>4. rcvd' \in [Clients -> Nat] /\ out' \in [Clients -> Nat]
    BY <1>1 DEF FunctionTypes
  <2>5. faults' \in 0 .. Faults
    <3>1. faults \in 0 .. Faults /\ Faults \in Nat
      BY <1>1, BoundsAssumption DEF FunctionTypes
    <3>2. QED
      BY <3>1
  <2>6. QED
    BY <1>1, <2>1, <2>2, <2>3, <2>4, <2>5 DEF FunctionTypes
<1>3. ASSUME NEW x \in Clients, x # c PROVE Untouched(x) /\ (Queued(x)' => Queued(x))
  BY <1>1, <1>3 DEF Untouched, FunctionTypes, Queued, In
<1>4. QED
  BY <1>2, <1>3, OneStep

LEMMA RecvInfoGood ==
    ASSUME AllGood, NEW c \in Clients, RecvInfo(c)
    PROVE  AllGood'
<1> DEFINE u == up[c]
<1>1. /\ FunctionTypes /\ Good(c) /\ spc[c] = "info" /\ sock[c] = "open"
      /\ UNCHANGED <<file, edits, faults, client, down, parent, backlog, sock, ack, out, shared, disk>>
      /\ UNCHANGED <<cpc, info, todo, pos, cend>>
      /\ u \in Seq(Unit) /\ Len(u) \in Nat /\ rcvd[c] \in Nat /\ rcvd[c] < InfoSize /\ InfoSize \in Nat
  BY At DEF AllGood, Good, Ends, Counts, RecvInfo, client
<1>2. PICK k \in Receivable(u, InfoSize - rcvd[c]) :
         up' = [up EXCEPT ![c] = Rest(u, k)] /\ rcvd' = [rcvd EXCEPT ![c] = rcvd[c] + k]
  BY DEF RecvInfo, StructSize
<1> DEFINE v == Rest(u, k)
           n == rcvd[c] + k
           label == IF n = InfoSize THEN "ack" ELSE "info"
<1>3. /\ k \in 1 .. Len(u) /\ k \in Nat /\ k >= 1 /\ k <= InfoSize - rcvd[c] /\ k <= Len(u)
      /\ v \in Seq(Unit) /\ Len(v) \in Nat /\ Len(v) = Len(u) - k
  <2>1. InfoSize - rcvd[c] \in Nat
    BY <1>1
  <2>2. QED
    BY <1>1, <2>1, RecvSplit
<1>4. n \in Nat /\ n <= InfoSize /\ n >= 1 /\ (label = "info" => n < InfoSize)
  <2>1. n \in Nat /\ n <= InfoSize /\ n >= 1
    BY <1>1, <1>3
  <2>2. label = "info" => n # InfoSize
    OBVIOUS
  <2> HIDE DEF n, label
  <2>3. QED
    BY <1>1, <2>1, <2>2
<1>5. up'[c] = v /\ rcvd'[c] = n
  BY <1>1, <1>2 DEF FunctionTypes
<1>6. spc' = [spc EXCEPT ![c] = label] /\ spc'[c] = label /\ label \in ChildLabels
  <2>1. spc' = [spc EXCEPT ![c] = IF rcvd'[c] = InfoSize THEN "ack" ELSE "info"]
    BY DEF RecvInfo, AllCame, StructSize
  <2>2. spc' = [spc EXCEPT ![c] = label] /\ label \in ChildLabels
    BY <1>5, <2>1 DEF ChildLabels
  <2>3. QED
    BY <1>1, <2>2 DEF FunctionTypes
<1>7. /\ Run(u, "info", rcvd[c]) /\ rcvd[c] + Len(u) <= InfoSize
      /\ Run(v, "info", n)
      /\ u # <<>> /\ cpc[c] \notin {"connect", "stat"}
  <2>1. Run(u, "info", rcvd[c]) /\ rcvd[c] + Len(u) <= InfoSize
    BY <1>1 DEF Good, Stream, Early
  <2>2. Run(v, "info", n)
    BY <1>1, <1>3, <2>1, RunSplit
  <2>3. u # <<>>
    BY <1>3, EmptySeq
  <2>4. QED
    BY <1>1, <2>1, <2>2, <2>3 DEF Good, Ends
<1>8. n + Len(v) = rcvd[c] + Len(u)
  BY <1>1, <1>3
<1>9. label = "ack" => v = <<>> /\ cpc[c] # "send_info"
  <2>1. CASE label = "ack"
    <3>1. n = InfoSize
      BY <2>1
    <3>2. Len(v) = 0
      BY <1>1, <1>3, <1>4, <1>7, <1>8, <3>1
    <3>3. ASSUME cpc[c] = "send_info" PROVE FALSE
      <4>1. rcvd[c] + Len(u) + Len(todo[c]) = InfoSize /\ todo[c] # <<>>
        BY <1>1, <3>3 DEF Good, Stream, Counts, Early, Sending
      <4>2. todo[c] \in Seq(Unit) /\ Len(todo[c]) \in Nat
        BY <1>1, At
      <4>3. Len(todo[c]) # 0
        BY <4>1, <4>2, EmptySeq
      <4>4. rcvd[c] + Len(u) = InfoSize
        BY <1>8, <1>1, <3>1, <3>2
      <4>5. QED
        BY <1>1, <4>1, <4>2, <4>3, <4>4
    <3>4. v = <<>>
      BY <1>3, <3>2, EmptySeq
    <3>5. QED
      BY <3>3, <3>4
  <2>2. QED
    BY <2>1
<1>10. label = "info" \/ label = "ack"
  OBVIOUS
<1> HIDE DEF v, n, label
<1>11. Good(c)'
  <2>1. Ends(c)'
    BY <1>1, <1>6, <1>7, <1>9, <1>10 DEF Good, Ends, Queued, In, Early
  <2>2. Counts(c)'
    <3>1. Len(v) <= SockBuf
      <4>1. Len(u) <= SockBuf /\ SockBuf \in Nat
        BY <1>1, At DEF Good, Counts
      <4>2. QED
        BY <1>1, <1>3, <4>1
    <3>2. out[c] = 0 /\ (label = "ack" => n = InfoSize)
      BY <1>1 DEF Good, Counts, Early, label
    <3>3. QED
      BY <1>1, <1>4, <1>5, <1>6, <1>10, <3>1, <3>2 DEF Good, Counts, Early
  <2>3. Stream(c)'
    <3>1. CASE label = "ack"
      BY <1>1, <1>5, <1>6, <1>7, <1>9, <3>1 DEF Good, Stream, Early
    <3>2. CASE label = "info"
      <4>1. /\ n + Len(v) <= InfoSize
            /\ cpc[c] = "send_info" => /\ Run(todo[c], "info", n + Len(v))
                                       /\ n + Len(v) + Len(todo[c]) = InfoSize
            /\ cpc[c] \notin {"open", "read", "send", "sent"}
        BY <1>1, <1>7, <1>8 DEF Good, Stream, Early
      <4>2. QED
        BY <1>1, <1>5, <1>6, <1>7, <3>2, <4>1 DEF Stream, Early
    <3>3. QED
      BY <1>10, <3>1, <3>2
  <2>4. Answer(c)'
    <3>1. OK # <<>>
      BY DEF OK
    <3>2. QED
      BY <1>1, <1>6, <1>10, <3>1 DEF Good, Answer, Early
  <2>5. Smooth(c)'
    BY <1>1, <1>6, <1>10 DEF Good, Smooth, NoFaults, NoEdits
  <2>6. QED
    BY <2>1, <2>2, <2>3, <2>4, <2>5 DEF Good
<1>12. /\ up' = [up EXCEPT ![c] = v] /\ rcvd' = [rcvd EXCEPT ![c] = n]
       /\ sock' = [sock EXCEPT ![c] = sock[c]] /\ out' = [out EXCEPT ![c] = out[c]]
       /\ sock[c] \in {"open", "closed", "reset"} /\ out[c] \in Nat
       /\ disk' \in [Names -> [by : SUBSET Clients, data : Seq(Unit \cup {Hole})]]
       /\ shared' \in [Clients -> BOOLEAN]
  BY <1>1, <1>2 DEF FunctionTypes, v, n
<1>13. QED
  BY <1>1, <1>3, <1>4, <1>6, <1>11, <1>12, ChildMoves

\* What a send of the answer leaves to send, and what is then under way.
LEMMA AnswerSent ==
    ASSUME FunctionTypes, NEW c \in Clients, Answer(c), ack[c] # <<>>, NEW k \in 1 .. Len(ack[c])
    PROVE  LET a == ack[c]
               d == down[c]
               b == Rest(a, k)
               e == IF cend[c] = "open" THEN d \o SubSeq(a, 1, k) ELSE d
           IN  /\ b = <<>> \/ (b = <<"K">> /\ a = OK)
               /\ cend[c] = "open" => (b = <<>> /\ e = OK) \/ (b = <<"K">> /\ e = <<"O">>)
               /\ cend[c] # "open" => e = d
               /\ b = <<"K">> => e \in {<<>>, <<"O">>}
<1> DEFINE a == ack[c]
           d == down[c]
           b == Rest(a, k)
           e == IF cend[c] = "open" THEN d \o SubSeq(a, 1, k) ELSE d
<1>1. /\ k = Len(a) => SubSeq(a, 1, k) = a /\ b = <<>>
      /\ k # Len(a) => a = OK /\ SubSeq(a, 1, k) = <<"O">> /\ b = <<"K">>
  <2>1. a \in Parts
    BY DEF FunctionTypes, Parts
  <2>2. QED
    BY <2>1, AnswerSplit
<1>2. /\ a = OK => d = <<>>
      /\ a = <<"K">> \/ a = OK
      /\ a = <<"K">> /\ cend[c] = "open" => d = <<"O">>
      /\ <<"K">> # OK /\ <<"K">> # <<>>
  <2>1. a \in {<<>>, <<"K">>, OK}
    BY DEF FunctionTypes
  <2>2. <<"K">> # OK /\ <<"K">> # <<>>
    BY DEF OK
  <2>3. QED
    BY <2>1, <2>2 DEF Answer
<1>3. <<>> \o <<"O">> = <<"O">> /\ <<>> \o OK = OK /\ <<"O">> \o <<"K">> = OK
  <2>1. <<"O">> \in Seq({"O", "K"}) /\ <<"O", "K">> \in Seq({"O", "K"})
    OBVIOUS
  <2>2. <<"O">> \o <<"K">> = <<"O", "K">>
    <3> DEFINE q == <<"O">> \o <<"K">>
    <3>1. <<"K">> \in Seq({"O", "K"}) /\ Len(<<"O">>) = 1 /\ Len(<<"K">>) = 1 /\ Len(<<"O", "K">>) = 2
      OBVIOUS
    <3>2. /\ <<"O">>[1] = "O" /\ <<"K">>[1] = "K" /\ <<"O", "K">>[1] = "O" /\ <<"O", "K">>[2] = "K"
      OBVIOUS
    <3>3. /\ q \in Seq({"O", "K"}) /\ Len(q) = 2
          /\ \A i \in 1 .. 2 : q[i] = IF i <= 1 THEN <<"O">>[i] ELSE <<"K">>[i - 1]
      BY <2>1, <3>1, ConcatProperties
    <3> HIDE DEF q
    <3>4. q[1] = "O" /\ q[2] = "K"
      BY <3>2, <3>3
    <3>5. \A i \in 1 .. 2 : i = 1 \/ i = 2
      OBVIOUS
    <3>6. \A i \in 1 .. 2 : q[i] = <<"O", "K">>[i]
      BY <3>2, <3>4, <3>5
    <3>7. q = <<"O", "K">>
      BY <2>1, <3>1, <3>3, <3>6, SeqEqual
    <3>8. QED
      BY <3>7 DEF q
  <2>3. QED
    BY <2>1, <2>2, ConcatEmptySeq DEF OK
<1>4. CASE k = Len(a)
  <2>1. SubSeq(a, 1, k) = a /\ b = <<>>
    BY <1>1, <1>4
  <2>2. cend[c] = "open" => d \o a = OK
    BY <1>2, <1>3
  <2>3. QED
    BY <2>1, <2>2, <1>2
<1>5. CASE k # Len(a)
  <2>1. a = OK /\ SubSeq(a, 1, k) = <<"O">> /\ b = <<"K">> /\ d = <<>>
    BY <1>1, <1>2, <1>5
  <2>2. cend[c] = "open" => e = <<"O">>
    BY <1>3, <2>1
  <2>3. QED
    BY <2>1, <2>2
<1>6. QED
  BY <1>4, <1>5

LEMMA SendAckGood ==
    ASSUME AllGood, NEW c \in Clients, SendAck(c)
    PROVE  AllGood'
<1> DEFINE a == ack[c]
           d == down[c]
<1>1. /\ FunctionTypes /\ Good(c) /\ spc[c] = "ack" /\ sock[c] = "open" /\ up[c] = <<>>
      /\ UNCHANGED <<file, edits, faults, up, parent, backlog, sock, rcvd, out, shared, disk>>
      /\ UNCHANGED <<cpc, info, todo, pos, cend>>
      /\ a \in Parts /\ a # <<>> /\ d \in Parts
  BY DEF AllGood, Good, Ends, Answer, Stream, SendAck, client, FunctionTypes, Parts
<1>2. PICK k \in 1 .. Len(a) :
         /\ IF cend[c] = "open"
            THEN down' = [down EXCEPT ![c] = d \o SubSeq(a, 1, k)]
            ELSE down' = down
         /\ ack' = [ack EXCEPT ![c] = Rest(a, k)]
  BY DEF SendAck
<1> DEFINE b == Rest(a, k)
           e == IF cend[c] = "open" THEN d \o SubSeq(a, 1, k) ELSE d
           label == IF b = <<>> THEN "create" ELSE "ack"
<1>3. /\ b = <<>> \/ (b = <<"K">> /\ a = OK)
      /\ cend[c] = "open" => (b = <<>> /\ e = OK) \/ (b = <<"K">> /\ e = <<"O">>)
      /\ cend[c] # "open" => e = d
      /\ b = <<"K">> => e \in {<<>>, <<"O">>}
  BY <1>1, <1>2, AnswerSent DEF Good
<1>4. ack' = [ack EXCEPT ![c] = b] /\ ack'[c] = b
  BY <1>1, <1>2 DEF FunctionTypes
<1>5. down' = [down EXCEPT ![c] = e] /\ down'[c] = e
  BY <1>1, <1>2 DEF FunctionTypes
<1>6. spc' = [spc EXCEPT ![c] = label] /\ spc'[c] = label /\ label \in {"create", "ack"}
  <2>1. spc' = [spc EXCEPT ![c] = IF ack'[c] = <<>> THEN "create" ELSE "ack"]
    BY DEF SendAck
  <2>2. spc' = [spc EXCEPT ![c] = label] /\ label \in {"create", "ack"}
    BY <1>4, <2>1
  <2>3. QED
    BY <1>1, <2>2 DEF FunctionTypes
<1>7. d = down[c] /\ a = ack[c] /\ (label = "create" <=> b = <<>>)
  OBVIOUS
<1>8. e \in Parts /\ b \in {<<>>, <<"K">>, OK}
  BY <1>1, <1>3 DEF Parts
<1> HIDE DEF a, b, d, e, label
<1>9. FunctionTypes'
  <2>1. spc' \in [Clients -> ChildLabels]
    BY <1>1, <1>6 DEF FunctionTypes, ChildLabels
  <2>2. ack' \in [Clients -> {<<>>, <<"K">>, OK}]
    BY <1>1, <1>4, <1>8 DEF FunctionTypes
  <2>3. down' \in [Clients -> {<<>>, <<"O">>, <<"K">>, OK}]
    BY <1>1, <1>5, <1>8 DEF FunctionTypes, Parts
  <2>4. QED
    BY <1>1, <2>1, <2>2, <2>3 DEF FunctionTypes
<1>10. cpc[c] \notin {"open", "read", "send", "sent"} /\ cpc[c] \notin {"connect", "stat", "send_info"}
  BY <1>1 DEF Good, Stream, Ends, Early
<1>11. Good(c)'
  <2>1. Ends(c)'
    BY <1>1, <1>6, <1>10 DEF Good, Ends, Queued, In, Early
  <2>2. Counts(c)'
    BY <1>1, <1>6 DEF Good, Counts, Early
  <2>3. Stream(c)'
    <3>1. Run(<<>>, "data", 0) /\ Len(<<>>) = 0 /\ pos[c] \in Nat
      BY <1>1, At DEF Run
    <3>2. CASE label = "ack"
      BY <1>1, <1>6, <1>10, <3>2 DEF Stream, Early
    <3>3. CASE label = "create"
      <4>1. Base(c)' = 0
        BY <1>6, <3>3 DEF Base
      <4>2. Base(c)' + Len(up'[c]) = 0 /\ Base(c)' + Len(up'[c]) <= pos'[c]
        BY <1>1, <3>1, <4>1
      <4>3. Run(up'[c], "data", Base(c)')
        BY <1>1, <3>1, <4>1
      <4>4. QED
        BY <1>1, <1>6, <1>10, <3>3, <4>2, <4>3 DEF Stream, Early
    <3>4. QED
      BY <1>6, <3>2, <3>3
  <2>4. Answer(c)'
    <3>1. OK # <<>> /\ <<"K">> # OK /\ <<"K">> # <<>>
      BY DEF OK
    <3>2. b = <<>> \/ b = <<"K">>
      BY <1>3
    <3>3. QED
      BY <1>1, <1>3, <1>4, <1>5, <1>6, <1>7, <3>1, <3>2 DEF Answer, Early
  <2>5. Smooth(c)'
    BY <1>1, <1>6, <1>10 DEF Good, Smooth, NoFaults, NoEdits
  <2>6. QED
    BY <2>1, <2>2, <2>3, <2>4, <2>5 DEF Good
<1>12. ASSUME NEW x \in Clients, x # c PROVE Untouched(x) /\ (Queued(x)' => Queued(x))
  BY <1>1, <1>4, <1>5, <1>6, <1>12 DEF Untouched, FunctionTypes, Queued, In
<1>13. QED
  BY <1>1, <1>9, <1>11, <1>12, OneStep

\* The end of a connection that fork failed for is closed.
LEMMA CutGood ==
    ASSUME FunctionTypes, NEW x \in Clients, Good(x), spc[x] = "leaked", ~NoFaults', sock'[x] # "open",
           UNCHANGED <<cpc, info, todo, pos, cend, down, rcvd, ack, out, file, backlog>>,
           spc'[x] = spc[x], up'[x] = up[x], NoEdits' => NoEdits
    PROVE  Good(x)'
<1>1. Ends(x)'
  BY DEF Good, Ends, Early, Queued, In
<1>2. Counts(x)'
  BY DEF Good, Counts
<1>3. Stream(x)'
  BY DEF Stream
<1>4. Answer(x)'
  BY DEF Good, Answer
<1>5. Smooth(x)'
  BY DEF Good, Smooth
<1>6. QED
  BY <1>1, <1>2, <1>3, <1>4, <1>5 DEF Good

\* A child that ends closes its connection, and last copies of leaked ones.
LEMMA ExitCloses ==
    ASSUME AllGood, Copies, NEW c \in Clients, NEW label, ChildExits(c, label),
           NEW u \in Seq(Unit), up' = [up EXCEPT ![c] = u]
    PROVE  /\ sock' \in [Clients -> {"open", "closed", "reset"}]
           /\ sock'[c] = Closed(u) /\ Closed(u) # "open"
           /\ \A x \in Clients : x # c =>
                 IF LastCopy(c, x) THEN sock'[x] # "open" /\ spc[x] = "leaked" /\ ~NoFaults
                                   ELSE sock'[x] = sock[x]
<1>1. /\ FunctionTypes /\ up'[c] = u /\ \A x \in Clients : Closed(up'[x]) \in {"closed", "reset"}
      /\ Closed(u) \in {"closed", "reset"}
  BY DEF AllGood, FunctionTypes, Closed
<1>2. sock' = [x \in Clients |-> IF x = c \/ LastCopy(c, x) THEN Closed(up'[x]) ELSE sock[x]]
  BY DEF ChildExits
<1>3. sock' \in [Clients -> {"open", "closed", "reset"}]
  BY <1>1, <1>2 DEF FunctionTypes
<1>4. ASSUME NEW x \in Clients, LastCopy(c, x) PROVE spc[x] = "leaked" /\ ~NoFaults
  BY <1>4 DEF LastCopy, Holders, Copies, Leaked
<1>5. QED
  BY <1>1, <1>2, <1>3, <1>4

\* The child ends, whatever the reason, once it has the file_Info or the
\* client has gone.
LEMMA ExitGood ==
    ASSUME AllGood, Copies, NEW c \in Clients, NEW label \in {"received", "failed"}, ChildExits(c, label),
           spc[c] \in {"info", "ack", "create", "recv"},
           cpc[c] \notin {"connect", "stat", "send_info"},
           label = "received" => spc[c] = "recv",
           NEW u \in Seq(Unit), up' = [up EXCEPT ![c] = u], Len(u) <= Len(up[c]),
           UNCHANGED <<file, edits, client, down, parent, backlog, rcvd, ack, out, shared, disk>>,
           faults' = faults \/ (faults > 0 /\ faults' = faults - 1),
           Smooth(c)'
    PROVE  AllGood'
<1> DEFINE e == Closed(u)
<1>1. /\ FunctionTypes /\ Good(c) /\ UNCHANGED <<cpc, info, todo, pos, cend>>
      /\ up'[c] = u /\ label \in ChildLabels
  BY DEF AllGood, client, FunctionTypes, ChildLabels
<1>2. /\ spc' = [spc EXCEPT ![c] = label] /\ sock' \in [Clients -> {"open", "closed", "reset"}]
      /\ sock'[c] = e /\ e # "open"
      /\ \A x \in Clients : x # c =>
            IF LastCopy(c, x) THEN sock'[x] # "open" /\ spc[x] = "leaked" /\ ~NoFaults
                              ELSE sock'[x] = sock[x]
  BY ExitCloses DEF ChildExits
<1> HIDE DEF e
<1>3. spc'[c] = label /\ sock'[c] = e
  BY <1>1, <1>2 DEF FunctionTypes
<1>4. Good(c)'
  <2>1. Ends(c)'
    BY <1>1, <1>2, <1>3 DEF Good, Ends, Queued, In, Early
  <2>2. Counts(c)'
    <3>1. Len(u) <= SockBuf
      <4>1. Len(u) \in Nat
        BY LenProperties
      <4>2. QED
        BY <1>1, <4>1, At DEF Good, Counts
    <3>2. /\ out[c] <= rcvd[c]
          /\ spc[c] = "recv" => rcvd[c] <= info[c].size
          /\ rcvd[c] <= InfoSize \/ rcvd[c] <= MaxSize
      <4>1. /\ rcvd[c] \in Nat /\ InfoSize \in Nat /\ MaxSize \in Nat
            /\ info[c].size \in Nat /\ info[c].size <= MaxSize
        BY <1>1, At
      <4>2. Counts(c)
        BY <1>1 DEF Good
      <4>3. QED
        BY <4>1, <4>2 DEF Counts
    <3>3. Counts(c)
      BY <1>1 DEF Good
    <3>4. QED
      BY <1>1, <1>2, <1>3, <3>1, <3>2, <3>3 DEF Counts, Early
  <2>3. Stream(c)'
    BY <1>2, <1>3 DEF Stream
  <2>4. Answer(c)'
    BY <1>1, <1>3 DEF Good, Answer, Early
  <2>5. QED
    BY <2>1, <2>2, <2>3, <2>4 DEF Good
<1>5. FunctionTypes'
  <2>1. up' \in [Clients -> Seq(Unit)] /\ spc' \in [Clients -> ChildLabels]
    BY <1>1, <1>2 DEF FunctionTypes
  <2>2. faults' \in 0 .. Faults
    <3>1. faults \in 0 .. Faults /\ Faults \in Nat
      BY <1>1, BoundsAssumption DEF FunctionTypes
    <3>2. QED
      BY <3>1
  <2>3. QED
    BY <1>1, <1>2, <2>1, <2>2 DEF FunctionTypes
<1>6. (NoFaults' => NoFaults) /\ (NoEdits' => NoEdits)
  BY <1>1, At DEF NoFaults, NoEdits
<1>7. ASSUME NEW x \in Clients, x # c PROVE Good(x)'
  <2>1. /\ Good(x) /\ spc'[x] = spc[x] /\ up'[x] = up[x]
        /\ UNCHANGED <<cpc, info, todo, pos, cend, down, rcvd, ack, out, file, backlog>>
    BY <1>1, <1>2, <1>7 DEF AllGood, FunctionTypes
  <2>2. CASE LastCopy(c, x)
    BY <1>1, <1>2, <1>6, <1>7, <2>1, <2>2, CutGood
  <2>3. CASE ~LastCopy(c, x)
    <3>1. sock'[x] = sock[x]
      BY <1>2, <1>7, <2>3
    <3>2. Untouched(x) /\ (Queued(x)' => Queued(x))
      BY <2>1, <3>1 DEF Untouched, Queued, In
    <3>3. QED
      BY <1>1, <1>6, <2>1, <3>2, UntouchedGood
  <2>4. QED
    BY <2>2, <2>3
<1>8. QED
  BY <1>4, <1>5, <1>7 DEF AllGood

LEMMA HandshakeFailsGood ==
    ASSUME AllGood, Copies, NEW c \in Clients, HandshakeFails(c)
    PROVE  AllGood'
<1>1. /\ FunctionTypes /\ Good(c) /\ spc[c] \in {"info", "ack"} /\ sock[c] = "open"
      /\ cend[c] # "open" /\ ChildExits(c, "failed")
      /\ UNCHANGED <<file, edits, faults, client, up, down, parent, backlog, rcvd, ack, out, shared, disk>>
      /\ UNCHANGED <<cpc, info, todo, pos, cend>>
  BY DEF AllGood, Good, Ends, HandshakeFails, Lost, client
<1>2. up[c] \in Seq(Unit) /\ up' = [up EXCEPT ![c] = up[c]] /\ Len(up[c]) <= Len(up[c])
  BY <1>1, At DEF FunctionTypes
<1>3. cpc[c] = "failed" /\ spc'[c] = "failed"
  BY <1>1 DEF Good, Ends, Stream, ChildExits, FunctionTypes
<1>4. Smooth(c)'
  BY <1>1, <1>3 DEF Good, Smooth, NoFaults, NoEdits
<1>5. QED
  BY <1>1, <1>2, <1>3, <1>4, ExitGood

LEMMA CreateFailsGood ==
    ASSUME AllGood, Copies, NEW c \in Clients, CreateFails(c)
    PROVE  AllGood'
<1>1. /\ FunctionTypes /\ Good(c) /\ spc[c] = "create" /\ sock[c] = "open"
      /\ faults > 0 /\ faults' = faults - 1 /\ ChildExits(c, "failed")
      /\ UNCHANGED <<file, edits, client, up, down, parent, backlog, rcvd, ack, out, shared, disk>>
      /\ UNCHANGED <<cpc, info, todo, pos, cend>>
  BY DEF AllGood, Good, Ends, CreateFails, Fault, client
<1>2. up[c] \in Seq(Unit) /\ up' = [up EXCEPT ![c] = up[c]] /\ Len(up[c]) <= Len(up[c])
  BY <1>1, At DEF FunctionTypes
<1>3. spc'[c] = "failed" /\ ~NoFaults' /\ cpc[c] \notin {"connect", "stat", "send_info"}
  BY <1>1, At DEF Good, Ends, Early, ChildExits, FunctionTypes, NoFaults
<1>4. Smooth(c)'
  BY <1>1, <1>3 DEF Good, Smooth, NoEdits
<1>5. QED
  BY <1>1, <1>2, <1>3, <1>4, ExitGood

LEMMA ReceivedGood ==
    ASSUME AllGood, Copies, NEW c \in Clients, Received(c)
    PROVE  AllGood'
<1>1. /\ FunctionTypes /\ Good(c) /\ spc[c] = "recv" /\ sock[c] = "open"
      /\ rcvd[c] >= info[c].size /\ ChildExits(c, "received")
      /\ UNCHANGED <<file, edits, faults, client, up, down, parent, backlog, rcvd, ack, out, shared, disk>>
      /\ UNCHANGED <<cpc, info, todo, pos, cend>>
  BY DEF AllGood, Good, Ends, Received, Complete, client
<1>2. up[c] \in Seq(Unit) /\ up' = [up EXCEPT ![c] = up[c]] /\ Len(up[c]) <= Len(up[c])
  BY <1>1, At DEF FunctionTypes
<1>3. /\ spc'[c] = "received" /\ sock'[c] = Closed(up[c])
      /\ cpc[c] \notin {"connect", "stat", "send_info"}
      /\ rcvd[c] = info[c].size
  <2>1. spc'[c] = "received" /\ sock'[c] = Closed(up[c]) /\ cpc[c] \notin {"connect", "stat", "send_info"}
    BY <1>1 DEF Good, Ends, Early, ChildExits, FunctionTypes
  <2>2. rcvd[c] \in Nat /\ info[c].size \in Nat /\ rcvd[c] <= info[c].size
    BY <1>1, At DEF Good, Counts
  <2>3. QED
    BY <1>1, <2>1, <2>2
<1>4. cpc[c] = "reply" => sock'[c] = "closed"
  <2>1. CASE cpc[c] = "reply"
    <3>1. pos[c] = 0 /\ Base(c) + Len(up[c]) <= pos[c] /\ Base(c) \in Nat
      BY <1>1, <2>1, At DEF Good, Counts, Stream, Base
    <3>2. Len(up[c]) = 0
      BY <1>1, <3>1, At
    <3>3. up[c] = <<>>
      BY <1>2, <3>2, EmptySeq
    <3>4. QED
      BY <1>3, <3>3 DEF Closed
  <2>2. QED
    BY <2>1
<1>5. Smooth(c)'
  BY <1>1, <1>3, <1>4 DEF Good, Smooth, NoFaults, NoEdits
<1>6. QED
  BY <1>1, <1>2, <1>3, <1>5, ExitGood

LEMMA ReceiveFailsGood ==
    ASSUME AllGood, Copies, NEW c \in Clients, ReceiveFails(c)
    PROVE  AllGood'
<1>1. /\ FunctionTypes /\ Good(c) /\ spc[c] = "recv" /\ sock[c] = "open"
      /\ rcvd[c] < info[c].size /\ ChildExits(c, "failed")
      /\ UNCHANGED <<file, edits, client, down, parent, backlog, rcvd, ack, out, shared, disk>>
      /\ UNCHANGED <<cpc, info, todo, pos, cend>>
      /\ up[c] \in Seq(Unit) /\ Len(up[c]) \in Nat /\ rcvd[c] \in Nat /\ info[c].size \in Nat
  <2>1. /\ FunctionTypes /\ Good(c) /\ spc[c] = "recv" /\ sock[c] = "open"
        /\ ~(rcvd[c] >= info[c].size) /\ ChildExits(c, "failed")
        /\ UNCHANGED <<file, edits, client, down, parent, backlog, rcvd, ack, out, shared, disk>>
        /\ UNCHANGED <<cpc, info, todo, pos, cend>>
    BY DEF AllGood, Good, Ends, ReceiveFails, Complete, client
  <2>2. up[c] \in Seq(Unit) /\ Len(up[c]) \in Nat /\ rcvd[c] \in Nat /\ info[c].size \in Nat
    BY <2>1, At
  <2>3. QED
    BY <2>1, <2>2
<1>2. spc'[c] = "failed" /\ cpc[c] \notin {"connect", "stat", "send_info"}
  BY <1>1 DEF Good, Ends, Early, ChildExits, FunctionTypes
<1>3. CASE Lost(up[c], cend[c]) /\ UNCHANGED <<faults, up>>
  <2>1. /\ up' = [up EXCEPT ![c] = up[c]] /\ cpc[c] \in {"sent", "failed"}
        /\ Len(up[c]) <= Len(up[c]) /\ faults' = faults
    BY <1>1, <1>3 DEF FunctionTypes, Lost, Good, Ends
  <2>2. NoFaults /\ NoEdits => cpc[c] = "failed"
    <3>1. ASSUME NoFaults, NoEdits, cpc[c] = "sent" PROVE FALSE
      <4>1. up[c] = <<>> /\ Len(<<>>) = 0
        BY <1>1, <1>3, <3>1, EmptySeq DEF Lost, Good, Smooth
      <4>2. rcvd[c] + Len(up[c]) = pos[c] /\ pos[c] >= info[c].size
        BY <1>1, <3>1 DEF Good, Stream, Smooth, Base
      <4>3. QED
        BY <1>1, <4>1, <4>2
    <3>2. QED
      BY <2>1, <3>1
  <2>3. Smooth(c)'
    BY <1>1, <1>2, <1>3, <2>1, <2>2 DEF Good, Smooth, NoFaults, NoEdits
  <2>4. QED
    BY <1>1, <1>2, <1>3, <2>1, <2>3, ExitGood
<1>4. CASE Fault /\ \E k \in Receivable(up[c], Need(c)) : up' = [up EXCEPT ![c] = Rest(@, k)]
  <2>1. PICK k \in Receivable(up[c], Need(c)) : up' = [up EXCEPT ![c] = Rest(up[c], k)]
    BY <1>4
  <2>2. Need(c) \in Nat
    BY <1>1, At DEF Need
  <2>3. Rest(up[c], k) \in Seq(Unit) /\ Len(Rest(up[c], k)) = Len(up[c]) - k /\ k \in Nat
    BY <1>1, <2>1, <2>2, RecvSplit
  <2>4. Len(Rest(up[c], k)) <= Len(up[c])
    BY <1>1, <2>3
  <2>5. ~NoFaults'
    BY <1>1, <1>4, At DEF Fault, NoFaults
  <2>6. Smooth(c)'
    BY <1>1, <1>2, <2>5 DEF Good, Smooth, NoEdits
  <2>7. faults > 0 /\ faults' = faults - 1
    BY <1>4 DEF Fault
  <2>8. QED
    BY <1>1, <1>2, <2>1, <2>3, <2>4, <2>6, <2>7, ExitGood
<1>5. QED
  BY <1>3, <1>4 DEF ReceiveFails

LEMMA CreateGood ==
    ASSUME AllGood, NEW c \in Clients, Create(c)
    PROVE  AllGood'
<1>1. /\ FunctionTypes /\ Good(c) /\ spc[c] = "create" /\ sock[c] = "open"
      /\ UNCHANGED <<file, edits, faults, client, up, down, parent, backlog, sock, ack, out>>
      /\ UNCHANGED <<cpc, info, todo, pos, cend>>
      /\ spc' = [spc EXCEPT ![c] = "recv"] /\ rcvd' = [rcvd EXCEPT ![c] = 0]
      /\ up[c] \in Seq(Unit) /\ out[c] = 0 /\ info[c].size \in Nat
  BY At DEF AllGood, Good, Ends, Counts, Create, client
<1>2. spc'[c] = "recv" /\ rcvd'[c] = 0 /\ "recv" \in ChildLabels /\ 0 \in Nat
  BY <1>1 DEF FunctionTypes, ChildLabels
<1>3. disk' \in [Names -> [by : SUBSET Clients, data : Seq(Unit \cup {Hole})]]
  <2>1. disk' = [disk EXCEPT ![info[c].name] = [by |-> {c}, data |-> <<>>]]
    BY DEF Create, Truncated
  <2>2. [by |-> {c}, data |-> <<>>] \in [by : SUBSET Clients, data : Seq(Unit \cup {Hole})]
    BY EmptySeq
  <2>3. QED
    BY <1>1, <2>1, <2>2 DEF FunctionTypes
<1>4. shared' \in [Clients -> BOOLEAN]
  <2>1. \A d \in Clients : shared[d] \in BOOLEAN
    BY <1>1 DEF FunctionTypes
  <2>2. QED
    BY <2>1 DEF Create
<1>5. Good(c)'
  <2>1. Ends(c)'
    BY <1>1, <1>2 DEF Good, Ends, Queued, In, Early
  <2>2. Counts(c)'
    BY <1>1, <1>2 DEF Good, Counts, Early
  <2>3. Stream(c)'
    <3>1. Base(c) = 0 /\ Base(c)' = 0
      BY <1>1, <1>2 DEF Base
    <3>2. QED
      BY <1>1, <1>2, <3>1 DEF Good, Stream, Early
  <2>4. Answer(c)'
    BY <1>1, <1>2 DEF Good, Answer, Early
  <2>5. Smooth(c)'
    BY <1>1, <1>2 DEF Good, Smooth, NoFaults, NoEdits
  <2>6. QED
    BY <2>1, <2>2, <2>3, <2>4, <2>5 DEF Good
<1>6. /\ up' = [up EXCEPT ![c] = up[c]] /\ sock' = [sock EXCEPT ![c] = sock[c]]
      /\ out' = [out EXCEPT ![c] = out[c]]
      /\ sock[c] \in {"open", "closed", "reset"} /\ out[c] \in Nat
  BY <1>1 DEF FunctionTypes
<1>7. QED
  BY <1>1, <1>2, <1>3, <1>4, <1>5, <1>6, ChildMoves

\* A write leaves a file of units and holes.
LEMMA WrittenType ==
    ASSUME NEW data \in Seq(Unit \cup {Hole}), NEW at \in Nat, NEW units \in Seq(Unit)
    PROVE  Written(data, at, units) \in Seq(Unit \cup {Hole})
<1> DEFINE m == IF Len(data) < at + Len(units) THEN at + Len(units) ELSE Len(data)
           T == Unit \cup {Hole}
           f == Written(data, at, units)
<1>1. Len(data) \in Nat /\ Len(units) \in Nat /\ m \in Nat
  BY LenProperties
<1>2. \A i \in 1 .. Len(data) : data[i] \in T
  BY ElementOfSeq
<1>3. \A i \in 1 .. Len(units) : units[i] \in T
  BY ElementOfSeq
<1>4. ASSUME NEW i \in 1 .. m
      PROVE  (IF i > at /\ i <= at + Len(units) THEN units[i - at]
              ELSE IF i <= Len(data) THEN data[i] ELSE Hole) \in T
  <2>1. i > at /\ i <= at + Len(units) => i - at \in 1 .. Len(units)
    BY <1>1
  <2>2. i <= Len(data) => i \in 1 .. Len(data)
    BY <1>1
  <2>3. Hole \in T
    OBVIOUS
  <2> HIDE DEF T
  <2>4. QED
    BY <1>2, <1>3, <2>1, <2>2, <2>3
<1>5. f \in [1 .. m -> T]
  BY <1>4 DEF Written
<1> HIDE DEF m, T, f
<1>6. f \in Seq(T)
  BY <1>1, <1>5, SeqDef
<1>7. QED
  BY <1>6 DEF f, T

\* What one recv of k units and one write of w do.
DataMoved(c, k, w) ==
    /\ up' = [up EXCEPT ![c] = Rest(up[c], k)]
    /\ rcvd' = [rcvd EXCEPT ![c] = rcvd[c] + k]
    /\ IF w = k THEN UNCHANGED faults ELSE Fault
    /\ disk' = [disk EXCEPT ![info[c].name].data = Written(@, out[c], SubSeq(up[c], 1, w))]
    /\ out' = [out EXCEPT ![c] = out[c] + w]
    /\ k \in 1 .. Len(up[c]) /\ k >= 1 /\ k <= Len(up[c])
    /\ Rest(up[c], k) \in Seq(Unit) /\ Len(Rest(up[c], k)) \in Nat
    /\ Len(Rest(up[c], k)) = Len(up[c]) - k
    /\ rcvd[c] + k \in Nat /\ rcvd[c] + k <= info[c].size
    /\ w <= k /\ out[c] + w \in Nat
    /\ SubSeq(up[c], 1, w) \in Seq(Unit) /\ Len(SubSeq(up[c], 1, w)) = w
    /\ \A i \in 1 .. w : SubSeq(up[c], 1, w)[i] = [kind |-> "data", n |-> rcvd[c] + i - 1]

LEMMA DataStep ==
    ASSUME AllGood, NEW c \in Clients, RecvData(c)
    PROVE  \E k, w \in Nat : DataMoved(c, k, w)
<1>1. FunctionTypes /\ Good(c) /\ spc[c] = "recv" /\ sock[c] = "open"
  BY DEF AllGood, Good, Ends, RecvData
<1>2. PICK k \in Receivable(up[c], Need(c)) : \E w \in 0 .. k :
              /\ up' = [up EXCEPT ![c] = Rest(up[c], k)]
              /\ rcvd' = [rcvd EXCEPT ![c] = rcvd[c] + k]
              /\ IF w = k THEN UNCHANGED faults ELSE Fault
              /\ disk' = [disk EXCEPT ![info[c].name].data = Written(@, out[c], SubSeq(up[c], 1, w))]
              /\ out' = [out EXCEPT ![c] = out[c] + w]
  BY DEF RecvData
<1>3. PICK w \in 0 .. k :
              /\ up' = [up EXCEPT ![c] = Rest(up[c], k)]
              /\ rcvd' = [rcvd EXCEPT ![c] = rcvd[c] + k]
              /\ IF w = k THEN UNCHANGED faults ELSE Fault
              /\ disk' = [disk EXCEPT ![info[c].name].data = Written(@, out[c], SubSeq(up[c], 1, w))]
              /\ out' = [out EXCEPT ![c] = out[c] + w]
  BY <1>2
<1>4. /\ up[c] \in Seq(Unit) /\ Len(up[c]) \in Nat /\ rcvd[c] \in Nat /\ info[c].size \in Nat
      /\ out[c] \in Nat /\ ChunkSize \in Nat
      /\ rcvd[c] <= info[c].size /\ Run(up[c], "data", rcvd[c])
  BY <1>1, At DEF Good, Counts, Stream, Base
<1>5. Need(c) \in Nat /\ Need(c) <= info[c].size - rcvd[c]
  BY <1>4 DEF Need
<1>6. /\ k \in 1 .. Len(up[c]) /\ k \in Nat /\ k >= 1 /\ k <= Need(c) /\ k <= Len(up[c])
      /\ Rest(up[c], k) \in Seq(Unit) /\ Len(Rest(up[c], k)) \in Nat
      /\ Len(Rest(up[c], k)) = Len(up[c]) - k
  BY <1>4, <1>5, RecvSplit
<1>7. rcvd[c] + k \in Nat /\ rcvd[c] + k <= info[c].size /\ w \in Nat /\ w <= k /\ out[c] + w \in Nat
  BY <1>4, <1>5, <1>6
<1>8. /\ SubSeq(up[c], 1, w) \in Seq(Unit) /\ Len(SubSeq(up[c], 1, w)) = w
      /\ \A i \in 1 .. w : SubSeq(up[c], 1, w)[i] = up[c][i]
  <2>1. \A i \in 1 .. w : up[c][i] \in Unit
    <3> TAKE i \in 1 .. w
    <3>1. i \in 1 .. Len(up[c])
      BY <1>4, <1>6, <1>7
    <3>2. QED
      BY <1>4, <3>1, ElementOfSeq
  <2>2. w \in 1 - 1 .. Len(up[c])
    BY <1>4, <1>6, <1>7
  <2>3. /\ SubSeq(up[c], 1, w) \in Seq(Unit)
        /\ Len(SubSeq(up[c], 1, w)) = IF 1 <= w THEN w - 1 + 1 ELSE 0
        /\ \A i \in 1 .. w - 1 + 1 : SubSeq(up[c], 1, w)[i] = up[c][1 + i - 1]
    BY <1>4, <1>7, <2>1, <2>2, SubSeqProperties
  <2> DEFINE v == SubSeq(up[c], 1, w)
             y == up[c]
  <2> HIDE DEF v, y
  <2>4. /\ v \in Seq(Unit) /\ Len(v) = IF 1 <= w THEN w - 1 + 1 ELSE 0
        /\ \A i \in 1 .. w - 1 + 1 : v[i] = y[1 + i - 1]
    BY <2>3 DEF v, y
  <2>5. Len(v) = w /\ \A i \in 1 .. w : v[i] = y[i]
    BY <1>7, <2>4
  <2>6. QED
    BY <2>4, <2>5 DEF v, y
<1>9. \A i \in 1 .. w : SubSeq(up[c], 1, w)[i] = [kind |-> "data", n |-> rcvd[c] + i - 1]
  <2> TAKE i \in 1 .. w
  <2>1. i \in 1 .. Len(up[c])
    BY <1>4, <1>6, <1>7
  <2>2. QED
    BY <1>4, <1>8, <2>1 DEF Run
<1>10. DataMoved(c, k, w) /\ k \in Nat /\ w \in Nat
  BY <1>3, <1>6, <1>7, <1>8, <1>9 DEF DataMoved
<1>11. QED
  BY <1>10

LEMMA RecvDataGood ==
    ASSUME AllGood, NEW c \in Clients, RecvData(c)
    PROVE  AllGood'
<1>1. /\ FunctionTypes /\ Good(c) /\ spc[c] = "recv" /\ sock[c] = "open"
      /\ UNCHANGED <<file, edits, client, down, parent, backlog, spc, sock, ack, shared>>
      /\ UNCHANGED <<cpc, info, todo, pos, cend>>
      /\ up[c] \in Seq(Unit) /\ Len(up[c]) \in Nat /\ rcvd[c] \in Nat /\ out[c] \in Nat
  <2>1. FunctionTypes /\ Good(c) /\ spc[c] = "recv" /\ sock[c] = "open"
    BY DEF AllGood, Good, Ends, RecvData
  <2>2. up[c] \in Seq(Unit) /\ Len(up[c]) \in Nat /\ rcvd[c] \in Nat /\ out[c] \in Nat
    BY <2>1, At
  <2>3. UNCHANGED <<file, edits, client, down, parent, backlog, spc, sock, ack, shared>>
    BY DEF RecvData
  <2>4. QED
    BY <2>1, <2>2, <2>3 DEF client
<1>2. PICK k, w \in Nat : DataMoved(c, k, w)
  BY DataStep
<1>3. /\ up' = [up EXCEPT ![c] = Rest(up[c], k)]
      /\ rcvd' = [rcvd EXCEPT ![c] = rcvd[c] + k]
      /\ IF w = k THEN UNCHANGED faults ELSE Fault
      /\ disk' = [disk EXCEPT ![info[c].name].data = Written(@, out[c], SubSeq(up[c], 1, w))]
      /\ out' = [out EXCEPT ![c] = out[c] + w]
      /\ k \in 1 .. Len(up[c]) /\ k >= 1 /\ k <= Len(up[c])
      /\ Rest(up[c], k) \in Seq(Unit) /\ Len(Rest(up[c], k)) \in Nat
      /\ Len(Rest(up[c], k)) = Len(up[c]) - k
      /\ rcvd[c] + k \in Nat /\ rcvd[c] + k <= info[c].size
      /\ w <= k /\ out[c] + w \in Nat
      /\ SubSeq(up[c], 1, w) \in Seq(Unit)
  BY <1>2 DEF DataMoved
<1> DEFINE v == Rest(up[c], k)
           n == rcvd[c] + k
           o == out[c] + w
           u == up[c]
<1>4. up'[c] = v /\ rcvd'[c] = n /\ out'[c] = o
  BY <1>1, <1>3 DEF FunctionTypes
<1>5. disk' \in [Names -> [by : SUBSET Clients, data : Seq(Unit \cup {Hole})]]
  <2>1. /\ info[c].name \in Names /\ disk[info[c].name].data \in Seq(Unit \cup {Hole})
        /\ disk \in [Names -> [by : SUBSET Clients, data : Seq(Unit \cup {Hole})]]
    BY <1>1, At DEF FunctionTypes
  <2> DEFINE y == Written(disk[info[c].name].data, out[c], SubSeq(up[c], 1, w))
  <2>2. y \in Seq(Unit \cup {Hole})
    BY <1>1, <1>3, <2>1, WrittenType
  <2>3. disk' = [disk EXCEPT ![info[c].name].data = y]
    BY <1>3
  <2> HIDE DEF y
  <2>4. QED
    BY <2>1, <2>2, <2>3
<1>6. Run(u, "data", rcvd[c]) /\ Run(v, "data", n)
  <2>1. Run(u, "data", rcvd[c])
    BY <1>1 DEF Good, Stream, Base
  <2>2. QED
    BY <1>1, <1>3, <2>1, RunSplit
<1>7. n + Len(v) = rcvd[c] + Len(u)
  <2>1. ASSUME NEW b \in Nat, NEW m \in Nat PROVE (b + k) + (m - k) = b + m
    OBVIOUS
  <2>2. Len(v) = Len(u) - k /\ n = rcvd[c] + k /\ Len(u) \in Nat /\ rcvd[c] \in Nat
    BY <1>1, <1>3
  <2> HIDE DEF n, v, u
  <2>3. QED
    BY <2>1, <2>2
<1>8. faults' = faults \/ (faults > 0 /\ faults' = faults - 1)
  BY <1>3 DEF Fault
<1>9. NoFaults' => NoFaults /\ o = out[c] + k
  <2>1. faults \in Nat /\ faults <= Faults /\ Faults \in Nat
    BY <1>1, At
  <2>2. (w = k => faults' = faults) /\ (w # k => faults > 0 /\ faults' = faults - 1)
    BY <1>3 DEF Fault
  <2>3. w # k => ~NoFaults'
    BY <2>1, <2>2 DEF NoFaults
  <2>4. QED
    BY <2>2, <2>3 DEF NoFaults
<1>10. /\ n <= info[c].size /\ o <= n /\ n \in Nat /\ o \in Nat
       /\ Len(v) <= Len(u) /\ Len(v) \in Nat /\ v \in Seq(Unit)
  <2>1. out[c] <= rcvd[c]
    BY <1>1 DEF Good, Counts
  <2>2. n <= info[c].size /\ n \in Nat /\ o \in Nat /\ Len(v) \in Nat /\ v \in Seq(Unit)
    BY <1>3
  <2>3. o <= n
    BY <1>1, <1>3, <2>1
  <2>4. Len(v) <= Len(u)
    <3>1. Len(v) = Len(u) - k /\ Len(u) \in Nat
      BY <1>1, <1>3
    <3> HIDE DEF u, v
    <3>2. QED
      BY <3>1
  <2>5. QED
    BY <2>2, <2>3, <2>4
<1>11. up[c] = u
  OBVIOUS
<1>12. NoFaults => out[c] = rcvd[c]
  BY <1>1 DEF Good, Smooth
<1>13. NoFaults' => NoFaults /\ o = n
  BY <1>1, <1>3, <1>9, <1>12
<1>14. up' = [up EXCEPT ![c] = v] /\ rcvd' = [rcvd EXCEPT ![c] = n] /\ out' = [out EXCEPT ![c] = o]
  BY <1>3
<1> HIDE DEF v, n, o, u
<1>15. Good(c)'
  <2>1. Ends(c)'
    BY <1>1 DEF Good, Ends, Queued, In, Early
  <2>2. Counts(c)'
    <3>1. Len(v) <= SockBuf
      <4>1. Len(u) <= SockBuf /\ SockBuf \in Nat /\ Len(u) \in Nat
        BY <1>1, <1>11, At DEF Good, Counts
      <4>2. QED
        BY <1>10, <4>1
    <3>2. QED
      BY <1>1, <1>4, <1>10, <3>1 DEF Good, Counts, Early
  <2>3. Stream(c)'
    <3>1. Base(c) = rcvd[c] /\ Base(c)' = n
      BY <1>1, <1>4 DEF Base
    <3>2. /\ n + Len(v) <= pos[c]
          /\ cpc[c] \in {"open", "read", "sent"} => n + Len(v) = pos[c]
          /\ cpc[c] = "send" => /\ Run(todo[c], "data", n + Len(v))
                                /\ n + Len(v) + Len(todo[c]) = pos[c]
      BY <1>1, <1>7, <1>11, <3>1 DEF Good, Stream
    <3>3. QED
      BY <1>1, <1>4, <1>6, <3>1, <3>2 DEF Stream, Early
  <2>4. Answer(c)'
    BY <1>1 DEF Good, Answer, Early
  <2>5. Smooth(c)'
    BY <1>1, <1>4, <1>13 DEF Good, Smooth, NoEdits
  <2>6. QED
    BY <2>1, <2>2, <2>3, <2>4, <2>5 DEF Good
<1>16. /\ spc' = [spc EXCEPT ![c] = spc[c]] /\ sock' = [sock EXCEPT ![c] = sock[c]]
       /\ spc[c] \in ChildLabels /\ sock[c] \in {"open", "closed", "reset"}
       /\ shared' \in [Clients -> BOOLEAN]
  BY <1>1 DEF FunctionTypes
<1>17. QED
  BY <1>1, <1>5, <1>8, <1>10, <1>14, <1>15, <1>16, ChildMoves

LEMMA ChildGood ==
    ASSUME AllGood, Copies, NEW c \in Clients, Child(c)
    PROVE  AllGood'
  BY RecvInfoGood, SendAckGood, HandshakeFailsGood, CreateGood, CreateFailsGood, RecvDataGood,
     ReceivedGood, ReceiveFailsGood DEF Child

-----------------------------------------------------------------------------
(* Who has the connections that fork failed for. *)

LEMMA FaultsFall ==
    ASSUME AllGood, Fault
    PROVE  ~NoFaults'
<1>1. faults \in 0 .. Faults /\ Faults \in Nat
  BY BoundsAssumption DEF AllGood, FunctionTypes
<1>2. QED
  BY <1>1 DEF Fault, NoFaults

LEMMA CopiesKept ==
    ASSUME Copies, UNCHANGED <<sock, held, parent>>, NoFaults' => NoFaults,
           \A x \in Clients : /\ spc'[x] = "leaked" <=> spc[x] = "leaked"
                              /\ spc[x] \in Running => spc'[x] \in Running
    PROVE  Copies'
  BY DEF Copies, Leaked, LeakedOpen, Holders

LEMMA ClientCopies ==
    ASSUME AllGood, Copies, NEW c \in Clients, Client(c)
    PROVE  Copies'
<1>1. UNCHANGED <<spc, sock, held, parent>>
  BY DEF Client, Connect, Stat, SendSome, SendFails, Reply, NoReply, Open, Read, ReadFails, child
<1>2. NoFaults' => NoFaults
  <2>1. CASE ReadFails(c)
    BY <2>1, FaultsFall DEF ReadFails, Fault
  <2>2. CASE ~ReadFails(c)
    BY <2>2 DEF Client, Connect, Stat, SendSome, SendFails, Reply, NoReply, Open, Read, NoFaults
  <2>3. QED
    BY <2>1, <2>2
<1>3. QED
  BY <1>1, <1>2, CopiesKept

LEMMA ParentCopies ==
    ASSUME AllGood, Copies, Accept \/ ForkFails \/ AcceptFails
    PROVE  Copies'
<1>1. FunctionTypes /\ parent = "accept"
  BY DEF AllGood, Accept, ForkFails, AcceptFails
<1>2. CASE Accept \/ ForkFails
  <2>1. PICK h \in Clients : h = Head(backlog) /\ Queued(h)
    BY <1>1, <1>2, QueueTail DEF Accept, ForkFails, FunctionTypes, Queued
  <2>2. spc[h] = "none" /\ sock[h] = "open" /\ UNCHANGED <<sock, parent>>
    BY <1>2, <2>1 DEF AllGood, Good, Ends, Accept, ForkFails
  <2>3. held[h] = {}
    BY <2>2 DEF Copies, Running
  <2>4. CASE Accept
    <3>1. spc' = [spc EXCEPT ![h] = "info"] /\ held' = [held EXCEPT ![h] = Leaked] /\ UNCHANGED faults
      BY <2>1, <2>4 DEF Accept
    <3>2. Leaked' = Leaked
      BY <1>1, <2>2, <3>1 DEF Leaked, FunctionTypes
    <3>3. held' \in [Clients -> SUBSET Clients] /\ Leaked \subseteq Clients
      BY <3>1 DEF Copies, Leaked
    <3>4. \A x \in Clients : held'[x] \subseteq Leaked /\ (held'[x] # {} => spc'[x] \in Running)
      BY <1>1, <3>1 DEF Copies, Running, FunctionTypes
    <3>5. \A x \in Leaked : sock'[x] = "open" /\ parent' = "accept"
      BY <1>1, <2>2 DEF Copies, LeakedOpen
    <3>6. QED
      BY <3>1, <3>2, <3>3, <3>4, <3>5 DEF Copies, LeakedOpen, NoFaults
  <2>5. CASE ForkFails
    <3>1. spc' = [spc EXCEPT ![h] = "leaked"] /\ UNCHANGED held /\ ~NoFaults'
      BY <2>1, <2>5, FaultsFall DEF ForkFails
    <3>2. Leaked' = Leaked \cup {h}
      BY <1>1, <3>1 DEF Leaked, FunctionTypes
    <3>3. \A x \in Clients : held'[x] \subseteq Leaked' /\ (held'[x] # {} => spc'[x] \in Running)
      BY <1>1, <2>3, <3>1, <3>2 DEF Copies, FunctionTypes
    <3>4. \A x \in Leaked' : sock'[x] = "open" /\ parent' = "accept"
      BY <1>1, <2>2, <3>2 DEF Copies, LeakedOpen
    <3>5. QED
      BY <3>1, <3>3, <3>4 DEF Copies, LeakedOpen
  <2>6. QED
    BY <1>2, <2>4, <2>5
<1>3. CASE AcceptFails
  <2>1. /\ parent' = "gone" /\ UNCHANGED <<spc, held>> /\ Leaked' = Leaked /\ ~NoFaults'
        /\ \A x \in Clients : Holders(x)' = Holders(x)
    BY <1>3, FaultsFall DEF AcceptFails, Leaked, Holders
  <2>2. ASSUME NEW x \in Leaked PROVE sock'[x] = "open" <=> Holders(x) # {}
    <3>1. x \in Clients /\ spc[x] = "leaked" /\ sock[x] = "open"
      BY <1>1, <2>2 DEF Copies, LeakedOpen, Leaked
    <3>2. x \notin ToSet(backlog)
      <4>1. DOMAIN backlog = 1 .. Len(backlog)
        BY <1>1, LenProperties DEF FunctionTypes
      <4>2. ~Queued(x)
        BY <3>1 DEF AllGood, Good, Ends
      <4>3. QED
        BY <4>1, <4>2 DEF ToSet, Queued, In
    <3>3. sock'[x] = IF Holders(x) = {} THEN Closed(up[x]) ELSE sock[x]
      BY <1>3, <2>2, <3>1, <3>2 DEF AcceptFails
    <3>4. QED
      BY <3>1, <3>3 DEF Closed
  <2>3. LeakedOpen'
    <3>1. Leaked \subseteq Clients
      BY DEF Leaked
    <3>2. QED
      BY <2>1, <2>2, <3>1 DEF LeakedOpen
  <2>4. \A x \in Clients : held'[x] \subseteq Leaked' /\ (held'[x] # {} => spc'[x] \in Running)
    BY <2>1 DEF Copies
  <2>5. QED
    BY <2>1, <2>3, <2>4 DEF Copies
<1>4. QED
  BY <1>2, <1>3

LEMMA ChildCopies ==
    ASSUME AllGood, Copies, NEW c \in Clients, Child(c)
    PROVE  Copies'
<1>1. FunctionTypes /\ spc[c] \in Running /\ UNCHANGED parent
  BY DEF AllGood, Child, RecvInfo, SendAck, HandshakeFails, Create, CreateFails, RecvData, Received,
         ReceiveFails, Running
<1>2. NoFaults' => NoFaults
  <2>1. UNCHANGED faults \/ Fault
    BY DEF Child, RecvInfo, SendAck, HandshakeFails, Create, CreateFails, RecvData, Received, ReceiveFails
  <2>2. QED
    BY <2>1, FaultsFall DEF NoFaults
<1>3. CASE RecvInfo(c) \/ SendAck(c) \/ Create(c) \/ RecvData(c)
  <2>1. UNCHANGED <<sock, held>>
    BY <1>3 DEF RecvInfo, SendAck, Create, RecvData
  <2>2. spc'[c] \in Running /\ \A x \in Clients : x # c => spc'[x] = spc[x]
    BY <1>1, <1>3 DEF RecvInfo, SendAck, Create, RecvData, FunctionTypes, Running
  <2>3. QED
    BY <1>1, <1>2, <2>1, <2>2, CopiesKept DEF Running
<1>4. CASE HandshakeFails(c) \/ CreateFails(c) \/ Received(c) \/ ReceiveFails(c)
  <2>1. PICK label \in {"received", "failed"} : ChildExits(c, label)
    BY <1>4 DEF HandshakeFails, CreateFails, Received, ReceiveFails
  <2>2. PICK u \in Seq(Unit) : up' = [up EXCEPT ![c] = u]
    <3>1. CASE UNCHANGED up
      BY <1>1, <3>1 DEF FunctionTypes
    <3>2. CASE ReceiveFails(c) /\ ~UNCHANGED up
      <4>1. PICK k \in Receivable(up[c], Need(c)) : up' = [up EXCEPT ![c] = Rest(up[c], k)]
        BY <3>2 DEF ReceiveFails
      <4>2. Need(c) \in Nat
        <5>1. /\ rcvd[c] \in Nat /\ info[c].size \in Nat /\ ChunkSize \in Nat
              /\ ~(rcvd[c] >= info[c].size)
          BY <1>1, <3>2, At DEF ReceiveFails, Complete
        <5>2. QED
          BY <5>1 DEF Need
      <4>3. Rest(up[c], k) \in Seq(Unit)
        BY <1>1, <4>1, <4>2, RecvSplit, At
      <4>4. QED
        BY <4>1, <4>3
    <3>3. QED
      BY <1>4, <3>1, <3>2 DEF HandshakeFails, CreateFails, Received
  <2>3. \A x \in Clients : x # c =>
           IF LastCopy(c, x) THEN sock'[x] # "open" /\ spc[x] = "leaked" /\ ~NoFaults
                             ELSE sock'[x] = sock[x]
    BY <2>1, <2>2, ExitCloses
  <2>4. Leaked' = Leaked /\ c \notin Leaked /\ \A x \in Clients : x # c => spc'[x] = spc[x]
    BY <1>1, <2>1 DEF ChildExits, Leaked, FunctionTypes, Running
  <2>5. /\ held' \in [Clients -> SUBSET Clients]
        /\ held'[c] = {} /\ \A x \in Clients : x # c => held'[x] = held[x]
    BY <2>1 DEF ChildExits, Copies
  <2>6. \A x \in Clients : Holders(x)' = Holders(x) \ {c}
    BY <2>5 DEF Holders
  <2>7. ASSUME NEW x \in Leaked PROVE sock'[x] = "open" <=> parent' = "accept" \/ Holders(x)' # {}
    <3>1. /\ x \in Clients /\ x # c /\ Holders(x)' = Holders(x) \ {c}
          /\ sock[x] = "open" <=> parent = "accept" \/ Holders(x) # {}
          /\ parent \in {"accept", "gone"}
      BY <1>1, <2>4, <2>6, <2>7 DEF Leaked, Copies, LeakedOpen, FunctionTypes
    <3>2. CASE LastCopy(c, x)
      BY <1>1, <2>3, <3>1, <3>2 DEF LastCopy
    <3>3. CASE ~LastCopy(c, x)
      BY <1>1, <2>3, <3>1, <3>3 DEF LastCopy
    <3>4. QED
      BY <3>2, <3>3
  <2>8. QED
    BY <1>2, <2>4, <2>5, <2>7 DEF Copies, LeakedOpen
<1>5. QED
  BY <1>3, <1>4 DEF Child

LEMMA NextCopies ==
    ASSUME AllGood, Copies, [Next]_vars
    PROVE  Copies'
<1>1. ASSUME NEW c \in Clients, Edit(c) PROVE Copies'
  BY <1>1, CopiesKept DEF Edit, child, NoFaults
<1>2. CASE UNCHANGED vars
  BY <1>2, CopiesKept DEF vars, child, NoFaults
<1>3. QED
  BY <1>1, <1>2, ClientCopies, ParentCopies, ChildCopies DEF Next

-----------------------------------------------------------------------------
LEMMA InitGood == Init => AllGood
<1> SUFFICES ASSUME Init PROVE AllGood
  OBVIOUS
<1>1. /\ FirstSizes \subseteq 0 .. MaxSize \cup {Absent} /\ MaxSize \in Nat /\ Edits \in Nat
      /\ Faults \in Nat /\ InfoSize \in Nat \ {0} /\ SockBuf \in Nat
      /\ <<>> \in Seq(Unit) /\ <<>> \in Seq(Clients) /\ Len(<<>>) = 0 /\ DOMAIN <<>> = {}
      /\ <<>> \in Seq(Unit \cup {Hole})
  BY BoundsAssumption, EmptySeq
<1>2. FunctionTypes
  <2>1. file \in [Clients -> 0 .. MaxSize \cup {Absent}]
    BY <1>1 DEF Init
  <2>2. info \in [Clients -> [name : Names, size : 0 .. MaxSize]]
    BY <1>1 DEF Init, Names
  <2>3. backlog \in Seq(Clients) /\ IsInjective(backlog)
    BY <1>1 DEF Init, IsInjective
  <2>4. disk \in [Names -> [by : SUBSET Clients, data : Seq(Unit \cup {Hole})]]
    BY <1>1 DEF Init
  <2>5. pos \in [Clients -> 0 .. MaxSize] /\ edits \in 0 .. Edits /\ faults \in 0 .. Faults
    BY <1>1 DEF Init
  <2>6. /\ cpc \in [Clients -> ClientLabels] /\ spc \in [Clients -> ChildLabels]
        /\ cend \in [Clients -> {"open", "closed", "reset"}]
        /\ sock \in [Clients -> {"open", "closed", "reset"}]
        /\ parent \in {"accept", "gone"}
        /\ todo \in [Clients -> Seq(Unit)] /\ up \in [Clients -> Seq(Unit)]
    BY <1>1 DEF Init, ClientLabels, ChildLabels
  <2>7. /\ ack \in [Clients -> {<<>>, <<"K">>, OK}]
        /\ down \in [Clients -> {<<>>, <<"O">>, <<"K">>, OK}]
        /\ rcvd \in [Clients -> Nat] /\ out \in [Clients -> Nat]
        /\ shared \in [Clients -> BOOLEAN]
    BY DEF Init
  <2>8. QED
    BY <2>1, <2>2, <2>3, <2>4, <2>5, <2>6, <2>7 DEF FunctionTypes
<1>3. ASSUME NEW c \in Clients PROVE Good(c)
  <2>1. /\ cpc[c] = "connect" /\ info[c].name = NoName /\ todo[c] = <<>> /\ pos[c] = 0 /\ cend[c] = "open"
        /\ up[c] = <<>> /\ down[c] = <<>> /\ spc[c] = "none" /\ sock[c] = "open" /\ rcvd[c] = 0
        /\ ack[c] = OK /\ out[c] = 0
    BY DEF Init
  <2>2. ~Queued(c)
    BY <1>1 DEF Init, Queued, In
  <2>3. Ends(c)
    BY <2>1, <2>2 DEF Ends, Early
  <2>4. Counts(c)
    BY <1>1, <2>1 DEF Counts, Sending
  <2>5. Stream(c)
    BY <1>1, <2>1 DEF Stream, Run, Early
  <2>6. Answer(c)
    <3>1. OK # <<"K">>
      BY DEF OK
    <3>2. QED
      BY <2>1, <3>1 DEF Answer
  <2>7. Smooth(c)
    BY <2>1 DEF Smooth
  <2>8. QED
    BY <2>3, <2>4, <2>5, <2>6, <2>7 DEF Good
<1>4. QED
  BY <1>2, <1>3 DEF AllGood

-----------------------------------------------------------------------------
(* The disk. *)

Writing == {"recv", "received", "failed"}

\* A child that has come to its file stays with it, and none comes to one.
Still(c) ==
    /\ spc[c] \in Writing => /\ spc'[c] \in Writing /\ info'[c] = info[c]
                             /\ rcvd'[c] = rcvd[c] /\ out'[c] = out[c]
    /\ spc'[c] = "recv" => spc[c] = "recv"

LEMMA StillIntact ==
    ASSUME Inv, FunctionTypes', UNCHANGED <<disk, shared>>, \A c \in Clients : Still(c)
    PROVE  Creators' /\ Alone' /\ FileIntact'
<1>1. \A c \in Clients : info[c].name \in Names /\ info'[c].name \in Names
  BY DEF Inv, AllGood, FunctionTypes
<1>2. Creators'
  BY DEF Inv, Creators, Still, Writing
<1>3. ASSUME NEW c \in Clients, Owns(c)'
      PROVE  spc[c] \in Writing /\ info'[c] = info[c] /\ rcvd'[c] = rcvd[c] /\ out'[c] = out[c] /\ Owns(c)
  <2>1. c \in disk[info'[c].name].by /\ info'[c].name \in Names
    BY <1>1, <1>3 DEF Owns
  <2>2. spc[c] \in Writing
    BY <2>1 DEF Inv, Creators, Writing
  <2>3. QED
    BY <1>3, <2>2 DEF Still, Owns
<1>4. Alone'
  BY <1>3 DEF Inv, Alone, Still, Writing
<1>5. FileIntact'
  BY <1>3 DEF Inv, FileIntact, Writing
<1>6. QED
  BY <1>2, <1>4, <1>5

LEMMA CreateIntact ==
    ASSUME Inv, NEW c \in Clients, Create(c)
    PROVE  Creators' /\ Alone' /\ FileIntact'
<1>1. PICK n \in Names : n = info[c].name
  BY At DEF Inv, AllGood
<1>2. /\ spc[c] = "create" /\ out[c] = 0 /\ FunctionTypes
      /\ UNCHANGED <<info, out>>
      /\ spc' = [spc EXCEPT ![c] = "recv"] /\ rcvd' = [rcvd EXCEPT ![c] = 0]
      /\ disk' = [disk EXCEPT ![n] = [by |-> {c}, data |-> <<>>]]
      /\ \A d \in Clients : shared'[d] <=> shared[d] \/ d \in Writers(n) \/ (d = c /\ Writers(n) # {})
  <2>1. /\ spc[c] = "create" /\ out[c] = 0 /\ FunctionTypes
    BY DEF Inv, AllGood, Good, Counts, Create
  <2>2. QED
    BY <1>1, <2>1 DEF Create, Truncated, client
<1>3. /\ \A x \in Clients : spc'[x] = IF x = c THEN "recv" ELSE spc[x]
      /\ \A x \in Clients : x # c => rcvd'[x] = rcvd[x]
      /\ rcvd'[c] = 0
      /\ disk'[n].by = {c} /\ disk'[n].data = <<>>
      /\ \A m \in Names : m # n => disk'[m] = disk[m]
      /\ \A x \in Clients : info[x].name \in Names
  BY <1>1, <1>2 DEF FunctionTypes
<1>4. Creators'
  BY <1>1, <1>2, <1>3 DEF Inv, Creators
<1>5. ASSUME NEW x \in Clients, Owns(x)', info[x].name # n
      PROVE  Owns(x) /\ x # c
  BY <1>1, <1>2, <1>3, <1>5 DEF Owns
<1>6. ASSUME NEW x \in Clients, Owns(x)', info[x].name = n
      PROVE  x = c /\ Writers(n) = {}
  BY <1>1, <1>2, <1>3, <1>6 DEF Owns
<1>7. Alone'
  <2> SUFFICES ASSUME NEW x \in Clients, NEW d \in Clients,
                      Owns(x)', spc'[d] = "recv", info[d].name = info[x].name
               PROVE  d = x
    BY <1>2 DEF Alone
  <2>1. CASE info[x].name = n
    BY <1>3, <1>6, <2>1 DEF Writers
  <2>2. CASE info[x].name # n
    BY <1>1, <1>3, <1>5, <2>2 DEF Inv, Alone
  <2>3. QED
    BY <2>1, <2>2
<1>8. FileIntact'
  <2> SUFFICES ASSUME NEW x \in Clients, Owns(x)', spc'[x] \in Writing, out[x] = rcvd'[x]
               PROVE  disk'[info[x].name].data = Units(Data, 0, out[x])
    BY <1>2 DEF FileIntact, Writing
  <2>1. CASE info[x].name = n
    <3>1. 0 \in Nat /\ 0 <= MaxSize
      BY BoundsAssumption
    <3>2. Datas(0, 0) = <<>>
      BY <3>1, DatasRun, EmptySeq
    <3>3. QED
      BY <1>1, <1>2, <1>3, <1>6, <2>1, <3>2, UnitsAre
  <2>2. CASE info[x].name # n
    BY <1>1, <1>3, <1>5, <2>2 DEF Inv, FileIntact, Writing
  <2>3. QED
    BY <2>1, <2>2
<1>9. QED
  BY <1>4, <1>7, <1>8

\* Units written at the end of a file that holds the units before.
LEMMA WrittenAtEnd ==
    ASSUME NEW at \in Nat, NEW w \in Nat, at + w <= MaxSize, NEW units \in Seq(Unit), Len(units) = w,
           \A i \in 1 .. w : units[i] = [kind |-> "data", n |-> at + i - 1]
    PROVE  Written(Datas(0, at), at, units) = Datas(0, at + w)
<1> DEFINE old == Datas(0, at)
<1>1. MaxSize \in Nat /\ at <= MaxSize /\ 0 <= at /\ 0 \in Nat
  BY BoundsAssumption
<1>2. Len(old) = at /\ Run(old, "data", 0)
  BY <1>1, DatasRun
<1> HIDE DEF old
<1>3. (IF Len(old) < at + Len(units) THEN at + Len(units) ELSE Len(old)) = at + w
  BY <1>2
<1>4. ASSUME NEW i \in 1 .. at + w
      PROVE  (IF i > at /\ i <= at + Len(units) THEN units[i - at]
              ELSE IF i <= Len(old) THEN old[i] ELSE Hole) = [kind |-> "data", n |-> 0 + i - 1]
  <2>1. CASE i > at
    <3>1. i - at \in 1 .. w /\ at + (i - at) - 1 = 0 + i - 1
      BY <2>1
    <3>2. QED
      BY <2>1, <3>1
  <2>2. CASE ~(i > at)
    <3>1. i \in 1 .. Len(old)
      BY <1>2, <2>2
    <3>2. QED
      BY <1>2, <2>2, <3>1 DEF Run
  <2>3. QED
    BY <2>1, <2>2
<1>5. Written(old, at, units) = [i \in 1 .. at + w |-> [kind |-> "data", n |-> 0 + i - 1]]
  BY <1>3, <1>4 DEF Written
<1>6. at + w - 0 = at + w
  OBVIOUS
<1>7. QED
  BY <1>5, <1>6 DEF Datas, old

LEMMA RecvDataIntact ==
    ASSUME Inv, NEW c \in Clients, RecvData(c)
    PROVE  Creators' /\ Alone' /\ FileIntact'
<1>1. PICK n \in Names : n = info[c].name
  BY At DEF Inv, AllGood
<1>2. PICK k, w \in Nat : DataMoved(c, k, w)
  BY DataStep DEF Inv
<1>3. /\ rcvd' = [rcvd EXCEPT ![c] = rcvd[c] + k]
      /\ disk' = [disk EXCEPT ![info[c].name].data = Written(@, out[c], SubSeq(up[c], 1, w))]
      /\ out' = [out EXCEPT ![c] = out[c] + w]
      /\ rcvd[c] + k <= info[c].size
      /\ w <= k
      /\ SubSeq(up[c], 1, w) \in Seq(Unit) /\ Len(SubSeq(up[c], 1, w)) = w
      /\ \A i \in 1 .. w : SubSeq(up[c], 1, w)[i] = [kind |-> "data", n |-> rcvd[c] + i - 1]
  BY <1>2 DEF DataMoved
<1>4. /\ FunctionTypes /\ spc[c] = "recv" /\ UNCHANGED <<spc, info, shared>>
      /\ rcvd[c] \in Nat /\ out[c] \in Nat /\ out[c] <= rcvd[c]
      /\ info[c].size \in Nat /\ info[c].size <= MaxSize /\ MaxSize \in Nat
  <2>1. FunctionTypes /\ Good(c)
    BY DEF Inv, AllGood
  <2>2. QED
    BY <2>1, At DEF RecvData, client, Good, Counts
<1> DEFINE y == Written(disk[n].data, out[c], SubSeq(up[c], 1, w))
<1>5. /\ \A x \in Clients : x # c => rcvd'[x] = rcvd[x] /\ out'[x] = out[x]
      /\ rcvd'[c] = rcvd[c] + k /\ out'[c] = out[c] + w
      /\ \A x \in Clients : info[x].name \in Names
  BY <1>3, <1>4 DEF FunctionTypes
<1>6. /\ \A m \in Names : disk'[m].by = disk[m].by
      /\ \A m \in Names : m # n => disk'[m] = disk[m]
      /\ disk'[n].data = y
  <2>1. disk \in [Names -> [by : SUBSET Clients, data : Seq(Unit \cup {Hole})]]
    BY <1>4 DEF FunctionTypes
  <2>2. disk' = [disk EXCEPT ![n].data = y]
    BY <1>1, <1>3
  <2> HIDE DEF y
  <2>3. QED
    BY <2>1, <2>2
<1>7. Creators'
  BY <1>4, <1>6 DEF Inv, Creators
<1>8. \A x \in Clients : Owns(x)' <=> Owns(x)
  BY <1>4, <1>5, <1>6 DEF Owns
<1>9. Alone'
  BY <1>4, <1>8 DEF Inv, Alone
<1>10. FileIntact'
  <2> SUFFICES ASSUME NEW x \in Clients, Owns(x), spc[x] \in Writing, out'[x] = rcvd'[x]
               PROVE  disk'[info[x].name].data = Units(Data, 0, out'[x])
    BY <1>4, <1>8 DEF FileIntact, Writing
  <2>1. CASE x # c
    <3>1. info[x].name # n
      BY <1>1, <1>4, <2>1 DEF Inv, Alone
    <3>2. QED
      BY <1>5, <1>6, <2>1, <3>1 DEF Inv, FileIntact, Writing
  <2>2. CASE x = c
    <3>1. out[c] = rcvd[c] /\ w = k /\ out[c] + w <= MaxSize
      BY <1>3, <1>4, <1>5, <2>2
    <3>2. disk[n].data = Datas(0, out[c])
      BY <1>1, <1>4, <2>2, <3>1, UnitsAre DEF Inv, FileIntact
    <3>3. y = Datas(0, out[c] + w)
      <4> DEFINE units == SubSeq(up[c], 1, w)
      <4>1. /\ units \in Seq(Unit) /\ Len(units) = w
            /\ \A i \in 1 .. w : units[i] = [kind |-> "data", n |-> out[c] + i - 1]
        BY <1>3, <3>1
      <4>2. y = Written(Datas(0, out[c]), out[c], units)
        BY <3>2
      <4> HIDE DEF units, y
      <4>3. QED
        BY <1>4, <3>1, <4>1, <4>2, WrittenAtEnd
    <3>4. QED
      BY <1>1, <1>5, <1>6, <2>2, <3>3, UnitsAre
  <2>3. QED
    BY <2>1, <2>2
<1>11. QED
  BY <1>7, <1>9, <1>10

LEMMA ClientStill ==
    ASSUME Inv, NEW c \in Clients, Client(c)
    PROVE  UNCHANGED <<disk, shared>> /\ \A x \in Clients : Still(x)
<1>1. FunctionTypes /\ Good(c)
  BY DEF Inv, AllGood
<1>2. UNCHANGED <<spc, rcvd, out, disk, shared>>
  BY DEF Client, Connect, Stat, SendSome, SendFails, Reply, NoReply, Open, Read, ReadFails, child
<1>3. CASE Stat(c)
  <2>1. spc[c] \notin Writing
    BY <1>1, <1>3 DEF Stat, Good, Ends, Early, Writing
  <2>2. \A x \in Clients : x # c => info'[x] = info[x]
    BY <1>1, <1>3 DEF Stat, FunctionTypes
  <2>3. QED
    BY <1>2, <2>1, <2>2 DEF Still
<1>4. CASE ~Stat(c)
  <2>1. UNCHANGED info
    BY <1>4 DEF Client, Connect, SendSome, SendFails, Reply, NoReply, Open, Read, ReadFails
  <2>2. QED
    BY <1>2, <2>1 DEF Still
<1>5. QED
  BY <1>3, <1>4

LEMMA ChildStill ==
    ASSUME Inv, NEW c \in Clients, Child(c), ~Create(c), ~RecvData(c)
    PROVE  UNCHANGED <<disk, shared>> /\ \A x \in Clients : Still(x)
<1>1. FunctionTypes
  BY DEF Inv, AllGood
<1>2. UNCHANGED <<info, disk, shared, out>>
  BY DEF Child, RecvInfo, SendAck, HandshakeFails, CreateFails, Received, ReceiveFails, client
<1>3. /\ \A x \in Clients : x # c => spc'[x] = spc[x] /\ rcvd'[x] = rcvd[x]
      /\ spc'[c] # "recv" /\ spc[c] # "received" /\ spc[c] # "failed"
      /\ spc[c] = "recv" => spc'[c] \in {"received", "failed"} /\ rcvd' = rcvd
  <2>1. CASE RecvInfo(c)
    BY <1>1, <2>1 DEF RecvInfo, FunctionTypes
  <2>2. CASE SendAck(c)
    BY <1>1, <2>2 DEF SendAck, FunctionTypes
  <2>3. CASE HandshakeFails(c)
    BY <1>1, <2>3 DEF HandshakeFails, ChildExits, FunctionTypes
  <2>4. CASE CreateFails(c)
    BY <1>1, <2>4 DEF CreateFails, ChildExits, FunctionTypes
  <2>5. CASE Received(c)
    BY <1>1, <2>5 DEF Received, ChildExits, FunctionTypes
  <2>6. CASE ReceiveFails(c)
    BY <1>1, <2>6 DEF ReceiveFails, ChildExits, FunctionTypes
  <2>7. QED
    BY <2>1, <2>2, <2>3, <2>4, <2>5, <2>6 DEF Child
<1>4. QED
  BY <1>2, <1>3 DEF Still, Writing

LEMMA ParentStill ==
    ASSUME Inv, Accept \/ ForkFails \/ AcceptFails
    PROVE  UNCHANGED <<disk, shared>> /\ \A x \in Clients : Still(x)
<1>1. FunctionTypes
  BY DEF Inv, AllGood
<1>2. UNCHANGED <<info, disk, shared, rcvd, out>>
  BY DEF Accept, ForkFails, AcceptFails, client
<1>3. CASE AcceptFails
  BY <1>2, <1>3 DEF AcceptFails, Still
<1>4. CASE Accept \/ ForkFails
  <2>1. backlog \in Seq(Clients) /\ IsInjective(backlog) /\ backlog # <<>>
    BY <1>1, <1>4 DEF Accept, ForkFails, FunctionTypes
  <2>2. Head(backlog) \in Clients /\ Queued(Head(backlog))
    BY <2>1, QueueTail DEF Queued
  <2>3. spc[Head(backlog)] = "none"
    BY <2>2 DEF Inv, AllGood, Good, Ends
  <2>4. \A x \in Clients : spc'[x] = spc[x] \/ (spc[x] = "none" /\ spc'[x] \in {"info", "leaked"})
    BY <1>1, <1>4, <2>2, <2>3 DEF Accept, ForkFails, FunctionTypes
  <2>5. QED
    BY <1>2, <2>4 DEF Still, Writing
<1>5. QED
  BY <1>3, <1>4

LEMMA NextInv == Inv /\ [Next]_vars => Inv'
<1> SUFFICES ASSUME Inv, [Next]_vars PROVE Inv'
  OBVIOUS
<1>0. Copies'
  BY NextCopies DEF Inv
<1>1. CASE Accept \/ ForkFails \/ AcceptFails
  <2>1. AllGood'
    BY <1>1, ParentGood DEF Inv
  <2>2. QED
    BY <1>0, <1>1, <2>1, ParentStill, StillIntact DEF Inv, AllGood
<1>2. ASSUME NEW c \in Clients, Client(c) PROVE Inv'
  <2>1. AllGood'
    BY <1>2, ClientGood DEF Inv
  <2>2. QED
    BY <1>0, <1>2, <2>1, ClientStill, StillIntact DEF Inv, AllGood
<1>3. ASSUME NEW c \in Clients, Child(c) PROVE Inv'
  <2>1. AllGood'
    BY <1>3, ChildGood DEF Inv
  <2>2. CASE Create(c)
    BY <1>0, <2>1, <2>2, CreateIntact DEF Inv
  <2>3. CASE RecvData(c)
    BY <1>0, <2>1, <2>3, RecvDataIntact DEF Inv
  <2>4. CASE ~Create(c) /\ ~RecvData(c)
    BY <1>0, <1>3, <2>1, <2>4, ChildStill, StillIntact DEF Inv, AllGood
  <2>5. QED
    BY <2>2, <2>3, <2>4
<1>4. ASSUME NEW c \in Clients, Edit(c) PROVE Inv'
  <2>1. AllGood'
    BY <1>4, EditGood DEF Inv
  <2>2. UNCHANGED <<disk, shared>> /\ \A x \in Clients : Still(x)
    BY <1>4 DEF Edit, Still, client, child
  <2>3. QED
    BY <1>0, <2>1, <2>2, StillIntact DEF Inv, AllGood
<1>5. CASE UNCHANGED vars
  <2>1. UNCHANGED <<file, edits, faults, cpc, info, todo, pos, cend, up, down, parent, backlog,
                    spc, sock, rcvd, ack, out, shared, disk>>
    BY <1>5 DEF vars, client, child
  <2>2. FunctionTypes'
    BY <2>1 DEF Inv, AllGood, FunctionTypes
  <2>3. \A x \in Clients : Good(x)'
    BY <2>1, UntouchedGood DEF Inv, AllGood, Untouched, Queued, In, NoFaults, NoEdits
  <2>4. \A x \in Clients : Still(x)
    BY <2>1 DEF Still
  <2>5. QED
    BY <1>0, <2>1, <2>2, <2>3, <2>4, StillIntact DEF Inv, AllGood
<1>6. QED
  BY <1>1, <1>2, <1>3, <1>4, <1>5 DEF Next

LEMMA InitInv == Init => Inv
<1> SUFFICES ASSUME Init PROVE Inv
  OBVIOUS
<1>1. AllGood
  BY InitGood
<1>2. /\ \A c \in Clients : spc[c] = "none" /\ info[c].name \in Names
      /\ \A n \in Names : disk[n].by = {}
  BY DEF Init, Names
<1>3. Creators /\ Alone /\ FileIntact
  BY <1>2 DEF Creators, Alone, FileIntact, Owns
<1>4. Copies
  BY DEF Init, Copies, Leaked, LeakedOpen
<1>5. QED
  BY <1>1, <1>3, <1>4 DEF Inv

LEMMA InvHolds == Spec => []Inv
  BY InitInv, NextInv, PTL DEF Spec

-----------------------------------------------------------------------------
(* Who waits, and for whom. *)

\* Once the client waits for "OK" all of the file_Info is under way or received,
\* and once the child has sent "OK" it is there; and who has no child is in the
\* queue of a server that runs.
Ready(c) ==
    /\ cpc[c] = "reply" =>
         /\ sock[c] = "open" /\ spc[c] \in Early => rcvd[c] + Len(up[c]) = InfoSize
         /\ ack[c] = <<>> => down[c] = OK
    /\ spc[c] = "none" /\ sock[c] = "open" /\ cpc[c] \notin {"connect", "sent", "failed"} =>
         Queued(c) /\ parent = "accept"

LEMMA ReadyKept ==
    ASSUME NEW x \in Clients, Ready(x),
           cpc'[x] = cpc[x], ack'[x] = ack[x], down'[x] = down[x], up'[x] = up[x], rcvd'[x] = rcvd[x],
           sock'[x] = "open" => sock[x] = "open",
           spc'[x] \in Early => spc[x] \in Early,
           spc'[x] = "none" => spc[x] = "none",
           spc'[x] = "none" /\ sock'[x] = "open" /\ Queued(x) /\ parent = "accept" =>
              Queued(x)' /\ parent' = "accept"
    PROVE  Ready(x)'
  BY DEF Ready

LEMMA ClientReady ==
    ASSUME AllGood, \A x \in Clients : Ready(x), NEW c \in Clients, Client(c)
    PROVE  \A x \in Clients : Ready(x)'
<1>1. FunctionTypes /\ Good(c) /\ Ready(c) /\ UNCHANGED <<spc, sock, rcvd, ack, parent>>
  BY DEF AllGood, Client, Connect, Stat, SendSome, SendFails, Reply, NoReply, Open, Read, ReadFails, child
<1>2. \A x \in Clients : x # c => cpc'[x] = cpc[x] /\ down'[x] = down[x] /\ up'[x] = up[x]
  BY <1>1 DEF Client, Connect, Stat, SendSome, SendFails, Reply, NoReply, Open, Read, ReadFails,
              Goto, ClientReturns, FunctionTypes
<1>3. \A x \in Clients : Queued(x) => Queued(x)'
  <2>1. CASE backlog' = backlog
    BY <2>1 DEF Queued, In
  <2>2. CASE backlog' # backlog
    <3>1. cpc[c] = "connect" /\ backlog' = Append(backlog, c)
      BY <2>2 DEF Client, Connect, Stat, SendSome, SendFails, Reply, NoReply, Open, Read, ReadFails
    <3>2. backlog \in Seq(Clients) /\ IsInjective(backlog) /\ ~In(c, backlog)
      BY <1>1, <3>1 DEF FunctionTypes, Good, Ends, Queued
    <3>3. QED
      BY <3>1, <3>2, QueueAppend DEF Queued
  <2>3. QED
    BY <2>1, <2>2
<1>4. ASSUME NEW x \in Clients, x # c PROVE Ready(x)'
  BY <1>1, <1>2, <1>3, <1>4, ReadyKept
<1>5. Ready(c)'
  <2>1. cpc'[c] = "reply" =>
          /\ sock'[c] = "open" /\ spc'[c] \in Early => rcvd'[c] + Len(up'[c]) = InfoSize
          /\ ack'[c] = <<>> => down'[c] = OK
    <3> SUFFICES ASSUME cpc'[c] = "reply"
                 PROVE  /\ sock[c] = "open" /\ spc[c] \in Early => rcvd[c] + Len(up'[c]) = InfoSize
                        /\ ack[c] # <<>>
      BY <1>1
    <3>1. cpc[c] = "send_info" /\ ((SendSome(c) /\ todo'[c] = <<>>) \/ (SendFails(c) /\ sock[c] # "open"))
      <4>1. \A label : Goto(c, label) => cpc'[c] = label
        BY <1>1 DEF Goto, FunctionTypes
      <4>2. CASE SendSome(c)
        <5>1. AfterSend["send_info"] = "reply" /\ AfterSend["send"] = "read"
          BY DEF AfterSend
        <5>2. cpc[c] \in Sending /\ cpc'[c] = IF todo'[c] = <<>> THEN AfterSend[cpc[c]] ELSE cpc[c]
          BY <4>1, <4>2 DEF SendSome
        <5>3. QED
          BY <4>2, <5>1, <5>2 DEF Sending
      <4>3. CASE ~SendSome(c)
        <5>1. SendFails(c)
          BY <4>1, <4>3 DEF Client, Connect, Stat, Reply, NoReply, Open, Read, ReadFails, ClientReturns
        <5>2. QED
          BY <4>1, <5>1 DEF SendFails, ClientReturns
      <4>4. QED
        BY <4>2, <4>3
    <3>2. ack[c] # <<>>
      <4>1. spc[c] \in Early
        BY <1>1, <3>1 DEF Good, Ends
      <4>2. QED
        BY <1>1, <4>1 DEF Good, Answer, OK
    <3>3. ASSUME sock[c] = "open", spc[c] \in Early PROVE rcvd[c] + Len(up'[c]) = InfoSize
      <4>1. PICK k \in 1 .. Len(todo[c]) :
               /\ up' = [up EXCEPT ![c] = up[c] \o SubSeq(todo[c], 1, k)]
               /\ todo' = [todo EXCEPT ![c] = Rest(todo[c], k)]
        BY <3>1, <3>3 DEF SendSome
      <4>2. /\ up[c] \in Seq(Unit) /\ Len(up[c]) \in Nat /\ todo[c] \in Seq(Unit) /\ Len(todo[c]) \in Nat
            /\ rcvd[c] \in Nat /\ Len(<<>>) = 0
        BY <1>1, At
      <4>3. /\ SubSeq(todo[c], 1, k) \in Seq(Unit) /\ Len(SubSeq(todo[c], 1, k)) = k
            /\ Len(Rest(todo[c], k)) = Len(todo[c]) - k /\ k \in Nat
        BY <4>2, Split
      <4>4. Rest(todo[c], k) = <<>> /\ up'[c] = up[c] \o SubSeq(todo[c], 1, k)
        BY <1>1, <3>1, <3>3, <4>1 DEF FunctionTypes
      <4>5. k = Len(todo[c])
        <5>1. Len(Rest(todo[c], k)) = 0
          BY <4>2, <4>4
        <5>2. QED
          BY <4>2, <4>3, <5>1
      <4>6. Len(up'[c]) = Len(up[c]) + Len(todo[c])
        <5>1. Len(up[c] \o SubSeq(todo[c], 1, k)) = Len(up[c]) + k
          BY <4>2, <4>3, ConcatProperties
        <5>2. QED
          BY <4>4, <4>5, <5>1
      <4>7. rcvd[c] + Len(up[c]) + Len(todo[c]) = InfoSize
        BY <1>1, <3>1, <3>3 DEF Good, Stream
      <4>8. QED
        <5> DEFINE b == rcvd[c]
                   u == Len(up[c])
                   t == Len(todo[c])
                   v == Len(up'[c])
        <5>1. b \in Nat /\ u \in Nat /\ t \in Nat /\ v = u + t /\ b + u + t = InfoSize
          BY <4>2, <4>6, <4>7
        <5> HIDE DEF b, u, t, v
        <5>2. b + v = InfoSize
          BY <5>1
        <5>3. QED
          BY <5>2 DEF b, v
    <3>4. QED
      BY <3>2, <3>3
  <2>2. spc'[c] = "none" /\ sock'[c] = "open" /\ cpc'[c] \notin {"connect", "sent", "failed"} =>
           Queued(c)' /\ parent' = "accept"
    <3>1. CASE Connect(c)
      <4>1. cpc'[c] # "failed" => parent = "accept" /\ backlog' = Append(backlog, c)
        BY <1>1, <3>1 DEF Connect, Goto, ClientReturns, FunctionTypes
      <4>2. backlog \in Seq(Clients) /\ IsInjective(backlog) /\ ~In(c, backlog)
        BY <1>1, <3>1 DEF FunctionTypes, Good, Ends, Queued, Connect
      <4>3. QED
        BY <1>1, <4>1, <4>2, QueueAppend DEF Queued
    <3>2. CASE ~Connect(c)
      <4>1. cpc[c] \notin {"connect", "sent", "failed"}
        BY <3>2 DEF Client, Stat, SendSome, SendFails, Reply, NoReply, Open, Read, ReadFails, Sending
      <4>2. QED
        BY <1>1, <1>3, <4>1 DEF Ready
    <3>3. QED
      BY <3>1, <3>2
  <2>3. QED
    BY <2>1, <2>2 DEF Ready
<1>6. QED
  BY <1>4, <1>5

LEMMA ParentReady ==
    ASSUME AllGood, \A x \in Clients : Ready(x), Accept \/ ForkFails \/ AcceptFails
    PROVE  \A x \in Clients : Ready(x)'
<1> SUFFICES ASSUME NEW x \in Clients PROVE Ready(x)'
  OBVIOUS
<1>1. /\ FunctionTypes /\ Good(x) /\ Ready(x)
      /\ UNCHANGED <<cpc, ack, down, up, rcvd>>
  BY DEF AllGood, Accept, ForkFails, AcceptFails, client
<1>2. CASE Accept \/ ForkFails
  <2>1. PICK h \in Clients : /\ h = Head(backlog) /\ Queued(h)
                             /\ \A y \in Clients : Queued(y)' <=> Queued(y) /\ y # h
    <3>1. backlog \in Seq(Clients) /\ IsInjective(backlog) /\ backlog # <<>> /\ backlog' = Tail(backlog)
      BY <1>1, <1>2 DEF Accept, ForkFails, FunctionTypes
    <3>2. QED
      BY <3>1, QueueTail DEF Queued
  <2>2. spc[h] = "none" /\ UNCHANGED <<sock, parent>> /\ parent = "accept"
    BY <1>2, <2>1 DEF AllGood, Good, Ends, Accept, ForkFails
  <2>3. spc'[h] \in {"info", "leaked"} /\ \A y \in Clients : y # h => spc'[y] = spc[y]
    BY <1>1, <1>2, <2>1 DEF Accept, ForkFails, FunctionTypes
  <2>4. spc'[x] \in Early => spc[x] \in Early
    BY <2>2, <2>3 DEF Early
  <2>5. spc'[x] = "none" => x # h /\ spc[x] = "none"
    BY <2>3
  <2>6. QED
    BY <1>1, <2>1, <2>2, <2>4, <2>5, ReadyKept
<1>3. CASE AcceptFails
  <2>1. \A y \in Clients : y \in ToSet(backlog) <=> Queued(y)
    <3>1. DOMAIN backlog = 1 .. Len(backlog)
      BY <1>1, LenProperties DEF FunctionTypes
    <3>2. QED
      BY <3>1 DEF ToSet, Queued, In
  <2>2. UNCHANGED spc /\ (Queued(x) => sock'[x] = "reset")
    <3>1. Queued(x) => x \in ToSet(backlog) /\ x \notin Leaked
      BY <1>1, <2>1 DEF Good, Ends, Leaked
    <3>2. QED
      BY <1>3, <3>1 DEF AcceptFails
  <2>3. sock'[x] = "open" => sock[x] = "open"
    <3>1. sock'[x] \in {"reset", Closed(up[x]), sock[x]}
      BY <1>3 DEF AcceptFails
    <3>2. QED
      BY <3>1 DEF Closed
  <2>4. QED
    BY <1>1, <2>2, <2>3, ReadyKept
<1>4. QED
  BY <1>2, <1>3

LEMMA ChildReady ==
    ASSUME AllGood, Copies, \A x \in Clients : Ready(x), NEW c \in Clients, Child(c)
    PROVE  \A x \in Clients : Ready(x)'
<1>1. /\ FunctionTypes /\ Good(c) /\ Ready(c) /\ spc[c] \in Running /\ UNCHANGED <<cpc, cend, parent, backlog>>
  BY DEF AllGood, Child, RecvInfo, SendAck, HandshakeFails, Create, CreateFails, RecvData, Received,
         ReceiveFails, Running, client
<1>2. \A x \in Clients : x # c => /\ spc'[x] = spc[x] /\ ack'[x] = ack[x] /\ down'[x] = down[x]
                                  /\ up'[x] = up[x] /\ rcvd'[x] = rcvd[x]
  <2>1. CASE RecvInfo(c)
    BY <1>1, <2>1 DEF RecvInfo, FunctionTypes
  <2>2. CASE SendAck(c)
    BY <1>1, <2>2 DEF SendAck, FunctionTypes
  <2>3. CASE RecvData(c)
    BY <1>1, <2>3 DEF RecvData, FunctionTypes
  <2>4. CASE ReceiveFails(c)
    BY <1>1, <2>4 DEF ReceiveFails, ChildExits, FunctionTypes
  <2>5. CASE HandshakeFails(c) \/ Create(c) \/ CreateFails(c) \/ Received(c)
    BY <1>1, <2>5 DEF HandshakeFails, Create, CreateFails, Received, ChildExits, FunctionTypes
  <2>6. QED
    BY <2>1, <2>2, <2>3, <2>4, <2>5 DEF Child
<1>3. \A x \in Clients : sock'[x] = "open" => sock[x] = "open"
  BY <1>1 DEF Child, RecvInfo, SendAck, HandshakeFails, Create, CreateFails, RecvData, Received,
         ReceiveFails, ChildExits, FunctionTypes, Closed, Good, Ends, Running
<1>4. ASSUME NEW x \in Clients, x # c PROVE Ready(x)'
  BY <1>1, <1>2, <1>3, <1>4, ReadyKept DEF Queued, In
<1>5. spc'[c] # "none"
  BY <1>1 DEF Child, RecvInfo, SendAck, HandshakeFails, Create, CreateFails, RecvData, Received,
         ReceiveFails, ChildExits, FunctionTypes, Running
<1>6. ASSUME cpc[c] = "reply", sock'[c] = "open", spc'[c] \in Early
      PROVE  rcvd'[c] + Len(up'[c]) = InfoSize
  <2>1. RecvInfo(c) /\ spc[c] = "info"
    BY <1>1, <1>6 DEF Child, RecvInfo, SendAck, HandshakeFails, Create, CreateFails, RecvData, Received,
         ReceiveFails, ChildExits, FunctionTypes, Early, Closed
  <2>2. up[c] \in Seq(Unit) /\ Len(up[c]) \in Nat /\ rcvd[c] \in Nat /\ InfoSize \in Nat /\ rcvd[c] < InfoSize
    BY <1>1, <2>1, At DEF Good, Counts
  <2>3. PICK k \in Receivable(up[c], InfoSize - rcvd[c]) :
           up' = [up EXCEPT ![c] = Rest(up[c], k)] /\ rcvd' = [rcvd EXCEPT ![c] = rcvd[c] + k]
    BY <2>1 DEF RecvInfo, StructSize
  <2>4. InfoSize - rcvd[c] \in Nat
    BY <2>2
  <2>5. k \in Nat /\ Len(Rest(up[c], k)) = Len(up[c]) - k
    BY <2>2, <2>3, <2>4, RecvSplit
  <2>6. up'[c] = Rest(up[c], k) /\ rcvd'[c] = rcvd[c] + k
    BY <1>1, <2>3 DEF FunctionTypes
  <2>7. rcvd[c] + Len(up[c]) = InfoSize
    BY <1>1, <1>3, <1>6, <2>1 DEF Ready, Early
  <2>8. QED
    BY <2>2, <2>5, <2>6, <2>7
<1>7. ASSUME cpc[c] = "reply", ack'[c] = <<>> PROVE down'[c] = OK
  <2>1. CASE SendAck(c)
    <3>1. cend[c] = "open"
      BY <1>1, <1>7 DEF Good, Ends
    <3>2. PICK k \in 1 .. Len(ack[c]) : /\ down' = [down EXCEPT ![c] = down[c] \o SubSeq(ack[c], 1, k)]
                                        /\ ack' = [ack EXCEPT ![c] = Rest(ack[c], k)]
      BY <2>1, <3>1 DEF SendAck
    <3>3. ack[c] # <<>> /\ Answer(c)
      BY <1>1, <2>1 DEF Good, Answer, SendAck
    <3>4. ack'[c] = Rest(ack[c], k) /\ down'[c] = down[c] \o SubSeq(ack[c], 1, k)
      BY <1>1, <3>2 DEF FunctionTypes
    <3>5. <<>> # <<"K">>
      OBVIOUS
    <3>6. QED
      BY <1>1, <1>7, <3>1, <3>3, <3>4, <3>5, AnswerSent
  <2>2. CASE ~SendAck(c)
    <3>1. ack'[c] = ack[c] /\ down'[c] = down[c]
      BY <1>1, <2>2 DEF Child, RecvInfo, HandshakeFails, Create, CreateFails, RecvData, Received, ReceiveFails
    <3>2. QED
      BY <1>1, <1>7, <3>1 DEF Ready
  <2>3. QED
    BY <2>1, <2>2
<1>8. Ready(c)'
  BY <1>1, <1>5, <1>6, <1>7 DEF Ready
<1>9. QED
  BY <1>4, <1>8

LEMMA NextReady ==
    ASSUME Inv, \A x \in Clients : Ready(x), [Next]_vars
    PROVE  \A x \in Clients : Ready(x)'
<1>1. ASSUME NEW c \in Clients, Edit(c) PROVE \A x \in Clients : Ready(x)'
  BY <1>1, ReadyKept DEF Edit, client, child, Queued, In
<1>2. CASE UNCHANGED vars
  BY <1>2, ReadyKept DEF vars, client, child, Queued, In
<1>3. QED
  BY <1>1, <1>2, ClientReady, ParentReady, ChildReady DEF Next, Inv

LEMMA ReadyHolds == Spec => [](\A x \in Clients : Ready(x))
<1>1. Init => \A x \in Clients : Ready(x)
  BY DEF Init, Ready
<1>2. Inv /\ (\A x \in Clients : Ready(x)) /\ [Next]_vars => (\A x \in Clients : Ready(x))'
  BY NextReady
<1>3. QED
  BY <1>1, <1>2, InvHolds, PTL DEF Spec

LEMMA NobodyStuck == Inv /\ (\A x \in Clients : Ready(x)) => \A c \in Clients : NoStandoff(c)
<1> SUFFICES ASSUME Inv, NEW c \in Clients, Ready(c), ClientWaits(c)
             PROVE  \/ spc[c] \in Running /\ ~ChildWaits(c)
                    \/ c \in ToSet(backlog) /\ parent = "accept"
                    \/ spc[c] = "leaked" /\ (parent = "accept" \/ Holders(c) # {})
  BY DEF NoStandoff
<1>1. /\ FunctionTypes /\ Good(c) /\ sock[c] = "open" /\ spc[c] \in ChildLabels
      /\ cpc[c] \in {"reply", "send_info", "send"}
      /\ cpc[c] = "reply" => down[c] = <<>>
      /\ cpc[c] # "reply" => Len(up[c]) = SockBuf
  BY DEF Inv, AllGood, FunctionTypes, ClientWaits, Sending
<1>2. CASE spc[c] = "none"
  <2>1. Queued(c) /\ parent = "accept"
    BY <1>1, <1>2 DEF Ready
  <2>2. DOMAIN backlog = 1 .. Len(backlog)
    BY <1>1, LenProperties DEF FunctionTypes
  <2>3. QED
    BY <2>1, <2>2 DEF ToSet, Queued, In
<1>3. CASE spc[c] = "leaked"
  BY <1>1, <1>3 DEF Inv, Copies, LeakedOpen, Leaked
<1>4. CASE spc[c] \in Running
  <2>1. /\ Len(up[c]) \in Nat /\ rcvd[c] \in Nat /\ Len(<<>>) = 0
        /\ SockBuf \in Nat \ {0} /\ InfoSize \in Nat
    BY <1>1, At
  <2>2. spc[c] = "info" => up[c] # <<>>
    <3>1. CASE cpc[c] = "reply"
      <4>1. spc[c] = "info" => rcvd[c] + Len(up[c]) = InfoSize /\ rcvd[c] < InfoSize
        BY <1>1, <3>1 DEF Ready, Early, Good, Counts
      <4>2. spc[c] = "info" => Len(up[c]) # 0
        BY <2>1, <4>1
      <4>3. QED
        BY <2>1, <4>2
    <3>2. CASE cpc[c] # "reply"
      BY <1>1, <2>1, <3>2
    <3>3. QED
      BY <3>1, <3>2
  <2>3. spc[c] = "ack" => Len(down[c]) # SockBuf
    <3>1. spc[c] = "ack" => cpc[c] = "reply"
      BY <1>1 DEF Good, Ends, Stream, Early
    <3>2. QED
      BY <1>1, <2>1, <3>1
  <2>4. spc[c] = "recv" => up[c] # <<>>
    <3>1. spc[c] = "recv" => cpc[c] = "send"
      <4>1. spc[c] = "recv" => ack[c] = <<>>
        BY <1>1 DEF Good, Answer
      <4>2. <<>> # OK
        BY DEF OK
      <4>3. spc[c] = "recv" => cpc[c] # "reply"
        BY <1>1, <4>1, <4>2 DEF Ready
      <4>4. QED
        BY <1>1, <4>3 DEF Good, Ends, Early
    <3>2. QED
      BY <1>1, <2>1, <3>1
  <2>5. QED
    BY <1>4, <2>2, <2>3, <2>4 DEF ChildWaits
<1>5. CASE spc[c] \in {"received", "failed"}
  BY <1>1, <1>5 DEF Good, Ends
<1>6. QED
  BY <1>1, <1>2, <1>3, <1>4, <1>5 DEF ChildLabels, Running

-----------------------------------------------------------------------------
(* How much is left to do. *)

LEMMA StageIs ==
    /\ Stage["connect"] = InfoSize + 6 /\ Stage["stat"] = InfoSize + 5 /\ Stage["send_info"] = 4
    /\ Stage["reply"] = 3 /\ Stage["open"] = 2 /\ Stage["read"] = 1 /\ Stage["send"] = 1
    /\ Stage["sent"] = 0 /\ Stage["failed"] = 0
  BY DEF Stage

\* A client that goes on to a lower stage, or sends, is nearer to its end.
LEMMA LessLeft ==
    ASSUME NEW m \in Nat, NEW p \in Nat, NEW q \in Nat, NEW t \in Nat, NEW u \in Nat, NEW s \in Nat, NEW r \in Nat,
           p <= q, r + u + 2 * p < s + t + 2 * q
    PROVE  r + 2 * (m - q) + u < s + 2 * (m - p) + t
  OBVIOUS

\* The bounds are natural numbers.
LEMMA LeftNumbers ==
    ASSUME AllGood, NEW x \in Clients
    PROVE  ClientLeft(x) \in Nat /\ ChildLeft(x) \in Nat
<1>1. /\ FunctionTypes /\ Good(x) /\ InfoSize \in Nat /\ MaxSize \in Nat
      /\ pos[x] \in Nat /\ Len(todo[x]) \in Nat /\ rcvd[x] \in Nat
      /\ info[x].size \in Nat /\ info[x].size <= MaxSize
      /\ cpc[x] \in ClientLabels /\ spc[x] \in ChildLabels
  BY At DEF AllGood, FunctionTypes
<1>2. ClientLeft(x) \in Nat
  <2>1. Stage[cpc[x]] \in Nat
    BY <1>1, StageIs DEF ClientLabels, Sending
  <2>2. MaxSize - pos[x] \in Nat
    BY <1>1 DEF FunctionTypes
  <2>3. ClientLeft(x) = Stage[cpc[x]] + 2 * (MaxSize - pos[x]) + Len(todo[x])
    BY DEF ClientLeft
  <2>4. \A i, j, k \in Nat : i + 2 * j + k \in Nat
    OBVIOUS
  <2>5. Len(todo[x]) \in Nat
    BY <1>1
  <2>6. QED
    BY <2>1, <2>2, <2>3, <2>4, <2>5
<1>3. ChildLeft(x) \in Nat
  <2>1. spc[x] = "info" => InfoSize - rcvd[x] \in Nat
    BY <1>1 DEF Good, Counts
  <2>2. spc[x] = "recv" => MaxSize - rcvd[x] \in Nat
    <3>1. spc[x] = "recv" => rcvd[x] <= info[x].size
      BY <1>1 DEF Good, Counts
    <3>2. QED
      BY <1>1, <3>1
  <2>3. Len(ack[x]) \in Nat
    <3>1. ack[x] \in Seq({"O", "K"})
      <4>1. ack[x] \in {<<>>, <<"K">>, OK}
        BY <1>1 DEF FunctionTypes
      <4>2. <<>> \in Seq({"O", "K"}) /\ <<"K">> \in Seq({"O", "K"}) /\ <<"O", "K">> \in Seq({"O", "K"})
        OBVIOUS
      <4>3. QED
        BY <4>1, <4>2 DEF OK
    <3>2. QED
      BY <3>1, LenProperties
  <2>4. CASE spc[x] = "info"
    <3>1. ChildLeft(x) = MaxSize + (InfoSize - rcvd[x]) + 5
      BY <2>4 DEF ChildLeft
    <3>2. QED
      BY <1>1, <2>1, <2>4, <3>1
  <2>5. CASE spc[x] = "recv"
    <3>1. ChildLeft(x) = (MaxSize - rcvd[x]) + 1
      BY <2>5 DEF ChildLeft
    <3>2. QED
      BY <1>1, <2>2, <2>5, <3>1
  <2>6. CASE spc[x] \notin {"info", "recv"}
    <3>1. ChildLeft(x) \in {0, MaxSize + InfoSize + 6, MaxSize + Len(ack[x]) + 3, MaxSize + 2}
      BY <2>6 DEF ChildLeft
    <3>2. QED
      BY <1>1, <2>3, <3>1
  <2>7. QED
    BY <2>4, <2>5, <2>6
<1>4. QED
  BY <1>2, <1>3

LEMMA ClientNearer ==
    ASSUME AllGood, NEW c \in Clients, Client(c)
    PROVE  Nearer
<1> DEFINE s == Stage[cpc[c]]
           r == Stage[cpc'[c]]
           p == pos[c]
           q == pos'[c]
           t == Len(todo[c])
           u == Len(todo'[c])
<1>1. /\ FunctionTypes /\ Good(c) /\ UNCHANGED <<spc, rcvd, ack, edits, parent>>
      /\ edits \in Nat /\ InfoSize \in Nat /\ MaxSize \in Nat /\ ChunkSize \in Nat \ {0}
      /\ p \in Nat /\ t \in Nat /\ file[c] \in Int
  <2>1. FunctionTypes /\ Good(c)
    BY DEF AllGood
  <2>2. UNCHANGED <<spc, rcvd, ack, edits, parent>>
    BY DEF Client, Connect, Stat, SendSome, SendFails, Reply, NoReply, Open, Read, ReadFails, child
  <2>3. QED
    BY <2>1, <2>2, At
<1>2. \A x \in Clients : x # c => cpc'[x] = cpc[x] /\ pos'[x] = pos[x] /\ todo'[x] = todo[x]
  BY <1>1 DEF Client, Connect, Stat, SendSome, SendFails, Reply, NoReply, Open, Read, ReadFails,
              Goto, ClientReturns, FunctionTypes
<1>3. \A label : Goto(c, label) => cpc'[c] = label
  BY <1>1 DEF Goto, FunctionTypes
<1>4. u \in Nat /\ q \in Nat /\ p <= q /\ s \in Nat /\ r \in Nat /\ r + u + 2 * p < s + t + 2 * q
  <2>1. CASE Stat(c)
    <3>1. /\ cpc[c] = "stat" /\ cpc'[c] = "send_info" /\ q = p
          /\ todo'[c] = Infos(0, InfoSize)
      BY <1>1, <1>3, <2>1, UnitsAre DEF Stat, FunctionTypes
    <3>2. u = InfoSize
      BY <1>1, <3>1, InfosRun
    <3>3. s = InfoSize + 5 /\ r = 4
      BY <3>1, StageIs
    <3>4. QED
      BY <1>1, <3>1, <3>2, <3>3
  <2>2. CASE SendSome(c)
    <3>1. PICK k \in 1 .. Len(todo[c]) : todo' = [todo EXCEPT ![c] = Rest(todo[c], k)]
      BY <2>2 DEF SendSome
    <3>2. k \in Nat /\ k >= 1 /\ k <= t /\ u = t - k /\ q = p
      <4>1. todo[c] \in Seq(Unit) /\ todo'[c] = Rest(todo[c], k) /\ q = p
        BY <1>1, <2>2, <3>1 DEF FunctionTypes, SendSome
      <4>2. Len(Rest(todo[c], k)) = Len(todo[c]) - k
        BY <4>1, Split
      <4>3. QED
        BY <1>1, <4>1, <4>2
    <3>3. s \in Nat /\ r \in Nat /\ r <= s
      <4>1. cpc'[c] = cpc[c] \/ cpc'[c] = AfterSend[cpc[c]]
        BY <1>3, <2>2 DEF SendSome
      <4>2. cpc[c] = "send_info" \/ cpc[c] = "send"
        BY <2>2 DEF SendSome, Sending
      <4>3. AfterSend["send_info"] = "reply" /\ AfterSend["send"] = "read"
        BY DEF AfterSend
      <4>4. QED
        BY <4>1, <4>2, <4>3, StageIs
    <3> HIDE DEF s, r, p, q, t, u
    <3>4. QED
      BY <1>1, <3>2, <3>3
  <2>3. CASE Read(c) /\ cpc'[c] = "send"
    <3>1. PICK end : /\ end = IF p + ChunkSize < file[c] THEN p + ChunkSize ELSE file[c]
                     /\ p < file[c]
                     /\ todo' = [todo EXCEPT ![c] = Units(Data, p, end)]
                     /\ pos' = [pos EXCEPT ![c] = end]
      BY <1>3, <2>3 DEF Read, ClientReturns
    <3>2. end \in Nat /\ p < end /\ end <= MaxSize
      <4>1. file[c] <= MaxSize
        BY <1>1, BoundsAssumption DEF FunctionTypes, Absent
      <4>2. QED
        BY <1>1, <3>1, <4>1
    <3>3. q = end /\ todo'[c] = Datas(p, end)
      BY <1>1, <3>1, UnitsAre DEF FunctionTypes
    <3>4. u = end - p
      <4>1. p \in Nat /\ end \in Nat /\ p <= end /\ end <= MaxSize
        BY <1>1, <3>2
      <4>2. QED
        BY <3>3, <4>1, DatasRun
    <3>5. cpc[c] = "read" /\ s = 1 /\ r = 1
      BY <2>3, StageIs DEF Read
    <3> HIDE DEF s, r, p, q, t, u
    <3>6. QED
      BY <1>1, <3>2, <3>3, <3>4, <3>5
  <2>4. CASE ~Stat(c) /\ ~SendSome(c) /\ ~(Read(c) /\ cpc'[c] = "send")
    <3>1. UNCHANGED <<pos, todo>>
      BY <1>3, <2>4 DEF Client, Connect, SendFails, Reply, NoReply, Open, Read, ReadFails
    <3>2. s \in Nat /\ r \in Nat /\ r < s
      <4>1. CASE Connect(c)
        BY <1>1, <1>3, <4>1, StageIs DEF Connect, ClientReturns
      <4>2. CASE SendFails(c)
        BY <1>3, <4>2, StageIs DEF SendFails, ClientReturns, Sending
      <4>3. CASE Reply(c) \/ NoReply(c)
        BY <1>3, <4>3, StageIs DEF Reply, NoReply, ClientReturns
      <4>4. CASE Open(c)
        BY <1>3, <4>4, StageIs DEF Open, ClientReturns
      <4>5. CASE Read(c) \/ ReadFails(c)
        BY <1>3, <2>4, <4>5, StageIs DEF Read, ReadFails, ClientReturns
      <4>6. QED
        BY <2>4, <4>1, <4>2, <4>3, <4>4, <4>5 DEF Client
    <3>3. u = t /\ q = p
      BY <3>1
    <3>4. QED
      BY <1>1, <3>2, <3>3
  <2>5. QED
    BY <2>1, <2>2, <2>3, <2>4
<1>5. ClientLeft(c)' = r + 2 * (MaxSize - q) + u /\ ClientLeft(c) = s + 2 * (MaxSize - p) + t
  BY DEF ClientLeft
<1> HIDE DEF s, r, p, q, t, u
<1>6. ClientLeft(c)' < ClientLeft(c) /\ ClientLeft(c)' \in Int /\ ClientLeft(c) \in Int
  <2>1. r + 2 * (MaxSize - q) + u < s + 2 * (MaxSize - p) + t
    BY <1>1, <1>4, LessLeft
  <2>2. QED
    BY <1>1, <1>4, <1>5, <2>1
<1>7. ASSUME NEW x \in Clients PROVE ClientLeft(x)' <= ClientLeft(x) /\ ChildLeft(x)' <= ChildLeft(x)
  <2>1. ChildLeft(x)' = ChildLeft(x) /\ (x # c => ClientLeft(x)' = ClientLeft(x))
    BY <1>1, <1>2 DEF ChildLeft, ClientLeft
  <2>2. QED
    BY <1>1, <1>6, <2>1, LeftNumbers
<1>8. QED
  BY <1>1, <1>6, <1>7 DEF Nearer

\* If one child is nearer to its end, and nothing else has changed, all is nearer.
LEMMA OneNearer ==
    ASSUME AllGood, NEW c \in Clients, UNCHANGED <<cpc, pos, todo, edits, parent>>,
           \A x \in Clients : x # c => UNCHANGED <<spc[x], rcvd[x], ack[x]>>,
           ChildLeft(c)' < ChildLeft(c), ChildLeft(c)' \in Int
    PROVE  Nearer
<1>1. edits \in Nat
  BY At DEF AllGood
<1>2. ASSUME NEW x \in Clients PROVE ClientLeft(x)' <= ClientLeft(x) /\ ChildLeft(x)' <= ChildLeft(x)
  <2>1. ClientLeft(x)' = ClientLeft(x) /\ (x # c => ChildLeft(x)' = ChildLeft(x))
    BY DEF ChildLeft, ClientLeft
  <2>2. QED
    BY <2>1, LeftNumbers
<1>3. QED
  BY <1>1, <1>2 DEF Nearer

LEMMA ChildNearer ==
    ASSUME AllGood, Copies, NEW c \in Clients, Child(c)
    PROVE  Nearer
<1>1. /\ FunctionTypes /\ Good(c) /\ spc[c] \in Running /\ UNCHANGED <<cpc, pos, todo, edits, parent>>
      /\ InfoSize \in Nat /\ MaxSize \in Nat /\ ChunkSize \in Nat /\ rcvd[c] \in Nat
      /\ info[c].size \in Nat /\ info[c].size <= MaxSize
      /\ up[c] \in Seq(Unit) /\ Len(up[c]) \in Nat
  <2>1. FunctionTypes /\ Good(c)
    BY DEF AllGood
  <2>2. spc[c] \in Running /\ UNCHANGED <<cpc, pos, todo, edits, parent>>
    BY DEF Child, RecvInfo, SendAck, HandshakeFails, Create, CreateFails, RecvData, Received,
           ReceiveFails, Running, client
  <2>3. QED
    BY <2>1, <2>2, At
<1>2. \A x \in Clients : x # c => UNCHANGED <<spc[x], rcvd[x], ack[x]>>
  <2>1. CASE RecvInfo(c)
    BY <1>1, <2>1 DEF RecvInfo, FunctionTypes
  <2>2. CASE SendAck(c)
    BY <1>1, <2>2 DEF SendAck, FunctionTypes
  <2>3. CASE RecvData(c)
    BY <1>1, <2>3 DEF RecvData, FunctionTypes
  <2>4. CASE HandshakeFails(c) \/ Create(c) \/ CreateFails(c) \/ Received(c) \/ ReceiveFails(c)
    BY <1>1, <2>4 DEF HandshakeFails, Create, CreateFails, Received, ReceiveFails, ChildExits, FunctionTypes
  <2>5. QED
    BY <2>1, <2>2, <2>3, <2>4 DEF Child
<1>3. ChildLeft(c)' < ChildLeft(c) /\ ChildLeft(c)' \in Int
  <2>1. CASE RecvInfo(c)
    <3>1. PICK k \in Receivable(up[c], InfoSize - rcvd[c]) : rcvd' = [rcvd EXCEPT ![c] = rcvd[c] + k]
      BY <2>1 DEF RecvInfo, StructSize
    <3>2. spc[c] = "info" /\ rcvd[c] < InfoSize /\ ack[c] = OK /\ UNCHANGED ack
      BY <1>1, <2>1 DEF RecvInfo, Good, Counts, Answer, Early
    <3>3. InfoSize - rcvd[c] \in Nat
      BY <1>1, <3>2
    <3>4. k \in Nat /\ k >= 1 /\ k <= InfoSize - rcvd[c]
      BY <1>1, <3>1, <3>3, RecvSplit
    <3>5. rcvd'[c] = rcvd[c] + k /\ Len(OK) = 2
      BY <1>1, <3>1 DEF FunctionTypes, OK
    <3>6. spc'[c] = "info" \/ spc'[c] = "ack"
      BY <1>1, <2>1 DEF RecvInfo, FunctionTypes
    <3>7. ChildLeft(c) = MaxSize + (InfoSize - rcvd[c]) + 5
      BY <3>2 DEF ChildLeft
    <3>8. CASE spc'[c] = "info"
      <4>1. ChildLeft(c)' = MaxSize + (InfoSize - (rcvd[c] + k)) + 5
        BY <3>5, <3>8 DEF ChildLeft
      <4>2. QED
        BY <1>1, <3>2, <3>4, <3>7, <4>1
    <3>9. CASE spc'[c] = "ack"
      <4>1. ChildLeft(c)' = MaxSize + 2 + 3
        BY <3>2, <3>5, <3>9 DEF ChildLeft
      <4>2. QED
        BY <1>1, <3>2, <3>4, <3>7, <4>1
    <3>10. QED
      BY <3>6, <3>8, <3>9
  <2>2. CASE SendAck(c)
    <3>1. PICK k \in 1 .. Len(ack[c]) : ack' = [ack EXCEPT ![c] = Rest(ack[c], k)]
      BY <2>2 DEF SendAck
    <3>2. spc[c] = "ack" /\ ack[c] # <<>> /\ Answer(c)
      BY <1>1, <2>2 DEF SendAck, Good, Answer
    <3>3. ack'[c] = Rest(ack[c], k)
      BY <1>1, <3>1 DEF FunctionTypes
    <3>4. ack'[c] = <<>> \/ (ack'[c] = <<"K">> /\ ack[c] = OK)
      BY <1>1, <3>2, <3>3, AnswerSent
    <3>5. spc'[c] = IF ack'[c] = <<>> THEN "create" ELSE "ack"
      BY <1>1, <2>2 DEF SendAck, FunctionTypes
    <3>6. Len(ack[c]) \in Nat /\ Len(OK) = 2 /\ Len(<<"K">>) = 1 /\ <<"K">> # <<>>
      BY <1>1, LenProperties DEF FunctionTypes, OK
    <3>7. ChildLeft(c) = MaxSize + Len(ack[c]) + 3
      BY <3>2 DEF ChildLeft
    <3>8. CASE ack'[c] = <<>>
      <4>1. ChildLeft(c)' = MaxSize + 2
        BY <3>5, <3>8 DEF ChildLeft
      <4>2. QED
        BY <1>1, <3>6, <3>7, <4>1
    <3>9. CASE ack'[c] = <<"K">> /\ ack[c] = OK
      <4>1. ChildLeft(c)' = MaxSize + 1 + 3 /\ ChildLeft(c) = MaxSize + 2 + 3
        BY <3>5, <3>6, <3>7, <3>9 DEF ChildLeft
      <4>2. QED
        BY <1>1, <4>1
    <3>10. QED
      BY <3>4, <3>8, <3>9
  <2>3. CASE Create(c)
    <3>1. spc[c] = "create" /\ spc'[c] = "recv" /\ rcvd'[c] = 0
      BY <1>1, <2>3 DEF Create, FunctionTypes
    <3>2. ChildLeft(c) = MaxSize + 2 /\ ChildLeft(c)' = (MaxSize - 0) + 1
      BY <3>1 DEF ChildLeft
    <3>3. QED
      BY <1>1, <3>2
  <2>4. CASE RecvData(c)
    <3>1. PICK k \in Receivable(up[c], Need(c)) : rcvd' = [rcvd EXCEPT ![c] = rcvd[c] + k]
      BY <2>4 DEF RecvData
    <3>2. spc[c] = "recv" /\ spc'[c] = "recv" /\ rcvd[c] <= info[c].size
      BY <1>1, <2>4 DEF RecvData, Good, Counts
    <3>3. Need(c) \in Nat /\ Need(c) <= info[c].size - rcvd[c]
      BY <1>1, <3>2 DEF Need
    <3>4. k \in Nat /\ k >= 1 /\ k <= Need(c)
      BY <1>1, <3>1, <3>3, RecvSplit
    <3>5. rcvd'[c] = rcvd[c] + k
      BY <1>1, <3>1 DEF FunctionTypes
    <3>6. ChildLeft(c) = (MaxSize - rcvd[c]) + 1 /\ ChildLeft(c)' = (MaxSize - (rcvd[c] + k)) + 1
      BY <3>2, <3>5 DEF ChildLeft
    <3>7. QED
      BY <1>1, <3>3, <3>4, <3>6
  <2>5. CASE HandshakeFails(c) \/ CreateFails(c) \/ Received(c) \/ ReceiveFails(c)
    <3>1. spc'[c] \in {"received", "failed"}
      BY <1>1, <2>5 DEF HandshakeFails, CreateFails, Received, ReceiveFails, ChildExits, FunctionTypes
    <3>2. ChildLeft(c)' = 0
      BY <3>1 DEF ChildLeft
    <3>3. ChildLeft(c) > 0
      <4>1. spc[c] = "info" => InfoSize - rcvd[c] \in Nat
        BY <1>1 DEF Good, Counts
      <4>2. spc[c] = "recv" => MaxSize - rcvd[c] \in Nat
        <5>1. spc[c] = "recv" => rcvd[c] <= info[c].size
          BY <1>1 DEF Good, Counts
        <5>2. QED
          BY <1>1, <5>1
      <4>3. ack[c] \in Seq({"O", "K"})
        <5>1. ack[c] \in {<<>>, <<"K">>, OK}
          BY <1>1 DEF FunctionTypes
        <5>2. <<>> \in Seq({"O", "K"}) /\ <<"K">> \in Seq({"O", "K"}) /\ <<"O", "K">> \in Seq({"O", "K"})
          OBVIOUS
        <5>3. QED
          BY <5>1, <5>2 DEF OK
      <4>4. Len(ack[c]) \in Nat
        BY <4>3, LenProperties
      <4>5. QED
        BY <1>1, <4>1, <4>2, <4>4 DEF ChildLeft, Running
    <3>4. QED
      BY <3>2, <3>3, LeftNumbers
  <2>6. QED
    BY <2>1, <2>2, <2>3, <2>4, <2>5 DEF Child
<1>4. QED
  BY <1>1, <1>2, <1>3, OneNearer

LEMMA ParentNearer ==
    ASSUME AllGood, Accept \/ ForkFails \/ AcceptFails
    PROVE  Nearer
<1>1. FunctionTypes /\ UNCHANGED <<cpc, pos, todo, edits, rcvd, ack>> /\ edits \in Nat
      /\ InfoSize \in Nat /\ MaxSize \in Nat
  <2>1. FunctionTypes /\ InfoSize \in Nat /\ MaxSize \in Nat /\ edits \in Nat
    BY BoundsAssumption DEF AllGood, FunctionTypes
  <2>2. UNCHANGED <<cpc, pos, todo, edits, rcvd, ack>>
    BY DEF Accept, ForkFails, AcceptFails, client
  <2>3. QED
    BY <2>1, <2>2
<1>2. CASE Accept \/ ForkFails
  <2>1. PICK h \in Clients : h = Head(backlog) /\ Queued(h)
    <3>1. backlog \in Seq(Clients) /\ IsInjective(backlog) /\ backlog # <<>>
      BY <1>1, <1>2 DEF Accept, ForkFails, FunctionTypes
    <3>2. QED
      BY <3>1, QueueTail DEF Queued
  <2>2. spc[h] = "none" /\ rcvd[h] = 0 /\ UNCHANGED parent
    BY <1>2, <2>1 DEF AllGood, Good, Ends, Counts, Accept, ForkFails
  <2>3. spc'[h] \in {"info", "leaked"} /\ \A y \in Clients : y # h => spc'[y] = spc[y]
    BY <1>1, <1>2, <2>1 DEF Accept, ForkFails, FunctionTypes
  <2>4. /\ ChildLeft(h) = MaxSize + InfoSize + 6
        /\ ChildLeft(h)' = 0 \/ ChildLeft(h)' = MaxSize + (InfoSize - 0) + 5
    BY <1>1, <2>2, <2>3 DEF ChildLeft
  <2>5. QED
    BY <1>1, <2>2, <2>3, <2>4, OneNearer
<1>3. CASE AcceptFails
  <2>1. parent' = "gone" /\ parent = "accept" /\ UNCHANGED spc
    BY <1>3 DEF AcceptFails
  <2>2. \A x \in Clients : ClientLeft(x)' = ClientLeft(x) /\ ChildLeft(x)' = ChildLeft(x)
    BY <1>1, <2>1 DEF ClientLeft, ChildLeft
  <2>3. QED
    BY <1>1, <2>1, <2>2, LeftNumbers DEF Nearer
<1>4. QED
  BY <1>2, <1>3

LEMMA NextNearer == Inv /\ [Next]_vars => [Nearer]_vars
<1> SUFFICES ASSUME Inv, Next PROVE Nearer
  OBVIOUS
<1>1. ASSUME NEW c \in Clients, Edit(c) PROVE Nearer
  <2>1. UNCHANGED <<cpc, pos, todo, spc, rcvd, ack, parent>> /\ edits' = edits - 1 /\ edits > 0
    BY <1>1 DEF Edit, client, child
  <2>2. \A x \in Clients : ClientLeft(x)' = ClientLeft(x) /\ ChildLeft(x)' = ChildLeft(x)
    BY <2>1 DEF ClientLeft, ChildLeft
  <2>3. edits \in Nat
    BY BoundsAssumption DEF Inv, AllGood, FunctionTypes
  <2>4. QED
    BY <2>1, <2>2, <2>3, LeftNumbers DEF Nearer, Inv
<1>2. QED
  BY <1>1, ClientNearer, ChildNearer, ParentNearer DEF Next, Inv

-----------------------------------------------------------------------------
(* Theorems. *)

\* Types; no buffer is overfull, and neither loop receives more than it asked for.
THEOREM TypesHold == Spec => []TypeOK
<1>1. Inv => TypeOK
  BY GoodTypes DEF Inv
<1>2. QED
  BY <1>1, InvHolds, PTL

\* The server's end of a connection that fork failed for stays open as long as
\* the parent, or a child forked later, has a copy of it, and no longer.
THEOREM LeakedOpenHolds == Spec => []LeakedOpen
<1>1. Inv => LeakedOpen
  BY DEF Inv, Copies
<1>2. QED
  BY <1>1, InvHolds, PTL

\* Client and child agree on what the stream carries, wherever send and recv
\* cut it.
THEOREM InStepHolds == Spec => []InStep
<1>1. Inv => InStep
  <2> SUFFICES ASSUME Inv, NEW c \in Clients
               PROVE  /\ spc[c] = "info" => up[c] = Units(Info, rcvd[c], rcvd[c] + Len(up[c]))
                      /\ spc[c] = "ack" => up[c] = <<>>
                      /\ spc[c] = "recv" => up[c] = Units(Data, rcvd[c], rcvd[c] + Len(up[c]))
    BY DEF InStep
  <2>1. FunctionTypes /\ Ends(c) /\ Stream(c)
    BY DEF Inv, AllGood, Good
  <2>2. up[c] \in Seq(Unit) /\ rcvd[c] \in Nat
    BY <2>1, At
  <2>3. /\ spc[c] = "info" => Run(up[c], "info", rcvd[c])
        /\ spc[c] = "ack" => up[c] = <<>>
        /\ spc[c] = "recv" => Run(up[c], "data", rcvd[c])
    BY <2>1 DEF Ends, Stream, Base, Early
  <2>4. QED
    BY <2>2, <2>3, RunIs, UnitsAre
<1>2. QED
  BY <1>1, InvHolds, PTL

\* As long as no write is short, the file of a child that is alone with it
\* holds exactly the units received, in order from the first.
THEOREM IntactHolds == Spec => []FileIntact
<1>1. Inv => FileIntact
  BY DEF Inv
<1>2. QED
  BY <1>1, InvHolds, PTL

\* When nothing failed and no file changed, a client that printed "File sent
\* successfully!" finds all of its file on the server once its child is over.
THEOREM SentHolds == Spec => []SentIsStored
<1>1. Inv => SentIsStored
  <2> SUFFICES ASSUME Inv, NEW c \in Clients, cpc[c] = "sent", spc[c] \in {"received", "failed"},
                      edits = Edits, faults = Faults, Owns(c)
               PROVE  spc[c] = "received" /\ disk[info[c].name].data = Units(Data, 0, file[c])
    BY DEF SentIsStored
  <2>1. Smooth(c) /\ NoFaults /\ NoEdits
    BY DEF Inv, AllGood, Good, NoFaults, NoEdits
  <2>2. spc[c] = "received"
    BY <2>1 DEF Smooth
  <2>3. out[c] = rcvd[c] /\ rcvd[c] = info[c].size /\ info[c].size = file[c]
    BY <2>1, <2>2 DEF Smooth
  <2>4. QED
    BY <2>2, <2>3 DEF Inv, FileIntact
<1>2. QED
  BY <1>1, InvHolds, PTL

\* Client and child never wait for each other, and every step brings an upload
\* nearer to its end: for any number of clients and failures, and any sizes.
THEOREM ProceedsHolds == Spec => Proceeds
<1>1. Spec => [](\A c \in Clients : NoStandoff(c))
  BY NobodyStuck, InvHolds, ReadyHolds, PTL
<1>2. Spec => [][Nearer]_vars
  BY NextNearer, InvHolds, PTL DEF Spec
<1>3. QED
  BY <1>1, <1>2 DEF Proceeds

=============================================================================
