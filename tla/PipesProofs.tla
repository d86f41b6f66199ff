---------------------------- MODULE PipesProofs ----------------------------
(***************************************************************************)
(* What the runs check of Pipes, but for Delivered, proved for any number   *)
(* of senders, messages and interrupts and any sizes.                       *)
(***************************************************************************)
EXTENDS Pipes, SequenceTheorems, TLAPS

Test2Labels == {"test2_write", "test2_read", "test2_read2", "test2_returned"}

\* The first parts of StreamInOrder.
Ordered ==
    /\ Unmixed(pipe)
    /\ \A j, k \in 1 .. Len(pipe) :
          j < k /\ pipe[j].from = pipe[k].from => Before(pipe[j], pipe[k])
    /\ \A k \in 1 .. Len(pipe) : \A u \in got :
          u.from = pipe[k].from => Before(u, pipe[k])

\* The pipe ends with a whole message, and nobody's unit is there, or has been
\* read, before its message was written.
Whole == pipe # <<>> => pipe[Len(pipe)].part = MsgLen
Sent ==
    /\ \A k \in 1 .. Len(pipe) :
          pipe[k].from \in Senders => pipe[k].msg < Messages - i[pipe[k].from]
    /\ \A u \in got : u.msg < Messages - i[u.from]

StreamTypes ==
    /\ pipe \in Seq(AnyUnit) /\ got \subseteq UnitsOf(Senders)
    /\ i \in [Senders -> 0 .. Messages]
Stream == StreamTypes /\ Ordered /\ Whole /\ Sent

\* There is the run of test2, or there are a reader and its senders.
Apart ==
    /\ rpc \in Test2Labels =>
          /\ \A s \in Senders : spc[s] = "failed" /\ i[s] = Messages
          /\ rpc = "test2_write" => pipe = <<>>
          /\ rpc = "test2_read" => Len(pipe) = MsgLen
          /\ rpc = "test2_read2" => pipe = <<>>
          /\ rpc # "test2_returned"
    /\ rpc \notin Test2Labels => \A k \in 1 .. Len(pipe) : pipe[k].from \in Senders

\* A sender writes nothing before it has opened the FIFO, and as long as nobody
\* is interrupted nobody has when there is no reader.
Unwritten ==
    /\ \A s \in Senders : spc[s] \in {"mkfifo", "open", "opening"} => i[s] = Messages
    /\ kills = Kills => rpc # "gone"
    /\ kills = Kills /\ rpc \in {"start", "failed", "opening"} =>
          pipe = <<>> /\ \A s \in Senders : i[s] = Messages

\* As long as nobody is interrupted, a reader that has stored nothing yet finds
\* more than one unit in the pipe, or a sender that has something to say.
Promised ==
    kills = Kills /\ text = Junk /\ rpc \in {"read", "eof"} =>
        \/ Len(pipe) > 1
        \/ pipe = <<>> /\ \E s \in Senders : spc[s] = "write" /\ i[s] > 0
Stored == text = Junk \/ (text \in Seq(AnyUnit) /\ Len(text) > 1)

Complete == kills = Kills => Written \subseteq got \cup Range(pipe)

Inv == /\ TypeOK /\ Stream /\ Apart /\ Unwritten /\ Promised /\ Stored
       /\ Complete /\ NoJunk

-----------------------------------------------------------------------------
(* The stream. *)

\* What is left when the first n units have been taken.
LEMMA Split ==
    ASSUME NEW S, NEW q \in Seq(S), NEW n \in 0 .. Len(q)
    PROVE  /\ SubSeq(q, n + 1, Len(q)) \in Seq(S)
           /\ Len(SubSeq(q, n + 1, Len(q))) = Len(q) - n
           /\ \A k \in 1 .. Len(q) - n : SubSeq(q, n + 1, Len(q))[k] = q[n + k]
           /\ SubSeq(q, 1, n) \in Seq(S) /\ Len(SubSeq(q, 1, n)) = n
           /\ \A k \in 1 .. n : SubSeq(q, 1, n)[k] = q[k]
           /\ n \in Nat /\ Len(q) \in Nat
<1>1. Len(q) \in Nat /\ n \in Nat /\ n <= Len(q)
  BY LenProperties
<1>2. \A k \in 1 .. Len(q) : q[k] \in S
  BY ElementOfSeq
<1>3. /\ SubSeq(q, n + 1, Len(q)) \in Seq(S)
      /\ Len(SubSeq(q, n + 1, Len(q))) = Len(q) - n
      /\ \A k \in 1 .. Len(q) - n : SubSeq(q, n + 1, Len(q))[k] = q[n + k]
  BY <1>1, <1>2, SubSeqProperties
<1>4. /\ SubSeq(q, 1, n) \in Seq(S) /\ Len(SubSeq(q, 1, n)) = n
      /\ \A k \in 1 .. n : SubSeq(q, 1, n)[k] = q[k]
  BY <1>1, <1>2, SubSeqProperties
<1>5. QED
  BY <1>1, <1>3, <1>4

\* A read takes the first n units; the senders' among them go to got.
LEMMA TakeStream ==
    ASSUME Stream, NEW n \in 0 .. Len(pipe), pipe' = SubSeq(pipe, n + 1, Len(pipe)),
           i' = i, got' \subseteq UnitsOf(Senders),
           \A u \in got' : u \in got \/ \E j \in 1 .. n : u = pipe[j]
    PROVE  Stream'
<1>1. /\ pipe' \in Seq(AnyUnit) /\ Len(pipe') = Len(pipe) - n
      /\ \A k \in 1 .. Len(pipe) - n : pipe'[k] = pipe[n + k]
      /\ n \in Nat /\ Len(pipe) \in Nat
  BY Split DEF Stream, StreamTypes
<1>2. \A k \in 1 .. Len(pipe') : n + k \in 1 .. Len(pipe) /\ pipe'[k] = pipe[n + k]
  BY <1>1
<1>3. Ordered'
  <2>1. Unmixed(pipe')
    <3> SUFFICES ASSUME NEW k \in 1 .. Len(pipe') - 1
                 PROVE  \/ pipe'[k + 1] = [pipe'[k] EXCEPT !.part = @ + 1]
                        \/ pipe'[k].part = MsgLen /\ pipe'[k + 1].part = 1
      BY DEF Unmixed
    <3>1. /\ k \in 1 .. Len(pipe') /\ k + 1 \in 1 .. Len(pipe')
          /\ n + k \in 1 .. Len(pipe) - 1 /\ n + (k + 1) = (n + k) + 1
      BY <1>1
    <3>2. pipe'[k] = pipe[n + k] /\ pipe'[k + 1] = pipe[(n + k) + 1]
      BY <1>2, <3>1
    <3>3. QED
      BY <3>1, <3>2 DEF Stream, Ordered, Unmixed
  <2>2. ASSUME NEW j \in 1 .. Len(pipe'), NEW k \in 1 .. Len(pipe'), j < k,
               pipe'[j].from = pipe'[k].from
        PROVE  Before(pipe'[j], pipe'[k])
    <3>1. n + j \in 1 .. Len(pipe) /\ n + k \in 1 .. Len(pipe) /\ n + j < n + k
      BY <1>1, <2>2
    <3>2. QED
      BY <1>2, <2>2, <3>1 DEF Stream, Ordered
  <2>3. ASSUME NEW k \in 1 .. Len(pipe'), NEW u \in got', u.from = pipe'[k].from
        PROVE  Before(u, pipe'[k])
    <3>1. n + k \in 1 .. Len(pipe) /\ pipe'[k] = pipe[n + k]
      BY <1>2
    <3>2. CASE u \in got
      BY <2>3, <3>1, <3>2 DEF Stream, Ordered
    <3>3. CASE \E j \in 1 .. n : u = pipe[j]
      <4>1. PICK j \in 1 .. n : u = pipe[j]
        BY <3>3
      <4>2. j \in 1 .. Len(pipe) /\ j < n + k
        BY <1>1
      <4>3. QED
        BY <2>3, <3>1, <4>1, <4>2 DEF Stream, Ordered
    <3>4. QED
      BY <3>2, <3>3
  <2>4. QED
    BY <2>1, <2>2, <2>3 DEF Ordered
<1>4. Whole'
  <2> SUFFICES ASSUME pipe' # <<>> PROVE pipe'[Len(pipe')].part = MsgLen
    BY DEF Whole
  <2>1. Len(pipe') \in Nat \ {0}
    BY <1>1, EmptySeq
  <2>2. Len(pipe') \in 1 .. Len(pipe') /\ n + Len(pipe') = Len(pipe) /\ pipe # <<>>
    BY <1>1, <2>1, EmptySeq
  <2>3. QED
    BY <1>2, <2>2 DEF Stream, Whole
<1>5. Sent'
  <2>1. \A k \in 1 .. Len(pipe') :
            pipe'[k].from \in Senders => pipe'[k].msg < Messages - i'[pipe'[k].from]
    BY <1>2 DEF Stream, Sent
  <2>2. ASSUME NEW u \in got' PROVE u.msg < Messages - i'[u.from]
    <3>1. u.from \in Senders
      BY DEF UnitsOf
    <3>2. CASE u \in got
      BY <3>2 DEF Stream, Sent
    <3>3. CASE \E j \in 1 .. n : u = pipe[j]
      <4>1. PICK j \in 1 .. n : u = pipe[j]
        BY <3>3
      <4>2. j \in 1 .. Len(pipe)
        BY <1>1
      <4>3. QED
        BY <3>1, <4>1, <4>2 DEF Stream, Sent
    <3>4. QED
      BY <3>2, <3>3
  <2>3. QED
    BY <2>1, <2>2 DEF Sent
<1>6. QED
  BY <1>1, <1>3, <1>4, <1>5 DEF Stream, StreamTypes

\* A message is a sequence of its MsgLen units.
LEMMA MessageIs ==
    ASSUME NEW s \in Senders \cup {Self}, NEW m \in 0 .. Messages - 1
    PROVE  /\ Message(s, m) \in Seq(UnitsOf({s})) /\ Message(s, m) \in Seq(AnyUnit)
           /\ Len(Message(s, m)) = MsgLen
           /\ \A k \in 1 .. MsgLen : Message(s, m)[k] = [from |-> s, msg |-> m, part |-> k]
<1>1. MsgLen \in Nat
  BY BoundsAssumption
<1>2. QED
  BY <1>1 DEF Message, AnyUnit, UnitsOf

\* A message that follows the ones its sender has written goes to the end.
LEMMA AppendStream ==
    ASSUME Stream, NEW s \in Senders, i[s] > 0, pipe' = pipe \o Message(s, Messages - i[s]),
           i' = [i EXCEPT ![s] = @ - 1], got' = got
    PROVE  Stream'
<1> DEFINE m == Messages - i[s]
           w == Message(s, m)
<1>1. /\ i[s] \in 1 .. Messages /\ m \in 0 .. Messages - 1 /\ Messages \in Nat
      /\ MsgLen \in Nat /\ MsgLen > 1
  BY BoundsAssumption DEF Stream, StreamTypes
<1>2. /\ w \in Seq(AnyUnit) /\ Len(w) = MsgLen
      /\ \A k \in 1 .. MsgLen : w[k] = [from |-> s, msg |-> m, part |-> k]
  BY <1>1, MessageIs
<1>3. /\ i' \in [Senders -> 0 .. Messages] /\ Messages - i'[s] = m + 1
      /\ \A t \in Senders \ {s} : i'[t] = i[t]
  BY <1>1 DEF Stream, StreamTypes
<1>4. pipe' = pipe \o w /\ pipe \in Seq(AnyUnit)
  BY DEF Stream, StreamTypes
<1> HIDE DEF w, m
<1>5. /\ pipe' \in Seq(AnyUnit) /\ Len(pipe') = Len(pipe) + MsgLen /\ Len(pipe) \in Nat
      /\ \A k \in 1 .. Len(pipe) + MsgLen :
            pipe'[k] = IF k <= Len(pipe) THEN pipe[k] ELSE w[k - Len(pipe)]
  <2>1. /\ pipe \o w \in Seq(AnyUnit) /\ Len(pipe \o w) = Len(pipe) + Len(w)
        /\ \A k \in 1 .. Len(pipe) + Len(w) :
              (pipe \o w)[k] = IF k <= Len(pipe) THEN pipe[k] ELSE w[k - Len(pipe)]
    BY <1>2, <1>4, ConcatProperties
  <2>2. QED
    BY <1>2, <1>4, <2>1, LenProperties
<1>6. \A k \in 1 .. Len(pipe) : pipe'[k] = pipe[k]
  BY <1>1, <1>5
<1>7. \A k \in 1 .. Len(pipe') : k > Len(pipe) =>
          /\ k - Len(pipe) \in 1 .. MsgLen
          /\ pipe'[k] = [from |-> s, msg |-> m, part |-> k - Len(pipe)]
          /\ pipe'[k].from = s /\ pipe'[k].msg = m /\ pipe'[k].part = k - Len(pipe)
  BY <1>1, <1>2, <1>5
<1>8. Unmixed(pipe')
  <2> SUFFICES ASSUME NEW k \in 1 .. Len(pipe') - 1
               PROVE  \/ pipe'[k + 1] = [pipe'[k] EXCEPT !.part = @ + 1]
                      \/ pipe'[k].part = MsgLen /\ pipe'[k + 1].part = 1
    BY DEF Unmixed
  <2>0. k \in 1 .. Len(pipe') /\ k + 1 \in 1 .. Len(pipe') /\ k \in Nat
    BY <1>1, <1>5
  <2>1. CASE k < Len(pipe)
    <3>1. k \in 1 .. Len(pipe) - 1 /\ k \in 1 .. Len(pipe) /\ k + 1 \in 1 .. Len(pipe)
      BY <1>5, <2>0, <2>1
    <3>2. QED
      BY <1>6, <3>1 DEF Stream, Ordered, Unmixed
  <2>2. CASE k = Len(pipe)
    <3>1. k \in 1 .. Len(pipe) /\ pipe # <<>>
      BY <2>0, <2>2, <1>5, EmptySeq
    <3>2. pipe'[k].part = MsgLen
      BY <1>6, <2>2, <3>1 DEF Stream, Whole
    <3>3. k + 1 > Len(pipe) /\ (k + 1) - Len(pipe) = 1
      BY <1>5, <2>2
    <3>4. pipe'[k + 1].part = (k + 1) - Len(pipe)
      BY <1>7, <2>0, <3>3, Zenon
    <3>5. QED
      BY <3>2, <3>3, <3>4
  <2>3. CASE k > Len(pipe)
    <3> DEFINE d == k - Len(pipe)
    <3>1. k + 1 > Len(pipe) /\ (k + 1) - Len(pipe) = d + 1
      BY <1>5, <2>0, <2>3
    <3>2. pipe'[k] = [from |-> s, msg |-> m, part |-> d]
      BY <1>7, <2>0, <2>3, Zenon
    <3>3. pipe'[k + 1] = [from |-> s, msg |-> m, part |-> d + 1]
      BY <1>7, <2>0, <3>1
    <3> HIDE DEF d
    <3>4. pipe'[k + 1] = [pipe'[k] EXCEPT !.part = @ + 1]
      <4>1. [[from |-> s, msg |-> m, part |-> d] EXCEPT !.part = @ + 1]
                = [from |-> s, msg |-> m, part |-> d + 1]
        OBVIOUS
      <4>2. QED
        BY <3>2, <3>3, <4>1, Zenon
    <3>5. QED
      BY <3>4
  <2>4. k < Len(pipe) \/ k = Len(pipe) \/ k > Len(pipe)
    BY <1>5, <2>0
  <2>5. QED
    BY <2>1, <2>2, <2>3, <2>4, Zenon
<1>9. ASSUME NEW j \in 1 .. Len(pipe'), NEW k \in 1 .. Len(pipe'), j < k,
             pipe'[j].from = pipe'[k].from
      PROVE  Before(pipe'[j], pipe'[k])
  <2>1. CASE k <= Len(pipe)
    <3>1. j \in 1 .. Len(pipe) /\ k \in 1 .. Len(pipe)
      BY <1>5, <1>9, <2>1
    <3>2. QED
      BY <1>6, <1>9, <3>1 DEF Stream, Ordered
  <2>2. CASE k > Len(pipe) /\ j <= Len(pipe)
    <3>1. j \in 1 .. Len(pipe) /\ pipe'[j] = pipe[j]
      BY <1>5, <1>6, <2>2
    <3>2. pipe'[k].from = s /\ pipe'[k].msg = m
      BY <1>7, <2>2
    <3>3. pipe[j].msg < m
      BY <1>9, <3>1, <3>2 DEF Stream, Sent, m
    <3>4. QED
      BY <1>9, <3>1, <3>2, <3>3 DEF Before
  <2>3. CASE j > Len(pipe)
    <3>1. k > Len(pipe) /\ j - Len(pipe) < k - Len(pipe)
      BY <1>5, <1>9, <2>3
    <3>2. /\ pipe'[j] = [from |-> s, msg |-> m, part |-> j - Len(pipe)]
          /\ pipe'[k] = [from |-> s, msg |-> m, part |-> k - Len(pipe)]
      BY <1>7, <2>3, <3>1
    <3>3. QED
      BY <3>1, <3>2 DEF Before
  <2>4. QED
    BY <1>5, <2>1, <2>2, <2>3
<1>10. ASSUME NEW k \in 1 .. Len(pipe'), NEW u \in got', u.from = pipe'[k].from
       PROVE  Before(u, pipe'[k])
  <2>1. CASE k <= Len(pipe)
    <3>1. k \in 1 .. Len(pipe)
      BY <1>5, <2>1
    <3>2. QED
      BY <1>6, <1>10, <3>1 DEF Stream, Ordered
  <2>2. CASE k > Len(pipe)
    <3>1. pipe'[k].from = s /\ pipe'[k].msg = m
      BY <1>7, <2>2
    <3>2. u.msg < m
      BY <1>10, <3>1 DEF Stream, Sent, m
    <3>3. QED
      BY <1>10, <3>1, <3>2 DEF Before
  <2>3. QED
    BY <1>5, <2>1, <2>2
<1>11. Whole'
  <2>1. /\ Len(pipe') \in 1 .. Len(pipe') /\ Len(pipe') > Len(pipe)
        /\ Len(pipe') - Len(pipe) = MsgLen
    BY <1>1, <1>5
  <2>2. QED
    BY <1>7, <2>1 DEF Whole
<1>12. Sent'
  <2>1. \A t \in Senders : Messages - i[t] <= Messages - i'[t]
    BY <1>1, <1>3 DEF Stream, StreamTypes
  <2>2. ASSUME NEW k \in 1 .. Len(pipe'), pipe'[k].from \in Senders
        PROVE  pipe'[k].msg < Messages - i'[pipe'[k].from]
    <3>1. CASE k <= Len(pipe)
      <4>1. k \in 1 .. Len(pipe) /\ pipe'[k] = pipe[k] /\ pipe[k] \in AnyUnit
        BY <1>5, <1>4, <1>6, <3>1, ElementOfSeq
      <4>2. pipe[k].msg < Messages - i[pipe[k].from] /\ pipe[k].msg \in Int
        BY <2>2, <4>1 DEF Stream, Sent, AnyUnit, UnitsOf
      <4>3. i[pipe[k].from] \in Int /\ i'[pipe[k].from] \in Int
        BY <1>3, <2>2, <4>1 DEF Stream, StreamTypes
      <4>4. QED
        BY <1>1, <2>1, <2>2, <4>1, <4>2, <4>3
    <3>2. CASE k > Len(pipe)
      <4>1. pipe'[k].from = s /\ pipe'[k].msg = m
        BY <1>7, <3>2
      <4>2. QED
        BY <1>1, <1>3, <4>1
    <3>3. QED
      BY <1>5, <3>1, <3>2
  <2>3. ASSUME NEW u \in got' PROVE u.msg < Messages - i'[u.from]
    <3>1. u \in got /\ u \in UnitsOf(Senders)
      BY DEF Stream, StreamTypes
    <3>2. u.msg < Messages - i[u.from] /\ u.msg \in Int /\ u.from \in Senders
      BY <3>1 DEF Stream, Sent, UnitsOf
    <3>3. i[u.from] \in Int /\ i'[u.from] \in Int
      BY <1>3, <3>2 DEF Stream, StreamTypes
    <3>4. QED
      BY <1>1, <2>1, <3>2, <3>3
  <2>4. QED
    BY <2>2, <2>3 DEF Sent
<1>13. QED
  BY <1>3, <1>5, <1>8, <1>9, <1>10, <1>11, <1>12 DEF Stream, StreamTypes, Ordered

-----------------------------------------------------------------------------
(* The steps. *)

LEMMA InitInv == ASSUME Init PROVE Inv
<1>1. /\ Messages \in Nat \ {0} /\ Kills \in Nat /\ PipeSize \in Nat /\ MsgLen \in Nat
      /\ Len(pipe) = 0 /\ pipe \in Seq(AnyUnit) /\ pipe = <<>>
  BY BoundsAssumption, EmptySeq DEF Init
<1>2. rpc = "start" \/ rpc = "test2_write"
  BY DEF Init
<1>3. \A s \in Senders : spc[s] = (IF rpc = "start" THEN "mkfifo" ELSE "failed")
  BY DEF Init
<1>4. TypeOK
  BY <1>1, <1>2, <1>3 DEF Init, TypeOK, ReaderOpen, SendersOpen, Writing
<1>5. Stream
  BY <1>1 DEF Init, Stream, StreamTypes, Ordered, Unmixed, Whole, Sent
<1>6. Apart /\ Unwritten /\ Promised /\ Stored
  BY <1>1, <1>2, <1>3 DEF Init, Apart, Test2Labels, Unwritten, Promised, Stored
<1>7. Written = {}
  <2>1. \A u \in UnitsOf(Senders) : Messages - i[u.from] = 0 /\ u.msg \in Nat
    BY <1>1 DEF Init, UnitsOf
  <2>2. QED
    BY <2>1 DEF Written
<1>8. Complete
  BY <1>7 DEF Complete
<1>9. shown # Junk
  BY DEF Init, Junk
<1>10. QED
  BY <1>4, <1>5, <1>6, <1>8, <1>9 DEF Inv, NoJunk

\* What concerns the stream alone does not change with the rest.
LEMMA SameStream ==
    ASSUME Stream, pipe' = pipe \/ pipe' = <<>>, i' = i, got' = got PROVE Stream'
<1>1. CASE pipe' = pipe
  BY <1>1 DEF Stream, StreamTypes, Ordered, Unmixed, Whole, Sent
<1>2. CASE pipe' = <<>>
  <2>1. Len(pipe') = 0 /\ pipe' \in Seq(AnyUnit)
    BY <1>2, EmptySeq
  <2>2. QED
    BY <1>2, <2>1 DEF Stream, StreamTypes, Ordered, Unmixed, Whole, Sent
<1>3. QED
  BY <1>1, <1>2

LEMMA SameComplete ==
    ASSUME Complete, pipe' = pipe, i' = i, got' = got, kills' = kills PROVE Complete'
  BY DEF Complete, Written

LEMMA MkfifoInv == ASSUME Inv, NEW s \in Senders, Mkfifo(s) PROVE Inv'
<1>1. /\ UNCHANGED <<pipe, i, rpc, text, shown, kills, got>> /\ spc[s] = "mkfifo"
      /\ spc' \in {[spc EXCEPT ![s] = "open"], [spc EXCEPT ![s] = "failed"]}
      /\ fifo' \in BOOLEAN
  BY DEF Mkfifo, Inv, TypeOK
<1>2. /\ spc'[s] \in {"open", "failed"} /\ \A t \in Senders \ {s} : spc'[t] = spc[t]
      /\ \A t \in Senders : Writing(t)' <=> Writing(t)
  BY <1>1 DEF Inv, TypeOK, Writing
<1>3. TypeOK'
  BY <1>1, <1>2 DEF Inv, TypeOK, ReaderOpen, SendersOpen, WriteEndOpen, HeldByTest2
<1>4. Stream' /\ Complete' /\ Stored' /\ NoJunk'
  BY <1>1, SameStream, SameComplete DEF Inv, Stored, NoJunk
<1>5. Apart'
  BY <1>1, <1>2 DEF Inv, Apart
<1>6. Unwritten'
  BY <1>1, <1>2 DEF Inv, Unwritten
<1>7. Promised'
  BY <1>1, <1>2 DEF Inv, Promised
<1>8. QED
  BY <1>3, <1>4, <1>5, <1>6, <1>7 DEF Inv

LEMMA OpenWriteInv == ASSUME Inv, NEW s \in Senders, OpenWrite(s) PROVE Inv'
<1>1. /\ UNCHANGED <<fifo, pipe, i, text, shown, kills, got>> /\ spc[s] = "open"
      /\ spc' = [spc EXCEPT ![s] = IF ReaderOpen THEN "write" ELSE "opening"]
      /\ rpc' = IF rpc = "opening" THEN "read" ELSE rpc
  BY DEF OpenWrite
<1>2. /\ spc'[s] = (IF ReaderOpen THEN "write" ELSE "opening")
      /\ \A t \in Senders \ {s} : spc'[t] = spc[t]
  BY <1>1 DEF Inv, TypeOK
<1>3. rpc \notin Test2Labels /\ rpc' \notin Test2Labels /\ i[s] = Messages /\ Messages > 0
  BY <1>1, BoundsAssumption DEF Inv, Apart, Test2Labels, Unwritten
<1>4. TypeOK'
  <2>1. rpc' # "opening" /\ (ReaderOpen' <=> ReaderOpen)
    BY <1>1 DEF ReaderOpen
  <2>2. SendersOpen'
    BY <1>2 DEF SendersOpen, Writing
  <2>3. QED
    BY <1>1, <1>2, <2>1, <2>2 DEF Inv, TypeOK, WriteEndOpen, Writing
<1>5. Stream' /\ Complete' /\ Stored' /\ NoJunk'
  BY <1>1, SameStream, SameComplete DEF Inv, Stored, NoJunk
<1>6. Apart'
  BY <1>1, <1>3 DEF Inv, Apart
<1>7. Unwritten'
  BY <1>1, <1>2, <1>3 DEF Inv, Unwritten
<1>8. Promised'
  <2>1. CASE rpc = "opening"
    BY <1>1, <1>2, <1>3, <2>1 DEF Inv, Promised, Unwritten, ReaderOpen
  <2>2. CASE rpc # "opening"
    <3>1. rpc' = rpc /\ \A t \in Senders : spc[t] = "write" => spc'[t] = "write"
      BY <1>1, <1>2, <2>2
    <3>2. QED
      BY <1>1, <3>1 DEF Inv, Promised
  <2>3. QED
    BY <2>1, <2>2
<1>9. QED
  BY <1>4, <1>5, <1>6, <1>7, <1>8 DEF Inv

LEMMA OpenFailsInv == ASSUME Inv, NEW s \in Senders, OpenFails(s) PROVE Inv'
<1>1. /\ UNCHANGED <<fifo, pipe, i, rpc, text, shown, kills, got>> /\ spc[s] = "open"
      /\ spc' = [spc EXCEPT ![s] = "failed"]
  BY DEF OpenFails
<1>2. /\ spc'[s] = "failed" /\ \A t \in Senders \ {s} : spc'[t] = spc[t]
      /\ \A t \in Senders : Writing(t)' <=> Writing(t)
  BY <1>1 DEF Inv, TypeOK, Writing
<1>3. TypeOK'
  BY <1>1, <1>2 DEF Inv, TypeOK, ReaderOpen, SendersOpen, WriteEndOpen, HeldByTest2
<1>4. Stream' /\ Complete' /\ Stored' /\ NoJunk'
  BY <1>1, SameStream, SameComplete DEF Inv, Stored, NoJunk
<1>5. Apart'
  BY <1>1, <1>2 DEF Inv, Apart
<1>6. Unwritten'
  BY <1>1, <1>2 DEF Inv, Unwritten
<1>7. Promised'
  BY <1>1, <1>2 DEF Inv, Promised
<1>8. QED
  BY <1>3, <1>4, <1>5, <1>6, <1>7 DEF Inv

\* Somebody who writes is not alone with test2, and there is a reader.
LEMMA WriteInv == ASSUME Inv, NEW s \in Senders, Write(s) PROVE Inv'
<1> DEFINE w == Message(s, Messages - i[s])
<1>1. /\ UNCHANGED <<fifo, spc, rpc, text, shown, kills, got>> /\ spc[s] = "write"
      /\ i[s] > 0 /\ ReaderOpen /\ Len(pipe) + Len(w) <= PipeSize
      /\ pipe' = pipe \o w /\ i' = [i EXCEPT ![s] = @ - 1]
  BY DEF Write, WriteUnits, More
<1>2. /\ Messages - i[s] \in 0 .. Messages - 1 /\ Messages \in Nat
      /\ MsgLen \in Nat /\ MsgLen > 1 /\ i[s] \in 1 .. Messages
  BY <1>1, BoundsAssumption DEF Inv, TypeOK
<1>3. /\ w \in Seq(UnitsOf({s})) /\ w \in Seq(AnyUnit) /\ Len(w) = MsgLen
      /\ \A k \in 1 .. MsgLen : w[k] = [from |-> s, msg |-> Messages - i[s], part |-> k]
  BY <1>2, MessageIs
<1>4. Stream'
  BY <1>1, AppendStream DEF Inv
<1> HIDE DEF w
<1>5. /\ pipe' \in Seq(AnyUnit) /\ Len(pipe') = Len(pipe) + MsgLen /\ Len(pipe) \in Nat
      /\ \A k \in 1 .. Len(pipe) + MsgLen :
            pipe'[k] = IF k <= Len(pipe) THEN pipe[k] ELSE w[k - Len(pipe)]
  <2>1. /\ pipe \o w \in Seq(AnyUnit) /\ Len(pipe \o w) = Len(pipe) + Len(w)
        /\ \A k \in 1 .. Len(pipe) + Len(w) :
              (pipe \o w)[k] = IF k <= Len(pipe) THEN pipe[k] ELSE w[k - Len(pipe)]
    BY <1>3, ConcatProperties DEF Inv, TypeOK
  <2>2. QED
    BY <1>1, <1>3, <2>1, LenProperties DEF Inv, TypeOK
<1>6. i' \in [Senders -> 0 .. Messages]
  BY <1>1, <1>2 DEF Inv, TypeOK
<1>7. TypeOK'
  <2>1. Len(pipe') <= PipeSize
    BY <1>1, <1>3, <1>5
  <2>2. QED
    BY <1>1, <1>5, <1>6, <2>1 DEF Inv, TypeOK, ReaderOpen, SendersOpen, Writing, WriteEndOpen
<1>8. rpc \notin Test2Labels
  BY <1>1 DEF ReaderOpen, Test2Labels
<1>9. Apart'
  <2>1. ASSUME NEW k \in 1 .. Len(pipe') PROVE pipe'[k].from \in Senders
    <3>1. CASE k <= Len(pipe)
      <4>1. k \in 1 .. Len(pipe) /\ pipe'[k] = pipe[k]
        BY <1>2, <1>5, <3>1
      <4>2. QED
        BY <1>8, <4>1 DEF Inv, Apart
    <3>2. CASE k > Len(pipe)
      <4>1. k - Len(pipe) \in 1 .. MsgLen /\ pipe'[k] = w[k - Len(pipe)]
        BY <1>2, <1>5, <3>2
      <4>2. QED
        BY <1>3, <4>1
    <3>3. QED
      BY <1>5, <3>1, <3>2
  <2>2. QED
    BY <1>1, <1>8, <2>1 DEF Apart
<1>10. Unwritten'
  <2>1. \A t \in Senders : t # s => i'[t] = i[t]
    BY <1>1 DEF Inv, TypeOK
  <2>2. kills = Kills => rpc \notin {"start", "failed", "opening"}
    BY <1>1 DEF ReaderOpen, Inv, TypeOK, SendersOpen, Writing
  <2>3. QED
    BY <1>1, <2>1, <2>2 DEF Inv, Unwritten
<1>11. Promised' /\ Stored' /\ NoJunk'
  <2>1. Len(pipe') > 1
    BY <1>2, <1>5
  <2>2. QED
    BY <1>1, <2>1 DEF Inv, Promised, Stored, NoJunk
<1>12. Complete'
  <2> SUFFICES ASSUME kills = Kills, NEW u \in Written' PROVE u \in got \/ u \in Range(pipe')
    BY <1>1 DEF Complete
  <2>1. /\ u \in UnitsOf(Senders) /\ u.msg < Messages - i'[u.from] /\ u.msg \in Nat
        /\ u.from \in Senders /\ u.part \in 1 .. MsgLen
        /\ u = [from |-> u.from, msg |-> u.msg, part |-> u.part]
    BY DEF Written, UnitsOf
  <2>2. DOMAIN pipe' = 1 .. Len(pipe') /\ DOMAIN pipe = 1 .. Len(pipe)
    BY <1>5, LenProperties DEF Inv, TypeOK
  <2>3. CASE u.from = s /\ u.msg = Messages - i[s]
    <3>1. u.part \in 1 .. MsgLen /\ Len(pipe) \in Nat /\ MsgLen \in Nat
      BY <1>2, <1>5, <2>1
    <3> DEFINE k == Len(pipe) + u.part
    <3>2. /\ k \in 1 .. Len(pipe) + MsgLen /\ k - Len(pipe) = u.part /\ ~(k <= Len(pipe))
      BY <3>1
    <3> HIDE DEF k
    <3>3. w[u.part] = u
      BY <1>3, <2>1, <2>3
    <3>4. pipe'[k] = u /\ k \in DOMAIN pipe'
      BY <1>5, <2>2, <3>2, <3>3
    <3>5. QED
      BY <3>4 DEF Range
  <2>4. CASE u.from # s \/ u.msg # Messages - i[s]
    <3>1. u.msg < Messages - i[u.from]
      <4>1. CASE u.from # s
        BY <1>1, <2>1, <4>1 DEF Inv, TypeOK
      <4>2. CASE u.from = s
        <5>1. i'[s] = i[s] - 1
          BY <1>1 DEF Inv, TypeOK
        <5>2. QED
          BY <1>2, <2>1, <2>4, <4>2, <5>1
      <4>3. QED
        BY <4>1, <4>2
    <3>2. u \in got \/ u \in Range(pipe)
      BY <2>1, <3>1 DEF Inv, Complete, Written
    <3>3. CASE u \in Range(pipe)
      <4>1. PICK k \in 1 .. Len(pipe) : u = pipe[k]
        BY <2>2, <3>3 DEF Range
      <4>2. k \in 1 .. Len(pipe) + MsgLen /\ k <= Len(pipe)
        BY <1>2, <1>5
      <4>3. k \in DOMAIN pipe' /\ pipe'[k] = u
        BY <1>5, <2>2, <4>1, <4>2
      <4>4. QED
        BY <4>3 DEF Range
    <3>4. QED
      BY <3>2, <3>3
  <2>5. QED
    BY <2>3, <2>4
<1>13. QED
  BY <1>4, <1>7, <1>9, <1>10, <1>11, <1>12 DEF Inv

\* The FIFO is emptied only if somebody was interrupted: else, without a
\* reader, it is empty.
LEMMA EmptiedIs ==
    ASSUME Inv, pipe' = Emptied
    PROVE  /\ pipe' = pipe \/ pipe' = <<>>
           /\ pipe' # <<>> => SendersOpen' \/ ReaderOpen'
           /\ ReaderOpen' => pipe' = pipe
           /\ Len(pipe') <= PipeSize /\ pipe' \in Seq(AnyUnit)
<1>1. Len(<<>>) = 0 /\ <<>> \in Seq(AnyUnit) /\ PipeSize \in Nat
  BY EmptySeq, BoundsAssumption
<1>2. QED
  BY <1>1 DEF Emptied, Inv, TypeOK

\* A sender leaves the FIFO.
LEMMA LeaveInv ==
    ASSUME Inv, NEW s \in Senders, NEW l \in {"done", "failed", "killed"},
           spc[s] \notin {"done", "failed", "killed"},
           spc' = [spc EXCEPT ![s] = l], pipe' = Emptied,
           UNCHANGED <<fifo, i, rpc, text, shown, got>>, kills' \in 0 .. Kills,
           kills' = Kills =>
               kills = Kills /\ spc[s] = "write" /\ (i[s] = 0 \/ ~ReaderOpen)
    PROVE  Inv'
<1>1. rpc \notin Test2Labels
  BY DEF Inv, Apart
<1>2. spc'[s] = l /\ \A t \in Senders \ {s} : spc'[t] = spc[t]
  BY DEF Inv, TypeOK
<1>3. ReaderOpen' <=> ReaderOpen
  BY DEF ReaderOpen
<1>4. TypeOK'
  <2>1. spc' \in [Senders -> {"mkfifo", "open", "opening", "write", "done", "failed", "killed"}]
    BY DEF Inv, TypeOK
  <2>2. ReaderOpen' => \A t \in Senders : spc'[t] # "opening"
    BY <1>2, <1>3 DEF Inv, TypeOK
  <2>3. rpc' = "opening" => ~SendersOpen'
    BY <1>2 DEF Inv, TypeOK, SendersOpen, Writing
  <2>4. QED
    BY <2>1, <2>2, <2>3, EmptiedIs DEF Inv, TypeOK, WriteEndOpen
<1>5. Stream'
  BY EmptiedIs, SameStream DEF Inv
<1>6. Apart'
  <2>1. Len(<<>>) = 0
    BY EmptySeq
  <2>2. QED
    BY <1>1, <2>1, EmptiedIs DEF Inv, Apart
<1>7. Unwritten'
  BY <1>2, EmptiedIs DEF Inv, Unwritten
<1>8. Promised' /\ Complete'
  <2>1. CASE kills' # Kills
    BY <2>1 DEF Promised, Complete
  <2>2. CASE kills' = Kills
    <3>1. kills = Kills /\ spc[s] = "write" /\ (i[s] = 0 \/ ~ReaderOpen)
      BY <2>2
    <3>2. CASE ReaderOpen
      <4>1. pipe' = pipe /\ i[s] = 0
        BY <1>3, <3>1, <3>2, EmptiedIs
      <4>2. Complete'
        BY <3>1, <2>2, <4>1, SameComplete DEF Inv
      <4>3. Promised'
        BY <1>2, <2>2, <3>1, <4>1 DEF Inv, Promised
      <4>4. QED
        BY <4>2, <4>3
    <3>3. CASE ~ReaderOpen
      <4>1. rpc \in {"start", "failed"}
        BY <1>1, <3>1, <3>3 DEF Inv, TypeOK, ReaderOpen, Test2Labels, Unwritten
      <4>2. pipe' = pipe
        BY <3>1, <4>1, EmptiedIs DEF Inv, Unwritten
      <4>3. QED
        BY <2>2, <3>1, <4>1, <4>2, SameComplete DEF Inv, Promised
    <3>4. QED
      BY <3>2, <3>3
  <2>3. QED
    BY <2>1, <2>2
<1>9. Stored' /\ NoJunk'
  <2>1. kills' = Kills => kills = Kills
    OBVIOUS
  <2>2. Kills \in Nat
    BY BoundsAssumption
  <2>3. QED
    BY <2>1, <2>2 DEF Inv, TypeOK, Stored, NoJunk
<1>10. QED
  BY <1>4, <1>5, <1>6, <1>7, <1>8, <1>9 DEF Inv

LEMMA CloseInv == ASSUME Inv, NEW s \in Senders, Close(s) PROVE Inv'
<1>1. i[s] = 0
  BY DEF Close, More, Inv, TypeOK
<1>2. kills' = kills /\ kills \in 0 .. Kills
  BY DEF Close, Inv, TypeOK
<1>3. QED
  BY <1>1, <1>2, LeaveInv DEF Close

LEMMA KilledInv == ASSUME Inv, NEW s \in Senders, Killed(s) PROVE Inv'
<1>1. kills' = kills /\ kills \in 0 .. Kills
  BY DEF Killed, Inv, TypeOK
<1>2. QED
  BY <1>1, LeaveInv DEF Killed

LEMMA InterruptInv == ASSUME Inv, Interrupt PROVE Inv'
<1>1. kills' \in 0 .. Kills /\ kills' # Kills /\ Kills \in Nat /\ kills' < Kills
  BY BoundsAssumption DEF Interrupt, Inv, TypeOK
<1>2. pipe' = Emptied /\ UNCHANGED <<fifo, i, text, shown, got>>
  BY DEF Interrupt
<1>3. CASE ReaderOpen /\ rpc' = "gone" /\ spc' = spc
  <2>1. ~ReaderOpen' /\ rpc \notin Test2Labels /\ rpc' \notin Test2Labels
    BY <1>3 DEF ReaderOpen, Test2Labels
  <2>2. TypeOK'
    BY <1>1, <1>2, <1>3, <2>1, EmptiedIs DEF Inv, TypeOK, WriteEndOpen
  <2>3. Stream'
    BY <1>2, EmptiedIs, SameStream DEF Inv
  <2>4. Apart'
    <3>1. Len(<<>>) = 0
      BY EmptySeq
    <3>2. QED
      BY <1>2, <2>1, <3>1, EmptiedIs DEF Inv, Apart
  <2>5. Unwritten' /\ Promised' /\ Complete' /\ NoJunk' /\ Stored'
    BY <1>1, <1>2, <1>3 DEF Inv, Unwritten, Promised, Complete, NoJunk, Stored
  <2>6. QED
    BY <2>2, <2>3, <2>4, <2>5 DEF Inv
<1>4. CASE \E s \in Senders : /\ spc[s] \notin {"done", "failed", "killed"}
                              /\ spc' = [spc EXCEPT ![s] = "killed"] /\ UNCHANGED rpc
  BY <1>1, <1>2, <1>4, LeaveInv
<1>5. QED
  BY <1>3, <1>4 DEF Interrupt

LEMMA OpenReadInv == ASSUME Inv, OpenRead PROVE Inv'
<1>1. /\ UNCHANGED <<fifo, pipe, i, text, shown, kills, got>> /\ rpc = "start"
      /\ rpc' = IF ~fifo THEN "failed" ELSE IF SendersOpen THEN "read" ELSE "opening"
      /\ spc' = [s \in Senders |-> IF fifo /\ spc[s] = "opening" THEN "write" ELSE spc[s]]
  BY DEF OpenRead
<1>2. rpc \notin Test2Labels /\ rpc' \notin Test2Labels
  BY <1>1 DEF Test2Labels
<1>3. /\ \A s \in Senders : spc'[s] = (IF fifo /\ spc[s] = "opening" THEN "write" ELSE spc[s])
      /\ SendersOpen' <=> SendersOpen
  BY <1>1 DEF SendersOpen, Writing
<1>4. TypeOK'
  <2>1. spc' \in [Senders -> {"mkfifo", "open", "opening", "write", "done", "failed", "killed"}]
    BY <1>1 DEF Inv, TypeOK
  <2>2. ReaderOpen' => \A s \in Senders : spc'[s] # "opening"
    BY <1>1, <1>3 DEF ReaderOpen
  <2>3. pipe' # <<>> => SendersOpen'
    BY <1>1, <1>3 DEF Inv, TypeOK, WriteEndOpen, HeldByTest2, ReaderOpen
  <2>4. QED
    BY <1>1, <1>3, <2>1, <2>2, <2>3 DEF Inv, TypeOK, WriteEndOpen
<1>5. Stream' /\ Complete' /\ Stored' /\ NoJunk'
  BY <1>1, SameStream, SameComplete DEF Inv, Stored, NoJunk
<1>6. Apart'
  BY <1>1, <1>2 DEF Inv, Apart
<1>7. Unwritten'
  BY <1>1, <1>3 DEF Inv, Unwritten
<1>8. Promised'
  <2> SUFFICES ASSUME kills = Kills, rpc' = "read"
               PROVE  pipe = <<>> /\ \E s \in Senders : spc'[s] = "write" /\ i[s] > 0
    BY <1>1 DEF Promised
  <2>1. pipe = <<>> /\ \A s \in Senders : i[s] = Messages
    BY <1>1 DEF Inv, Unwritten
  <2>2. fifo /\ \E s \in Senders : spc[s] \in {"opening", "write"}
    BY <1>1 DEF SendersOpen, Writing
  <2>3. QED
    BY <1>3, <2>1, <2>2, BoundsAssumption
<1>9. QED
  BY <1>4, <1>5, <1>6, <1>7, <1>8 DEF Inv

\* No text of more than one unit is Junk.
LEMMA LongIsStored ==
    ASSUME NEW q, NEW n \in Nat, Len(q) = n, n > 1 PROVE q # Junk
<1>1. Len(Junk) = 1
  BY DEF Junk
<1>2. Len(q) # 1
  OBVIOUS
<1>3. QED
  BY <1>1, <1>2

\* The first read of all brings more than one unit.
LEMMA ReadInv == ASSUME Inv, Read PROVE Inv'
<1> DEFINE n == IF Len(pipe) < BufSize THEN Len(pipe) ELSE BufSize
           units == SubSeq(pipe, 1, n)
           rest == SubSeq(pipe, n + 1, Len(pipe))
<1>1. /\ UNCHANGED <<fifo, spc, i, kills>> /\ rpc \in {"read", "eof"} /\ pipe # <<>>
      /\ pipe' = rest /\ got' = got \cup Range(units) /\ rpc' = "read" /\ shown' = text'
      /\ text' = CASE Terminated(n) -> units
                   [] n = 1 /\ text # Junk -> units \o Tail(text)
                   [] OTHER -> Junk
  BY DEF Read
<1>2. /\ pipe \in Seq(AnyUnit) /\ Len(pipe) \in Nat \ {0} /\ BufSize \in Nat /\ BufSize > 1
      /\ PipeSize \in Nat /\ Len(pipe) <= PipeSize
  BY <1>1, EmptySeq, BoundsAssumption DEF Inv, TypeOK
<1>3. n \in 1 .. Len(pipe) /\ n \in 0 .. Len(pipe) /\ (Len(pipe) > 1 => n > 1)
  BY <1>2
<1> HIDE DEF n
<1>4. /\ rest \in Seq(AnyUnit) /\ Len(rest) = Len(pipe) - n
      /\ \A k \in 1 .. Len(pipe) - n : rest[k] = pipe[n + k]
      /\ units \in Seq(AnyUnit) /\ Len(units) = n
      /\ \A k \in 1 .. n : units[k] = pipe[k]
  BY <1>2, <1>3, Split
<1> HIDE DEF rest, units
<1>5. rpc \notin Test2Labels /\ rpc' \notin Test2Labels /\ ReaderOpen' /\ ReaderOpen
  BY <1>1 DEF Test2Labels, ReaderOpen
<1>6. /\ DOMAIN units = 1 .. n /\ DOMAIN pipe = 1 .. Len(pipe)
      /\ DOMAIN rest = 1 .. Len(pipe) - n
  BY <1>2, <1>4, LenProperties
<1>7. \A u \in Range(units) : u \in UnitsOf(Senders) /\ \E j \in 1 .. n : u = pipe[j]
  <2> SUFFICES ASSUME NEW j \in 1 .. n PROVE units[j] \in UnitsOf(Senders) /\ units[j] = pipe[j]
    BY <1>6 DEF Range
  <2>1. j \in 1 .. Len(pipe) /\ units[j] = pipe[j]
    BY <1>3, <1>4
  <2>2. pipe[j] \in AnyUnit /\ pipe[j].from \in Senders
    BY <1>2, <1>5, <2>1, ElementOfSeq DEF Inv, Apart
  <2>3. QED
    BY <2>1, <2>2 DEF AnyUnit, UnitsOf
<1>8. got' \subseteq UnitsOf(Senders)
  BY <1>1, <1>7 DEF Inv, TypeOK
<1>9. Stream'
  <2>1. \A u \in got' : u \in got \/ \E j \in 1 .. n : u = pipe[j]
    BY <1>1, <1>7
  <2>2. QED
    BY <1>1, <1>3, <1>8, <2>1, TakeStream DEF Inv, rest
<1>10. Stored' /\ (kills = Kills => text' # Junk)
  <2>1. CASE n > 1
    <3>1. text' = units
      BY <1>1, <2>1 DEF Terminated
    <3>2. units # Junk
      BY <1>4, <2>1 DEF Junk
    <3>3. QED
      BY <1>4, <2>1, <3>1, <3>2 DEF Stored
  <2>2. CASE n = 1 /\ text # Junk
    <3>1. text' = units \o Tail(text) /\ text \in Seq(AnyUnit) /\ Len(text) > 1
      BY <1>1, <2>2 DEF Terminated, Inv, Stored
    <3>2. Len(text) \in Nat /\ text # <<>>
      BY <3>1, EmptySeq, LenProperties
    <3>3. Tail(text) \in Seq(AnyUnit) /\ Len(Tail(text)) = Len(text) - 1
      BY <3>1, <3>2, HeadTailProperties
    <3>4. text' \in Seq(AnyUnit) /\ Len(text') = Len(units) + Len(Tail(text))
      BY <1>4, <3>1, <3>3, ConcatProperties
    <3>5. Len(text') = Len(text) /\ Len(text) \in Nat /\ Len(text) > 1
      BY <1>4, <2>2, <3>1, <3>2, <3>3, <3>4
    <3>6. Len(text') > 1
      BY <3>5
    <3>7. text' # Junk
      BY <3>5, LongIsStored
    <3>8. QED
      BY <3>4, <3>6, <3>7 DEF Stored
  <2>3. CASE n = 1 /\ text = Junk
    <3>1. text' = Junk
      BY <1>1, <2>3 DEF Terminated
    <3>2. kills # Kills
      BY <1>1, <1>3, <2>3 DEF Inv, Promised
    <3>3. QED
      BY <3>1, <3>2 DEF Stored
  <2>4. QED
    BY <1>3, <2>1, <2>2, <2>3
<1>11. TypeOK'
  <2>1. Len(pipe') <= PipeSize /\ pipe' \in Seq(AnyUnit)
    BY <1>1, <1>2, <1>3, <1>4
  <2>2. QED
    BY <1>1, <1>5, <1>8, <1>10, <2>1 DEF Inv, TypeOK, Stored, ReaderOpen
<1>12. Apart'
  <2>1. \A k \in 1 .. Len(pipe') : n + k \in 1 .. Len(pipe) /\ pipe'[k] = pipe[n + k]
    BY <1>1, <1>2, <1>3, <1>4
  <2>2. QED
    BY <1>5, <2>1 DEF Inv, Apart
<1>13. Unwritten' /\ Promised'
  BY <1>1, <1>10 DEF Inv, Unwritten, Promised
<1>14. NoJunk'
  <2>1. Kills \in Nat /\ kills \in 0 .. Kills
    BY BoundsAssumption DEF Inv, TypeOK
  <2>2. QED
    BY <1>1, <1>10, <2>1 DEF NoJunk
<1>15. Complete'
  <2>1. ASSUME NEW u \in Range(pipe) PROVE u \in Range(units) \/ u \in Range(pipe')
    <3>1. PICK k \in 1 .. Len(pipe) : u = pipe[k]
      BY <1>6 DEF Range
    <3>2. CASE k <= n
      <4>1. k \in 1 .. n /\ units[k] = u
        BY <1>3, <1>4, <3>1, <3>2
      <4>2. QED
        BY <1>6, <4>1 DEF Range
    <3>3. CASE k > n
      <4>1. k - n \in 1 .. Len(pipe) - n /\ n + (k - n) = k
        BY <1>2, <1>3, <3>3
      <4>2. rest[k - n] = u
        BY <1>4, <3>1, <4>1
      <4>3. QED
        BY <1>1, <1>6, <4>1, <4>2 DEF Range
    <3>4. QED
      BY <1>3, <3>2, <3>3
  <2>2. Written' = Written
    BY <1>1 DEF Written
  <2>3. QED
    BY <1>1, <2>1, <2>2 DEF Inv, Complete
<1>16. QED
  BY <1>9, <1>10, <1>11, <1>12, <1>13, <1>14, <1>15 DEF Inv

LEMMA ReadEofInv == ASSUME Inv, ReadEof PROVE Inv'
<1>1. /\ UNCHANGED <<fifo, pipe, spc, i, text, kills, got>> /\ rpc \in {"read", "eof"}
      /\ pipe = <<>> /\ ~SendersOpen /\ rpc' = "eof" /\ shown' = text
  BY DEF ReadEof, WriteEndOpen
<1>2. rpc \notin Test2Labels /\ rpc' \notin Test2Labels
  BY <1>1 DEF Test2Labels
<1>3. TypeOK'
  BY <1>1 DEF Inv, TypeOK, ReaderOpen
<1>4. Stream' /\ Complete' /\ Stored'
  BY <1>1, SameStream, SameComplete DEF Inv, Stored
<1>5. Apart' /\ Unwritten' /\ Promised'
  BY <1>1, <1>2 DEF Inv, Apart, Unwritten, Promised
<1>6. NoJunk'
  <2>1. kills = Kills => text # Junk
    <3>1. ~(Len(pipe) > 1) /\ \A s \in Senders : spc[s] # "write"
      BY <1>1, EmptySeq DEF SendersOpen, Writing
    <3>2. QED
      BY <1>1, <3>1 DEF Inv, Promised
  <2>2. Kills \in Nat /\ kills \in 0 .. Kills
    BY BoundsAssumption DEF Inv, TypeOK
  <2>3. QED
    BY <1>1, <2>1, <2>2 DEF NoJunk
<1>7. QED
  BY <1>3, <1>4, <1>5, <1>6 DEF Inv

LEMMA RestartInv == ASSUME Inv, Restart PROVE Inv'
<1>1. /\ UNCHANGED <<fifo, pipe, spc, i, kills, got>> /\ rpc \in {"failed", "gone"}
      /\ rpc' = "start" /\ text' = Junk /\ shown' = <<>>
  BY DEF Restart
<1>2. rpc \notin Test2Labels /\ rpc' \notin Test2Labels
  BY <1>1 DEF Test2Labels
<1>3. TypeOK'
  BY <1>1 DEF Inv, TypeOK, ReaderOpen, WriteEndOpen, SendersOpen, Writing, HeldByTest2
<1>4. Stream' /\ Complete'
  BY <1>1, SameStream, SameComplete DEF Inv
<1>5. Apart' /\ Unwritten' /\ Promised' /\ Stored'
  BY <1>1, <1>2 DEF Inv, Apart, Unwritten, Promised, Stored
<1>6. NoJunk'
  BY <1>1 DEF NoJunk, Junk
<1>7. QED
  BY <1>3, <1>4, <1>5, <1>6 DEF Inv

\* test2 writes its message into an empty pipe.
LEMMA Test2WriteInv == ASSUME Inv, Test2Write PROVE Inv'
<1>1. /\ UNCHANGED <<fifo, spc, i, text, shown, kills, got>> /\ rpc = "test2_write"
      /\ rpc' = "test2_read" /\ pipe' = Message(Self, 0)
  BY DEF Test2Write
<1>2. /\ Messages \in Nat \ {0} /\ 0 \in 0 .. Messages - 1 /\ PipeSize \in Nat
      /\ MsgLen \in Nat /\ MsgLen > 1 /\ MsgLen <= PipeSize /\ Self \notin Senders
  BY BoundsAssumption
<1>3. /\ pipe' \in Seq(AnyUnit) /\ Len(pipe') = MsgLen
      /\ \A k \in 1 .. MsgLen : pipe'[k] = [from |-> Self, msg |-> 0, part |-> k]
  BY <1>1, <1>2, MessageIs
<1>4. /\ \A s \in Senders : spc[s] = "failed" /\ i[s] = Messages
      /\ rpc \in Test2Labels /\ rpc' \in Test2Labels
  BY <1>1 DEF Inv, Apart, Test2Labels
<1>5. TypeOK'
  BY <1>1, <1>2, <1>3 DEF Inv, TypeOK, ReaderOpen, WriteEndOpen, HeldByTest2
<1>6. Stream'
  <2>1. Unmixed(pipe')
    <3> SUFFICES ASSUME NEW k \in 1 .. MsgLen - 1
                 PROVE  pipe'[k + 1] = [pipe'[k] EXCEPT !.part = @ + 1]
      BY <1>3 DEF Unmixed
    <3>1. k \in 1 .. MsgLen /\ k + 1 \in 1 .. MsgLen
      BY <1>2
    <3>2. QED
      BY <1>3, <3>1
  <2>2. ASSUME NEW j \in 1 .. MsgLen, NEW k \in 1 .. MsgLen, j < k
        PROVE  Before(pipe'[j], pipe'[k])
    BY <1>3, <2>2 DEF Before
  <2>3. \A k \in 1 .. MsgLen : pipe'[k].from = Self
    BY <1>3
  <2>4. \A u \in got : u.from \in Senders
    BY DEF Inv, TypeOK, UnitsOf
  <2>5. Ordered'
    BY <1>1, <1>2, <1>3, <2>1, <2>2, <2>3, <2>4 DEF Ordered
  <2>6. Whole'
    <3>1. MsgLen \in 1 .. MsgLen
      BY <1>2
    <3>2. QED
      BY <1>3, <3>1 DEF Whole
  <2>7. Sent'
    BY <1>1, <1>2, <1>3, <2>3 DEF Inv, Stream, Sent
  <2>8. QED
    BY <1>1, <1>3, <2>5, <2>6, <2>7 DEF Inv, Stream, StreamTypes
<1>7. Apart'
  BY <1>1, <1>3, <1>4 DEF Apart
<1>8. Unwritten' /\ Promised' /\ Stored' /\ NoJunk'
  BY <1>1 DEF Inv, Unwritten, Promised, Stored, NoJunk
<1>9. Complete'
  <2>1. ASSUME NEW u \in UnitsOf(Senders) PROVE ~(u.msg < Messages - i'[u.from])
    <3>1. u.from \in Senders /\ u.msg \in Nat
      BY <1>2 DEF UnitsOf
    <3>2. i'[u.from] = Messages
      BY <1>1, <1>4, <3>1
    <3>3. QED
      BY <1>2, <3>1, <3>2
  <2>2. Written' = {}
    BY <2>1 DEF Written
  <2>3. QED
    BY <2>2 DEF Complete
<1>10. QED
  BY <1>5, <1>6, <1>7, <1>8, <1>9 DEF Inv

\* The first read takes all of it, and the second finds a pipe that test2
\* itself holds open.
LEMMA Test2ReadInv == ASSUME Inv, Test2Read PROVE Inv'
<1>1. /\ UNCHANGED <<fifo, spc, i, text, shown, kills, got>>
      /\ rpc \in {"test2_read", "test2_read2"}
      /\ (pipe # <<>> \/ ~WriteEndOpen)
      /\ rpc' = NextTest2[rpc] /\ pipe' = SubSeq(pipe, BufSize + 1, Len(pipe))
  BY DEF Test2Read
<1>2. rpc = "test2_read" /\ rpc' = "test2_read2" /\ Len(pipe) = MsgLen
  <2>1. rpc \in Test2Labels /\ WriteEndOpen
    BY <1>1 DEF Test2Labels, WriteEndOpen, HeldByTest2
  <2>2. rpc # "test2_read2"
    BY <1>1, <2>1 DEF Inv, Apart
  <2>3. rpc = "test2_read" /\ Len(pipe) = MsgLen
    BY <1>1, <2>1, <2>2 DEF Inv, Apart
  <2>4. QED
    BY <1>1, <2>3 DEF NextTest2
<1>3. MsgLen \in Nat /\ BufSize \in Nat /\ BufSize >= MsgLen /\ PipeSize \in Nat
  BY BoundsAssumption
<1>4. pipe' = <<>>
  BY <1>1, <1>2, <1>3, SubSeqEmpty
<1>5. Len(pipe') = 0 /\ pipe' \in Seq(AnyUnit)
  BY <1>4, EmptySeq
<1>6. /\ \A s \in Senders : spc[s] = "failed" /\ i[s] = Messages
      /\ rpc \in Test2Labels /\ rpc' \in Test2Labels
  BY <1>2 DEF Inv, Apart, Test2Labels
<1>7. TypeOK'
  BY <1>1, <1>2, <1>3, <1>4, <1>5 DEF Inv, TypeOK, ReaderOpen
<1>8. Stream'
  BY <1>1, <1>4, SameStream DEF Inv
<1>9. Apart'
  BY <1>1, <1>2, <1>4, <1>6 DEF Apart
<1>10. Unwritten' /\ Promised' /\ Stored' /\ NoJunk'
  BY <1>1, <1>2 DEF Inv, Unwritten, Promised, Stored, NoJunk
<1>11. Complete'
  <2>1. ASSUME NEW u \in UnitsOf(Senders) PROVE ~(u.msg < Messages - i'[u.from])
    <3>1. u.from \in Senders /\ u.msg \in Nat /\ Messages \in Nat
      BY BoundsAssumption DEF UnitsOf
    <3>2. i'[u.from] = Messages
      BY <1>1, <1>6, <3>1
    <3>3. QED
      BY <3>1, <3>2
  <2>2. Written' = {}
    BY <2>1 DEF Written
  <2>3. QED
    BY <2>2 DEF Complete
<1>12. QED
  BY <1>7, <1>8, <1>9, <1>10, <1>11 DEF Inv

LEMMA NextInv == Inv /\ [Next]_vars => Inv'
<1> SUFFICES ASSUME Inv, [Next]_vars PROVE Inv'
  OBVIOUS
<1>1. CASE Reader
  BY <1>1, OpenReadInv, ReadInv, ReadEofInv DEF Reader
<1>2. ASSUME NEW s \in Senders, Sender(s) PROVE Inv'
  BY <1>2, MkfifoInv, OpenWriteInv, OpenFailsInv, WriteInv, CloseInv, KilledInv DEF Sender
<1>3. CASE UNCHANGED vars
  <2>1. Stream' /\ Complete'
    BY <1>3, SameStream, SameComplete DEF Inv, vars
  <2>2. QED
    BY <1>3, <2>1 DEF vars, Inv, TypeOK, Apart, Unwritten, Promised, Stored, NoJunk,
        ReaderOpen, SendersOpen, Writing, WriteEndOpen, HeldByTest2
<1>4. QED
  BY <1>1, <1>2, <1>3, RestartInv, InterruptInv, Test2WriteInv, Test2ReadInv DEF Next

LEMMA InvHolds == Spec => []Inv
  BY InitInv, NextInv, PTL DEF Spec

-----------------------------------------------------------------------------
(* Theorems. *)

\* Types; nobody waits in open while the other end is open, and nothing is in
\* a pipe that nobody has open.
THEOREM TypesHold == Spec => []TypeOK
<1>1. Inv => TypeOK
  BY DEF Inv
<1>2. QED
  BY <1>1, InvHolds, PTL

\* The FIFO carries the senders' messages whole and each sender's in order,
\* and while nobody is interrupted all that was written is read or under way.
THEOREM OrderHolds == Spec => []StreamInOrder
<1>1. Inv => StreamInOrder
  BY DEF Inv, Stream, Ordered, Complete, StreamInOrder
<1>2. QED
  BY <1>1, InvHolds, PTL

\* The reader prints memory it never wrote only if somebody was interrupted.
THEOREM NoJunkHolds == Spec => []NoJunk
<1>1. Inv => NoJunk
  BY DEF Inv
<1>2. QED
  BY <1>1, InvHolds, PTL

\* The second read of test2 waits for the program itself, for ever.
THEOREM HangHolds == Spec => []Test2Hangs
<1>1. Inv => Test2Hangs
  BY DEF Inv, Apart, Test2Labels, Test2Hangs
<1>2. QED
  BY <1>1, InvHolds, PTL
=============================================================================
