-------------------------- MODULE MappedFileProofs --------------------------
(***************************************************************************)
(* What MappedFile checks for two writers and one reader, proved for any    *)
(* number of them and any sizes.                                            *)
(***************************************************************************)
EXTENDS MappedFile, TLAPS

Clearing(w) == wpc[w] = "memset" /\ todo[w] # Place
PastMemset(w) == wpc[w] \in {"cleared", "memcpy", "done"}
NoneOld == \A p \in Place : data[p] # "old"

\* What a writer has cleared holds nothing old, and has a page to hold it.
Progress ==
    /\ \A p \in Place : data[p] = "msg" => p \in MsgPlace
    /\ \A w \in Writers :
          /\ Clearing(w) => size = "full"
          /\ wpc[w] = "memset" => \A p \in Place \ todo[w] : data[p] # "old"
          /\ PastMemset(w) => NoneOld /\ size = "full"
          /\ wpc[w] = "memcpy" => todo[w] \subseteq MsgPlace

\* Once somebody has begun to copy, and nobody clears or is about to copy, what
\* is missing of the message is what somebody is still to copy.
NoClearing == \A w \in Writers : ~Clearing(w) /\ wpc[w] # "cleared"
Rewritten ==
    (\E w \in Writers : wpc[w] \in {"memcpy", "done"}) /\ NoClearing =>
        \A p \in MsgPlace : data[p] # "msg" =>
            \E w \in Writers : wpc[w] = "memcpy" /\ p \in todo[w]

\* A reader that has seen a clean file loads nothing old ...
NotBegun(r) == rpc[r] \in {"open", "failed", "get"}
Loads ==
    \A r \in Readers :
       /\ NotBegun(r) => length[r] = 0 /\ out[r] = Nothing /\ ~clean[r] /\ ~quiet[r]
       /\ clean[r] => NoneOld /\ length[r] <= MsgLen /\ rpc[r] # "astray"
       /\ clean[r] => \A p \in Place : out[r][p] # "old"

\* ... and one that has seen a finished writer, and none at work since, loads
\* the message.
NobodyWrites == NoClearing /\ \A w \in Writers : wpc[w] # "memcpy"
Quiet ==
    \A r \in Readers : quiet[r] =>
       /\ clean[r] /\ NobodyWrites
       /\ \E w \in Writers : wpc[w] = "done"
       /\ rpc[r] \in {"measure", "print", "done"}
       /\ rpc[r] # "measure" => length[r] = MsgLen
       /\ \A p \in Place : out[r][p] \in {"-", "msg"}
       /\ rpc[r] = "done" => Printed(r) = 1 .. length[r]

Inv == TypeOK /\ Progress /\ Rewritten /\ Loads /\ Quiet

\* With nobody writing after a finished writer, the file is the message.
LEMMA WholeMessage ==
    ASSUME Inv, NEW r \in Readers, quiet[r]
    PROVE  /\ \A p \in MsgPlace : data[p] = "msg"
           /\ \A p \in Place : p \notin MsgPlace => data[p] = "NUL"
<1>1. NobodyWrites /\ \E w \in Writers : wpc[w] = "done"
  BY DEF Inv, Quiet
<1>2. \A p \in MsgPlace : data[p] = "msg"
  BY <1>1 DEF Inv, Rewritten, NobodyWrites
<1>3. \A p \in Place : data[p] \in {"NUL", "msg"}
  BY DEF Inv, TypeOK, Loads, Quiet, NoneOld
<1>4. QED
  BY <1>2, <1>3 DEF Inv, Progress

LEMMA InitInv == Init => Inv
<1> SUFFICES ASSUME Init PROVE Inv
  OBVIOUS
<1>1. TypeOK
  BY SizesAssumption DEF Init, TypeOK, Place, Nothing, Printed
<1>2. Progress
  BY DEF Init, Progress, Clearing, PastMemset
<1>3. Rewritten /\ Loads /\ Quiet
  BY SizesAssumption DEF Init, Rewritten, Loads, Quiet, NotBegun, Nothing
<1>4. QED
  BY <1>1, <1>2, <1>3 DEF Inv

\* A step that leaves the contents, the readers and every store alone: nobody
\* gets further than before, and no writer at work is lost but by failing.
LEMMA OpenWriteInv ==
    ASSUME Inv, NEW w \in Writers, OpenWrite(w)
    PROVE  Inv'
<1>1. TypeOK'
  <2>1. /\ wpc' \in [Writers -> {"open", "failed", "SIGBUS", "memset", "cleared", "memcpy", "done"}]
        /\ todo' \in [Writers -> SUBSET Place]
    BY DEF OpenWrite, Inv, TypeOK
  <2>2. /\ size' \in {"absent", "empty", "full"} /\ (size' # "full" => size # "full")
        /\ UNCHANGED <<data, rpc, length, out, clean, quiet>>
    BY DEF OpenWrite, Inv, TypeOK, reader
  <2>3. QED
    BY <2>1, <2>2 DEF Inv, TypeOK, Printed
<1>2. /\ \A v \in Writers : Clearing(v)' => Clearing(v)
      /\ \A v \in Writers : PastMemset(v)' = PastMemset(v)
      /\ \A v \in Writers : wpc'[v] \in {"memcpy", "done", "cleared"} \/ wpc[v] \in {"memcpy", "done", "cleared"}
                                => wpc'[v] = wpc[v] /\ todo'[v] = todo[v]
      /\ \A v \in Writers : Clearing(v) => Clearing(v)'
      /\ size = "full" => size' = "full"
      /\ data' = data
  BY DEF OpenWrite, Inv, TypeOK, Clearing, PastMemset
<1>3. Progress'
  BY <1>2 DEF OpenWrite, Inv, TypeOK, Progress, NoneOld, PastMemset
<1>4. Rewritten'
  BY <1>2 DEF OpenWrite, Inv, Rewritten, NoClearing
<1>5. Loads' /\ Quiet'
  BY <1>2 DEF OpenWrite, reader, Inv, Loads, Quiet, NobodyWrites, NoClearing, NoneOld, NotBegun, Printed
<1>6. QED
  BY <1>1, <1>3, <1>4, <1>5 DEF Inv

LEMMA WriterFailsInv ==
    ASSUME Inv, NEW w \in Writers, MapFails(w) \/ WriterBusError(w)
    PROVE  Inv'
<1>0. ~Clearing(w)
  BY DEF MapFails, WriterBusError, Inv, Progress, Clearing
<1>1. TypeOK'
  BY DEF MapFails, WriterBusError, Inv, TypeOK, reader, Printed
<1>2. /\ \A v \in Writers : Clearing(v)' = Clearing(v)
      /\ \A v \in Writers : PastMemset(v)' = PastMemset(v)
      /\ \A v \in Writers : wpc'[v] \in {"memset", "memcpy", "done", "cleared"} => wpc'[v] = wpc[v]
      /\ \A v \in Writers : wpc[v] \in {"memcpy", "done", "cleared"} => wpc'[v] = wpc[v]
      /\ UNCHANGED <<size, data, todo>>
  BY <1>0 DEF MapFails, WriterBusError, Inv, TypeOK, Clearing, PastMemset
<1>3. Progress'
  BY <1>2 DEF Inv, Progress, NoneOld
<1>4. Rewritten'
  BY <1>2 DEF Inv, Rewritten, NoClearing
<1>5. Loads' /\ Quiet'
  BY <1>2 DEF MapFails, WriterBusError, reader, Inv, Loads, Quiet, NobodyWrites, NoClearing, NoneOld, NotBegun, Printed
<1>6. QED
  BY <1>1, <1>3, <1>4, <1>5 DEF Inv

LEMMA MemsetInv ==
    ASSUME Inv, NEW w \in Writers, Memset(w)
    PROVE  Inv'
<1>1. PICK p \in todo[w] \cap Place :
          data' = [data EXCEPT ![p] = "NUL"] /\ todo' = [todo EXCEPT ![w] = @ \ {p}]
  BY DEF Memset, Cleared
<1>2. TypeOK'
  BY <1>1 DEF Memset, Inv, TypeOK, reader, Printed
<1>3. /\ \A q \in Place : data'[q] = data[q] \/ data'[q] = "NUL"
      /\ \A v \in Writers : v # w => todo'[v] = todo[v] /\ wpc'[v] = wpc[v]
      /\ todo'[w] = todo[w] \ {p} /\ data'[p] = "NUL"
      /\ wpc[w] = "memset" /\ wpc'[w] \in {"memset", "cleared"}
      /\ wpc'[w] = "cleared" => todo'[w] = {}
      /\ size = "full" /\ size' = "full"
  BY <1>1 DEF Memset, Inv, TypeOK, Cleared
<1>4. NoneOld => NoneOld'
  BY <1>3 DEF NoneOld
<1>5. Progress'
  <2>1. \A q \in Place : data'[q] = "msg" => q \in MsgPlace
    BY <1>3 DEF Inv, Progress
  <2>2. \A v \in Writers : Clearing(v)' => size' = "full"
    BY <1>3
  <2>3. \A v \in Writers : wpc'[v] \in {"memset", "cleared"} =>
            v = w \/ wpc[v] = wpc'[v]
    BY <1>3
  <2>4. \A q \in Place \ todo'[w] : data'[q] # "old"
    BY <1>3 DEF Inv, Progress
  <2>5. \A v \in Writers : wpc'[v] = "memset" => \A q \in Place \ todo'[v] : data'[q] # "old"
    BY <1>3, <2>4 DEF Inv, Progress
  <2>6. \A v \in Writers : PastMemset(v)' => NoneOld' /\ size' = "full"
    BY <1>3, <1>4, <2>4 DEF Inv, Progress, PastMemset, NoneOld
  <2>7. \A v \in Writers : wpc'[v] = "memcpy" => todo'[v] \subseteq MsgPlace
    BY <1>3 DEF Inv, Progress
  <2>8. QED
    BY <2>1, <2>2, <2>5, <2>6, <2>7 DEF Progress
<1>6. Rewritten'
  <2>1. todo'[w] # Place
    BY <1>1, <1>3
  <2>2. ~NoClearing'
    BY <1>3, <2>1 DEF NoClearing, Clearing
  <2>3. QED
    BY <2>2 DEF Rewritten
<1>7. Loads' /\ Quiet'
  BY <1>4 DEF Memset, reader, Inv, TypeOK, Loads, Quiet, NotBegun
<1>8. QED
  BY <1>2, <1>5, <1>6, <1>7 DEF Inv

LEMMA StartMemcpyInv ==
    ASSUME Inv, NEW w \in Writers, StartMemcpy(w)
    PROVE  Inv'
<1>1. TypeOK'
  BY SizesAssumption DEF StartMemcpy, Inv, TypeOK, reader, Printed, Copied, MsgPlace, Place
<1>2. /\ \A v \in Writers : v # w => todo'[v] = todo[v] /\ wpc'[v] = wpc[v]
      /\ wpc[w] = "cleared" /\ wpc'[w] = "memcpy" /\ todo'[w] = MsgPlace
      /\ UNCHANGED <<size, data>>
  BY DEF StartMemcpy, Inv, TypeOK, Copied
<1>3. Progress'
  BY <1>2 DEF Inv, Progress, NoneOld, Clearing, PastMemset
<1>4. Rewritten'
  BY <1>2 DEF Rewritten
<1>5. Loads' /\ Quiet'
  <2>1. \A r \in Readers : ~quiet[r]
    BY <1>2 DEF Inv, Quiet, NobodyWrites, NoClearing
  <2>2. QED
    BY <1>2, <2>1 DEF StartMemcpy, reader, Inv, Loads, Quiet, NoneOld, NotBegun
<1>6. QED
  BY <1>1, <1>3, <1>4, <1>5 DEF Inv

LEMMA MemcpyInv ==
    ASSUME Inv, NEW w \in Writers, Memcpy(w)
    PROVE  Inv'
<1>1. PICK p \in todo[w] :
          data' = [data EXCEPT ![p] = "msg"] /\ todo' = [todo EXCEPT ![w] = @ \ {p}]
  BY DEF Memcpy
<1>2. p \in MsgPlace /\ p \in Place
  BY <1>1, SizesAssumption DEF Memcpy, Inv, Progress, MsgPlace, Place
<1>3. /\ \A v \in Writers : v # w => todo'[v] = todo[v] /\ wpc'[v] = wpc[v]
      /\ todo'[w] = todo[w] \ {p} /\ data'[p] = "msg"
      /\ \A q \in Place : q # p => data'[q] = data[q]
      /\ wpc[w] = "memcpy" /\ wpc'[w] \in {"memcpy", "done"}
      /\ wpc'[w] = "done" => todo'[w] = {}
      /\ UNCHANGED size
  BY <1>1, <1>2 DEF Memcpy, Inv, TypeOK
<1>4. size = "full" /\ NoneOld /\ NoneOld'
  BY <1>2, <1>3 DEF Inv, Progress, PastMemset, NoneOld
<1>5. TypeOK'
  BY <1>1, <1>2, <1>4 DEF Memcpy, Inv, TypeOK, reader, Printed
<1>6. Progress'
  BY <1>2, <1>3, <1>4 DEF Inv, Progress, Clearing, PastMemset, NoneOld
<1>7. Rewritten'
  <2> SUFFICES ASSUME NoClearing', NEW q \in MsgPlace, data'[q] # "msg"
               PROVE  \E v \in Writers : wpc'[v] = "memcpy" /\ q \in todo'[v]
    BY DEF Rewritten
  <2>1. NoClearing
    BY <1>3 DEF NoClearing, Clearing
  <2>2. q \in Place /\ q # p
    BY <1>3, SizesAssumption DEF MsgPlace, Place
  <2>3. PICK v \in Writers : wpc[v] = "memcpy" /\ q \in todo[v]
    BY <1>3, <2>1, <2>2 DEF Inv, Rewritten
  <2>4. wpc'[v] = "memcpy" /\ q \in todo'[v]
    BY <1>3, <2>2, <2>3
  <2>5. QED
    BY <2>4
<1>8. Loads' /\ Quiet'
  <2>1. \A r \in Readers : ~quiet[r]
    BY <1>3 DEF Inv, Quiet, NobodyWrites
  <2>2. QED
    BY <1>4, <2>1 DEF Memcpy, reader, Inv, Loads, Quiet, NotBegun
<1>9. QED
  BY <1>5, <1>6, <1>7, <1>8 DEF Inv

\* What a reader does leaves the writers and the file as they are.
LEMMA FileUnchanged ==
    ASSUME Inv, UNCHANGED <<size, data, writer>>
    PROVE  /\ Progress' /\ Rewritten'
           /\ NoneOld' = NoneOld /\ NobodyWrites' = NobodyWrites
           /\ (\E w \in Writers : wpc'[w] = "done") = (\E w \in Writers : wpc[w] = "done")
  BY DEF writer, Inv, Progress, Rewritten, NoClearing, NobodyWrites, Clearing, PastMemset, NoneOld

LEMMA OpenReadInv ==
    ASSUME Inv, NEW r \in Readers, OpenRead(r)
    PROVE  Inv'
<1>1. TypeOK' /\ Progress' /\ Rewritten'
  BY FileUnchanged DEF OpenRead, writer, Inv, TypeOK, Printed
<1>2. Loads' /\ Quiet'
  <2>1. UNCHANGED <<size, data, writer, length, out, clean, quiet>>
    BY DEF OpenRead
  <2>2. \A q \in Readers : NotBegun(q)' = NotBegun(q) /\ (~NotBegun(q) => rpc'[q] = rpc[q])
    BY DEF OpenRead, Inv, TypeOK, NotBegun
  <2>3. Loads'
    BY <2>1, <2>2, FileUnchanged DEF Inv, Loads
  <2>4. Quiet'
    BY <2>1, <2>2, FileUnchanged DEF Inv, Loads, Quiet, NotBegun, Printed
  <2>5. QED
    BY <2>3, <2>4
<1>3. QED
  BY <1>1, <1>2 DEF Inv

LEMMA EnterInv ==
    ASSUME Inv, NEW r \in Readers, Enter(r)
    PROVE  Inv'
<1>1. TypeOK' /\ Progress' /\ Rewritten'
  BY FileUnchanged DEF Enter, writer, Inv, TypeOK, Printed
<1>2. /\ length[r] = 0 /\ out[r] = Nothing
      /\ UNCHANGED <<length, out>>
      /\ \A q \in Readers : q # r => rpc'[q] = rpc[q] /\ clean'[q] = clean[q] /\ quiet'[q] = quiet[q]
  BY DEF Enter, Inv, TypeOK, Loads, NotBegun
<1>3. /\ rpc'[r] = IF size = "empty" THEN "SIGBUS" ELSE "measure"
      /\ clean'[r] = \E w \in Writers : PastMemset(w)
      /\ quiet'[r] = /\ \E w \in Writers : wpc[w] = "done"
                     /\ \A w \in Writers : wpc[w] \notin {"memset", "cleared", "memcpy"}
  BY DEF Enter, Inv, TypeOK, PastMemset
<1>4. (clean'[r] => NoneOld) /\ (quiet'[r] => clean'[r] /\ rpc'[r] = "measure" /\ NobodyWrites)
  BY <1>3 DEF Inv, Progress, PastMemset, NobodyWrites, NoClearing, Clearing
<1>5. Loads'
  BY <1>2, <1>3, <1>4, FileUnchanged, SizesAssumption DEF Enter, Inv, Loads, NotBegun, Nothing
<1>6. Quiet'
  BY <1>2, <1>3, <1>4, FileUnchanged DEF Enter, Inv, Quiet, Nothing, Printed
<1>7. QED
  BY <1>1, <1>5, <1>6 DEF Inv

LEMMA MeasureInv ==
    ASSUME Inv, NEW r \in Readers, Measure(r)
    PROVE  Inv'
<1>1. /\ rpc[r] = "measure" /\ rpc'[r] \in {"measure", "print", "astray"}
      /\ UNCHANGED <<size, data, writer, out, clean, quiet>>
      /\ \A q \in Readers : q # r => rpc'[q] = rpc[q] /\ length'[q] = length[q]
      /\ length[r] \in 0 .. Size
  BY DEF Measure, Inv, TypeOK
<1>2. \/ /\ length[r] < Size /\ data[length[r] + 1] # "NUL"
         /\ length'[r] = length[r] + 1 /\ rpc'[r] = "measure"
      \/ /\ ~(length[r] < Size /\ data[length[r] + 1] # "NUL")
         /\ length'[r] = length[r] /\ rpc'[r] = "print"
      \/ length[r] = Size /\ length'[r] = length[r] /\ rpc'[r] = "astray"
  BY SizesAssumption DEF Measure, Inv, TypeOK
<1>3. TypeOK'
  <2>1. length' \in [Readers -> 0 .. Size] /\ rpc' \in [Readers -> {"open", "failed", "get", "SIGBUS", "measure", "astray", "print", "done"}]
    BY <1>1, <1>2, SizesAssumption DEF Measure, Inv, TypeOK
  <2>2. \A q \in Readers : Printed(q)' \subseteq 1 .. length'[q]
    BY <1>1, <1>2, SizesAssumption DEF Inv, TypeOK, Printed
  <2>3. QED
    BY <1>1, <2>1, <2>2 DEF Inv, TypeOK, writer
<1>4. Progress' /\ Rewritten'
  BY <1>1, FileUnchanged
<1>5. clean[r] => length'[r] <= MsgLen /\ rpc'[r] # "astray"
  <2>1. ASSUME clean[r], length[r] < Size, data[length[r] + 1] # "NUL"
        PROVE  length[r] + 1 <= MsgLen
    <3>1. length[r] + 1 \in Place
      BY <1>1, <2>1, SizesAssumption DEF Place
    <3>2. data[length[r] + 1] = "msg"
      BY <2>1, <3>1 DEF Inv, TypeOK, Loads, NoneOld
    <3>3. QED
      BY <3>1, <3>2, SizesAssumption DEF Inv, Progress, MsgPlace
  \* A file once cleared ends inside the mapping.
  <2>2. clean[r] => length[r] <= MsgLen /\ MsgLen < Size /\ MsgLen \in Nat /\ Size \in Nat
    BY SizesAssumption DEF Inv, Loads
  <2>3. QED
    BY <1>1, <1>2, <2>1, <2>2
<1>6. Loads'
  BY <1>1, <1>5, FileUnchanged DEF Inv, Loads, NotBegun
<1>7. quiet[r] /\ rpc'[r] = "print" => length'[r] = MsgLen
  <2> SUFFICES ASSUME quiet[r], rpc'[r] = "print" PROVE length[r] = MsgLen
    BY <1>2
  <2>1. ~(length[r] < Size /\ data[length[r] + 1] # "NUL")
    BY <1>2
  <2>2. length[r] <= MsgLen /\ MsgLen <= Size /\ MsgLen \in Nat /\ Size \in Nat
    BY SizesAssumption DEF Inv, Quiet, Loads
  <2>3. length[r] # MsgLen => length[r] + 1 \in MsgPlace
    BY <1>1, <2>2 DEF MsgPlace
  <2>4. QED
    BY <1>1, <2>1, <2>2, <2>3, WholeMessage
<1>8. Quiet'
  BY <1>1, <1>5, <1>7, FileUnchanged DEF Inv, Quiet, Printed
<1>9. QED
  BY <1>3, <1>4, <1>6, <1>8 DEF Inv

LEMMA PrintTextInv ==
    ASSUME Inv, NEW r \in Readers, PrintText(r)
    PROVE  Inv'
<1>1. /\ rpc[r] = "print" /\ rpc'[r] \in {"print", "done"}
      /\ UNCHANGED <<size, data, writer, length, clean, quiet>>
      /\ \A q \in Readers : q # r => rpc'[q] = rpc[q] /\ out'[q] = out[q]
      /\ length[r] \in 0 .. Size
  BY DEF PrintText, Inv, TypeOK
<1>2. \/ Measured(r) = Printed(r) /\ rpc'[r] = "done" /\ out' = out
      \/ /\ \E p \in Measured(r) \ Printed(r) : out' = [out EXCEPT ![r][p] = data[p]]
         /\ rpc'[r] = "print"
  BY DEF PrintText, Inv, TypeOK
<1>3. \A p \in Place : out'[r][p] = out[r][p] \/ (p \in Measured(r) /\ out'[r][p] = data[p])
  BY <1>2 DEF Inv, TypeOK
<1>4. out' \in [Readers -> [Place -> {"-", "NUL", "old", "msg"}]]
  <2> SUFFICES ASSUME NEW p \in Measured(r), out' = [out EXCEPT ![r][p] = data[p]]
               PROVE  out'[r] \in [Place -> {"-", "NUL", "old", "msg"}]
    BY <1>1, <1>2 DEF Inv, TypeOK
  <2>1. p \in Place /\ data[p] \in {"NUL", "old", "msg"}
    BY <1>1, SizesAssumption DEF Inv, TypeOK, Measured, Place
  <2>2. out'[r] = [out[r] EXCEPT ![p] = data[p]] /\ out[r] \in [Place -> {"-", "NUL", "old", "msg"}]
    BY DEF Inv, TypeOK
  <2>3. QED
    BY <2>1, <2>2
<1>5. TypeOK'
  <2>1. \A q \in Readers : Printed(q)' \subseteq 1 .. length'[q]
    BY <1>1, <1>3 DEF Inv, TypeOK, Printed, Measured
  <2>2. rpc' \in [Readers -> {"open", "failed", "get", "SIGBUS", "measure", "astray", "print", "done"}]
    BY DEF PrintText, Inv, TypeOK
  <2>3. QED
    BY <1>1, <1>4, <2>1, <2>2 DEF Inv, TypeOK, writer
<1>6. Progress' /\ Rewritten'
  BY <1>1, FileUnchanged
<1>7. Loads'
  BY <1>1, <1>3, FileUnchanged DEF Inv, Loads, NotBegun, NoneOld
<1>8. quiet[r] => \A p \in Place : out'[r][p] \in {"-", "msg"}
  <2> SUFFICES ASSUME quiet[r], NEW p \in Measured(r), p \in Place PROVE data[p] = "msg"
    BY <1>3 DEF Inv, Quiet
  <2>1. p \in MsgPlace
    BY <1>1 DEF Inv, Quiet, Measured, MsgPlace
  <2>2. QED
    BY <2>1, WholeMessage
<1>9. Quiet'
  <2>1. ASSUME quiet[r], rpc'[r] = "done" PROVE Printed(r)' = 1 .. length'[r]
    BY <1>1, <1>2, <2>1 DEF Printed, Measured
  <2>2. QED
    BY <1>1, <1>8, <2>1, FileUnchanged DEF Inv, Quiet, Printed
<1>10. QED
  BY <1>5, <1>6, <1>7, <1>9 DEF Inv

LEMMA TouchInv == Inv /\ Touch => Inv'
<1> SUFFICES ASSUME Inv, Touch PROVE Inv'
  OBVIOUS
<1>1. TypeOK'
  BY DEF Touch, Inv, TypeOK, writer, reader, Printed
<1>2. Progress' /\ Rewritten'
  BY DEF Touch, Inv, Progress, Rewritten, NoClearing, Clearing, PastMemset, NoneOld, writer
<1>3. Loads' /\ Quiet'
  BY DEF Touch, Inv, Loads, Quiet, NotBegun, NoneOld, NobodyWrites, NoClearing, Clearing, Printed, writer, reader
<1>4. QED
  BY <1>1, <1>2, <1>3 DEF Inv

LEMMA StutterInv == Inv /\ UNCHANGED vars => Inv'
<1> SUFFICES ASSUME Inv, UNCHANGED vars PROVE Inv'
  OBVIOUS
<1>1. TypeOK'
  BY DEF vars, Inv, TypeOK, writer, reader, Printed
<1>2. Progress' /\ Rewritten'
  BY DEF vars, Inv, Progress, Rewritten, NoClearing, Clearing, PastMemset, NoneOld, writer
<1>3. Loads' /\ Quiet'
  BY DEF vars, Inv, Loads, Quiet, NotBegun, NoneOld, NobodyWrites, NoClearing, Clearing, Printed, writer, reader
<1>4. QED
  BY <1>1, <1>2, <1>3 DEF Inv

LEMMA NextInv == Inv /\ [Next]_vars => Inv'
<1> SUFFICES ASSUME Inv, [Next]_vars PROVE Inv'
  OBVIOUS
<1>1. CASE Touch
  BY <1>1, TouchInv
<1>2. ASSUME NEW w \in Writers, Writer(w) PROVE Inv'
  BY <1>2, OpenWriteInv, WriterFailsInv, MemsetInv, StartMemcpyInv, MemcpyInv DEF Writer
<1>3. ASSUME NEW r \in Readers, Reader(r) PROVE Inv'
  BY <1>3, OpenReadInv, EnterInv, MeasureInv, PrintTextInv DEF Reader
<1>4. CASE UNCHANGED vars
  BY <1>4, StutterInv
<1>5. QED
  BY <1>1, <1>2, <1>3, <1>4 DEF Next

LEMMA Invariance == Spec => []Inv
  BY InitInv, NextInv, PTL DEF Spec

-----------------------------------------------------------------------------
\* Types of the state; a reader prints no more than it measured, and nothing is
\* in an empty file.
THEOREM TypesHold == Spec => []TypeOK
<1>1. Inv => TypeOK
  BY DEF Inv
<1>2. QED
  BY <1>1, Invariance, PTL

\* After a memset a reader of read.cpp prints the message with holes at worst:
\* nothing older and nothing beyond it, whatever the writers do meanwhile.
THEOREM OnlyHolesHolds == Spec => []OnlyHoles
<1>1. Inv => OnlyHoles
  BY DEF Inv, Loads, OnlyHoles
<1>2. QED
  BY <1>1, Invariance, PTL

\* A reader that goes on after a writer of write.cpp has finished, with none at
\* work, prints exactly the message and meets no SIGBUS.
THEOREM SettledHolds == Spec => []Settled
<1>1. ASSUME Inv, NEW r \in Readers, quiet[r], rpc[r] = "done"
      PROVE  out[r] = [p \in Place |-> IF p \in MsgPlace THEN "msg" ELSE "-"]
  <2>1. Printed(r) = MsgPlace
    BY <1>1 DEF Inv, Quiet, MsgPlace
  <2>2. out[r] \in [Place -> {"-", "NUL", "old", "msg"}]
    BY <1>1 DEF Inv, TypeOK
  <2>3. \A p \in Place : out[r][p] = IF p \in MsgPlace THEN "msg" ELSE "-"
    BY <1>1, <2>1 DEF Inv, Quiet, Printed
  <2>4. QED
    BY <2>2, <2>3
<1>2. Inv => Settled
  BY <1>1 DEF Inv, Quiet, Settled
<1>3. QED
  BY <1>2, Invariance, PTL
=============================================================================
