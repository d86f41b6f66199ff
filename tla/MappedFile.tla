----------------------------- MODULE MappedFile -----------------------------
(***************************************************************************)
(* DAY5/mmap_test: write.cpp and read.cpp, which share the mapped file      *)
(* "shared.dat" with no synchronisation.  Stores and loads are single units *)
(* and memset and memcpy store in any order.  A unit of the file is NUL, a  *)
(* unit of the message, at its place, or something older.                   *)
(***************************************************************************)
EXTENDS Integers

CONSTANTS Writers, Readers,
          Size,        \* units mapped
          MsgLen       \* units of the message, which leaves room behind it

ASSUME SizesAssumption == Size \in Nat /\ MsgLen \in 1 .. Size - 1

Place == 1 .. Size
MsgPlace == 1 .. MsgLen

Nothing == [p \in Place |-> "-"]

VARIABLES
    size,    \* of shared.dat: "absent", "empty" or "full"
    data,    \* its contents, where there are any
    wpc,     \* where each writer is, or how it ended
    todo,    \* the places its memset or memcpy has still to store to
    rpc,     \* where each reader is, or how it ended
    length,  \* units the reader found before the first NUL
    out,     \* what it has printed at each place, "-" where nothing yet
    clean,   \* history: a memset was over before the reader's first load
    quiet    \* history: since then the message was there and no writer at work

writer == <<wpc, todo>>
reader == <<rpc, length, out, clean>>
vars == <<size, data, writer, reader, quiet>>

Init ==
    /\ size \in {"absent", "empty", "full"}
    /\ data \in [Place -> IF size = "full" THEN {"NUL", "old"} ELSE {"NUL"}]
    /\ wpc = [w \in Writers |-> "open"] /\ todo = [w \in Writers |-> {}]
    /\ rpc = [r \in Readers |-> "open"] /\ length = [r \in Readers |-> 0]
    /\ out = [r \in Readers |-> Nothing]
    /\ clean = [r \in Readers |-> FALSE] /\ quiet = [r \in Readers |-> FALSE]

-----------------------------------------------------------------------------
(* write.cpp *)

\* The first failed call ends it only if the file is absent: the test of fd is
\* reached only through a failed ftruncate, which is otherwise not noticed.
OpenWrite(w) ==
    /\ wpc[w] = "open"
    /\ \/ size = "absent" /\ wpc' = [wpc EXCEPT ![w] = "failed"] /\ UNCHANGED <<size, todo>>
       \/ /\ size # "absent"
          /\ wpc' = [wpc EXCEPT ![w] = "memset"]
          /\ todo' = [todo EXCEPT ![w] = Place]
          /\ size' = "full" \/ UNCHANGED size
    /\ UNCHANGED <<data, reader, quiet>>

MapFails(w) ==
    /\ wpc[w] = "memset" /\ todo[w] = Place
    /\ wpc' = [wpc EXCEPT ![w] = "failed"]
    /\ UNCHANGED <<size, data, todo, reader, quiet>>

\* The page of an empty file cannot be touched.
WriterBusError(w) ==
    /\ wpc[w] = "memset" /\ size = "empty"
    /\ wpc' = [wpc EXCEPT ![w] = "SIGBUS"]
    /\ UNCHANGED <<size, data, todo, reader, quiet>>

\* memset(data, 0, SIZE), one store; then it goes on with memcpy.
ClearedToMessage == MsgPlace
Cleared == Place
Memset(w) ==
    /\ wpc[w] = "memset" /\ size = "full"
    /\ \E p \in todo[w] \cap Cleared :
          /\ data' = [data EXCEPT ![p] = "NUL"]
          /\ todo' = [todo EXCEPT ![w] = @ \ {p}]
    /\ IF todo'[w] \cap Cleared # {} THEN UNCHANGED wpc
                                     ELSE wpc' = [wpc EXCEPT ![w] = "cleared"]
    /\ quiet' = [r \in Readers |-> FALSE]
    /\ UNCHANGED <<size, reader>>

\* memcpy(data, message, strlen(message)), begun and then one store at a time.
CopiedButOne == 1 .. MsgLen - 1
Copied == MsgPlace
StartMemcpy(w) ==
    /\ wpc[w] = "cleared"
    /\ wpc' = [wpc EXCEPT ![w] = "memcpy"] /\ todo' = [todo EXCEPT ![w] = Copied]
    /\ UNCHANGED <<size, data, reader, quiet>>
Memcpy(w) ==
    /\ wpc[w] = "memcpy"
    /\ \E p \in todo[w] :
          /\ data' = [data EXCEPT ![p] = "msg"]
          /\ todo' = [todo EXCEPT ![w] = @ \ {p}]
    /\ wpc' = IF todo'[w] = {} THEN [wpc EXCEPT ![w] = "done"] ELSE wpc
    /\ UNCHANGED <<size, reader, quiet>>

Writer(w) == OpenWrite(w) \/ MapFails(w) \/ WriterBusError(w) \/ Memset(w)
             \/ StartMemcpy(w) \/ Memcpy(w)

-----------------------------------------------------------------------------
(* read.cpp *)

OpenRead(r) ==
    /\ rpc[r] = "open"
    /\ \/ rpc' = [rpc EXCEPT ![r] = "failed"]      \* open, if absent, or mmap
       \/ size # "absent" /\ rpc' = [rpc EXCEPT ![r] = "get"]
    /\ UNCHANGED <<size, data, writer, length, out, clean, quiet>>

\* cin.get() returns: what it prints depends on what the writers have done.
Enter(r) ==
    /\ rpc[r] = "get"
    /\ rpc' = [rpc EXCEPT ![r] = IF size = "empty" THEN "SIGBUS" ELSE "measure"]
    /\ clean' = [clean EXCEPT ![r] = \E w \in Writers : wpc[w] \in {"cleared", "memcpy", "done"}]
    /\ quiet' = [quiet EXCEPT ![r] =
                    /\ \E w \in Writers : wpc[w] = "done"
                    /\ \A w \in Writers : wpc[w] \notin {"memset", "cleared", "memcpy"}]
    /\ UNCHANGED <<size, data, writer, length, out>>

\* cout << data looks for the NUL, and goes beyond the mapping if there is none
\* in it: there the next byte may be one, or anything may happen ("astray") ...
Measure(r) ==
    /\ rpc[r] = "measure"
    /\ \/ /\ length[r] < Size /\ data[length[r] + 1] # "NUL"
          /\ length' = [length EXCEPT ![r] = @ + 1] /\ UNCHANGED rpc
       \/ /\ length[r] < Size => data[length[r] + 1] = "NUL"
          /\ rpc' = [rpc EXCEPT ![r] = "print"] /\ UNCHANGED length
       \/ /\ length[r] = Size
          /\ rpc' = [rpc EXCEPT ![r] = "astray"] /\ UNCHANGED length
    /\ UNCHANGED <<size, data, writer, out, clean, quiet>>

\* ... and then copies what is there by now, in any order.
Printed(r) == {p \in Place : out[r][p] # "-"}
MeasuredAndNul(r) == Place \cap 1 .. length[r] + 1
Measured(r) == 1 .. length[r]
PrintText(r) ==
    /\ rpc[r] = "print"
    /\ IF Measured(r) = Printed(r)
       THEN rpc' = [rpc EXCEPT ![r] = "done"] /\ UNCHANGED out
       ELSE /\ \E p \in Measured(r) \ Printed(r) : out' = [out EXCEPT ![r][p] = data[p]]
            /\ UNCHANGED rpc
    /\ UNCHANGED <<size, data, writer, length, clean, quiet>>

Reader(r) == OpenRead(r) \/ Enter(r) \/ Measure(r) \/ PrintText(r)

\* Somebody creates the file.
Touch == size = "absent" /\ size' = "empty" /\ UNCHANGED <<data, writer, reader, quiet>>

Next == Touch \/ (\E w \in Writers : Writer(w)) \/ (\E r \in Readers : Reader(r))

Spec == Init /\ [][Next]_vars

-----------------------------------------------------------------------------
(* Properties. *)

\* Types; an empty file has no contents.
TypeOK ==
    /\ size \in {"absent", "empty", "full"}
    /\ data \in [Place -> {"NUL", "old", "msg"}]
    /\ wpc \in [Writers -> {"open", "failed", "SIGBUS", "memset", "cleared", "memcpy", "done"}]
    /\ todo \in [Writers -> SUBSET Place]
    /\ rpc \in [Readers -> {"open", "failed", "get", "SIGBUS", "measure", "astray", "print", "done"}]
    /\ length \in [Readers -> 0 .. Size]
    /\ out \in [Readers -> [Place -> {"-", "NUL", "old", "msg"}]]
    /\ clean \in [Readers -> BOOLEAN] /\ quiet \in [Readers -> BOOLEAN]
    /\ \A r \in Readers : Printed(r) \subseteq 1 .. length[r]
    /\ size # "full" => \A p \in Place : data[p] = "NUL"

\* What the lack of synchronisation can cost: once a writer has cleared the
\* file a reader may print the message with holes, or less than all of it, but
\* nothing older and nothing beyond the message, let alone beyond the mapping.
OnlyHoles ==
    \A r \in Readers : clean[r] =>
        /\ length[r] <= MsgLen /\ rpc[r] # "astray"
        /\ \A p \in Place : out[r][p] # "old"

\* A reader told to go on after a writer has finished, while no writer is at
\* work, prints the message: a mapping needs no flush, and whatever failed
\* before cannot end the reader with SIGBUS.
Settled ==
    \A r \in Readers : quiet[r] =>
        /\ rpc[r] # "SIGBUS"
        /\ rpc[r] = "done" => out[r] = [p \in Place |-> IF p \in MsgPlace THEN "msg" ELSE "-"]
=============================================================================
