-------------------------------- MODULE Pipes --------------------------------
(***************************************************************************)
(* DAY5/mysender.cpp and myreader.cpp, which talk over the FIFO "myfifo",   *)
(* and DAY3/file_demo/test2.c, which talks to itself over a pipe.  In a     *)
(* behaviour there is a reader, started again after it ended, with its      *)
(* senders; or there is one run of test2.                                   *)
(*                                                                          *)
(* Opening a FIFO waits for the other end to be opened.  A write of a       *)
(* message is atomic (PIPE_BUF is larger) and waits for room; a read brings *)
(* what is there, up to the size of the buffer, across message boundaries.  *)
(***************************************************************************)
EXTENDS Integers, SequencesExt

CONSTANTS Senders,
          Messages,    \* messages each sender writes: 5
          MsgLen,      \* units in a message
          BufSize,     \* units in the reader's buffer, less that for the NUL
          PipeSize,    \* units the pipe holds
          Kills        \* bound: processes the user interrupts

Self == "test2"        \* the sender of test2's message

ASSUME BoundsAssumption ==
    /\ Self \notin Senders
    /\ Messages \in Nat \ {0} /\ MsgLen \in Nat /\ MsgLen > 1 /\ Kills \in Nat
    /\ BufSize \in Nat /\ BufSize >= MsgLen /\ PipeSize \in Nat /\ PipeSize >= MsgLen

VARIABLES
    fifo,    \* whether myfifo exists
    pipe,    \* the units in the pipe
    spc,     \* where each sender is, or how it ended
    i,       \* messages each sender has still to write
    rpc,     \* where the reader is; or test2, whose labels begin with "test2"
    text,    \* buffer, up to the first NUL, or Junk before anything was stored
    shown,   \* what the reader printed last
    kills,   \* interrupts still to come
    got      \* history: the senders' units that a reader has read

vars == <<fifo, pipe, spc, i, rpc, text, shown, kills, got>>

Junk == <<"junk">>
Message(s, m) == [k \in 1 .. MsgLen |-> [from |-> s, msg |-> m, part |-> k]]

Init ==
    /\ fifo \in BOOLEAN /\ pipe = <<>>
    /\ rpc \in {"start", "test2_write"}
    /\ spc = [s \in Senders |-> IF rpc = "start" THEN "mkfifo" ELSE "failed"]
    /\ i = [s \in Senders |-> Messages]
    /\ text = Junk /\ shown = <<>> /\ kills = Kills
    /\ got = {}

-----------------------------------------------------------------------------
(* Who has the pipe open.  A sender counts while it still waits in open. *)

Writing(s) == spc[s] \in {"opening", "write"}
ReaderOpen == rpc \in {"opening", "read", "eof"}
SendersOpen == \E s \in Senders : Writing(s)
HeldToFirstRead == rpc = "test2_read"
HeldByTest2 == rpc \in {"test2_read", "test2_read2"}
WriteEndOpen == SendersOpen \/ HeldByTest2

\* The pipe is emptied when nobody has it open any more.
Emptied == IF SendersOpen' \/ ReaderOpen' THEN pipe ELSE <<>>

-----------------------------------------------------------------------------
(* mysender.cpp *)

Mkfifo(s) ==
    /\ spc[s] = "mkfifo"
    /\ \/ fifo' = TRUE /\ spc' = [spc EXCEPT ![s] = "open"]
       \/ ~fifo /\ spc' = [spc EXCEPT ![s] = "failed"] /\ UNCHANGED fifo
    /\ UNCHANGED <<pipe, i, rpc, text, shown, kills, got>>

\* open(file, O_WRONLY) wakes a reader that waits in open, or waits for one.
OpenWrite(s) ==
    /\ spc[s] = "open"
    /\ spc' = [spc EXCEPT ![s] = IF ReaderOpen THEN "write" ELSE "opening"]
    /\ rpc' = IF rpc = "opening" THEN "read" ELSE rpc
    /\ UNCHANGED <<fifo, pipe, i, text, shown, kills, got>>

\* open fails, which the loop finds out.
OpenFails(s) ==
    /\ spc[s] = "open"
    /\ spc' = [spc EXCEPT ![s] = "failed"]
    /\ UNCHANGED <<fifo, pipe, i, rpc, text, shown, kills, got>>

\* while(i--)
MoreByOne(s) == i[s] >= 0
MoreButOne(s) == i[s] > 1
More(s) == i[s] > 0

\* One round of the loop.
WriteUnits(s, units) ==
    /\ spc[s] = "write" /\ More(s)
    /\ ReaderOpen
    /\ Len(pipe) + Len(units) <= PipeSize
    /\ pipe' = pipe \o units
    /\ i' = [i EXCEPT ![s] = @ - 1]
    /\ UNCHANGED <<fifo, spc, rpc, text, shown, kills, got>>
WriteTwice(s) == WriteUnits(s, Message(s, Messages - i[s]) \o Message(s, Messages - i[s]))
Write(s) == WriteUnits(s, Message(s, Messages - i[s]))

\* close and return
Close(s) ==
    /\ spc[s] = "write" /\ ~More(s)
    /\ spc' = [spc EXCEPT ![s] = "done"]
    /\ UNCHANGED rpc
    /\ pipe' = Emptied
    /\ UNCHANGED <<fifo, i, text, shown, kills, got>>

\* With no reader the write does not return -1: SIGPIPE ends the sender.
Killed(s) ==
    /\ spc[s] = "write" /\ More(s)
    /\ ~ReaderOpen
    /\ spc' = [spc EXCEPT ![s] = "killed"]
    /\ UNCHANGED rpc
    /\ pipe' = Emptied
    /\ UNCHANGED <<fifo, i, text, shown, kills, got>>

Sender(s) == Mkfifo(s) \/ OpenWrite(s) \/ OpenFails(s) \/ Write(s) \/ Close(s) \/ Killed(s)

-----------------------------------------------------------------------------
(* myreader.cpp *)

\* open("myfifo", O_RDONLY), which fails if nobody has created it, wakes the
\* senders that wait in open, or waits for one.
OpenRead ==
    /\ rpc = "start"
    /\ rpc' = IF ~fifo THEN "failed" ELSE IF SendersOpen THEN "read" ELSE "opening"
    /\ spc' = [s \in Senders |-> IF fifo /\ spc[s] = "opening" THEN "write" ELSE spc[s]]
    /\ UNCHANGED <<fifo, pipe, i, text, shown, kills, got>>

TerminatedIfLong(n) == n > MsgLen
Terminated(n) == n > 1

\* read brings n > 0 units.  A NUL is stored after them only if n > 1; the
\* text, printed in any case, then goes on as it was.
Read ==
    /\ rpc \in {"read", "eof"} /\ pipe # <<>>
    /\ LET n == IF Len(pipe) < BufSize THEN Len(pipe) ELSE BufSize
           units == SubSeq(pipe, 1, n)
       IN  /\ pipe' = SubSeq(pipe, n + 1, Len(pipe))
           /\ text' = CASE Terminated(n) -> units
                        [] n = 1 /\ text # Junk -> units \o Tail(text)
                        [] OTHER -> Junk
           /\ got' = got \cup Range(units)
    /\ rpc' = "read" /\ shown' = text'
    /\ UNCHANGED <<fifo, spc, i, kills>>

\* read returns 0.  "finish receiving" is printed, the text once more, and the
\* loop goes on.
ReadEof ==
    /\ rpc \in {"read", "eof"}
    /\ pipe = <<>> /\ ~WriteEndOpen
    /\ rpc' = "eof" /\ shown' = text
    /\ UNCHANGED <<fifo, pipe, spc, i, text, kills, got>>

Reader == OpenRead \/ Read \/ ReadEof

\* The user starts the reader once more.
Restart ==
    /\ rpc \in {"failed", "gone"}
    /\ rpc' = "start" /\ text' = Junk /\ shown' = <<>>
    /\ UNCHANGED <<fifo, pipe, spc, i, kills, got>>

\* The user interrupts the reader, which ends in no other way, or a sender.
Interrupt ==
    /\ kills > 0 /\ kills' = kills - 1
    /\ \/ /\ ReaderOpen
          /\ rpc' = "gone" /\ UNCHANGED spc
       \/ \E s \in Senders :
             /\ spc[s] \notin {"done", "failed", "killed"}
             /\ spc' = [spc EXCEPT ![s] = "killed"] /\ UNCHANGED rpc
    /\ pipe' = Emptied
    /\ UNCHANGED <<fifo, i, text, shown, got>>

-----------------------------------------------------------------------------
(* test2.c: write, read and read again, holding both ends. *)

Test2Write ==
    /\ rpc = "test2_write"
    /\ pipe' = Message(Self, 0)
    /\ rpc' = "test2_read"
    /\ UNCHANGED <<fifo, spc, i, text, shown, kills, got>>

NextTest2 == [test2_read |-> "test2_read2", test2_read2 |-> "test2_returned"]

Test2Read ==
    /\ rpc \in {"test2_read", "test2_read2"}
    /\ pipe # <<>> \/ ~WriteEndOpen
    /\ rpc' = NextTest2[rpc]
    /\ pipe' = SubSeq(pipe, BufSize + 1, Len(pipe))
    /\ UNCHANGED <<fifo, spc, i, text, shown, kills, got>>

-----------------------------------------------------------------------------
Next == Reader \/ Restart \/ Interrupt \/ Test2Write \/ Test2Read
        \/ \E s \in Senders : Sender(s)

Spec == Init /\ [][Next]_vars

\* The processes run; the user need not do anything.
Fairness == /\ WF_vars(Reader) /\ WF_vars(Test2Write) /\ WF_vars(Test2Read)
            /\ \A s \in Senders : WF_vars(Sender(s))
FairSpec == Spec /\ Fairness

-----------------------------------------------------------------------------
(* Properties. *)

UnitsOf(S) == [from : S, msg : 0 .. Messages - 1, part : 1 .. MsgLen]
AnyUnit == UnitsOf(Senders \cup {Self})

\* Types; nobody waits in open while the other end is open, and nothing is in
\* a pipe that nobody has open.
TypeOK ==
    /\ fifo \in BOOLEAN
    /\ pipe \in Seq(AnyUnit) /\ Len(pipe) <= PipeSize
    /\ spc \in [Senders -> {"mkfifo", "open", "opening", "write", "done", "failed", "killed"}]
    /\ i \in [Senders -> 0 .. Messages]
    /\ rpc \in {"start", "opening", "read", "eof", "failed", "gone",
                "test2_write", "test2_read", "test2_read2", "test2_returned"}
    /\ text = Junk \/ text \in Seq(AnyUnit)
    /\ kills \in 0 .. Kills /\ got \subseteq UnitsOf(Senders)
    /\ ReaderOpen => \A s \in Senders : spc[s] # "opening"
    /\ rpc = "opening" => ~SendersOpen
    /\ pipe # <<>> => WriteEndOpen \/ ReaderOpen

\* Messages do not mix: two units that are next to each other belong to one
\* message, or one ends its message and the other begins its own.
Unmixed(units) ==
    \A k \in 1 .. Len(units) - 1 :
        LET u == units[k]
            v == units[k + 1]
        IN  \/ v = [u EXCEPT !.part = @ + 1]
            \/ u.part = MsgLen /\ v.part = 1

\* u comes before v in what their sender writes.
Before(u, v) ==
    /\ u.from = v.from
    /\ \/ u.msg < v.msg
       \/ u.msg = v.msg /\ u.part < v.part

Written == {u \in UnitsOf(Senders) : u.msg < Messages - i[u.from]}

\* Though reads and writes do not correspond, the stream is the senders'
\* messages, whole, each sender's in order; while nobody is interrupted, all
\* that was written has been read or comes after what was read.
StreamInOrder ==
    /\ Unmixed(pipe)
    /\ \A j, k \in 1 .. Len(pipe) :
          j < k /\ pipe[j].from = pipe[k].from => Before(pipe[j], pipe[k])
    /\ \A k \in 1 .. Len(pipe) : \A u \in got :
          u.from = pipe[k].from => Before(u, pipe[k])
    /\ kills = Kills => Written \subseteq got \cup Range(pipe)

\* The reader prints memory it never wrote only if somebody was interrupted: a
\* sender before its first message, or an earlier reader.
NoJunk == shown = Junk => kills < Kills

\* Everything a sender has to say is read, as long as nobody is interrupted and
\* its open does not fail; and a sender that has opened the FIFO always ends.
Delivered ==
    /\ [](kills = Kills) => \A s \in Senders :
           spc[s] = "write" ~> UnitsOf({s}) \subseteq got
    /\ \A s \in Senders : spc[s] = "write" ~> spc[s] \in {"done", "killed"}

\* test2 waits in its second read for itself: it never returns.
Test2Hangs == rpc # "test2_returned"

\* What the notes require at end of file: the reader leaves its loop.  It fails.
EofEnds == rpc = "eof" ~> rpc \notin {"read", "eof"}
=============================================================================
