------------------------------- MODULE Locks -------------------------------
(***************************************************************************)
(* The programs that share one integer under one lock: DAY6/mutex.cpp (two  *)
(* threads, a mutex), DAY6/sem.cpp (parent and child process, a semaphore   *)
(* in shared memory), DAY7/src.cpp (two readers and a writer, a read/write  *)
(* lock) and DAY9/2r_2w_mode.cpp (two readers and two writers).  A          *)
(* behaviour is a run of one of them, `prog', chosen in the initial state.  *)
(*                                                                          *)
(* The increment of the integer is a load and a store, and nothing but the  *)
(* lock keeps two of them apart.                                            *)
(***************************************************************************)
EXTENDS Integers, FiniteSets

CONSTANTS Threads,
          Parent,      \* the parent process of sem.cpp, one of the Threads
          Programs,    \* the programs a behaviour may run
          NotSeen      \* what a thread has printed that has not printed

\* Who reads and who writes the integer, who only prints "work", and whether
\* the writers print what they have written before they unlock.
Program == [readers : SUBSET Threads, writers : SUBSET Threads, printers : SUBSET Threads,
            lock : {"mutex", "sem", "rwlock"}, extra_join : BOOLEAN, announces : BOOLEAN]

ASSUME ThreadsAssumption ==
    /\ IsFiniteSet(Threads) /\ Parent \in Threads /\ NotSeen \notin Nat

ASSUME ProgramsAssumption ==
    /\ Programs \subseteq Program
    /\ \A g \in Programs :
          /\ g.readers \cap g.writers = {} /\ g.printers \cap (g.readers \cup g.writers) = {}
          /\ g.lock = "sem" => g.readers = {} /\ g.printers = {} /\ Parent \in g.writers
          /\ g.lock # "sem" => Parent \notin g.readers \cup g.writers \cup g.printers
          /\ g.announces => g.lock # "sem"

MutexProgram(t1, t2) ==
    [readers |-> {}, writers |-> {}, printers |-> {t1, t2},
     lock |-> "mutex", extra_join |-> FALSE, announces |-> FALSE]

SemProgram(child) ==
    [readers |-> {}, writers |-> {Parent, child}, printers |-> {},
     lock |-> "sem", extra_join |-> FALSE, announces |-> FALSE]

\* It joins a fourth thread that it never created.
RWProgram(r1, r2, w) ==
    [readers |-> {r1, r2}, writers |-> {w}, printers |-> {},
     lock |-> "rwlock", extra_join |-> TRUE, announces |-> FALSE]

TwoReadersTwoWriters(r1, r2, w1, w2) ==
    [readers |-> {r1, r2}, writers |-> {w1, w2}, printers |-> {},
     lock |-> "rwlock", extra_join |-> FALSE, announces |-> TRUE]

VARIABLES prog,      \* the program that runs
          pc,        \* where each thread is
          main,      \* where main is once there is nothing left to start
          holders,   \* the threads that hold the lock
          reg,       \* what each thread loaded last
          data,      \* the shared integer: data, or count in sem.cpp
          seen       \* the integer as each thread printed it

vars == <<prog, pc, main, holders, reg, data, seen>>

Running == prog.readers \cup prog.writers \cup prog.printers

Init == /\ prog \in Programs
        /\ pc = [t \in Threads |-> "new"]
        /\ main = "run"
        /\ holders = {}
        /\ reg = [t \in Threads |-> 0]
        /\ data = 0
        /\ seen = [t \in Threads |-> NotSeen]

Goto(t, label) == pc' = [pc EXCEPT ![t] = label]

-----------------------------------------------------------------------------
(* The locks. *)

\* sem_init(&shared->sem, 1, 1)
TwoPermits == 2
SemValue == 1

\* pthread_rwlock_rdlock is for readers only.
NeverExclusive(t) == FALSE
Exclusive(t) == t \notin prog.readers

\* pthread_mutex_lock, sem_wait and the two lock calls of a read/write lock
\* return to thread t now; which of several threads comes first is open.
Admits(t) == CASE prog.lock = "mutex"  -> holders = {}
               [] prog.lock = "sem"    -> Cardinality(holders) < SemValue
               [] prog.lock = "rwlock" -> IF Exclusive(t) THEN holders = {}
                                          ELSE \A h \in holders : ~Exclusive(h)

-----------------------------------------------------------------------------
(* The threads. *)

\* pthread_create: readers before writers.
Create(t) ==
    /\ pc[t] = "new" /\ main = "run" /\ prog.lock # "sem"
    /\ t \in prog.writers => \A r \in prog.readers : pc[r] # "new"
    /\ Goto(t, "lock")
    /\ UNCHANGED <<prog, main, holders, reg, data, seen>>

\* sem.cpp: from fork on there are a parent and a child, or fork fails.
Fork ==
    /\ prog.lock = "sem" /\ main = "run"
    /\ \A t \in Running : pc[t] = "new"
    /\ \/ pc' = [t \in Threads |-> IF t \in Running THEN "lock" ELSE pc[t]] /\ UNCHANGED main
       \/ main' = "failed" /\ UNCHANGED pc
    /\ UNCHANGED <<prog, holders, reg, data, seen>>

Lock(t) ==
    /\ pc[t] = "lock"
    /\ Admits(t)
    /\ holders' = holders \cup {t}
    /\ Goto(t, IF t \in prog.printers THEN "unlock" ELSE "load")
    /\ UNCHANGED <<prog, main, reg, data, seen>>

\* What a thread does with the integer in its section: a writer adds to it.
AlwaysAdds(t) == TRUE
Adds(t) == t \in prog.writers

\* The load of data++; a reader prints what it has loaded.
Load(t) ==
    /\ pc[t] = "load"
    /\ reg' = [reg EXCEPT ![t] = data]
    /\ IF Adds(t) THEN Goto(t, "store") /\ UNCHANGED seen
                  ELSE Goto(t, "unlock") /\ seen' = [seen EXCEPT ![t] = data]
    /\ UNCHANGED <<prog, main, holders, data>>

Store(t) ==
    /\ pc[t] = "store"
    /\ data' = reg[t] + 1
    /\ Goto(t, IF prog.announces THEN "show" ELSE "unlock")
    /\ UNCHANGED <<prog, main, holders, reg, seen>>

\* 2r_2w_mode.cpp: a writer reads the integer again, to print it, before it
\* unlocks.
Show(t) ==
    /\ pc[t] = "show"
    /\ seen' = [seen EXCEPT ![t] = data]
    /\ Goto(t, "unlock")
    /\ UNCHANGED <<prog, main, holders, reg, data>>

\* After its section the child of sem.cpp prints the integer, and the parent
\* when it has waited for the child; the other threads return.
UnlockIfExclusive(t) ==
    /\ pc[t] = "unlock"
    /\ holders' = IF Exclusive(t) THEN holders \ {t} ELSE holders
    /\ Goto(t, IF prog.lock = "sem" /\ t # Parent THEN "print" ELSE "done")
    /\ UNCHANGED <<prog, main, reg, data, seen>>
Unlock(t) ==
    /\ pc[t] = "unlock"
    /\ holders' = holders \ {t}
    /\ Goto(t, IF prog.lock = "sem" /\ t # Parent THEN "print" ELSE "done")
    /\ UNCHANGED <<prog, main, reg, data, seen>>

\* The child prints without the lock, and ends.
PrintCount(t) ==
    /\ pc[t] = "print"
    /\ seen' = [seen EXCEPT ![t] = data]
    /\ Goto(t, "done")
    /\ UNCHANGED <<prog, main, holders, reg, data>>

Thread(t) == Lock(t) \/ Load(t) \/ Store(t) \/ Show(t) \/ Unlock(t) \/ PrintCount(t)

-----------------------------------------------------------------------------
(* main. *)

ReadersReturned == \A t \in prog.readers : pc[t] = "done"
AllReturned == \A t \in Running : pc[t] = "done"

\* The joins, or wait in sem.cpp.
Join ==
    /\ main = "run"
    /\ AllReturned
    /\ main' = IF prog.extra_join THEN "extra_join" ELSE "destroy"
    /\ UNCHANGED <<prog, pc, holders, reg, data, seen>>

\* src.cpp joins tid4, which it never assigned: undefined, so the call may
\* fail and return, bring the program down, or never return.
ExtraJoin ==
    /\ main = "extra_join"
    /\ main' \in {"destroy", "crashed", "stuck"}
    /\ UNCHANGED <<prog, pc, holders, reg, data, seen>>

\* The lock is destroyed; the parent in sem.cpp then prints the integer.
Destroy ==
    /\ main = "destroy"
    /\ main' = "ended"
    /\ seen' = IF prog.lock = "sem" THEN [seen EXCEPT ![Parent] = data] ELSE seen
    /\ UNCHANGED <<prog, pc, holders, reg, data>>

Main == Fork \/ Join \/ ExtraJoin \/ Destroy \/ \E t \in Running : Create(t)

Next == Main \/ \E t \in Running : Thread(t)

Spec == Init /\ [][Next]_vars

\* Every thread that can run is run; nothing is assumed of the order in which
\* a lock is handed over.
Fairness == WF_vars(Main) /\ \A t \in Threads : WF_vars(t \in Running /\ Thread(t))
FairSpec == Spec /\ Fairness

-----------------------------------------------------------------------------
(* Properties. *)

Labels == {"new", "lock", "load", "store", "show", "unlock", "print", "done"}
Inside == {"load", "store", "show", "unlock"}

\* Types; and nobody but a writer adds to the integer, nor more than once.
TypeOK ==
    /\ prog \in Programs
    /\ pc \in [Threads -> Labels]
    /\ main \in {"run", "extra_join", "destroy", "ended", "crashed", "stuck", "failed"}
    /\ holders \subseteq Running
    /\ reg \in [Threads -> Nat]
    /\ data \in 0 .. Cardinality(prog.writers)
    /\ seen \in [Threads -> Nat \cup {NotSeen}]

\* Who is in a section holds the lock, and a writer or a printer is alone there.
Exclusion ==
    /\ \A t \in Running : t \in holders <=> pc[t] \in Inside
    /\ \A t \in Running, u \in Running :
          pc[t] \in Inside /\ pc[u] \in Inside /\ t \notin prog.readers => t = u

\* When the lock is destroyed nobody holds it and no addition is lost, and the
\* parent of sem.cpp prints the sum, whichever of the two came first.
DestroyedQuiet ==
    /\ main \in {"extra_join", "destroy", "ended"} =>
          holders = {} /\ data = Cardinality(prog.writers)
    /\ main = "ended" /\ prog.lock = "sem" => seen[Parent] = Cardinality(prog.writers)

\* The load and store of an increment appear as one step: the programs
\* implement the counter.  Everything printed is a value of it, and the writers
\* of 2r_2w_mode.cpp print each its own.
Total == INSTANCE Counter
             WITH job <- prog, value <- data,
                  added <- {t \in prog.writers : pc[t] \in {"show", "unlock", "print", "done"}}
Implements == Total!Spec

\* Every program comes to its end; src.cpp gets as far as the join of a thread
\* it never created, with its threads returned, and what that call does is
\* undefined.
Finishes == <>(IF prog.extra_join THEN main = "extra_join" ELSE main \in {"ended", "failed"})
=============================================================================
