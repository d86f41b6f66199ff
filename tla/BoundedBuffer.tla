--------------------------- MODULE BoundedBuffer ---------------------------
(***************************************************************************)
(* The producer/consumer programs: DAY7/pdr_cum.cpp, DAY7/pdr_cum_final.cpp,*)
(* DAY8/pdr2_con_mode.cpp, DAY9/2pro_con_mde.cpp and DAY9/3p2c_mode.cpp.    *)
(* Threads push numbers into one queue and pop them from it under one       *)
(* mutex, g_mutex, with the condition variables not_full and not_empty.     *)
(* The programs have the same loops and differ in the number of threads,    *)
(* the queue's capacity, the loop bounds and in how the threads learn that  *)
(* the work is over; a behaviour is a run of one of them, `prog', chosen in *)
(* the initial state.                                                       *)
(*                                                                          *)
(* A step is one pthread call together with the computation before the      *)
(* next one; everything shared is touched under g_mutex only.               *)
(***************************************************************************)
EXTENDS Integers, Sequences, FiniteSets

CONSTANTS Producers,        \* producer threads
          Consumers,        \* consumer threads
          NoThread,         \* the owner of an unlocked mutex
          Programs,         \* the programs a behaviour may run
          SpuriousWakeups   \* bound: wakeups of pthread_cond_wait without a signal

Threads == Producers \cup Consumers

\* finish is how the end of the work is made known:
\*   "counted"    each loop has a fixed number of rounds
\*   "broadcast"  a finished producer counts itself and broadcasts not_empty
\*   "last"       it counts itself; only the last signals, and unlocks
Program == [producers : (SUBSET Producers) \ {{}}, consumers : (SUBSET Consumers) \ {{}},
            size : Nat \ {0}, items : Nat \ {0}, rounds : Nat,
            finish : {"counted", "broadcast", "last"}]

ASSUME ThreadsAssumption ==
    /\ IsFiniteSet(Producers)
    /\ IsFiniteSet(Consumers)
    /\ Producers \cap Consumers = {}
    /\ NoThread \notin Threads

\* Where the consumer's loop is counted there is one consumer, and the loop is
\* entered.  That it takes what the producers put is a property, not assumed.
ASSUME ProgramsAssumption ==
    /\ Programs \subseteq Program
    /\ \A g \in Programs : g.finish = "counted" =>
          Cardinality(g.consumers) = 1 /\ g.rounds > 0

ASSUME WakeupsAssumption == SpuriousWakeups \in Nat

-----------------------------------------------------------------------------
(* The programs.  The capacity and the loop bounds are parameters, so that *)
(* the model checker can also run smaller instances than the source's.     *)

\* One slot (the flag `full'), one item, no loop.
PdrCum(p, c) ==
    [producers |-> {p}, consumers |-> {c}, size |-> 1, items |-> 1,
     rounds |-> 1, finish |-> "counted"]

\* One producer that loops 10 times and one consumer that does (size is 5).
PdrCumFinal(p, c, size, items, rounds) ==
    [producers |-> {p}, consumers |-> {c}, size |-> size, items |-> items,
     rounds |-> rounds, finish |-> "counted"]

\* Two producers of 10 items and a consumer that loops 20 times (size 5): the
\* two numbers are literals of their own.
OneRoundShort(p1, p2, c, size, items, rounds) ==
    [producers |-> {p1, p2}, consumers |-> {c}, size |-> size,
     items |-> items, rounds |-> rounds - 1, finish |-> "counted"]
Pdr2ConMode(p1, p2, c, size, items, rounds) ==
    [producers |-> {p1, p2}, consumers |-> {c}, size |-> size,
     items |-> items, rounds |-> rounds, finish |-> "counted"]

\* BUFFER_SIZE is 5, producer_count 10; PRODUCE_COUNT, the number of
\* producers, is Cardinality(prog.producers) below.
TwoProTwoCon(p1, p2, c1, c2, size, items) ==
    [producers |-> {p1, p2}, consumers |-> {c1, c2}, size |-> size,
     items |-> items, rounds |-> 0, finish |-> "broadcast"]

\* BUFFER_SIZE is 5, producer_count 5.
ThreeProTwoCon(p1, p2, p3, c1, c2, size, items) ==
    [producers |-> {p1, p2, p3}, consumers |-> {c1, c2}, size |-> size,
     items |-> items, rounds |-> 0, finish |-> "last"]

-----------------------------------------------------------------------------
VARIABLES prog,           \* the program that runs
          buffer,         \* the queue, the front first
          round,          \* the loop counter i of each thread: rounds that
                          \* have pushed (popped) their item
          delivered,      \* history: items of each producer that were popped
          producer_done,  \* the counter of finished producers
          owner,          \* the thread that holds g_mutex, or NoThread
          pc,             \* where each thread is
          joined,         \* main has joined every thread and destroyed g_mutex
          wakeups         \* spurious wakeups still to come

vars == <<prog, buffer, round, delivered, producer_done, owner, pc, joined, wakeups>>

\* Labels of the threads, and those at which a thread holds g_mutex.
Critical == {"check", "signal", "unlock", "retire", "retire_unlock"}
Labels == Critical \cup
          {"new", "lock", "wait_not_full", "wait_not_empty", "finish", "done"}

Init == /\ prog \in Programs
        /\ buffer = <<>>
        /\ round = [t \in Threads |-> 0]
        /\ delivered = [p \in Producers |-> 0]
        /\ producer_done = 0
        /\ owner = NoThread
        /\ pc = [t \in Threads |-> "new"]
        /\ joined = FALSE
        /\ wakeups = SpuriousWakeups

Goto(t, label) == pc' = [pc EXCEPT ![t] = label]

\* pthread_mutex_lock returns to one thread at a time, in no fixed order.
Acquire(t) == owner = NoThread /\ owner' = t

\* The threads waiting in pthread_cond_wait for a condition variable.
Waiting(label) == {t \in Threads : pc[t] = label}

\* Thread t goes on at `next' having signalled the condition variable whose
\* waiters are at `label': one of them, if there is one, must relock g_mutex.
Signal(t, next, label) ==
    IF Waiting(label) = {}
    THEN Goto(t, next)
    ELSE \E w \in Waiting(label) : pc' = [pc EXCEPT ![t] = next, ![w] = "lock"]

\* The same for pthread_cond_broadcast: all the waiters must relock.
BroadcastToOne(t, next, label) == Signal(t, next, label)
Broadcast(t, next, label) ==
    pc' = [u \in Threads |-> IF u = t THEN next
                             ELSE IF pc[u] = label THEN "lock" ELSE pc[u]]

-----------------------------------------------------------------------------
(* main and the pthread library. *)

\* pthread_create: every program creates its producers before its consumers.
Create(t) ==
    /\ pc[t] = "new"
    /\ t \in prog.consumers => \A p \in prog.producers : pc[p] # "new"
    /\ Goto(t, "lock")
    /\ UNCHANGED <<prog, buffer, round, delivered, producer_done, owner, joined, wakeups>>

Lock(t) ==
    /\ pc[t] = "lock"
    /\ Acquire(t)
    /\ Goto(t, "check")
    /\ UNCHANGED <<prog, buffer, round, delivered, producer_done, joined, wakeups>>

\* POSIX lets pthread_cond_wait return without a signal.
SpuriousWakeup(t) ==
    /\ pc[t] \in {"wait_not_full", "wait_not_empty"}
    /\ wakeups > 0
    /\ wakeups' = wakeups - 1
    /\ Goto(t, "lock")
    /\ UNCHANGED <<prog, buffer, round, delivered, producer_done, owner, joined>>

-----------------------------------------------------------------------------
(* The producers. *)

FullOffByOne == Len(buffer) > prog.size
Full == Len(buffer) >= prog.size

\* while (buffer.size() >= BUFFER_SIZE) pthread_cond_wait(&not_full, &g_mutex);
WaitNotFullHoldingMutex(p) ==
    /\ pc[p] = "check"
    /\ Full
    /\ Goto(p, "wait_not_full")
    /\ UNCHANGED <<prog, buffer, round, delivered, producer_done, owner, joined, wakeups>>
WaitNotFull(p) ==
    /\ pc[p] = "check"
    /\ Full
    /\ owner' = NoThread
    /\ Goto(p, "wait_not_full")
    /\ UNCHANGED <<prog, buffer, round, delivered, producer_done, joined, wakeups>>

\* buffer.push(i + id)
Push(p) ==
    /\ pc[p] = "check"
    /\ ~Full
    /\ buffer' = Append(buffer, [from |-> p, n |-> round[p]])
    /\ round' = [round EXCEPT ![p] = @ + 1]
    /\ Goto(p, "signal")
    /\ UNCHANGED <<prog, delivered, producer_done, owner, joined, wakeups>>

\* Signalling only when the queue was empty before the push is not enough.
SignalNotEmptyIfFirst(p) ==
    /\ pc[p] = "signal"
    /\ IF Len(buffer) = 1 THEN Signal(p, "unlock", "wait_not_empty")
                          ELSE Goto(p, "unlock")
    /\ UNCHANGED <<prog, buffer, round, delivered, producer_done, owner, joined, wakeups>>
SignalNotEmpty(p) ==
    /\ pc[p] = "signal"
    /\ Signal(p, "unlock", "wait_not_empty")
    /\ UNCHANGED <<prog, buffer, round, delivered, producer_done, owner, joined, wakeups>>

\* The end of a round: the next one, or the code after the loop.
UnlockProducer(p) ==
    /\ pc[p] = "unlock"
    /\ owner' = NoThread
    /\ Goto(p, IF round[p] < prog.items THEN "lock"
               ELSE IF prog.finish = "counted" THEN "done" ELSE "finish")
    /\ UNCHANGED <<prog, buffer, round, delivered, producer_done, joined, wakeups>>

LockToFinish(p) ==
    /\ pc[p] = "finish"
    /\ Acquire(p)
    /\ Goto(p, "retire")
    /\ UNCHANGED <<prog, buffer, round, delivered, producer_done, joined, wakeups>>

OneProducerCount == 1
PRODUCE_COUNT == Cardinality(prog.producers)

\* producer_done++ and pthread_cond_broadcast(&not_empty)
Retire(p) ==
    /\ pc[p] = "retire"
    /\ prog.finish = "broadcast"
    /\ producer_done' = producer_done + 1
    /\ Broadcast(p, "retire_unlock", "wait_not_empty")
    /\ UNCHANGED <<prog, buffer, round, delivered, owner, joined, wakeups>>

\* producer_done++ in 3p2c_mode.cpp, whose signal and unlock are both under
\* if (producer_done == PRODUCE_COUNT): another producer returns as it is.
RetireIfLast(p) ==
    /\ pc[p] = "retire"
    /\ prog.finish = "last"
    /\ producer_done' = producer_done + 1
    /\ IF producer_done' = PRODUCE_COUNT
       THEN Signal(p, "retire_unlock", "wait_not_empty")
       ELSE Goto(p, "done")
    /\ UNCHANGED <<prog, buffer, round, delivered, owner, joined, wakeups>>

ReturnLocked(p) ==
    /\ pc[p] = "retire_unlock"
    /\ Goto(p, "done")
    /\ UNCHANGED <<prog, buffer, round, delivered, producer_done, owner, joined, wakeups>>
UnlockAndReturn(p) ==
    /\ pc[p] = "retire_unlock"
    /\ owner' = NoThread
    /\ Goto(p, "done")
    /\ UNCHANGED <<prog, buffer, round, delivered, producer_done, joined, wakeups>>

Producer(p) ==
    \/ Lock(p) \/ WaitNotFull(p) \/ Push(p) \/ SignalNotEmpty(p) \/ UnlockProducer(p)
    \/ LockToFinish(p) \/ Retire(p) \/ RetireIfLast(p) \/ UnlockAndReturn(p)

-----------------------------------------------------------------------------
(* The consumers. *)

Empty == buffer = <<>>
Counted == prog.finish = "counted"

\* The condition of a consumer's while loop around pthread_cond_wait ...
MustWait == Empty /\ (Counted \/ producer_done < PRODUCE_COUNT)
\* ... and of the if after it, which the counted programs do not have.
WorkOver == Empty /\ ~Counted /\ producer_done = PRODUCE_COUNT

WaitNotEmpty(c) ==
    /\ pc[c] = "check"
    /\ MustWait
    /\ owner' = NoThread
    /\ Goto(c, "wait_not_empty")
    /\ UNCHANGED <<prog, buffer, round, delivered, producer_done, joined, wakeups>>

\* unlock and break
Exit(c) ==
    /\ pc[c] = "check"
    /\ ~MustWait
    /\ WorkOver
    /\ owner' = NoThread
    /\ Goto(c, "done")
    /\ UNCHANGED <<prog, buffer, round, delivered, producer_done, joined, wakeups>>

\* buffer.front() and buffer.pop()
PopBack(c) ==
    /\ pc[c] = "check"
    /\ ~MustWait
    /\ ~WorkOver
    /\ delivered' = [delivered EXCEPT ![buffer[Len(buffer)].from] = @ + 1]
    /\ buffer' = SubSeq(buffer, 1, Len(buffer) - 1)
    /\ round' = IF Counted THEN [round EXCEPT ![c] = @ + 1] ELSE round
    /\ Goto(c, "signal")
    /\ UNCHANGED <<prog, producer_done, owner, joined, wakeups>>
Pop(c) ==
    /\ pc[c] = "check"
    /\ ~MustWait
    /\ ~WorkOver
    /\ delivered' = [delivered EXCEPT ![Head(buffer).from] = @ + 1]
    /\ buffer' = Tail(buffer)
    /\ round' = IF Counted THEN [round EXCEPT ![c] = @ + 1] ELSE round
    /\ Goto(c, "signal")
    /\ UNCHANGED <<prog, producer_done, owner, joined, wakeups>>

SignalNotFull(c) ==
    /\ pc[c] = "signal"
    /\ Signal(c, "unlock", "wait_not_full")
    /\ UNCHANGED <<prog, buffer, round, delivered, producer_done, owner, joined, wakeups>>

UnlockCountedConsumer(c) ==
    /\ pc[c] = "unlock"
    /\ owner' = NoThread
    /\ Goto(c, IF round[c] = prog.rounds THEN "done" ELSE "lock")
    /\ UNCHANGED <<prog, buffer, round, delivered, producer_done, joined, wakeups>>
UnlockConsumer(c) ==
    /\ pc[c] = "unlock"
    /\ owner' = NoThread
    /\ Goto(c, IF Counted /\ round[c] = prog.rounds THEN "done" ELSE "lock")
    /\ UNCHANGED <<prog, buffer, round, delivered, producer_done, joined, wakeups>>

Consumer(c) ==
    \/ Lock(c) \/ WaitNotEmpty(c) \/ Exit(c) \/ Pop(c) \/ SignalNotFull(c) \/ UnlockConsumer(c)

-----------------------------------------------------------------------------
\* main: the joins in their order are one step, after which g_mutex and the
\* condition variables are destroyed.
Join ==
    /\ ~joined
    /\ \A t \in prog.producers \cup prog.consumers : pc[t] = "done"
    /\ joined' = TRUE
    /\ UNCHANGED <<prog, buffer, round, delivered, producer_done, owner, pc, wakeups>>

Main == Join \/ \E t \in prog.producers \cup prog.consumers : Create(t)

Next == \/ Main
        \/ \E p \in prog.producers : Producer(p)
        \/ \E c \in prog.consumers : Consumer(c)
        \/ \E t \in prog.producers \cup prog.consumers : SpuriousWakeup(t)

Spec == Init /\ [][Next]_vars

\* Every thread that can run is run: the scheduler's promise.  Nothing is
\* assumed of the order in which g_mutex is handed over.
Fairness == /\ WF_vars(Main)
            /\ \A p \in Producers : WF_vars(p \in prog.producers /\ Producer(p))
            /\ \A c \in Consumers : WF_vars(c \in prog.consumers /\ Consumer(c))

FairSpec == Spec /\ Fairness

-----------------------------------------------------------------------------
(* Properties. *)

\* Types; and the queue never holds more than its capacity: two producers
\* woken for one free slot must not both push (the while around the wait).
TypeOK ==
    /\ prog \in Programs
    /\ buffer \in Seq([from : Producers, n : Nat])
    /\ Len(buffer) <= prog.size
    /\ round \in [Threads -> Nat]
    /\ delivered \in [Producers -> Nat]
    /\ producer_done \in 0..PRODUCE_COUNT
    /\ owner \in Threads \cup {NoThread}
    /\ pc \in [Threads -> Labels]
    /\ joined \in BOOLEAN
    /\ wakeups \in Nat

\* A thread inside a critical section is the owner of g_mutex, so it is alone
\* there, across every wait, signal, loop exit and break; and a thread that
\* has left them holds nothing - unless it is the producer of 3p2c_mode.cpp
\* that returned without unlocking.
MutexDiscipline ==
    /\ \A t \in Threads : pc[t] \in Critical => owner = t
    /\ owner # NoThread => \/ pc[owner] \in Critical
                           \/ prog.finish = "last" /\ pc[owner] = "done"

\* The queue holds, of every producer, exactly the items pushed and not yet
\* popped, the older before the newer: no interleaving of producers and
\* consumers loses an item, takes one twice or overtakes within a producer.
InOrderOnce ==
    /\ \A i \in 1..Len(buffer) :
          buffer[i].n \in delivered[buffer[i].from] .. round[buffer[i].from] - 1
    /\ \A i, j \in 1..Len(buffer) :
          i < j /\ buffer[i].from = buffer[j].from => buffer[i].n < buffer[j].n
    /\ \A p \in Producers : \A n \in delivered[p] .. round[p] - 1 :
          \E i \in 1..Len(buffer) : buffer[i] = [from |-> p, n |-> n]

\* Threads that will look at the queue again without another signal.
Awake(S) == {t \in S : pc[t] \in {"new", "lock", "check"}}
Signalling(S) == {t \in S : pc[t] = "signal"}

\* No signal is lost.  While producers wait for room, every free slot has a
\* thread that will use it or is about to announce it; the same for items and
\* waiting consumers; and where the end is broadcast nobody waits after it.
\* Each condition variable gets one signal per item, so this needs the push
\* (pop), the wait and the relock to be counted together.
RoomUsers == Awake(prog.producers) \cup Signalling(prog.consumers)
ItemUsers == Awake(prog.consumers) \cup Signalling(prog.producers)
NoLostWakeup ==
    /\ Waiting("wait_not_full") # {} =>
          prog.size - Len(buffer) <= Cardinality(RoomUsers)
    /\ Waiting("wait_not_empty") # {} =>
          Len(buffer) <= Cardinality(ItemUsers)
    /\ prog.finish = "broadcast" /\ producer_done = PRODUCE_COUNT =>
          Waiting("wait_not_empty") = {}

\* Threads that go on without anybody's help.
Runs(t) == \/ pc[t] \in Critical \cup {"new"}
           \/ pc[t] \in {"lock", "finish"} /\ owner = NoThread

\* No deadlock: until all threads have returned one of them can go on, so never
\* does everybody wait for room, for items or for g_mutex - but in
\* 3p2c_mode.cpp, whose first producer to finish returns without unlocking.
SomebodyRuns ==
    \/ \A t \in prog.producers \cup prog.consumers : pc[t] = "done"
    \/ \E t \in prog.producers \cup prog.consumers : Runs(t)

\* How far the program is from its end, the weightiest first: the items still to
\* be consumed; the steps each thread has left in its rounds, where looking at
\* the queue in vain does not count; the spurious wakeups; how far each thread
\* is from its wait.
Undelivered == [p \in Producers |-> prog.items - delivered[p]]
Stage == [new |-> 4, lock |-> 3, check |-> 3, wait_not_full |-> 3, wait_not_empty |-> 3,
          signal |-> 5, unlock |-> 4, finish |-> 3, retire |-> 2, retire_unlock |-> 1,
          done |-> 0]
Left == [t \in Threads |->
            Stage[pc[t]] + IF t \in Producers THEN 3 * (prog.items - round[t]) ELSE 0]
Place == [t \in Threads |-> CASE pc[t] = "lock" -> 2 [] pc[t] = "check" -> 1 [] OTHER -> 0]

Falls(f, g) == /\ \A x \in DOMAIN f : g[x] <= f[x]
               /\ \E x \in DOMAIN f : g[x] < f[x]

\* Every step takes the program nearer to its end, in this order, so that
\* threads do not wake each other up for ever in vain.
Nearer ==
    \/ Falls(Undelivered, Undelivered')
    \/ UNCHANGED Undelivered /\ Falls(Left, Left')
    \/ UNCHANGED <<Undelivered, Left>> /\ wakeups' < wakeups
    \/ UNCHANGED <<Undelivered, Left, wakeups>> /\ Falls(Place, Place')
    \/ UNCHANGED <<Undelivered, Left, wakeups, Place>> /\ ~joined /\ joined'

\* What makes the program end once every thread that can go on does.
Proceeds == [](prog.finish # "last" => SomebodyRuns) /\ [][Nearer]_vars

\* When main has joined the threads and destroys g_mutex, nobody holds it and
\* every item of every producer has been consumed: the counts of the loops, in
\* separate literals, fit, and nobody leaves before the last item is taken.
JoinedQuiet ==
    joined => /\ owner = NoThread
              /\ buffer = <<>>
              /\ \A p \in prog.producers : delivered[p] = prog.items

\* The programs implement the work queue: threads, mutex, condition variables
\* and the count of finished producers are hidden, a consumer that returned
\* is a consumer that stopped.
Queue == INSTANCE WorkQueue
             WITH job <- prog,
                  sent <- [p \in Producers |-> round[p]],
                  channel <- buffer,
                  stopped <- {c \in prog.consumers : pc[c] = "done"}
Implements == Queue!Spec

\* Every program but 3p2c_mode.cpp comes to its end: all items are produced
\* and consumed, every wait is woken, every thread returns and main joins it.
Terminates == prog.finish # "last" ~> joined

\* In 3p2c_mode.cpp, with its several producers, no consumer ever leaves its
\* loop, whatever the scheduling: the first producer to finish keeps g_mutex.
ConsumersNeverExit ==
    prog.finish = "last" /\ PRODUCE_COUNT > 1 => \A c \in prog.consumers : pc[c] # "done"

\* 3p2c_mode.cpp:76 has each consumer leave "as all producers are done and
\* buffer is empty", as its two-producer sibling does.
ConsumersExit == <>(\A c \in prog.consumers : pc[c] = "done")

=============================================================================
