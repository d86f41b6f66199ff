------------------------ MODULE BoundedBufferProofs ------------------------
(***************************************************************************)
(* Proofs about BoundedBuffer, for every set of programs, threads and      *)
(* capacities, and that it implements WorkQueue.  The inductive invariant  *)
(* is built from the properties of BoundedBuffer and two facts they rest   *)
(* on, Roles and DoneCount.                                                *)
(***************************************************************************)
EXTENDS BoundedBuffer, FiniteSetTheorems, SequenceTheorems, TLAPS

Waits == {"wait_not_full", "wait_not_empty"}

\* What every step of a thread does to pc: t goes to `next', and of the others
\* some that were waiting must relock the mutex.
Moves(t, next) ==
    /\ pc' \in [Threads -> Labels]
    /\ pc'[t] = next
    /\ \A u \in Threads \ {t} : \/ pc'[u] = pc[u]
                                \/ pc[u] \in Waits /\ pc'[u] = "lock"

LEMMA GotoMoves ==
    ASSUME pc \in [Threads -> Labels], NEW t \in Threads, NEW next \in Labels,
           Goto(t, next)
    PROVE  Moves(t, next)
BY DEF Goto, Moves

LEMMA SignalMoves ==
    ASSUME pc \in [Threads -> Labels], NEW t \in Threads, NEW next \in Labels,
           NEW label \in Waits, pc[t] # label, Signal(t, next, label)
    PROVE  Moves(t, next)
<1>1. CASE Waiting(label) = {}
  BY <1>1, GotoMoves DEF Signal
<1>2. CASE Waiting(label) # {}
  <2>1. PICK w \in Waiting(label) : pc' = [pc EXCEPT ![t] = next, ![w] = "lock"]
    BY <1>2 DEF Signal
  <2>2. w \in Threads /\ w # t /\ pc[w] \in Waits
    BY DEF Waiting, Waits
  <2> QED
    BY <2>1, <2>2 DEF Moves, Labels
<1> QED
  BY <1>1, <1>2

LEMMA BroadcastMoves ==
    ASSUME pc \in [Threads -> Labels], NEW t \in Threads, NEW next \in Labels,
           NEW label \in Waits, Broadcast(t, next, label)
    PROVE  Moves(t, next)
BY DEF Broadcast, Moves, Labels

-----------------------------------------------------------------------------
(* Types and the mutex. *)

\* Which labels a thread can be at: one that is not part of the program is
\* never created, a consumer never waits for room, and so on.
Roles ==
    /\ \A t \in Threads \ (prog.producers \cup prog.consumers) : pc[t] = "new"
    /\ \A p \in Producers :
          /\ pc[p] # "wait_not_empty"
          /\ Counted => pc[p] \notin {"finish", "retire", "retire_unlock"}
    /\ \A c \in Consumers :
          pc[c] \notin {"wait_not_full", "finish", "retire", "retire_unlock"}

\* The producers that have counted themselves in producer_done.
Retired == {p \in prog.producers : ~Counted /\ pc[p] \in {"retire_unlock", "done"}}
DoneCount == producer_done = Cardinality(Retired)

LEMMA ProgramFacts ==
    ASSUME TypeOK
    PROVE  /\ prog \in Program
           /\ prog.producers \subseteq Producers
           /\ prog.consumers \subseteq Consumers
           /\ IsFiniteSet(prog.producers)
           /\ IsFiniteSet(prog.consumers)
           /\ PRODUCE_COUNT \in Nat
           /\ prog.size \in Nat
<1>1. prog \in Program
  BY ProgramsAssumption DEF TypeOK
<1>2. prog.producers \subseteq Producers /\ prog.consumers \subseteq Consumers
  BY <1>1 DEF Program
<1>3. IsFiniteSet(prog.producers) /\ IsFiniteSet(prog.consumers)
  BY <1>2, ThreadsAssumption, FS_Subset
<1> QED
  BY <1>1, <1>2, <1>3, FS_CardinalityType DEF Program, PRODUCE_COUNT

Shape == TypeOK /\ Roles /\ MutexDiscipline /\ DoneCount

\* What each step of a thread does to pc, and who then holds the mutex.
LEMMA CommonMoves ==
    ASSUME Shape, NEW t \in prog.producers \cup prog.consumers
    PROVE  /\ t \in Threads
           /\ Create(t) => Moves(t, "lock") /\ pc[t] = "new"
           /\ Lock(t) => Moves(t, "check") /\ pc[t] = "lock"
           /\ SpuriousWakeup(t) => Moves(t, "lock") /\ pc[t] \in Waits
<1>1. t \in Threads
  BY ProgramFacts DEF Shape, Threads
<1> QED
  BY <1>1, GotoMoves
     DEF Shape, TypeOK, Create, Lock, SpuriousWakeup, Labels, Critical, Waits

LEMMA ProducerMoves ==
    ASSUME Shape, NEW p \in prog.producers
    PROVE  /\ p \in Producers /\ p \in Threads
           /\ WaitNotFull(p) => Moves(p, "wait_not_full") /\ pc[p] = "check" /\ owner = p
           /\ Push(p) => Moves(p, "signal") /\ pc[p] = "check" /\ owner = p
           /\ SignalNotEmpty(p) => Moves(p, "unlock") /\ pc[p] = "signal" /\ owner = p
           /\ UnlockProducer(p) =>
                 /\ pc[p] = "unlock" /\ owner = p
                 /\ \E next \in {"lock", "done", "finish"} :
                       /\ Moves(p, next)
                       /\ next = "done" => Counted
                       /\ next = "finish" => ~Counted
           /\ LockToFinish(p) => Moves(p, "retire") /\ pc[p] = "finish"
           /\ Retire(p) \/ RetireIfLast(p) =>
                 /\ pc[p] = "retire" /\ owner = p
                 /\ Moves(p, IF prog.finish = "broadcast" \/ producer_done' = PRODUCE_COUNT
                             THEN "retire_unlock" ELSE "done")
           /\ UnlockAndReturn(p) => Moves(p, "done") /\ pc[p] = "retire_unlock" /\ owner = p
<1>1. p \in Producers /\ p \in Threads /\ pc \in [Threads -> Labels]
  BY ProgramFacts DEF Shape, TypeOK, Threads
<1>2. pc[p] \in Critical => owner = p
  BY <1>1 DEF Shape, MutexDiscipline
<1>3. UnlockProducer(p) =>
          /\ pc[p] = "unlock" /\ owner = p
          /\ \E next \in {"lock", "done", "finish"} :
                /\ Moves(p, next)
                /\ next = "done" => Counted
                /\ next = "finish" => ~Counted
  BY <1>1, <1>2, GotoMoves DEF UnlockProducer, Labels, Critical, Counted
<1>4. Retire(p) \/ RetireIfLast(p) =>
          /\ pc[p] = "retire" /\ owner = p
          /\ Moves(p, IF prog.finish = "broadcast" \/ producer_done' = PRODUCE_COUNT
                      THEN "retire_unlock" ELSE "done")
  BY <1>1, <1>2, GotoMoves, SignalMoves, BroadcastMoves
     DEF Retire, RetireIfLast, Waits, Labels, Critical
<1>5. SignalNotEmpty(p) => Moves(p, "unlock") /\ pc[p] = "signal" /\ owner = p
  BY <1>1, <1>2, SignalMoves DEF SignalNotEmpty, Labels, Critical, Waits
<1> QED
  BY <1>1, <1>2, <1>3, <1>4, <1>5, GotoMoves
     DEF WaitNotFull, Push, LockToFinish, UnlockAndReturn, Labels, Critical

LEMMA ConsumerMoves ==
    ASSUME Shape, NEW c \in prog.consumers
    PROVE  /\ c \in Consumers /\ c \in Threads
           /\ WaitNotEmpty(c) => Moves(c, "wait_not_empty") /\ pc[c] = "check" /\ owner = c
           /\ Exit(c) => Moves(c, "done") /\ pc[c] = "check" /\ owner = c
           /\ Pop(c) => Moves(c, "signal") /\ pc[c] = "check" /\ owner = c
           /\ SignalNotFull(c) => Moves(c, "unlock") /\ pc[c] = "signal" /\ owner = c
           /\ UnlockConsumer(c) =>
                 /\ pc[c] = "unlock" /\ owner = c
                 /\ \E next \in {"lock", "done"} : Moves(c, next)
<1>1. c \in Consumers /\ c \in Threads /\ pc \in [Threads -> Labels]
  BY ProgramFacts DEF Shape, TypeOK, Threads
<1>2. pc[c] \in Critical => owner = c
  BY <1>1 DEF Shape, MutexDiscipline
<1>3. UnlockConsumer(c) => /\ pc[c] = "unlock" /\ owner = c
                           /\ \E next \in {"lock", "done"} : Moves(c, next)
  BY <1>1, <1>2, GotoMoves DEF UnlockConsumer, Labels, Critical
<1>4. SignalNotFull(c) => Moves(c, "unlock") /\ pc[c] = "signal" /\ owner = c
  BY <1>1, <1>2, SignalMoves DEF SignalNotFull, Labels, Critical, Waits
<1> QED
  BY <1>1, <1>2, <1>3, <1>4, GotoMoves
     DEF WaitNotEmpty, Exit, Pop, Labels, Critical

\* A step that moves t within the loops: no producer becomes retired, and t
\* holds the mutex exactly while it is in its critical section.
LEMMA MoveKeepsShape ==
    ASSUME Shape, NEW t \in prog.producers \cup prog.consumers, NEW next \in Labels,
           Moves(t, next), UNCHANGED <<prog, producer_done>>,
           pc[t] # "done", pc[t] # "retire",
           next = "done" => t \in prog.consumers \/ Counted \/ pc[t] = "retire_unlock",
           next # "retire_unlock", pc[t] = "retire_unlock" => next = "done",
           next = "wait_not_full" => t \in prog.producers,
           next = "wait_not_empty" => t \in prog.consumers,
           next \in {"finish", "retire"} => t \in prog.producers /\ ~Counted,
           \/ next \in Critical /\ owner' = t /\ owner \in {t, NoThread}
           \/ next \notin Critical /\ pc[t] \in Critical /\ owner' = NoThread
           \/ next \notin Critical /\ pc[t] \notin Critical /\ owner' = owner
    PROVE  Roles' /\ MutexDiscipline' /\ DoneCount'
<1> USE DEF Shape
<1>1. /\ prog.producers \subseteq Producers /\ prog.consumers \subseteq Consumers
      /\ t \in Threads
      /\ NoThread \notin Threads
      /\ Producers \cap Consumers = {}
  BY ProgramFacts, ThreadsAssumption DEF Threads
<1>2. Roles'
  BY <1>1 DEF Roles, Moves, Waits, Threads, Counted
<1>3. MutexDiscipline'
  BY <1>1 DEF MutexDiscipline, Moves, Waits, Critical, TypeOK
<1>4. Retired' = Retired
  BY <1>1 DEF Retired, Moves, Waits, Threads, Counted, Roles
<1> QED
  BY <1>2, <1>3, <1>4 DEF DoneCount


\* A step that counts its producer among the finished ones.
LEMMA RetireKeepsShape ==
    ASSUME Shape, NEW p \in prog.producers, Retire(p) \/ RetireIfLast(p)
    PROVE  Shape'
<1> DEFINE next == IF prog.finish = "broadcast" \/ producer_done' = PRODUCE_COUNT
                   THEN "retire_unlock" ELSE "done"
<1> USE DEF Shape
<1>1. /\ prog.producers \subseteq Producers /\ prog.consumers \subseteq Consumers
      /\ p \in Threads /\ IsFiniteSet(prog.producers)
      /\ NoThread \notin Threads
      /\ Producers \cap Consumers = {}
  BY ProgramFacts, ThreadsAssumption DEF Threads
<1>2. /\ pc[p] = "retire" /\ ~Counted /\ owner = p
      /\ UNCHANGED <<prog, owner>> /\ producer_done' = producer_done + 1
  BY <1>1 DEF Retire, RetireIfLast, MutexDiscipline, Critical, Counted
<1>3. Moves(p, next)
  BY <1>1, GotoMoves, SignalMoves, BroadcastMoves
     DEF Retire, RetireIfLast, TypeOK, Waits, Labels, Critical
<1>4. Retired' = Retired \cup {p}
  BY <1>1, <1>2, <1>3 DEF Retired, Moves, Waits, Threads, Counted
<1>5. p \notin Retired /\ Retired \subseteq prog.producers
  BY <1>2 DEF Retired
<1>6. DoneCount'
  BY <1>1, <1>2, <1>4, <1>5, FS_Subset, FS_AddElement DEF DoneCount
<1>7. Cardinality(Retired') <= PRODUCE_COUNT /\ Cardinality(Retired') \in Nat
  <2>1. Retired' \in SUBSET prog.producers
    BY <1>4, <1>5
  <2> QED
    BY <2>1, <1>1, FS_Subset, FS_CardinalityType DEF PRODUCE_COUNT
<1>8. Roles'
  BY <1>1, <1>2, <1>3 DEF Roles, Moves, Waits, Threads, Counted
<1>9. MutexDiscipline'
  <2>1. next = "done" => prog.finish = "last"
    BY DEF Retire, RetireIfLast
  <2> QED
    BY <1>1, <1>2, <1>3, <2>1 DEF MutexDiscipline, Moves, Waits, Critical, TypeOK
<1>10. PRODUCE_COUNT' = PRODUCE_COUNT /\ PRODUCE_COUNT \in Nat
  BY <1>2, ProgramFacts DEF PRODUCE_COUNT
<1>11. TypeOK'
  BY <1>2, <1>3, <1>6, <1>7, <1>10 DEF TypeOK, DoneCount, Moves, Retire, RetireIfLast
<1> QED
  BY <1>6, <1>8, <1>9, <1>11

\* A consumer reaches buffer.front() only with something in the queue: the
\* condition of the while and that of the if leave no third case.
LEMMA PopFromNonEmpty ==
    ASSUME Shape, NEW c \in prog.consumers, Pop(c)
    PROVE  buffer # <<>>
<1>1. producer_done \in 0 .. PRODUCE_COUNT /\ PRODUCE_COUNT \in Nat
  BY ProgramFacts DEF Shape, TypeOK
<1> QED
  BY <1>1 DEF Pop, MustWait, WorkOver, Empty

LEMMA ShapeInit == Init => Shape
<1> SUFFICES ASSUME Init PROVE Shape
  OBVIOUS
<1>1. prog \in Program
  BY ProgramsAssumption DEF Init
<1>2. Retired = {} /\ DoneCount
  BY <1>1, FS_EmptySet, ThreadsAssumption
     DEF Init, Retired, DoneCount, Program, Threads
<1>3. PRODUCE_COUNT \in Nat
  BY <1>1, ThreadsAssumption, FS_Subset, FS_CardinalityType DEF PRODUCE_COUNT, Program
<1>4. TypeOK
  <2>1. buffer \in Seq([from : Producers, n : Nat]) /\ Len(buffer) <= prog.size
    BY <1>1, EmptySeq DEF Init, Program
  <2>2. pc \in [Threads -> Labels]
    BY DEF Init, Labels
  <2>3. producer_done \in 0 .. PRODUCE_COUNT /\ wakeups \in Nat
    BY <1>3, WakeupsAssumption DEF Init
  <2>4. round \in [Threads -> Nat] /\ delivered \in [Producers -> Nat]
    BY DEF Init
  <2> QED
    BY <2>1, <2>2, <2>3, <2>4 DEF Init, TypeOK
<1>5. Roles /\ MutexDiscipline
  BY DEF Init, Roles, MutexDiscipline, Critical, Threads
<1> QED
  BY <1>2, <1>4, <1>5 DEF Shape


LEMMA ShapeNext == Shape /\ [Next]_vars => Shape'
<1> SUFFICES ASSUME Shape, [Next]_vars PROVE Shape'
  OBVIOUS
<1> USE DEF Shape
<1> DEFINE Members == prog.producers \cup prog.consumers
<1>1. /\ prog.producers \subseteq Producers /\ prog.consumers \subseteq Consumers
      /\ Members \subseteq Threads
      /\ Producers \cap Consumers = {}
      /\ prog.size \in Nat
  BY ProgramFacts, ThreadsAssumption DEF Threads
<1> HIDE DEF Members
<1>2. ASSUME NEW t \in Members, Create(t) PROVE Shape'
  <2>1. Moves(t, "lock") /\ pc[t] = "new"
    BY <1>2, CommonMoves DEF Members
  <2>2. Roles' /\ MutexDiscipline' /\ DoneCount'
    BY <1>2, <2>1, MoveKeepsShape DEF Create, Critical, Labels, Members
  <2> QED
    BY <1>2, <2>1, <2>2 DEF Create, Moves, TypeOK, PRODUCE_COUNT
<1>3. ASSUME NEW t \in Members, Lock(t) PROVE Shape'
  <2>1. Moves(t, "check") /\ pc[t] = "lock"
    BY <1>3, CommonMoves DEF Members
  <2>2. Roles' /\ MutexDiscipline' /\ DoneCount'
    BY <1>3, <2>1, MoveKeepsShape DEF Lock, Acquire, Critical, Labels, Members
  <2> QED
    BY <1>1, <1>3, <2>1, <2>2 DEF Lock, Acquire, Moves, TypeOK, PRODUCE_COUNT
<1>4. ASSUME NEW t \in Members, SpuriousWakeup(t) PROVE Shape'
  <2>1. Moves(t, "lock") /\ pc[t] \in Waits
    BY <1>4, CommonMoves DEF Members
  <2>2. Roles' /\ MutexDiscipline' /\ DoneCount'
    BY <1>4, <2>1, MoveKeepsShape DEF SpuriousWakeup, Critical, Labels, Waits, Members
  <2> QED
    BY <1>4, <2>1, <2>2 DEF SpuriousWakeup, Moves, TypeOK, PRODUCE_COUNT
<1>5. ASSUME NEW p \in prog.producers, Producer(p) PROVE Shape'
  <2>1. p \in Members /\ p \in Threads /\ p \in Producers
    BY ProducerMoves DEF Members
  <2>2. ASSUME WaitNotFull(p) PROVE Shape'
    <3>1. Moves(p, "wait_not_full") /\ pc[p] = "check" /\ owner = p
      BY <2>2, ProducerMoves
    <3>2. Roles' /\ MutexDiscipline' /\ DoneCount'
      BY <2>1, <2>2, <3>1, MoveKeepsShape DEF WaitNotFull, Critical, Labels, Members
    <3> QED
      BY <2>2, <3>1, <3>2 DEF WaitNotFull, Moves, TypeOK, PRODUCE_COUNT
  <2>3. ASSUME Push(p) PROVE Shape'
    <3>1. Moves(p, "signal") /\ pc[p] = "check" /\ owner = p
      BY <2>3, ProducerMoves
    <3>2. Roles' /\ MutexDiscipline' /\ DoneCount'
      BY <2>1, <2>3, <3>1, MoveKeepsShape DEF Push, Critical, Labels, Members
    <3>3. [from |-> p, n |-> round[p]] \in [from : Producers, n : Nat]
      BY <2>1 DEF TypeOK
    <3>4. buffer' \in Seq([from : Producers, n : Nat]) /\ Len(buffer') = Len(buffer) + 1
      BY <2>3, <3>3, AppendProperties DEF Push, TypeOK
    <3>5. Len(buffer') <= prog'.size
      BY <1>1, <2>3, <3>4, LenProperties DEF Push, Full, TypeOK
    <3>6. round' \in [Threads -> Nat]
      BY <2>1, <2>3 DEF Push, TypeOK
    <3> QED
      BY <2>3, <3>1, <3>2, <3>4, <3>5, <3>6 DEF Push, Moves, TypeOK, PRODUCE_COUNT
  <2>4. ASSUME SignalNotEmpty(p) PROVE Shape'
    <3>1. Moves(p, "unlock") /\ pc[p] = "signal" /\ owner = p
      BY <2>4, ProducerMoves
    <3>2. Roles' /\ MutexDiscipline' /\ DoneCount'
      BY <2>1, <2>4, <3>1, MoveKeepsShape DEF SignalNotEmpty, Critical, Labels, Members
    <3> QED
      BY <2>4, <3>1, <3>2 DEF SignalNotEmpty, Moves, TypeOK, PRODUCE_COUNT
  <2>5. ASSUME UnlockProducer(p) PROVE Shape'
    <3>1. PICK next \in {"lock", "done", "finish"} :
              /\ Moves(p, next)
              /\ next = "done" => Counted
              /\ next = "finish" => ~Counted
      BY <2>5, ProducerMoves
    <3>2. pc[p] = "unlock" /\ owner = p
      BY <2>5, ProducerMoves
    <3>3. Roles' /\ MutexDiscipline' /\ DoneCount'
      BY <2>1, <2>5, <3>1, <3>2, MoveKeepsShape DEF UnlockProducer, Critical, Labels, Members
    <3> QED
      BY <2>5, <3>1, <3>3 DEF UnlockProducer, Moves, TypeOK, PRODUCE_COUNT
  <2>6. ASSUME LockToFinish(p) PROVE Shape'
    <3>1. Moves(p, "retire") /\ pc[p] = "finish"
      BY <2>6, ProducerMoves
    <3>2. ~Counted
      BY <2>1, <3>1 DEF Roles
    <3>3. Roles' /\ MutexDiscipline' /\ DoneCount'
      BY <2>1, <2>6, <3>1, <3>2, MoveKeepsShape
         DEF LockToFinish, Acquire, Critical, Labels, Members
    <3> QED
      BY <2>1, <2>6, <3>1, <3>3 DEF LockToFinish, Acquire, Moves, TypeOK, PRODUCE_COUNT
  <2>7. ASSUME UnlockAndReturn(p) PROVE Shape'
    <3>1. Moves(p, "done") /\ pc[p] = "retire_unlock" /\ owner = p
      BY <2>7, ProducerMoves
    <3>2. Roles' /\ MutexDiscipline' /\ DoneCount'
      BY <2>1, <2>7, <3>1, MoveKeepsShape DEF UnlockAndReturn, Critical, Labels, Members
    <3> QED
      BY <2>7, <3>1, <3>2 DEF UnlockAndReturn, Moves, TypeOK, PRODUCE_COUNT
  <2> QED
    BY <1>3, <1>5, <2>1, <2>2, <2>3, <2>4, <2>5, <2>6, <2>7, RetireKeepsShape DEF Producer
<1>6. ASSUME NEW c \in prog.consumers, Consumer(c) PROVE Shape'
  <2>1. c \in Members /\ c \in Threads /\ c \in Consumers
    BY ConsumerMoves DEF Members
  <2>2. ASSUME WaitNotEmpty(c) PROVE Shape'
    <3>1. Moves(c, "wait_not_empty") /\ pc[c] = "check" /\ owner = c
      BY <2>2, ConsumerMoves
    <3>2. Roles' /\ MutexDiscipline' /\ DoneCount'
      BY <2>1, <2>2, <3>1, MoveKeepsShape DEF WaitNotEmpty, Critical, Labels, Members
    <3> QED
      BY <2>2, <3>1, <3>2 DEF WaitNotEmpty, Moves, TypeOK, PRODUCE_COUNT
  <2>3. ASSUME Exit(c) PROVE Shape'
    <3>1. Moves(c, "done") /\ pc[c] = "check" /\ owner = c
      BY <2>3, ConsumerMoves
    <3>2. Roles' /\ MutexDiscipline' /\ DoneCount'
      BY <2>1, <2>3, <3>1, MoveKeepsShape DEF Exit, Critical, Labels, Members
    <3> QED
      BY <2>3, <3>1, <3>2 DEF Exit, Moves, TypeOK, PRODUCE_COUNT
  <2>4. ASSUME Pop(c) PROVE Shape'
    <3>1. Moves(c, "signal") /\ pc[c] = "check" /\ owner = c
      BY <2>4, ConsumerMoves
    <3>2. Roles' /\ MutexDiscipline' /\ DoneCount'
      BY <2>1, <2>4, <3>1, MoveKeepsShape DEF Pop, Critical, Labels, Members
    <3>3. buffer # <<>>
      BY <2>4, PopFromNonEmpty
    <3>4. /\ buffer' \in Seq([from : Producers, n : Nat])
          /\ Len(buffer') = Len(buffer) - 1
          /\ Head(buffer) \in [from : Producers, n : Nat]
      BY <2>4, <3>3, HeadTailProperties DEF Pop, TypeOK
    <3>5. Len(buffer') <= prog'.size
      BY <1>1, <2>4, <3>4, LenProperties DEF Pop, TypeOK
    <3>6. round' \in [Threads -> Nat] /\ delivered' \in [Producers -> Nat]
      BY <2>1, <2>4, <3>4 DEF Pop, TypeOK
    <3> QED
      BY <2>4, <3>1, <3>2, <3>4, <3>5, <3>6 DEF Pop, Moves, TypeOK, PRODUCE_COUNT
  <2>5. ASSUME SignalNotFull(c) PROVE Shape'
    <3>1. Moves(c, "unlock") /\ pc[c] = "signal" /\ owner = c
      BY <2>5, ConsumerMoves
    <3>2. Roles' /\ MutexDiscipline' /\ DoneCount'
      BY <2>1, <2>5, <3>1, MoveKeepsShape DEF SignalNotFull, Critical, Labels, Members
    <3> QED
      BY <2>5, <3>1, <3>2 DEF SignalNotFull, Moves, TypeOK, PRODUCE_COUNT
  <2>6. ASSUME UnlockConsumer(c) PROVE Shape'
    <3>1. PICK next \in {"lock", "done"} : Moves(c, next)
      BY <2>6, ConsumerMoves
    <3>2. pc[c] = "unlock" /\ owner = c
      BY <2>6, ConsumerMoves
    <3>3. Roles' /\ MutexDiscipline' /\ DoneCount'
      BY <2>1, <2>6, <3>1, <3>2, MoveKeepsShape DEF UnlockConsumer, Critical, Labels, Members
    <3> QED
      BY <2>6, <3>1, <3>3 DEF UnlockConsumer, Moves, TypeOK, PRODUCE_COUNT
  <2> QED
    BY <1>3, <1>6, <2>1, <2>2, <2>3, <2>4, <2>5, <2>6 DEF Consumer
<1>7. CASE Join
  BY <1>7 DEF Join, TypeOK, Roles, MutexDiscipline, DoneCount, Retired, PRODUCE_COUNT, Counted
<1>8. CASE UNCHANGED vars
  BY <1>8 DEF vars, TypeOK, Roles, MutexDiscipline, DoneCount, Retired, PRODUCE_COUNT, Counted
<1> QED
  BY <1>2, <1>4, <1>5, <1>6, <1>7, <1>8 DEF Next, Main, Members

\* The types, the capacity of the queue, and the bound on producer_done.
THEOREM TypesHold == Spec => []TypeOK
<1>1. Init => Shape
  BY ShapeInit
<1>2. Shape /\ [Next]_vars => Shape'
  BY ShapeNext
<1>3. Shape => TypeOK
  BY DEF Shape
<1> QED
  BY <1>1, <1>2, <1>3, PTL DEF Spec

\* Mutual exclusion, whatever the program and however its threads wait, signal,
\* break out of their loops or wake up without a signal.
THEOREM MutexHolds == Spec => []MutexDiscipline
<1>1. Init => Shape
  BY ShapeInit
<1>2. Shape /\ [Next]_vars => Shape'
  BY ShapeNext
<1>3. Shape => MutexDiscipline
  BY DEF Shape
<1> QED
  BY <1>1, <1>2, <1>3, PTL DEF Spec

-----------------------------------------------------------------------------
(* The queue: order, no loss, no duplication. *)

Item == [from : Producers, n : Nat]
QueueInv == /\ InOrderOnce
            /\ \A p \in Producers : delivered[p] <= round[p]

\* The front of the queue is the next item of its producer to be consumed.
LEMMA FrontIsNext ==
    ASSUME TypeOK, QueueInv, buffer # <<>>
    PROVE  /\ Head(buffer) = buffer[1] /\ 1 \in 1..Len(buffer)
           /\ Head(buffer) \in Item
           /\ Head(buffer).n = delivered[Head(buffer).from]
           /\ Head(buffer).n < round[Head(buffer).from]
<1> DEFINE h == Head(buffer)
<1>1. h = buffer[1] /\ 1 \in 1..Len(buffer) /\ h \in Item /\ buffer \in Seq(Item)
  <2>1. buffer \in Seq(Item)
    BY DEF TypeOK, Item
  <2>2. Len(buffer) \in Nat /\ Len(buffer) # 0
    BY <2>1, LenProperties, EmptySeq
  <2> QED
    BY <2>1, <2>2, HeadTailProperties
<1>2. /\ delivered[h.from] \in Nat /\ round[h.from] \in Nat /\ h.n \in Nat
      /\ h.n \in delivered[h.from] .. round[h.from] - 1
  BY <1>1 DEF TypeOK, QueueInv, InOrderOnce, Item, Threads
<1>3. PICK i \in 1..Len(buffer) : buffer[i] = [from |-> h.from, n |-> delivered[h.from]]
  BY <1>1, <1>2 DEF QueueInv, InOrderOnce, Item
<1>4. CASE i = 1
  BY <1>1, <1>2, <1>3, <1>4
<1>5. CASE i # 1
  BY <1>1, <1>2, <1>3, <1>5, LenProperties DEF QueueInv, InOrderOnce
<1> QED
  BY <1>1, <1>2, <1>4, <1>5

LEMMA PushKeepsOrder ==
    ASSUME Shape, QueueInv, NEW p \in prog.producers, Push(p)
    PROVE  QueueInv'
<1> DEFINE e == [from |-> p, n |-> round[p]]
<1>1. /\ p \in Producers /\ p \in Threads /\ TypeOK /\ e \in Item
      /\ buffer \in Seq(Item) /\ Len(buffer) \in Nat
  BY ProgramFacts, LenProperties DEF Shape, TypeOK, Threads, Item
<1>2. /\ Len(buffer') = Len(buffer) + 1
      /\ \A i \in 1..Len(buffer) : buffer'[i] = buffer[i]
      /\ buffer'[Len(buffer) + 1] = e
  BY <1>1, AppendProperties DEF Push
<1>3. /\ \A q \in Producers : /\ delivered[q] \in Nat /\ round[q] \in Nat
                              /\ round'[q] = IF q = p THEN round[q] + 1 ELSE round[q]
      /\ delivered' = delivered
  BY <1>1 DEF Push, TypeOK, Threads
<1>4. \A i \in 1..Len(buffer) : buffer[i] \in Item
  BY <1>1, ElementOfSeq
<1>5. \A q \in Producers : delivered'[q] <= round'[q]
  BY <1>3 DEF QueueInv
<1>6. ASSUME NEW i \in 1..Len(buffer')
      PROVE  buffer'[i].n \in delivered'[buffer'[i].from] .. round'[buffer'[i].from] - 1
  <2>1. CASE i = Len(buffer) + 1
    BY <1>1, <1>2, <1>3, <2>1 DEF QueueInv
  <2>2. CASE i # Len(buffer) + 1
    <3>1. i \in 1..Len(buffer) /\ buffer'[i] = buffer[i] /\ buffer[i] \in Item
      BY <1>1, <1>2, <1>4, <2>2
    <3>2. buffer[i].n \in delivered[buffer[i].from] .. round[buffer[i].from] - 1
      BY <3>1 DEF QueueInv, InOrderOnce
    <3> QED
      BY <1>3, <3>1, <3>2 DEF Item
  <2> QED
    BY <2>1, <2>2
<1>7. ASSUME NEW i \in 1..Len(buffer'), NEW j \in 1..Len(buffer'),
             i < j, buffer'[i].from = buffer'[j].from
      PROVE  buffer'[i].n < buffer'[j].n
  <2>1. i \in 1..Len(buffer) /\ buffer'[i] = buffer[i] /\ buffer[i] \in Item
    BY <1>1, <1>2, <1>4, <1>7
  <2>2. CASE j = Len(buffer) + 1
    <3>1. buffer[i].n \in delivered[p] .. round[p] - 1
      BY <1>2, <1>7, <2>1, <2>2 DEF QueueInv, InOrderOnce
    <3> QED
      BY <1>1, <1>2, <1>3, <2>1, <2>2, <3>1
  <2>3. CASE j # Len(buffer) + 1
    <3>1. j \in 1..Len(buffer) /\ buffer'[j] = buffer[j]
      BY <1>1, <1>2, <2>3
    <3> QED
      BY <1>7, <2>1, <3>1 DEF QueueInv, InOrderOnce
  <2> QED
    BY <2>2, <2>3
<1>8. ASSUME NEW q \in Producers, NEW n \in delivered'[q] .. round'[q] - 1
      PROVE  \E i \in 1..Len(buffer') : buffer'[i] = [from |-> q, n |-> n]
  <2>1. CASE q = p /\ n = round[p]
    BY <1>1, <1>2, <2>1
  <2>2. CASE ~(q = p /\ n = round[p])
    <3>1. n \in delivered[q] .. round[q] - 1
      BY <1>3, <2>2
    <3>2. PICK i \in 1..Len(buffer) : buffer[i] = [from |-> q, n |-> n]
      BY <3>1 DEF QueueInv, InOrderOnce
    <3> QED
      BY <1>1, <1>2, <3>2
  <2> QED
    BY <2>1, <2>2
<1> QED
  BY <1>5, <1>6, <1>7, <1>8 DEF QueueInv, InOrderOnce

LEMMA PopKeepsOrder ==
    ASSUME Shape, QueueInv, NEW c \in prog.consumers, Pop(c)
    PROVE  QueueInv'
<1> DEFINE h == Head(buffer)
<1>1. /\ c \in Consumers /\ c \notin Producers /\ TypeOK
      /\ buffer # <<>> /\ buffer \in Seq(Item) /\ Len(buffer) \in Nat
  BY ProgramFacts, ThreadsAssumption, PopFromNonEmpty, LenProperties
     DEF Shape, TypeOK, Item
<1>2. /\ h = buffer[1] /\ 1 \in 1..Len(buffer) /\ h \in Item
      /\ h.n = delivered[h.from] /\ h.n < round[h.from]
  BY <1>1, FrontIsNext
<1>3. /\ Len(buffer') = Len(buffer) - 1
      /\ \A i \in 1..Len(buffer') : buffer'[i] = buffer[i + 1]
  BY <1>1, HeadTailProperties DEF Pop
<1>4. \A q \in Producers :
          /\ delivered[q] \in Nat /\ round[q] \in Nat /\ round'[q] = round[q]
          /\ delivered'[q] = IF q = h.from THEN delivered[q] + 1 ELSE delivered[q]
  BY <1>1, <1>2 DEF Pop, TypeOK, Threads, Item
<1>5. \A i \in 1..Len(buffer) : buffer[i] \in Item
  BY <1>1, ElementOfSeq
<1>6. \A q \in Producers : delivered'[q] <= round'[q]
  BY <1>2, <1>4 DEF QueueInv
<1>7. ASSUME NEW i \in 1..Len(buffer')
      PROVE  buffer'[i].n \in delivered'[buffer'[i].from] .. round'[buffer'[i].from] - 1
  <2>1. /\ buffer'[i] = buffer[i + 1] /\ buffer[i + 1] \in Item
        /\ i + 1 \in 1..Len(buffer) /\ 1 < i + 1
    BY <1>1, <1>3, <1>5
  <2>2. buffer[i + 1].n \in delivered[buffer[i + 1].from] .. round[buffer[i + 1].from] - 1
    BY <2>1 DEF QueueInv, InOrderOnce
  <2>3. buffer[i + 1].from = h.from => buffer[i + 1].n > h.n
    BY <1>2, <2>1 DEF QueueInv, InOrderOnce
  <2> QED
    BY <1>2, <1>4, <2>1, <2>2, <2>3 DEF Item
<1>8. ASSUME NEW i \in 1..Len(buffer'), NEW j \in 1..Len(buffer'),
             i < j, buffer'[i].from = buffer'[j].from
      PROVE  buffer'[i].n < buffer'[j].n
  <2>1. i + 1 \in 1..Len(buffer) /\ j + 1 \in 1..Len(buffer) /\ i + 1 < j + 1
    BY <1>1, <1>3, <1>8
  <2>2. buffer'[i] = buffer[i + 1] /\ buffer'[j] = buffer[j + 1]
    BY <1>3
  <2> QED
    BY <1>8, <2>1, <2>2 DEF QueueInv, InOrderOnce
<1>9. ASSUME NEW q \in Producers, NEW n \in delivered'[q] .. round'[q] - 1
      PROVE  \E i \in 1..Len(buffer') : buffer'[i] = [from |-> q, n |-> n]
  <2>1. n \in delivered[q] .. round[q] - 1 /\ (q = h.from => n > h.n)
    BY <1>2, <1>4
  <2>2. PICK i \in 1..Len(buffer) : buffer[i] = [from |-> q, n |-> n]
    BY <2>1 DEF QueueInv, InOrderOnce
  <2>3. i # 1
    BY <1>2, <2>1, <2>2
  <2>4. i - 1 \in 1..Len(buffer') /\ buffer'[i - 1] = buffer[i]
    BY <1>1, <1>3, <2>3
  <2> QED
    BY <2>2, <2>4
<1> QED
  BY <1>6, <1>7, <1>8, <1>9 DEF QueueInv, InOrderOnce

LEMMA QueueInit == Init => QueueInv
<1> SUFFICES ASSUME Init PROVE QueueInv
  OBVIOUS
<1>1. Len(buffer) = 0 /\ \A p \in Producers : delivered[p] = 0 /\ round[p] = 0
  BY EmptySeq DEF Init, Threads
<1> QED
  BY <1>1 DEF QueueInv, InOrderOnce

LEMMA QueueNext == Shape /\ QueueInv /\ [Next]_vars => QueueInv'
<1> SUFFICES ASSUME Shape, QueueInv, [Next]_vars PROVE QueueInv'
  OBVIOUS
<1>1. CASE \E p \in prog.producers : Push(p)
  BY <1>1, PushKeepsOrder
<1>2. CASE \E c \in prog.consumers : Pop(c)
  BY <1>2, PopKeepsOrder
<1>3. CASE UNCHANGED <<buffer, round, delivered>>
  BY <1>3 DEF QueueInv, InOrderOnce
<1> QED
  BY <1>1, <1>2, <1>3
     DEF Next, vars, Main, Join, Create, SpuriousWakeup, Lock, Producer, Consumer,
         WaitNotFull, SignalNotEmpty, UnlockProducer, LockToFinish, Retire,
         RetireIfLast, UnlockAndReturn, WaitNotEmpty, Exit, SignalNotFull,
         UnlockConsumer

\* No item is lost, duplicated or overtaken within its producer.
THEOREM OrderHolds == Spec => []InOrderOnce
<1>1. Init => Shape /\ QueueInv
  BY ShapeInit, QueueInit
<1>2. Shape /\ QueueInv /\ [Next]_vars => (Shape /\ QueueInv)'
  BY ShapeNext, QueueNext
<1>3. QueueInv => InOrderOnce
  BY DEF QueueInv
<1> QED
  BY <1>1, <1>2, <1>3, PTL DEF Spec

-----------------------------------------------------------------------------
(* Wakeups. *)

RoomOK == Waiting("wait_not_full") # {} => prog.size - Len(buffer) <= Cardinality(RoomUsers)
ItemsOK == Waiting("wait_not_empty") # {} => Len(buffer) <= Cardinality(ItemUsers)
EndOK == prog.finish = "broadcast" /\ producer_done = PRODUCE_COUNT =>
             Waiting("wait_not_empty") = {}

LEMMA UsersFinite ==
    ASSUME TypeOK
    PROVE  /\ IsFiniteSet(RoomUsers) /\ Cardinality(RoomUsers) \in Nat
           /\ IsFiniteSet(ItemUsers) /\ Cardinality(ItemUsers) \in Nat
           /\ Len(buffer) \in Nat /\ prog.size \in Nat
<1>1. IsFiniteSet(prog.producers \cup prog.consumers)
  BY ProgramFacts, FS_Union
<1>2. /\ RoomUsers \subseteq prog.producers \cup prog.consumers
      /\ ItemUsers \subseteq prog.producers \cup prog.consumers
  BY DEF RoomUsers, ItemUsers, Awake, Signalling
<1> QED
  BY <1>1, <1>2, ProgramFacts, FS_Subset, FS_CardinalityType, LenProperties DEF TypeOK

\* A step of t takes nobody but t out of the sets of users, and makes nobody
\* but t wait.
LEMMA OthersKept ==
    ASSUME Shape, NEW t \in Threads, NEW next \in Labels, Moves(t, next), prog' = prog
    PROVE  /\ RoomUsers \ {t} \subseteq RoomUsers'
           /\ ItemUsers \ {t} \subseteq ItemUsers'
           /\ IsFiniteSet(RoomUsers') /\ Cardinality(RoomUsers') \in Nat
           /\ IsFiniteSet(ItemUsers') /\ Cardinality(ItemUsers') \in Nat
           /\ \A label \in Waits : Waiting(label)' \subseteq Waiting(label) \cup {t}
           /\ \A label \in Waits : next # label => Waiting(label)' \subseteq Waiting(label)
<1>1. /\ prog.producers \cup prog.consumers \subseteq Threads
      /\ IsFiniteSet(prog.producers \cup prog.consumers)
  BY ProgramFacts, FS_Union DEF Shape, Threads
<1>2. /\ RoomUsers' \subseteq prog.producers \cup prog.consumers
      /\ ItemUsers' \subseteq prog.producers \cup prog.consumers
  BY DEF RoomUsers, ItemUsers, Awake, Signalling
<1>3. /\ RoomUsers \ {t} \subseteq RoomUsers'
      /\ ItemUsers \ {t} \subseteq ItemUsers'
  BY <1>1 DEF Moves, Waits, RoomUsers, ItemUsers, Awake, Signalling
<1>4. \A label \in Waits : /\ Waiting(label)' \subseteq Waiting(label) \cup {t}
                           /\ next # label => Waiting(label)' \subseteq Waiting(label)
  BY DEF Moves, Waits, Waiting
<1> QED
  BY <1>1, <1>2, <1>3, <1>4, FS_Subset, FS_CardinalityType

\* A step that leaves the queue alone, and t among the users if it was there.
LEMMA RoomKept ==
    ASSUME Shape, RoomOK, NEW t \in Threads, NEW next \in Labels,
           Moves(t, next), UNCHANGED <<prog, buffer>>,
           next # "wait_not_full", t \in RoomUsers => t \in RoomUsers'
    PROVE  RoomOK'
<1>1. /\ RoomUsers \in SUBSET RoomUsers' /\ IsFiniteSet(RoomUsers')
      /\ Cardinality(RoomUsers') \in Nat
      /\ Waiting("wait_not_full")' \subseteq Waiting("wait_not_full")
  BY OthersKept DEF Waits
<1>2. Cardinality(RoomUsers) <= Cardinality(RoomUsers')
  BY <1>1, FS_Subset
<1>3. /\ Cardinality(RoomUsers) \in Nat /\ Len(buffer) \in Nat /\ prog.size \in Nat
      /\ Waiting("wait_not_full") = {} => Waiting("wait_not_full")' = {}
  BY <1>1, UsersFinite DEF Shape
<1> QED
  BY <1>1, <1>2, <1>3 DEF RoomOK

LEMMA ItemsKept ==
    ASSUME Shape, ItemsOK, NEW t \in Threads, NEW next \in Labels,
           Moves(t, next), UNCHANGED <<prog, buffer>>,
           next # "wait_not_empty", t \in ItemUsers => t \in ItemUsers'
    PROVE  ItemsOK'
<1>1. /\ ItemUsers \in SUBSET ItemUsers' /\ IsFiniteSet(ItemUsers')
      /\ Cardinality(ItemUsers') \in Nat
      /\ Waiting("wait_not_empty")' \subseteq Waiting("wait_not_empty")
  BY OthersKept DEF Waits
<1>2. Cardinality(ItemUsers) <= Cardinality(ItemUsers')
  BY <1>1, FS_Subset
<1>3. /\ Cardinality(ItemUsers) \in Nat /\ Len(buffer) \in Nat
      /\ Waiting("wait_not_empty") = {} => Waiting("wait_not_empty")' = {}
  BY <1>1, UsersFinite DEF Shape
<1> QED
  BY <1>1, <1>2, <1>3 DEF ItemsOK

\* Counting: what losing t, gaining t, and exchanging t for w do to a set.
LEMMA Counting ==
    ASSUME NEW A, NEW B, IsFiniteSet(A), IsFiniteSet(B), NEW t, A \ {t} \subseteq B
    PROVE  /\ Cardinality(A) \in Nat /\ Cardinality(B) \in Nat
           /\ Cardinality(B) >= Cardinality(A) - 1
           /\ t \notin A /\ t \in B => Cardinality(B) >= Cardinality(A) + 1
           /\ (\E w \in B : w \notin A) => Cardinality(B) >= Cardinality(A)
<1>1. Cardinality(A) \in Nat /\ Cardinality(B) \in Nat
  BY FS_CardinalityType
<1>2. /\ IsFiniteSet(A \ {t}) /\ Cardinality(A \ {t}) \in Nat
      /\ Cardinality(A \ {t}) = IF t \in A THEN Cardinality(A) - 1 ELSE Cardinality(A)
  BY FS_RemoveElement, FS_CardinalityType
<1>3. Cardinality(B) >= Cardinality(A \ {t})
  BY <1>1, <1>2, FS_Subset
<1>4. ASSUME NEW w \in B, w \notin A
      PROVE  Cardinality(B) >= Cardinality(A \ {t}) + 1
  <2>1. (A \ {t}) \cup {w} \in SUBSET B
    BY <1>4
  <2>2. Cardinality((A \ {t}) \cup {w}) = Cardinality(A \ {t}) + 1
    BY <1>2, <1>4, FS_AddElement
  <2> QED
    BY <1>1, <1>2, <2>1, <2>2, FS_Subset
<1> QED
  BY <1>1, <1>2, <1>3, <1>4

LEMMA PushWakeups ==
    ASSUME Shape, RoomOK, ItemsOK, NEW p \in prog.producers, Push(p)
    PROVE  RoomOK' /\ ItemsOK'
<1>1. p \in Threads /\ Moves(p, "signal") /\ pc[p] = "check" /\ prog' = prog
  BY ProducerMoves DEF Push
<1>2. p \notin prog.consumers /\ p \notin ItemUsers /\ p \in ItemUsers'
  BY <1>1, ProgramFacts, ThreadsAssumption
     DEF Shape, ItemUsers, Awake, Signalling, Moves
<1>3. /\ RoomUsers \ {p} \subseteq RoomUsers' /\ ItemUsers \ {p} \subseteq ItemUsers'
      /\ IsFiniteSet(RoomUsers') /\ IsFiniteSet(ItemUsers')
      /\ \A label \in Waits : Waiting(label)' \subseteq Waiting(label)
  BY <1>1, OthersKept DEF Waits, Labels, Critical
<1>4. /\ IsFiniteSet(RoomUsers) /\ IsFiniteSet(ItemUsers)
      /\ Len(buffer) \in Nat /\ prog.size \in Nat
  BY UsersFinite DEF Shape
<1>5. Len(buffer') = Len(buffer) + 1
  <2>1. [from |-> p, n |-> round[p]] \in [from : Producers, n : Nat]
    BY <1>1, ProducerMoves DEF Shape, TypeOK
  <2> QED
    BY <2>1, AppendProperties DEF Push, Shape, TypeOK
<1>6. /\ Cardinality(RoomUsers) \in Nat /\ Cardinality(RoomUsers') \in Nat
      /\ Cardinality(ItemUsers) \in Nat /\ Cardinality(ItemUsers') \in Nat
      /\ Cardinality(RoomUsers') >= Cardinality(RoomUsers) - 1
      /\ Cardinality(ItemUsers') >= Cardinality(ItemUsers) + 1
  BY <1>2, <1>3, <1>4, Counting
<1>7. /\ Waiting("wait_not_full") = {} => Waiting("wait_not_full")' = {}
      /\ Waiting("wait_not_empty") = {} => Waiting("wait_not_empty")' = {}
  BY <1>3 DEF Waits
<1> QED
  BY <1>1, <1>4, <1>5, <1>6, <1>7 DEF RoomOK, ItemsOK

LEMMA PopWakeups ==
    ASSUME Shape, RoomOK, ItemsOK, NEW c \in prog.consumers, Pop(c)
    PROVE  RoomOK' /\ ItemsOK'
<1>1. c \in Threads /\ Moves(c, "signal") /\ pc[c] = "check" /\ prog' = prog
  BY ConsumerMoves DEF Pop
<1>2. c \notin prog.producers /\ c \notin RoomUsers /\ c \in RoomUsers'
  BY <1>1, ProgramFacts, ThreadsAssumption
     DEF Shape, RoomUsers, Awake, Signalling, Moves
<1>3. /\ RoomUsers \ {c} \subseteq RoomUsers' /\ ItemUsers \ {c} \subseteq ItemUsers'
      /\ IsFiniteSet(RoomUsers') /\ IsFiniteSet(ItemUsers')
      /\ \A label \in Waits : Waiting(label)' \subseteq Waiting(label)
  BY <1>1, OthersKept DEF Waits, Labels, Critical
<1>4. /\ IsFiniteSet(RoomUsers) /\ IsFiniteSet(ItemUsers)
      /\ Len(buffer) \in Nat /\ prog.size \in Nat
  BY UsersFinite DEF Shape
<1>5. Len(buffer') = Len(buffer) - 1
  BY PopFromNonEmpty, HeadTailProperties DEF Pop, Shape, TypeOK
<1>6. /\ Cardinality(RoomUsers) \in Nat /\ Cardinality(RoomUsers') \in Nat
      /\ Cardinality(ItemUsers) \in Nat /\ Cardinality(ItemUsers') \in Nat
      /\ Cardinality(RoomUsers') >= Cardinality(RoomUsers) + 1
      /\ Cardinality(ItemUsers') >= Cardinality(ItemUsers) - 1
  BY <1>2, <1>3, <1>4, Counting
<1>7. /\ Waiting("wait_not_full") = {} => Waiting("wait_not_full")' = {}
      /\ Waiting("wait_not_empty") = {} => Waiting("wait_not_empty")' = {}
  BY <1>3 DEF Waits
<1> QED
  BY <1>1, <1>4, <1>5, <1>6, <1>7 DEF RoomOK, ItemsOK

\* A signal passes the signaller's claim on to the thread it wakes, and is
\* without effect only if nobody waits.
LEMMA SignalWakeups ==
    ASSUME Shape, RoomOK, ItemsOK
    PROVE  /\ \A p \in prog.producers : SignalNotEmpty(p) => ItemsOK'
           /\ \A c \in prog.consumers : SignalNotFull(c) => RoomOK'
<1>1. /\ IsFiniteSet(RoomUsers) /\ IsFiniteSet(ItemUsers)
      /\ Len(buffer) \in Nat /\ prog.size \in Nat
      /\ prog.producers \subseteq Threads /\ prog.consumers \subseteq Threads
      /\ prog.producers \subseteq Producers /\ prog.consumers \subseteq Consumers
      /\ Producers \cap Consumers = {}
      /\ pc \in [Threads -> Labels]
  BY UsersFinite, ProgramFacts, ThreadsAssumption DEF Shape, Threads, TypeOK
<1>2. ASSUME NEW p \in prog.producers, SignalNotEmpty(p) PROVE ItemsOK'
  <2>1. /\ Moves(p, "unlock") /\ pc[p] = "signal" /\ UNCHANGED <<prog, buffer>>
        /\ Signal(p, "unlock", "wait_not_empty")
    BY <1>2, ProducerMoves DEF SignalNotEmpty
  <2>2. ItemUsers \ {p} \subseteq ItemUsers' /\ IsFiniteSet(ItemUsers')
    BY <1>1, <2>1, OthersKept DEF Labels, Critical
  <2>3. CASE Waiting("wait_not_empty") = {}
    BY <1>1, <2>1, <2>3, OthersKept DEF ItemsOK, Waits, Labels, Critical
  <2>4. CASE Waiting("wait_not_empty") # {}
    <3>1. PICK w \in Waiting("wait_not_empty") :
              pc' = [pc EXCEPT ![p] = "unlock", ![w] = "lock"]
      BY <2>1, <2>4 DEF Signal
    <3>2. w \in Threads /\ pc[w] = "wait_not_empty" /\ pc'[w] = "lock"
      BY <1>1, <3>1 DEF Waiting
    <3>3. w \in prog.consumers
      BY <3>2, <1>1 DEF Shape, Roles, Threads
    <3>4. w \notin ItemUsers /\ w \in ItemUsers'
      BY <1>1, <2>1, <3>2, <3>3 DEF ItemUsers, Awake, Signalling
    <3> QED
      BY <1>1, <2>1, <2>2, <2>4, <3>4, Counting DEF ItemsOK
  <2> QED
    BY <2>3, <2>4
<1>3. ASSUME NEW c \in prog.consumers, SignalNotFull(c) PROVE RoomOK'
  <2>1. /\ Moves(c, "unlock") /\ pc[c] = "signal" /\ UNCHANGED <<prog, buffer>>
        /\ Signal(c, "unlock", "wait_not_full")
    BY <1>3, ConsumerMoves DEF SignalNotFull
  <2>2. RoomUsers \ {c} \subseteq RoomUsers' /\ IsFiniteSet(RoomUsers')
    BY <1>1, <2>1, OthersKept DEF Labels, Critical
  <2>3. CASE Waiting("wait_not_full") = {}
    BY <1>1, <2>1, <2>3, OthersKept DEF RoomOK, Waits, Labels, Critical
  <2>4. CASE Waiting("wait_not_full") # {}
    <3>1. PICK w \in Waiting("wait_not_full") :
              pc' = [pc EXCEPT ![c] = "unlock", ![w] = "lock"]
      BY <2>1, <2>4 DEF Signal
    <3>2. w \in Threads /\ pc[w] = "wait_not_full" /\ pc'[w] = "lock"
      BY <1>1, <3>1 DEF Waiting
    <3>3. w \in prog.producers
      BY <3>2, <1>1 DEF Shape, Roles, Threads
    <3>4. w \notin RoomUsers /\ w \in RoomUsers'
      BY <1>1, <2>1, <3>2, <3>3 DEF RoomUsers, Awake, Signalling
    <3> QED
      BY <1>1, <2>1, <2>2, <2>4, <3>4, Counting DEF RoomOK
  <2> QED
    BY <2>3, <2>4
<1> QED
  BY <1>2, <1>3

\* Waiting happens only when there is nothing to be claimed.
LEMMA WaitWakeups ==
    ASSUME Shape, RoomOK, ItemsOK
    PROVE  /\ \A p \in prog.producers : WaitNotFull(p) => RoomOK' /\ ItemsOK'
           /\ \A c \in prog.consumers : WaitNotEmpty(c) \/ Exit(c) => RoomOK' /\ ItemsOK'
<1>1. /\ prog.producers \subseteq Producers /\ prog.consumers \subseteq Consumers
      /\ Producers \cap Consumers = {}
      /\ Len(buffer) \in Nat /\ prog.size \in Nat
  BY UsersFinite, ProgramFacts, ThreadsAssumption DEF Shape
<1>2. ASSUME NEW p \in prog.producers, WaitNotFull(p) PROVE RoomOK' /\ ItemsOK'
  <2>1. /\ p \in Threads /\ Moves(p, "wait_not_full") /\ pc[p] = "check"
        /\ UNCHANGED <<prog, buffer>> /\ Len(buffer) >= prog.size
    BY <1>2, ProducerMoves DEF WaitNotFull, Full
  <2>2. p \notin ItemUsers
    BY <1>1, <2>1 DEF ItemUsers, Awake, Signalling
  <2>3. ItemsOK'
    BY <2>1, <2>2, ItemsKept DEF Labels
  <2>4. Cardinality(RoomUsers') \in Nat
    BY <2>1, OthersKept DEF Labels
  <2> QED
    BY <1>1, <2>1, <2>3, <2>4 DEF RoomOK
<1>3. ASSUME NEW c \in prog.consumers, WaitNotEmpty(c) \/ Exit(c)
      PROVE  RoomOK' /\ ItemsOK'
  <2>1. PICK next \in {"wait_not_empty", "done"} : Moves(c, next)
    BY <1>3, ConsumerMoves
  <2>2. /\ c \in Threads /\ pc[c] = "check" /\ UNCHANGED <<prog, buffer>> /\ buffer = <<>>
    BY <1>3, ConsumerMoves DEF WaitNotEmpty, Exit, MustWait, WorkOver, Empty
  <2>3. c \notin RoomUsers
    BY <1>1, <2>2 DEF RoomUsers, Awake, Signalling
  <2>4. RoomOK'
    BY <2>1, <2>2, <2>3, RoomKept DEF Labels
  <2>5. Cardinality(ItemUsers') \in Nat
    BY <2>1, <2>2, OthersKept DEF Labels
  <2> QED
    BY <2>2, <2>4, <2>5, EmptySeq DEF ItemsOK
<1> QED
  BY <1>2, <1>3

\* The remaining steps leave the queue alone; the thread that makes one was
\* not counted on, or still is.
LEMMA OtherWakeups ==
    ASSUME Shape, RoomOK, ItemsOK, NEW t \in Threads, NEW next \in Labels,
           Moves(t, next), UNCHANGED <<prog, buffer>>,
           next \notin Waits,
           pc[t] \in {"new", "lock", "check"} => next \in {"lock", "check"},
           pc[t] # "signal"
    PROVE  RoomOK' /\ ItemsOK'
<1>1. (t \in RoomUsers => t \in RoomUsers') /\ (t \in ItemUsers => t \in ItemUsers')
  BY DEF RoomUsers, ItemUsers, Awake, Signalling, Moves
<1> QED
  BY <1>1, RoomKept, ItemsKept DEF Waits

\* After the last producer's broadcast nobody waits for an item again.
LEMMA EndKept ==
    ASSUME Shape, EndOK, NEW t \in Threads, NEW next \in Labels, Moves(t, next),
           UNCHANGED <<prog, producer_done>>,
           next = "wait_not_empty" => Counted \/ producer_done < PRODUCE_COUNT
    PROVE  EndOK'
<1>1. producer_done \in Int /\ PRODUCE_COUNT' = PRODUCE_COUNT /\ PRODUCE_COUNT \in Int
  BY ProgramFacts DEF Shape, TypeOK, PRODUCE_COUNT
<1>2. next # "wait_not_empty" =>
          Waiting("wait_not_empty")' \subseteq Waiting("wait_not_empty")
  BY OthersKept DEF Waits
<1> QED
  BY <1>1, <1>2 DEF EndOK, Counted

LEMMA RetireWakeups ==
    ASSUME Shape, RoomOK, ItemsOK, EndOK, NEW p \in prog.producers,
           Retire(p) \/ RetireIfLast(p)
    PROVE  RoomOK' /\ ItemsOK' /\ EndOK'
<1>1. /\ p \in Threads /\ pc[p] = "retire" /\ UNCHANGED <<prog, buffer>>
      /\ \E next \in {"retire_unlock", "done"} : Moves(p, next)
  BY ProducerMoves DEF Retire, RetireIfLast
<1>2. RoomOK' /\ ItemsOK'
  BY <1>1, OtherWakeups DEF Labels, Critical, Waits
<1>3. EndOK'
  BY <1>1 DEF EndOK, Retire, RetireIfLast, Broadcast, Waiting
<1> QED
  BY <1>2, <1>3

WakeInv == RoomOK /\ ItemsOK /\ EndOK

LEMMA WakeNext == Shape /\ WakeInv /\ [Next]_vars => WakeInv'
<1> SUFFICES ASSUME Shape, RoomOK, ItemsOK, EndOK, [Next]_vars
             PROVE  RoomOK' /\ ItemsOK' /\ EndOK'
  BY DEF WakeInv
<1>1. ASSUME NEW t \in prog.producers \cup prog.consumers,
             Create(t) \/ Lock(t) \/ SpuriousWakeup(t)
      PROVE  RoomOK' /\ ItemsOK' /\ EndOK'
  <2>1. /\ t \in Threads /\ UNCHANGED <<prog, buffer, producer_done>> /\ pc[t] # "signal"
        /\ \E next \in {"lock", "check"} : Moves(t, next)
    BY <1>1, CommonMoves DEF Create, Lock, SpuriousWakeup, Waits
  <2> QED
    BY <2>1, OtherWakeups, EndKept DEF Labels, Critical, Waits
<1>2. ASSUME NEW p \in prog.producers, Producer(p)
      PROVE  RoomOK' /\ ItemsOK' /\ EndOK'
  <2>1. CASE WaitNotFull(p)
    BY <2>1, WaitWakeups, ProducerMoves, EndKept DEF WaitNotFull, Labels
  <2>2. CASE Push(p)
    BY <2>2, PushWakeups, ProducerMoves, EndKept DEF Push, Labels, Critical
  <2>3. CASE SignalNotEmpty(p)
    <3>1. /\ p \in Threads /\ p \in Producers /\ pc[p] = "signal" /\ Moves(p, "unlock")
          /\ UNCHANGED <<prog, buffer, producer_done>>
      BY <2>3, ProducerMoves DEF SignalNotEmpty
    <3>2. p \notin RoomUsers
      BY <3>1, ProgramFacts, ThreadsAssumption DEF Shape, RoomUsers, Awake, Signalling
    <3> QED
      BY <2>3, <3>1, <3>2, SignalWakeups, RoomKept, EndKept DEF Labels, Critical
  <2>4. CASE UnlockProducer(p) \/ LockToFinish(p) \/ UnlockAndReturn(p)
    <3>1. /\ p \in Threads /\ pc[p] \in {"unlock", "finish", "retire_unlock"}
          /\ UNCHANGED <<prog, buffer, producer_done>>
          /\ \E next \in {"lock", "done", "finish", "retire"} : Moves(p, next)
      BY <2>4, ProducerMoves DEF UnlockProducer, LockToFinish, UnlockAndReturn
    <3> QED
      BY <3>1, OtherWakeups, EndKept DEF Labels, Critical, Waits
  <2> QED
    BY <1>1, <1>2, <2>1, <2>2, <2>3, <2>4, RetireWakeups DEF Producer
<1>3. ASSUME NEW c \in prog.consumers, Consumer(c)
      PROVE  RoomOK' /\ ItemsOK' /\ EndOK'
  <2>1. CASE WaitNotEmpty(c) \/ Exit(c)
    <3>1. /\ c \in Threads /\ UNCHANGED <<prog, producer_done>>
          /\ \E next \in {"wait_not_empty", "done"} :
                /\ Moves(c, next)
                /\ next = "wait_not_empty" => Counted \/ producer_done < PRODUCE_COUNT
      BY <2>1, ConsumerMoves DEF WaitNotEmpty, MustWait, Exit
    <3> QED
      BY <2>1, <3>1, WaitWakeups, EndKept DEF Labels
  <2>2. CASE Pop(c)
    BY <2>2, PopWakeups, ConsumerMoves, EndKept DEF Pop, Labels, Critical
  <2>3. CASE SignalNotFull(c)
    <3>1. /\ c \in Threads /\ c \in Consumers /\ pc[c] = "signal" /\ Moves(c, "unlock")
          /\ UNCHANGED <<prog, buffer, producer_done>>
      BY <2>3, ConsumerMoves DEF SignalNotFull
    <3>2. c \notin ItemUsers
      BY <3>1, ProgramFacts, ThreadsAssumption DEF Shape, ItemUsers, Awake, Signalling
    <3> QED
      BY <2>3, <3>1, <3>2, SignalWakeups, ItemsKept, EndKept DEF Labels, Critical
  <2>4. CASE UnlockConsumer(c)
    <3>1. /\ c \in Threads /\ pc[c] = "unlock" /\ UNCHANGED <<prog, buffer, producer_done>>
          /\ \E next \in {"lock", "done"} : Moves(c, next)
      BY <2>4, ConsumerMoves DEF UnlockConsumer
    <3> QED
      BY <3>1, OtherWakeups, EndKept DEF Labels, Waits
  <2> QED
    BY <1>1, <1>3, <2>1, <2>2, <2>3, <2>4 DEF Consumer
<1>4. CASE Join \/ UNCHANGED vars
  BY <1>4 DEF Join, vars, RoomOK, ItemsOK, EndOK, RoomUsers, ItemUsers, Awake,
              Signalling, Waiting, PRODUCE_COUNT
<1> QED
  BY <1>1, <1>2, <1>3, <1>4 DEF Next, Main

LEMMA WakeInit == Init => WakeInv
<1> SUFFICES ASSUME Init PROVE WakeInv
  OBVIOUS
<1>1. \A label \in Waits : Waiting(label) = {}
  BY DEF Init, Waiting, Waits
<1> QED
  BY <1>1 DEF WakeInv, RoomOK, ItemsOK, EndOK, Waits

\* No signal is lost, for any number of threads and any capacity.
THEOREM WakeupsHold == Spec => []NoLostWakeup
<1>1. Init => Shape /\ WakeInv
  BY ShapeInit, WakeInit
<1>2. Shape /\ WakeInv /\ [Next]_vars => (Shape /\ WakeInv)'
  BY ShapeNext, WakeNext
<1>3. WakeInv => NoLostWakeup
  BY DEF WakeInv, RoomOK, ItemsOK, EndOK, NoLostWakeup
<1> QED
  BY <1>1, <1>2, <1>3, PTL DEF Spec

-----------------------------------------------------------------------------
(* How the threads end, and the refinement.  On top of the above this needs *)
(* how often each thread has been round its loop; for the programs with     *)
(* counted loops, that what the producers have pushed and what the consumer *)
(* has popped come to the same number.                                      *)

\* Where a producer has items left to push, and where it has none.
Early == {"new", "lock", "check", "wait_not_full"}
Late == {"finish", "retire", "retire_unlock", "done"}

\* The items that have been consumed.
Popped == {x \in prog.producers \X (0 .. prog.items - 1) : x[2] < delivered[x[1]]}

Rounds ==
    /\ \A p \in Producers \ prog.producers : round[p] = 0
    /\ \A p \in prog.producers : /\ round[p] <= prog.items
                                 /\ pc[p] \in Early => round[p] < prog.items
                                 /\ pc[p] \in Late => round[p] = prog.items
    /\ Counted => \A c \in prog.consumers : round[c] = Cardinality(Popped)

\* A consumer that has returned leaves nothing behind.
AllSent == \A p \in prog.producers : round[p] = prog.items
Over == \A c \in prog.consumers : pc[c] = "done" => AllSent /\ buffer = <<>>

\* The counted loops fit together: one consumer takes what all producers put.
\* The theorems on how the programs end hold of programs for which it is so.
LoopsFit == \A g \in Programs : g.finish = "counted" =>
                g.rounds = Cardinality(g.producers) * g.items
Fits == Counted => prog.rounds = Cardinality(prog.producers) * prog.items

Deep == Shape /\ QueueInv /\ Fits /\ Rounds /\ Over

LEMMA Numbers ==
    ASSUME Shape
    PROVE  /\ prog.items \in Nat /\ prog.items > 0 /\ prog.rounds \in Nat
           /\ \A t \in Threads : round[t] \in Nat
           /\ \A p \in Producers : delivered[p] \in Nat /\ round[p] \in Nat
           /\ prog.producers \subseteq Producers /\ prog.consumers \subseteq Consumers
           /\ Producers \cap Consumers = {} /\ prog.consumers # {}
           /\ Producers \subseteq Threads /\ Consumers \subseteq Threads
BY ProgramFacts, ThreadsAssumption DEF Shape, TypeOK, Program, Threads

LEMMA PoppedFinite ==
    ASSUME Shape
    PROVE  /\ IsFiniteSet(prog.producers \X (0 .. prog.items - 1))
           /\ Cardinality(prog.producers \X (0 .. prog.items - 1))
                 = Cardinality(prog.producers) * prog.items
           /\ Popped \subseteq prog.producers \X (0 .. prog.items - 1)
           /\ IsFiniteSet(Popped)
<1>1. /\ IsFiniteSet(0 .. prog.items - 1)
      /\ Cardinality(0 .. prog.items - 1) = prog.items
  <2>1. 0 \in Int /\ prog.items - 1 \in Int /\ ~(0 > prog.items - 1)
        /\ (prog.items - 1) - 0 + 1 = prog.items
    BY Numbers
  <2> QED
    BY <2>1, FS_Interval, Zenon
<1>2. IsFiniteSet(prog.producers)
  BY ProgramFacts DEF Shape
<1>3. Popped \in SUBSET (prog.producers \X (0 .. prog.items - 1))
  BY DEF Popped
<1>4. /\ IsFiniteSet(prog.producers \X (0 .. prog.items - 1))
      /\ Cardinality(prog.producers \X (0 .. prog.items - 1))
            = Cardinality(prog.producers) * Cardinality(0 .. prog.items - 1)
  BY <1>1, <1>2, FS_Product, Zenon
<1>5. IsFiniteSet(Popped)
  BY <1>3, <1>4, FS_Subset
<1> QED
  BY <1>1, <1>3, <1>4, <1>5

-----------------------------------------------------------------------------
(* The steps that leave the queue alone. *)

\* Where a consumer is about to pop once more.
Going == {"new", "lock", "check", "wait_not_empty"}

\* t goes on at `next'.  It starts another round only with items left, leaves
\* its loop only without, and a consumer returns only when its work is over.
Effect(t, next) ==
    /\ Moves(t, next) /\ pc[t] # "done"
    /\ UNCHANGED <<prog, buffer, round, delivered>>
    /\ t \in prog.producers =>
          /\ next \in Early => pc[t] \in Early \/ round[t] < prog.items
          /\ next \in Late => pc[t] \in Late \/ ~(round[t] < prog.items)
    /\ t \in prog.consumers /\ next = "done" =>
          \/ WorkOver
          \/ Counted /\ round[t] = prog.rounds
    /\ t \in prog.consumers /\ Counted /\ next \in Going =>
          pc[t] \in Going \/ round[t] # prog.rounds

LEMMA ProducerEffects ==
    ASSUME Shape, NEW p \in prog.producers, Producer(p), ~Push(p)
    PROVE  \E next \in Labels : Effect(p, next)
<1>1. p \in Producers /\ p \in Threads /\ p \notin prog.consumers
  BY Numbers, ProducerMoves
<1>2. CASE Lock(p)
  <2>1. Effect(p, "check")
    BY <1>1, <1>2, CommonMoves DEF Effect, Lock, Early, Late
  <2> QED
    BY <2>1 DEF Labels, Critical
<1>3. CASE WaitNotFull(p)
  <2>1. Effect(p, "wait_not_full")
    BY <1>1, <1>3, ProducerMoves DEF Effect, WaitNotFull, Early, Late
  <2> QED
    BY <2>1 DEF Labels
<1>4. CASE SignalNotEmpty(p)
  <2>1. Effect(p, "unlock")
    BY <1>1, <1>4, ProducerMoves DEF Effect, SignalNotEmpty, Early, Late
  <2> QED
    BY <2>1 DEF Labels, Critical
<1>5. CASE UnlockProducer(p)
  <2> DEFINE next == IF round[p] < prog.items THEN "lock"
                     ELSE IF prog.finish = "counted" THEN "done" ELSE "finish"
  <2>1. Moves(p, next) /\ pc[p] = "unlock" /\ next \in Labels
    BY <1>1, <1>5, GotoMoves DEF UnlockProducer, Labels, Shape, TypeOK
  <2>2. Effect(p, next)
    BY <1>1, <1>5, <2>1 DEF Effect, UnlockProducer, Early, Late
  <2> QED
    BY <2>1, <2>2
<1>6. CASE LockToFinish(p)
  <2>1. Effect(p, "retire")
    BY <1>1, <1>6, ProducerMoves DEF Effect, LockToFinish, Early, Late
  <2> QED
    BY <2>1 DEF Labels, Critical
<1>7. CASE Retire(p) \/ RetireIfLast(p)
  <2>1. /\ pc[p] = "retire" /\ UNCHANGED <<prog, buffer, round, delivered>>
        /\ \E next \in {"retire_unlock", "done"} : Moves(p, next)
    BY <1>7, ProducerMoves DEF Retire, RetireIfLast
  <2> QED
    BY <1>1, <2>1 DEF Effect, Early, Late, Labels, Critical
<1>8. CASE UnlockAndReturn(p)
  <2>1. Effect(p, "done")
    BY <1>1, <1>8, ProducerMoves DEF Effect, UnlockAndReturn, Early, Late
  <2> QED
    BY <2>1 DEF Labels
<1> QED
  BY <1>2, <1>3, <1>4, <1>5, <1>6, <1>7, <1>8 DEF Producer

LEMMA ConsumerEffects ==
    ASSUME Shape, NEW c \in prog.consumers, Consumer(c), ~Pop(c)
    PROVE  \E next \in Labels : Effect(c, next)
<1>1. c \in Consumers /\ c \in Threads /\ c \notin prog.producers
  BY Numbers, ConsumerMoves
<1>2. CASE Lock(c)
  <2>1. Effect(c, "check")
    BY <1>1, <1>2, CommonMoves DEF Effect, Lock, Going
  <2> QED
    BY <2>1 DEF Labels, Critical
<1>3. CASE WaitNotEmpty(c)
  <2>1. Effect(c, "wait_not_empty")
    BY <1>1, <1>3, ConsumerMoves DEF Effect, WaitNotEmpty, Going
  <2> QED
    BY <2>1 DEF Labels
<1>4. CASE Exit(c)
  <2>1. Effect(c, "done")
    BY <1>1, <1>4, ConsumerMoves DEF Effect, Exit, Going
  <2> QED
    BY <2>1 DEF Labels
<1>5. CASE SignalNotFull(c)
  <2>1. Effect(c, "unlock")
    BY <1>1, <1>5, ConsumerMoves DEF Effect, SignalNotFull, Going
  <2> QED
    BY <2>1 DEF Labels, Critical
<1>6. CASE UnlockConsumer(c)
  <2> DEFINE next == IF Counted /\ round[c] = prog.rounds THEN "done" ELSE "lock"
  <2>1. Moves(c, next) /\ pc[c] = "unlock" /\ next \in Labels
    BY <1>1, <1>6, GotoMoves DEF UnlockConsumer, Labels, Shape, TypeOK
  <2>2. Effect(c, next)
    BY <1>1, <1>6, <2>1 DEF Effect, UnlockConsumer, Going
  <2> QED
    BY <2>1, <2>2
<1> QED
  BY <1>2, <1>3, <1>4, <1>5, <1>6 DEF Consumer

\* So there are four kinds of steps.
LEMMA KindsOfSteps ==
    ASSUME Shape, [Next]_vars
    PROVE  \/ \E p \in prog.producers : Push(p)
           \/ \E c \in prog.consumers : Pop(c)
           \/ \E t \in prog.producers \cup prog.consumers, next \in Labels : Effect(t, next)
           \/ UNCHANGED <<prog, buffer, round, delivered, pc>>
<1>1. ASSUME NEW t \in prog.producers \cup prog.consumers, Create(t) \/ SpuriousWakeup(t)
      PROVE  Effect(t, "lock") /\ "lock" \in Labels
  <2>1. Moves(t, "lock") /\ pc[t] \in {"new", "wait_not_full", "wait_not_empty"}
    BY <1>1, CommonMoves DEF Waits
  <2>2. t \in prog.producers => pc[t] # "wait_not_empty"
    BY Numbers DEF Shape, Roles
  <2>3. t \in prog.consumers => pc[t] # "wait_not_full" /\ t \notin prog.producers
    BY Numbers DEF Shape, Roles
  <2> QED
    BY <1>1, <2>1, <2>2, <2>3 DEF Effect, Create, SpuriousWakeup, Early, Late, Labels, Going
<1> QED
  BY <1>1, ProducerEffects, ConsumerEffects DEF Next, Main, Join, vars

-----------------------------------------------------------------------------
(* The invariant. *)

\* Once everything that was pushed has been popped the queue is empty, ...
LEMMA Drained ==
    ASSUME Shape, QueueInv, Rounds, \A p \in prog.producers : delivered[p] = round[p]
    PROVE  buffer = <<>>
<1> SUFFICES ASSUME buffer # <<>> PROVE FALSE
  OBVIOUS
<1> DEFINE h == Head(buffer)
<1>1. h \in Item /\ h.n = delivered[h.from] /\ h.n < round[h.from]
  BY FrontIsNext DEF Shape
<1>2. h.from \in Producers /\ delivered[h.from] \in Nat /\ round[h.from] \in Nat
  BY <1>1, Numbers DEF Item
<1>3. h.from \in prog.producers
  BY <1>1, <1>2 DEF Rounds
<1> QED
  BY <1>1, <1>2, <1>3

\* ... and the other way round.
LEMMA NothingLeft ==
    ASSUME Shape, QueueInv, buffer = <<>>, NEW p \in prog.producers
    PROVE  delivered[p] = round[p]
<1>1. Len(buffer) = 0 /\ p \in Producers /\ delivered[p] \in Nat /\ round[p] \in Nat
  BY Numbers, EmptySeq
<1>2. delivered[p] \notin delivered[p] .. round[p] - 1
  BY <1>1 DEF QueueInv, InOrderOnce
<1> QED
  BY <1>1, <1>2 DEF QueueInv

\* A consumer with a counted loop that has made all its rounds has popped as
\* many items as all producers push: all of them.
LEMMA CountedOver ==
    ASSUME Shape, QueueInv, Fits, Rounds, Counted, NEW c \in prog.consumers,
           round[c] = prog.rounds
    PROVE  AllSent /\ buffer = <<>>
<1>1. prog.rounds = Cardinality(prog.producers) * prog.items
  BY DEF Fits
<1>2. Popped = prog.producers \X (0 .. prog.items - 1)
  BY <1>1, PoppedFinite, FS_Subset DEF Rounds
<1>3. ASSUME NEW p \in prog.producers
      PROVE  delivered[p] = round[p] /\ round[p] = prog.items
  <2>1. <<p, prog.items - 1>> \in Popped
    BY <1>2, Numbers
  <2>2. prog.items - 1 < delivered[p]
    BY <2>1 DEF Popped
  <2> QED
    BY <2>2, Numbers DEF QueueInv, Rounds
<1> QED
  BY <1>3, Drained DEF AllSent

\* A consumer of the other programs leaves when all producers are counted.
LEMMA WorkIsOver ==
    ASSUME Shape, Rounds, WorkOver
    PROVE  AllSent /\ buffer = <<>>
<1>1. Cardinality(Retired) = Cardinality(prog.producers) /\ IsFiniteSet(prog.producers)
  BY ProgramFacts DEF Shape, DoneCount, WorkOver, PRODUCE_COUNT
<1>2. Retired = prog.producers
  <2>1. Retired \in SUBSET prog.producers
    BY DEF Retired
  <2> QED
    BY <1>1, <2>1, FS_Subset
<1>3. AllSent
  BY <1>2 DEF Retired, AllSent, Rounds, Late
<1> QED
  BY <1>3 DEF WorkOver, Empty

LEMMA PushKeepsDeep ==
    ASSUME Deep, NEW p \in prog.producers, Push(p)
    PROVE  Rounds' /\ Over'
<1> USE DEF Deep
<1>1. /\ p \in Producers /\ p \in Threads /\ p \notin prog.consumers
      /\ Moves(p, "signal") /\ pc[p] = "check" /\ UNCHANGED <<prog, delivered, Counted, Popped>>
      /\ round' = [round EXCEPT ![p] = @ + 1]
  BY Numbers, ProducerMoves DEF Push, Counted, Popped
<1>2. round[p] < prog.items
  BY <1>1 DEF Rounds, Early
<1>3. Rounds'
  <2>1. \A t \in Threads : round'[t] = IF t = p THEN round[t] + 1 ELSE round[t]
    BY <1>1 DEF Shape, TypeOK
  <2>2. /\ \A q \in Producers \ prog.producers : round'[q] = 0
        /\ Counted => \A c \in prog.consumers : round'[c] = Cardinality(Popped)
    BY <1>1, <2>1, Numbers DEF Rounds
  <2>3. ASSUME NEW q \in prog.producers
        PROVE  /\ round'[q] <= prog.items
               /\ pc'[q] \in Early => round'[q] < prog.items
               /\ pc'[q] \in Late => round'[q] = prog.items
    <3>1. CASE q = p
      BY <1>1, <1>2, <2>1, <3>1, Numbers DEF Moves, Early, Late
    <3>2. CASE q # p
      <4>1. q \in Threads /\ round'[q] = round[q]
        BY <2>1, <3>2, Numbers
      <4>2. pc'[q] = pc[q] \/ (pc[q] \in Waits /\ pc'[q] = "lock" /\ pc[q] # "wait_not_empty")
        BY <1>1, <3>2, <4>1, Numbers DEF Moves, Shape, Roles
      <4> QED
        BY <4>1, <4>2 DEF Rounds, Waits, Early, Late
    <3> QED
      BY <3>1, <3>2
  <2> QED
    BY <1>1, <2>2, <2>3 DEF Rounds
<1>4. ASSUME NEW c \in prog.consumers, pc'[c] = "done" PROVE FALSE
  <2>1. pc[c] = "done"
    BY <1>1, <1>4, Numbers DEF Moves
  <2> QED
    BY <1>2, <2>1, Numbers DEF Over, AllSent
<1> QED
  BY <1>1, <1>3, <1>4 DEF Over

\* A pop adds its item to those consumed.
LEMMA PopAdds ==
    ASSUME Deep, NEW c \in prog.consumers, Pop(c)
    PROVE  /\ Cardinality(Popped') = Cardinality(Popped) + 1
           /\ Head(buffer).from \in prog.producers
           /\ Head(buffer).n = delivered[Head(buffer).from]
<1> USE DEF Deep
<1> DEFINE h == Head(buffer)
           x == <<h.from, delivered[h.from]>>
<1>1. /\ h \in Item /\ h.n = delivered[h.from] /\ h.n < round[h.from]
      /\ h.from \in Producers /\ h.n \in Nat /\ round[h.from] \in Nat
  BY PopFromNonEmpty, FrontIsNext, Numbers DEF Shape, Item
<1>2. h.from \in prog.producers /\ h.n < prog.items
  BY <1>1, Numbers DEF Rounds
<1>3. x \in prog.producers \X (0 .. prog.items - 1)
  BY <1>1, <1>2, Numbers
<1>4. /\ UNCHANGED prog
      /\ \A q \in prog.producers :
            delivered'[q] = IF q = h.from THEN delivered[q] + 1 ELSE delivered[q]
  BY <1>1, Numbers DEF Pop, Shape, TypeOK
<1>5. Popped' = Popped \cup {x}
  <2>1. ASSUME NEW y \in prog.producers \X (0 .. prog.items - 1)
        PROVE  y[2] < delivered'[y[1]] <=> (y[2] < delivered[y[1]] \/ y = x)
    <3>1. PICK q \in prog.producers, n \in 0 .. prog.items - 1 : y = <<q, n>>
      OBVIOUS
    <3>2. delivered[q] \in Nat /\ n \in Nat
      BY Numbers
    <3> QED
      BY <1>4, <3>1, <3>2
  <2> QED
    BY <1>3, <1>4, <2>1 DEF Popped
<1>6. x \notin Popped
  BY <1>1 DEF Popped
<1> QED
  BY <1>1, <1>2, <1>5, <1>6, PoppedFinite, FS_AddElement

LEMMA PopKeepsDeep ==
    ASSUME Deep, NEW c \in prog.consumers, Pop(c)
    PROVE  Rounds' /\ Over'
<1> USE DEF Deep
<1>1. /\ c \in Consumers /\ c \in Threads /\ c \notin Producers
      /\ Moves(c, "signal") /\ pc[c] = "check" /\ UNCHANGED <<prog, Counted>>
      /\ round' = IF Counted THEN [round EXCEPT ![c] = @ + 1] ELSE round
  BY Numbers, ConsumerMoves DEF Pop, Counted
<1>2. \A p \in Producers : round'[p] = round[p]
  BY <1>1, Numbers DEF Shape, TypeOK
<1>3. ASSUME NEW p \in prog.producers
      PROVE  /\ p \in Producers /\ p \in Threads /\ p # c
             /\ pc'[p] = pc[p] \/ (pc[p] = "wait_not_full" /\ pc'[p] = "lock")
  <2>1. p \in Producers /\ p \in Threads /\ p # c /\ pc[p] # "wait_not_empty"
    BY <1>1, Numbers DEF Shape, Roles
  <2> QED
    BY <1>1, <2>1 DEF Moves, Waits
<1>4. Counted => \A d \in prog.consumers : round'[d] = Cardinality(Popped')
  <2> SUFFICES ASSUME Counted, NEW d \in prog.consumers
               PROVE  round'[d] = Cardinality(Popped')
    OBVIOUS
  <2>1. Cardinality(prog.consumers) = 1 /\ IsFiniteSet(prog.consumers)
    BY ProgramsAssumption, ProgramFacts DEF Shape, TypeOK, Counted
  <2>2. d = c
    BY <2>1, FS_Singleton
  <2> QED
    BY <1>1, <2>2, PopAdds, Numbers DEF Rounds, Shape, TypeOK
<1>5. Rounds'
  BY <1>1, <1>2, <1>3, <1>4, Numbers DEF Rounds, Early, Late
<1>6. ASSUME NEW d \in prog.consumers, pc'[d] = "done" PROVE FALSE
  <2>1. pc[d] = "done"
    BY <1>1, <1>6, Numbers DEF Moves
  <2> QED
    BY <2>1, PopFromNonEmpty DEF Over
<1> QED
  BY <1>1, <1>5, <1>6 DEF Over

LEMMA EffectKeepsDeep ==
    ASSUME Deep, NEW t \in prog.producers \cup prog.consumers, NEW next \in Labels,
           Effect(t, next)
    PROVE  Rounds' /\ Over'
<1> USE DEF Deep
<1>1. /\ t \in Threads /\ Moves(t, next)
      /\ UNCHANGED <<prog, buffer, round, delivered, Counted, Popped, AllSent>>
  BY Numbers DEF Effect, Counted, Popped, AllSent
<1>2. ASSUME NEW p \in prog.producers
      PROVE  /\ pc'[p] \in Early => round[p] < prog.items
             /\ pc'[p] \in Late => round[p] = prog.items
  <2>1. p \in Threads /\ pc[p] # "wait_not_empty" /\ round[p] \in Nat /\ prog.items \in Nat
    BY Numbers DEF Shape, Roles
  <2>2. CASE p = t
    BY <1>1, <2>1, <2>2 DEF Effect, Moves, Rounds
  <2>3. CASE p # t
    BY <1>1, <2>1, <2>3 DEF Moves, Waits, Rounds, Early, Late
  <2> QED
    BY <2>2, <2>3
<1>3. Rounds'
  BY <1>1, <1>2 DEF Rounds
<1>4. ASSUME NEW c \in prog.consumers, pc'[c] = "done" PROVE AllSent /\ buffer = <<>>
  <2>1. CASE c = t
    BY <1>1, <1>4, <2>1, CountedOver, WorkIsOver DEF Effect, Moves
  <2>2. CASE c # t
    <3>1. pc[c] = "done"
      BY <1>1, <1>4, <2>2, Numbers DEF Moves
    <3> QED
      BY <3>1 DEF Over
  <2> QED
    BY <2>1, <2>2
<1> QED
  BY <1>1, <1>3, <1>4 DEF Over

LEMMA DeepInit == LoopsFit /\ Init => Deep
<1> SUFFICES ASSUME LoopsFit, Init PROVE Fits /\ Rounds /\ Over
  BY ShapeInit, QueueInit DEF Deep
<1>0. Fits
  BY DEF LoopsFit, Init, Fits, Counted
<1>1. Shape /\ \A t \in Threads : pc[t] = "new" /\ round[t] = 0
  BY ShapeInit DEF Init
<1>2. Popped = {}
  <2>1. \A p \in prog.producers : delivered[p] = 0
    BY <1>1, Numbers DEF Init
  <2> QED
    BY <2>1 DEF Popped
<1>3. Cardinality(Popped) = 0
  BY <1>2, FS_EmptySet
<1> QED
  BY <1>0, <1>1, <1>3, Numbers DEF Rounds, Over, Early, Late

LEMMA FitsNext == Fits /\ [Next]_vars => Fits'
<1>1. [Next]_vars => prog' = prog
  BY DEF Next, vars, Main, Join, Create, Producer, Consumer, SpuriousWakeup, Lock,
         WaitNotFull, Push, SignalNotEmpty, UnlockProducer, LockToFinish, Retire,
         RetireIfLast, UnlockAndReturn, WaitNotEmpty, Exit, Pop, SignalNotFull,
         UnlockConsumer
<1> QED
  BY <1>1 DEF Fits, Counted

LEMMA DeepNext == Deep /\ [Next]_vars => Deep'
<1> SUFFICES ASSUME Deep, [Next]_vars PROVE Rounds' /\ Over'
  BY ShapeNext, QueueNext, FitsNext DEF Deep
<1>1. CASE UNCHANGED <<prog, buffer, round, delivered, pc>>
  BY <1>1 DEF Deep, Rounds, Over, AllSent, Counted, Popped
<1> QED
  BY <1>1, KindsOfSteps, PushKeepsDeep, PopKeepsDeep, EffectKeepsDeep DEF Deep

LEMMA DeepHolds == LoopsFit /\ Spec => []Deep
BY DeepInit, DeepNext, PTL DEF Spec

-----------------------------------------------------------------------------
(* What main finds. *)

\* A producer of 3p2c_mode.cpp that returned with the mutex was not the last.
LeftLocked == owner # NoThread /\ pc[owner] = "done" => producer_done < PRODUCE_COUNT
AllDone == \A t \in prog.producers \cup prog.consumers : pc[t] = "done"
Returned == LeftLocked /\ (joined => AllDone)

LEMMA CountedBelow ==
    ASSUME Shape
    PROVE  producer_done \in Nat /\ PRODUCE_COUNT \in Nat /\ producer_done <= PRODUCE_COUNT
BY ProgramFacts DEF Shape, TypeOK

\* A thread that has returned takes no step, and no step undoes its return.
LEMMA DoneStays ==
    ASSUME Shape, NEW t \in Threads, NEW next \in Labels, Moves(t, next), pc[t] # "done"
    PROVE  \A u \in Threads : pc[u] = "done" => pc'[u] = "done"
BY DEF Moves, Waits

\* The steps that neither count a producer nor leave the mutex locked.
LEMMA LockedKept ==
    ASSUME Shape, Returned, NEW t \in Threads, NEW next \in Labels, Moves(t, next),
           UNCHANGED <<prog, producer_done>>,
           \/ owner' = NoThread
           \/ owner' = t /\ next # "done"
           \/ owner' = owner /\ pc[t] # "done" /\ owner # t
    PROVE  LeftLocked'
<1>1. PRODUCE_COUNT' = PRODUCE_COUNT
  BY DEF PRODUCE_COUNT
<1>2. owner \in Threads \cup {NoThread} /\ NoThread \notin Threads
  BY ThreadsAssumption DEF Shape, TypeOK
<1> QED
  BY <1>1, <1>2 DEF LeftLocked, Returned, Moves, Waits

LEMMA LockedNext ==
    ASSUME Shape, Returned, [Next]_vars
    PROVE  LeftLocked'
<1> USE DEF Shape
<1>1. /\ NoThread \notin Threads
      /\ \A t \in Threads : pc[t] \in Critical => owner = t
  BY ThreadsAssumption DEF MutexDiscipline
<1>2. ASSUME NEW t \in prog.producers \cup prog.consumers,
             Create(t) \/ Lock(t) \/ SpuriousWakeup(t)
      PROVE  LeftLocked'
  <2>1. /\ t \in Threads /\ UNCHANGED <<prog, producer_done>>
        /\ pc[t] \notin Critical \cup {"done"}
        /\ \E next \in {"lock", "check"} : Moves(t, next)
        /\ owner' = owner \/ owner' = t
    BY <1>2, CommonMoves DEF Create, Lock, SpuriousWakeup, Acquire, Waits, Critical
  <2>2. owner # t
    BY <2>1, <1>1 DEF MutexDiscipline
  <2> QED
    BY <2>1, <2>2, LockedKept DEF Labels, Critical
<1>3. ASSUME NEW p \in prog.producers, Producer(p) PROVE LeftLocked'
  <2>1. p \in Threads
    BY ProducerMoves
  <2>2. CASE WaitNotFull(p) \/ UnlockProducer(p) \/ UnlockAndReturn(p)
    <3>1. /\ UNCHANGED <<prog, producer_done>> /\ owner' = NoThread
          /\ \E next \in Labels : Moves(p, next)
      BY <2>2, ProducerMoves DEF WaitNotFull, UnlockProducer, UnlockAndReturn, Labels
    <3> QED
      BY <2>1, <3>1, LockedKept
  <2>3. CASE Push(p) \/ SignalNotEmpty(p)
    <3>1. /\ UNCHANGED <<prog, producer_done>> /\ owner' = p
          /\ \E next \in {"signal", "unlock"} : Moves(p, next)
      BY <2>3, ProducerMoves DEF Push, SignalNotEmpty
    <3> QED
      BY <2>1, <3>1, LockedKept DEF Labels, Critical
  <2>4. CASE LockToFinish(p)
    <3>1. UNCHANGED <<prog, producer_done>> /\ owner' = p /\ Moves(p, "retire")
      BY <2>4, ProducerMoves DEF LockToFinish, Acquire
    <3> QED
      BY <2>1, <3>1, LockedKept DEF Labels, Critical
  <2>5. CASE Retire(p) \/ RetireIfLast(p)
    <3>1. /\ owner' = p /\ UNCHANGED prog /\ producer_done' = producer_done + 1
          /\ Moves(p, IF prog.finish = "broadcast" \/ producer_done' = PRODUCE_COUNT
                      THEN "retire_unlock" ELSE "done")
      BY <2>5, ProducerMoves DEF Retire, RetireIfLast
    <3>2. /\ PRODUCE_COUNT' = PRODUCE_COUNT
          /\ producer_done' \in Nat /\ PRODUCE_COUNT \in Nat /\ producer_done' <= PRODUCE_COUNT
      <4>1. Shape'
        BY <2>5, RetireKeepsShape
      <4>2. PRODUCE_COUNT' = PRODUCE_COUNT /\ PRODUCE_COUNT \in Nat
        BY <3>1, CountedBelow DEF PRODUCE_COUNT
      <4> QED
        BY <4>1, <4>2 DEF TypeOK
    <3> QED
      BY <2>1, <3>1, <3>2 DEF LeftLocked, Moves
  <2> QED
    BY <1>2, <1>3, <2>2, <2>3, <2>4, <2>5 DEF Producer
<1>4. ASSUME NEW c \in prog.consumers, Consumer(c) PROVE LeftLocked'
  <2>1. c \in Threads
    BY ConsumerMoves
  <2>2. CASE WaitNotEmpty(c) \/ Exit(c) \/ UnlockConsumer(c)
    <3>1. /\ UNCHANGED <<prog, producer_done>> /\ owner' = NoThread
          /\ \E next \in Labels : Moves(c, next)
      BY <2>2, ConsumerMoves DEF WaitNotEmpty, Exit, UnlockConsumer, Labels
    <3> QED
      BY <2>1, <3>1, LockedKept
  <2>3. CASE Pop(c) \/ SignalNotFull(c)
    <3>1. /\ UNCHANGED <<prog, producer_done>> /\ owner' = c
          /\ \E next \in {"signal", "unlock"} : Moves(c, next)
      BY <2>3, ConsumerMoves DEF Pop, SignalNotFull
    <3> QED
      BY <2>1, <3>1, LockedKept DEF Labels, Critical
  <2> QED
    BY <1>2, <1>4, <2>2, <2>3 DEF Consumer
<1>5. CASE Join \/ UNCHANGED vars
  BY <1>5 DEF Join, vars, LeftLocked, Returned, PRODUCE_COUNT
<1> QED
  BY <1>2, <1>3, <1>4, <1>5 DEF Next, Main

LEMMA ReturnedNext ==
    ASSUME Deep, Returned, [Next]_vars
    PROVE  Returned'
<1>1. LeftLocked'
  BY LockedNext DEF Deep
<1>2. ASSUME NEW t \in prog.producers \cup prog.consumers, NEW next \in Labels,
             Moves(t, next), pc[t] # "done", UNCHANGED <<prog, joined>>
      PROVE  joined' => AllDone'
  BY <1>2, DoneStays, Numbers DEF Returned, AllDone, Deep
<1>3. \/ UNCHANGED <<prog, joined>>
      \/ Join /\ UNCHANGED <<prog, pc>>
  BY DEF Next, vars, Main, Join, Create, SpuriousWakeup, Lock, Producer, Consumer, WaitNotFull,
         Push, SignalNotEmpty, UnlockProducer, LockToFinish, Retire, RetireIfLast,
         UnlockAndReturn, WaitNotEmpty, Exit, Pop, SignalNotFull, UnlockConsumer
<1>4. \/ \E t \in prog.producers \cup prog.consumers, next \in Labels :
            Moves(t, next) /\ pc[t] # "done"
      \/ UNCHANGED pc
  <2>1. ASSUME NEW p \in prog.producers, Push(p)
        PROVE  Moves(p, "signal") /\ pc[p] # "done" /\ "signal" \in Labels
    BY <2>1, ProducerMoves DEF Deep, Labels, Critical
  <2>2. ASSUME NEW c \in prog.consumers, Pop(c)
        PROVE  Moves(c, "signal") /\ pc[c] # "done" /\ "signal" \in Labels
    BY <2>2, ConsumerMoves DEF Deep, Labels, Critical
  <2> QED
    BY <2>1, <2>2, KindsOfSteps DEF Deep, Effect
<1>5. joined' => AllDone'
  BY <1>2, <1>3, <1>4 DEF Join, Returned, AllDone
<1> QED
  BY <1>1, <1>5 DEF Returned

LEMMA QuietWhenJoined ==
    ASSUME Deep, Returned
    PROVE  JoinedQuiet
<1> USE DEF Deep
<1> SUFFICES ASSUME joined
             PROVE  /\ owner = NoThread /\ buffer = <<>>
                    /\ \A p \in prog.producers : delivered[p] = prog.items
  BY DEF JoinedQuiet
<1>1. \A t \in prog.producers \cup prog.consumers : pc[t] = "done"
  BY DEF Returned, AllDone
<1>2. AllSent /\ buffer = <<>>
  BY <1>1, Numbers DEF Over
<1>3. \A p \in prog.producers : delivered[p] = prog.items
  BY <1>2, NothingLeft DEF AllSent
<1>4. owner = NoThread
  <2> SUFFICES ASSUME owner # NoThread PROVE FALSE
    OBVIOUS
  <2>1. prog.finish = "last" /\ pc[owner] = "done"
    <3>1. owner \in Threads
      BY DEF Shape, TypeOK
    <3>2. pc[owner] \notin Critical
      BY <1>1, <3>1 DEF Shape, Roles, Critical
    <3> QED
      BY <3>2 DEF Shape, MutexDiscipline
  <2>2. Retired = prog.producers
    BY <1>1, <2>1 DEF Retired, Counted
  <2> QED
    BY <2>1, <2>2, CountedBelow DEF Returned, LeftLocked, Shape, DoneCount, PRODUCE_COUNT
<1> QED
  BY <1>2, <1>3, <1>4

\* When main has joined the threads and destroys the mutex, nobody holds it and
\* every item of every producer has been consumed, whatever the numbers of
\* threads, items and slots, as long as the counted loops fit.
THEOREM JoinedQuietHolds == LoopsFit /\ Spec => []JoinedQuiet
<1>1. LoopsFit /\ Init => Deep /\ Returned
  BY DeepInit DEF Init, Returned, LeftLocked
<1>2. Deep /\ Returned /\ [Next]_vars => (Deep /\ Returned)'
  BY DeepNext, ReturnedNext
<1>3. Deep /\ Returned => JoinedQuiet
  BY QuietWhenJoined
<1> QED
  BY <1>1, <1>2, <1>3, PTL DEF Spec

-----------------------------------------------------------------------------
(* Nobody waits for ever without cause.  When no thread runs, all that have *)
(* not returned wait: the mutex is free, for its owner would run, and the   *)
(* wakeups are counted so that the queue would be both full and empty.      *)

\* A consumer with a counted loop that goes on has rounds left.
Goes == Counted => \A c \in prog.consumers : pc[c] \in Going => round[c] # prog.rounds

LEMMA GoesInit == Init => Goes
<1> SUFFICES ASSUME Init, Counted, NEW c \in prog.consumers PROVE round[c] # prog.rounds
  BY DEF Goes
<1>1. Shape
  BY ShapeInit
<1>2. round[c] = 0
  BY <1>1, Numbers DEF Init
<1>3. prog.rounds > 0
  BY <1>1, ProgramsAssumption DEF Shape, TypeOK, Counted
<1> QED
  BY <1>1, <1>2, <1>3, Numbers

LEMMA GoesNext ==
    ASSUME Shape, Goes, [Next]_vars
    PROVE  Goes'
<1>0. \A c \in prog.consumers : c \in Threads /\ c \notin prog.producers /\ pc[c] # "wait_not_full"
  BY Numbers DEF Shape, Roles
<1>1. ASSUME NEW p \in prog.producers, Push(p) PROVE Goes'
  <2>1. /\ p \in Threads /\ Moves(p, "signal") /\ UNCHANGED <<prog, Counted>>
        /\ round' = [round EXCEPT ![p] = @ + 1]
    BY <1>1, ProducerMoves DEF Push, Counted
  <2>2. \A c \in prog.consumers : round'[c] = round[c] /\ c # p
    BY <1>0, <2>1 DEF Shape, TypeOK
  <2> QED
    BY <1>0, <2>1, <2>2 DEF Goes, Moves, Going, Waits
<1>2. ASSUME NEW c \in prog.consumers, Pop(c) PROVE Goes'
  <2>1. /\ c \in Threads /\ Moves(c, "signal") /\ UNCHANGED <<prog, Counted>>
        /\ round' = [round EXCEPT ![c] = @ + 1] \/ round' = round
    BY <1>2, ConsumerMoves DEF Pop, Counted
  <2>2. \A d \in prog.consumers : d # c => round'[d] = round[d]
    BY <1>0, <2>1 DEF Shape, TypeOK
  <2> QED
    BY <1>0, <2>1, <2>2 DEF Goes, Moves, Going, Waits
<1>3. ASSUME NEW t \in prog.producers \cup prog.consumers, NEW next \in Labels, Effect(t, next)
      PROVE  Goes'
  <2>1. /\ Moves(t, next) /\ UNCHANGED <<prog, round, Counted>>
        /\ \A c \in prog.consumers : c \in Threads /\ pc[c] # "wait_not_full"
        /\ t \in prog.consumers /\ Counted /\ next \in Going =>
              pc[t] \in Going \/ round[t] # prog.rounds
    BY <1>3, Numbers DEF Effect, Counted, Shape, Roles
  <2> QED
    BY <2>1 DEF Goes, Moves, Going, Waits
<1>4. CASE UNCHANGED <<prog, buffer, round, delivered, pc>>
  BY <1>4 DEF Goes, Counted
<1> QED
  BY <1>1, <1>2, <1>3, <1>4, KindsOfSteps

\* What is left when no thread runs: nobody uses room or items.
LEMMA AllWait ==
    ASSUME Shape, prog.finish # "last",
           \A t \in prog.producers \cup prog.consumers : ~Runs(t)
    PROVE  /\ \A t \in prog.producers \cup prog.consumers : pc[t] \in Waits \cup {"done"}
           /\ Cardinality(RoomUsers) = 0 /\ Cardinality(ItemUsers) = 0
<1>1. \A t \in prog.producers \cup prog.consumers : t \in Threads /\ pc[t] \in Labels
  BY Numbers DEF Shape, TypeOK
<1>2. owner = NoThread
  <2>1. ASSUME owner # NoThread PROVE FALSE
    <3>1. owner \in Threads /\ pc[owner] \in Critical
      BY <2>1 DEF Shape, TypeOK, MutexDiscipline
    <3>2. owner \in prog.producers \cup prog.consumers
      BY <3>1 DEF Shape, Roles, Critical
    <3> QED
      BY <3>1, <3>2 DEF Runs
  <2> QED
    BY <2>1
<1>3. \A t \in prog.producers \cup prog.consumers : pc[t] \in Waits \cup {"done"}
  BY <1>1, <1>2 DEF Runs, Labels, Critical, Waits
<1>4. RoomUsers = {} /\ ItemUsers = {}
  BY <1>3 DEF RoomUsers, ItemUsers, Awake, Signalling, Waits
<1> QED
  BY <1>3, <1>4, FS_EmptySet

\* A producer that waits has items left, so no consumer has returned.
LEMMA FullAndEmpty ==
    ASSUME Deep, WakeInv, Goes, prog.finish # "last",
           \A t \in prog.producers \cup prog.consumers : ~Runs(t),
           NEW p \in prog.producers
    PROVE  pc[p] = "done"
<1> SUFFICES ASSUME pc[p] # "done" PROVE FALSE
  OBVIOUS
<1>1. /\ p \in Producers /\ p \in Threads /\ prog.consumers # {} /\ prog.consumers \subseteq Threads
      /\ prog.consumers \subseteq Consumers /\ prog.size \in Nat \ {0} /\ Len(buffer) \in Nat
  <2>1. prog \in Program /\ Len(buffer) \in Nat
    BY ProgramFacts, UsersFinite DEF Deep, Shape
  <2> QED
    BY <2>1, Numbers DEF Deep, Program
<1>2. pc[p] = "wait_not_full"
  BY <1>1, AllWait DEF Deep, Shape, Roles, Waits
<1>3. Waiting("wait_not_full") # {}
  BY <1>1, <1>2 DEF Waiting
<1>4. prog.size - Len(buffer) <= 0
  BY <1>3, AllWait DEF Deep, WakeInv, RoomOK
<1>5. PICK c \in prog.consumers : c \in Threads
  BY <1>1
<1>6. CASE pc[c] = "done"
  <2>1. round[p] = prog.items /\ round[p] < prog.items
    BY <1>2, <1>5, <1>6 DEF Deep, Over, AllSent, Rounds, Early
  <2> QED
    BY <1>1, <2>1, Numbers DEF Deep
<1>7. CASE pc[c] # "done"
  <2>1. pc[c] = "wait_not_empty"
    BY <1>1, <1>5, <1>7, AllWait DEF Deep, Shape, Roles, Waits
  <2>2. Len(buffer) <= 0
    <3>1. Waiting("wait_not_empty") # {}
      BY <1>5, <2>1 DEF Waiting
    <3> QED
      BY <3>1, AllWait DEF Deep, WakeInv, ItemsOK
  <2> QED
    BY <1>1, <1>4, <2>2
<1> QED
  BY <1>6, <1>7

\* With all producers gone a consumer that waits has nothing to wait for.
LEMMA EmptyForGood ==
    ASSUME Deep, WakeInv, Goes, prog.finish # "last",
           \A t \in prog.producers \cup prog.consumers : ~Runs(t),
           NEW c \in prog.consumers
    PROVE  pc[c] = "done"
<1> SUFFICES ASSUME pc[c] # "done" PROVE FALSE
  OBVIOUS
<1>1. c \in Threads /\ c \in Consumers /\ Len(buffer) \in Nat
  BY Numbers, UsersFinite DEF Deep, Shape
<1>2. \A p \in prog.producers : pc[p] = "done" /\ round[p] = prog.items
  BY FullAndEmpty DEF Deep, Rounds, Late
<1>3. pc[c] = "wait_not_empty"
  BY <1>1, AllWait DEF Deep, Shape, Roles, Waits
<1>4. Waiting("wait_not_empty") # {}
  BY <1>1, <1>3 DEF Waiting
<1>5. buffer = <<>>
  <2>1. Len(buffer) <= 0
    BY <1>4, AllWait DEF Deep, WakeInv, ItemsOK
  <2> QED
    BY <1>1, <2>1, EmptySeq DEF Deep, Shape, TypeOK
<1>6. CASE Counted
  <2>1. \A p \in prog.producers : delivered[p] = prog.items
    BY <1>2, <1>5, NothingLeft DEF Deep
  <2>2. Popped = prog.producers \X (0 .. prog.items - 1)
    <3>1. \A x \in prog.producers \X (0 .. prog.items - 1) : x[2] < delivered[x[1]]
      BY <2>1, Numbers DEF Deep
    <3> QED
      BY <3>1 DEF Popped
  <2>3. round[c] = prog.rounds
    BY <1>6, <2>2, PoppedFinite DEF Deep, Fits, Rounds
  <2> QED
    BY <1>3, <1>6, <2>3 DEF Goes, Going
<1>7. CASE ~Counted
  <2>1. Retired = prog.producers
    BY <1>2, <1>7 DEF Retired
  <2>2. prog.finish = "broadcast"
    BY <1>7, ProgramFacts DEF Deep, Shape, Counted, Program
  <2> QED
    BY <1>4, <2>1, <2>2 DEF Deep, Shape, DoneCount, PRODUCE_COUNT, WakeInv, EndOK
<1> QED
  BY <1>6, <1>7

\* No deadlock: as long as a thread has not returned one can go on, for any
\* number of threads, items and slots, in all programs but 3p2c_mode.cpp, as
\* long as the counted loops fit.
THEOREM SomebodyRunsHolds ==
    LoopsFit /\ Spec => [](prog.finish # "last" => SomebodyRuns)
<1>1. LoopsFit /\ Init => Deep /\ WakeInv /\ Goes
  BY DeepInit, WakeInit, GoesInit
<1>2. Deep /\ WakeInv /\ Goes /\ [Next]_vars => (Deep /\ WakeInv /\ Goes)'
  BY DeepNext, WakeNext, GoesNext DEF Deep
<1>3. Deep /\ WakeInv /\ Goes => (prog.finish # "last" => SomebodyRuns)
  BY FullAndEmpty, EmptyForGood DEF SomebodyRuns
<1> QED
  BY <1>1, <1>2, <1>3, PTL DEF Spec

-----------------------------------------------------------------------------
(* Every step takes the program nearer to its end. *)

LEMMA FallsAtOne ==
    ASSUME NEW S, NEW f, NEW g, NEW t \in S,
           DOMAIN f = S, \A u \in S : f[u] \in Int,
           \A u \in S \ {t} : g[u] = f[u], g[t] \in Int, g[t] < f[t]
    PROVE  Falls(f, g)
<1>1. ASSUME NEW u \in S
      PROVE  g[u] <= f[u]
  <2>1. CASE u = t
    <3>1. f[t] \in Int
      OBVIOUS
    <3> QED
      BY <2>1, <3>1
  <2>2. CASE u # t
    <3>1. g[u] = f[u] /\ f[u] \in Int
      BY <2>2
    <3> QED
      BY <3>1
  <2> QED
    BY <2>1, <2>2
<1> QED
  BY <1>1 DEF Falls

\* The bounds are natural numbers.
LEMMA LeftNumbers ==
    ASSUME Deep
    PROVE  /\ Undelivered \in [Producers -> Nat]
           /\ Left \in [Threads -> Nat]
           /\ Place \in [Threads -> Nat]
<1>1. \A t \in Threads : Stage[pc[t]] \in 0 .. 5
  BY DEF Deep, Shape, TypeOK, Labels, Critical, Stage
<1>2. ASSUME NEW p \in Producers
      PROVE  round[p] \in 0 .. prog.items /\ delivered[p] \in 0 .. round[p]
  <2>1. round[p] <= prog.items
    BY Numbers DEF Deep, Rounds
  <2>2. delivered[p] <= round[p]
    BY DEF Deep, QueueInv
  <2> QED
    BY <2>1, <2>2, Numbers DEF Deep
<1>3. Undelivered \in [Producers -> Nat]
  BY <1>2, Numbers DEF Deep, Undelivered
<1>4. Left \in [Threads -> Nat]
  <2>1. ASSUME NEW t \in Threads
        PROVE  Stage[pc[t]] + (IF t \in Producers THEN 3 * (prog.items - round[t]) ELSE 0) \in Nat
    BY <1>1, <1>2, Numbers DEF Deep
  <2> QED
    BY <2>1 DEF Left
<1> QED
  BY <1>3, <1>4 DEF Place

\* A step within a round: t goes on to a label further on.
LEMMA MoveIsNearer ==
    ASSUME Shape, NEW t \in Threads, NEW next \in Labels, Moves(t, next),
           Stage[next] < Stage[pc[t]],
           UNCHANGED <<prog, round, delivered>>
    PROVE  Nearer
<1>1. \A u \in Threads : Stage[pc[u]] \in 0 .. 5 /\ Stage[pc'[u]] \in 0 .. 5
  BY DEF Shape, TypeOK, Moves, Labels, Critical, Stage
<1>2. \A u \in Threads \ {t} : Stage[pc'[u]] = Stage[pc[u]]
  BY DEF Moves, Waits, Stage
<1>3. Stage[pc'[t]] < Stage[pc[t]]
  BY DEF Moves
<1>4. ASSUME NEW u \in Threads
      PROVE  (IF u \in Producers THEN 3 * (prog.items - round[u]) ELSE 0) \in Int
  BY Numbers
<1>5. DOMAIN Left = Threads /\ \A u \in Threads \ {t} : Left'[u] = Left[u]
  BY <1>2 DEF Left
<1>6. \A u \in Threads : Left[u] \in Int
  BY <1>1, <1>4 DEF Left
<1>7. Left'[t] \in Int /\ Left'[t] < Left[t]
  BY <1>1, <1>3, <1>4 DEF Left
<1>8. Falls(Left, Left')
  BY <1>5, <1>6, <1>7, FallsAtOne, Zenon
<1>9. UNCHANGED Undelivered
  BY DEF Undelivered
<1> QED
  BY <1>8, <1>9 DEF Nearer

\* A thread that has the mutex, or waits again: nobody gets further from a wait.
LEMMA PlaceIsNearer ==
    ASSUME Shape, NEW t \in Threads, NEW next \in Labels, Goto(t, next),
           \/ pc[t] = "lock" /\ next = "check"
           \/ pc[t] = "check" /\ next \in Waits,
           UNCHANGED <<prog, round, delivered, wakeups>>
    PROVE  Nearer
<1>1. pc \in [Threads -> Labels] /\ pc' = [pc EXCEPT ![t] = next]
  BY DEF Shape, TypeOK, Goto
<1>2. \A u \in Threads : Stage[pc'[u]] = Stage[pc[u]]
  BY <1>1 DEF Stage, Waits
<1>3. UNCHANGED <<Undelivered, Left>>
  BY <1>2 DEF Undelivered, Left
<1>4. \A u \in Threads : Place[u] \in 0 .. 2
  BY DEF Place
<1>5. Place'[t] < Place[t]
  BY <1>1 DEF Place, Waits
<1>6. \A u \in Threads \ {t} : Place'[u] = Place[u]
  BY <1>1 DEF Place
<1>7. Falls(Place, Place')
  BY <1>4, <1>5, <1>6 DEF Falls, Place
<1> QED
  BY <1>3, <1>7 DEF Nearer

\* A push is a step within a round, and one of the rounds.
LEMMA PushIsNearer ==
    ASSUME Shape, NEW p \in prog.producers, Push(p)
    PROVE  Nearer
<1>1. p \in Producers /\ p \in Threads /\ Moves(p, "signal") /\ pc[p] = "check"
  BY ProducerMoves
<1>2. round \in [Threads -> Nat] /\ round' = [round EXCEPT ![p] = @ + 1]
      /\ UNCHANGED <<prog, delivered>>
  BY DEF Push, Shape, TypeOK
<1>3. \A u \in Threads : Stage[pc[u]] \in 0 .. 5
  BY DEF Shape, TypeOK, Labels, Critical, Stage
<1>4. \A u \in Threads \ {p} : Stage[pc'[u]] = Stage[pc[u]]
  BY <1>1 DEF Moves, Waits, Stage
<1>5. Stage[pc[p]] = 3 /\ Stage[pc'[p]] = 5
  BY <1>1 DEF Moves, Stage
<1>6. ASSUME NEW u \in Threads
      PROVE  (IF u \in Producers THEN 3 * (prog.items - round[u]) ELSE 0) \in Int
  BY Numbers
<1>7. DOMAIN Left = Threads /\ \A u \in Threads \ {p} : Left'[u] = Left[u]
  BY <1>2, <1>4 DEF Left
<1>8. \A u \in Threads : Left[u] \in Int
  BY <1>3, <1>6 DEF Left
<1>9. Left[p] = 3 + 3 * (prog.items - round[p])
      /\ Left'[p] = 5 + 3 * (prog.items - (round[p] + 1))
  BY <1>1, <1>2, <1>5 DEF Left
<1>10. Falls(Left, Left')
  <2>1. Left'[p] \in Int /\ Left'[p] < Left[p]
    BY <1>1, <1>2, <1>9, Numbers
  <2> QED
    BY <1>1, <1>7, <1>8, <2>1, FallsAtOne, Zenon
<1>11. UNCHANGED Undelivered
  BY <1>2 DEF Undelivered
<1> QED
  BY <1>10, <1>11 DEF Nearer

LEMMA PopIsNearer ==
    ASSUME Shape, NEW c \in prog.consumers, Pop(c)
    PROVE  Nearer
<1> DEFINE q == Head(buffer).from
<1>1. q \in Producers
  <2>1. buffer # <<>> /\ buffer \in Seq(Item)
    BY PopFromNonEmpty DEF Shape, TypeOK, Item
  <2>2. Head(buffer) \in Item
    BY <2>1
  <2> QED
    BY <2>2 DEF Item
<1>2. delivered \in [Producers -> Nat] /\ delivered' = [delivered EXCEPT ![q] = @ + 1]
      /\ UNCHANGED prog
  BY DEF Pop, Shape, TypeOK
<1> HIDE DEF q
<1>3. \A p \in Producers : Undelivered[p] \in Int
  BY <1>2, Numbers DEF Undelivered
<1>4. \A p \in Producers \ {q} : Undelivered'[p] = Undelivered[p]
  BY <1>2 DEF Undelivered
<1>5. Undelivered'[q] \in Int /\ Undelivered'[q] < Undelivered[q]
  BY <1>1, <1>2, Numbers DEF Undelivered
<1>6. DOMAIN Undelivered = Producers
  BY DEF Undelivered
<1>7. Falls(Undelivered, Undelivered')
  BY <1>1, <1>3, <1>4, <1>5, <1>6, FallsAtOne, Zenon
<1> QED
  BY <1>7 DEF Nearer

LEMMA ProducerIsNearer ==
    ASSUME Shape, NEW p \in prog.producers, Producer(p)
    PROVE  Nearer
<1>1. p \in Threads
  BY ProducerMoves
<1>2. CASE Lock(p)
  BY <1>1, <1>2, PlaceIsNearer DEF Lock, Labels, Critical
<1>3. CASE WaitNotFull(p)
  BY <1>1, <1>3, PlaceIsNearer DEF WaitNotFull, Labels, Waits
<1>4. CASE Push(p)
  BY <1>4, PushIsNearer
<1>5. CASE SignalNotEmpty(p)
  <2>1. Moves(p, "unlock") /\ pc[p] = "signal" /\ UNCHANGED <<prog, round, delivered>>
    BY <1>5, ProducerMoves DEF SignalNotEmpty
  <2> QED
    BY <1>1, <2>1, MoveIsNearer DEF Stage, Labels, Critical
<1>6. CASE UnlockProducer(p)
  <2>1. PICK next \in {"lock", "done", "finish"} : Moves(p, next) /\ pc[p] = "unlock"
    BY <1>6, ProducerMoves
  <2>2. UNCHANGED <<prog, round, delivered>> /\ Stage[next] < Stage[pc[p]] /\ next \in Labels
    BY <1>6, <2>1 DEF UnlockProducer, Stage, Labels
  <2> QED
    BY <1>1, <2>1, <2>2, MoveIsNearer
<1>7. CASE LockToFinish(p)
  <2>1. Moves(p, "retire") /\ pc[p] = "finish" /\ UNCHANGED <<prog, round, delivered>>
    BY <1>7, ProducerMoves DEF LockToFinish
  <2> QED
    BY <1>1, <2>1, MoveIsNearer DEF Stage, Labels, Critical
<1>8. CASE Retire(p) \/ RetireIfLast(p)
  <2>1. PICK next \in {"retire_unlock", "done"} : Moves(p, next) /\ pc[p] = "retire"
    BY <1>8, ProducerMoves
  <2>2. UNCHANGED <<prog, round, delivered>>
    BY <1>8 DEF Retire, RetireIfLast
  <2>3. Stage[next] < Stage[pc[p]] /\ next \in Labels
    BY <2>1 DEF Stage, Labels, Critical
  <2> QED
    BY <1>1, <2>1, <2>2, <2>3, MoveIsNearer
<1>9. CASE UnlockAndReturn(p)
  <2>1. Moves(p, "done") /\ pc[p] = "retire_unlock" /\ UNCHANGED <<prog, round, delivered>>
    BY <1>9, ProducerMoves DEF UnlockAndReturn
  <2> QED
    BY <1>1, <2>1, MoveIsNearer DEF Stage, Labels
<1> QED
  BY <1>2, <1>3, <1>4, <1>5, <1>6, <1>7, <1>8, <1>9 DEF Producer

LEMMA ConsumerIsNearer ==
    ASSUME Shape, NEW c \in prog.consumers, Consumer(c)
    PROVE  Nearer
<1>1. c \in Threads
  BY ConsumerMoves
<1>2. CASE Lock(c)
  BY <1>1, <1>2, PlaceIsNearer DEF Lock, Labels, Critical
<1>3. CASE WaitNotEmpty(c)
  BY <1>1, <1>3, PlaceIsNearer DEF WaitNotEmpty, Labels, Waits
<1>4. CASE Exit(c)
  <2>1. Moves(c, "done") /\ pc[c] = "check" /\ UNCHANGED <<prog, round, delivered>>
    BY <1>4, ConsumerMoves DEF Exit
  <2> QED
    BY <1>1, <2>1, MoveIsNearer DEF Stage, Labels
<1>5. CASE Pop(c)
  BY <1>5, PopIsNearer
<1>6. CASE SignalNotFull(c)
  <2>1. Moves(c, "unlock") /\ pc[c] = "signal" /\ UNCHANGED <<prog, round, delivered>>
    BY <1>6, ConsumerMoves DEF SignalNotFull
  <2> QED
    BY <1>1, <2>1, MoveIsNearer DEF Stage, Labels, Critical
<1>7. CASE UnlockConsumer(c)
  <2>1. PICK next \in {"lock", "done"} : Moves(c, next) /\ pc[c] = "unlock"
    BY <1>7, ConsumerMoves
  <2>2. UNCHANGED <<prog, round, delivered>> /\ Stage[next] < Stage[pc[c]] /\ next \in Labels
    BY <1>7, <2>1 DEF UnlockConsumer, Stage, Labels
  <2> QED
    BY <1>1, <2>1, <2>2, MoveIsNearer
<1> QED
  BY <1>2, <1>3, <1>4, <1>5, <1>6, <1>7 DEF Consumer

LEMMA SpuriousIsNearer ==
    ASSUME Shape, NEW t \in prog.producers \cup prog.consumers, SpuriousWakeup(t)
    PROVE  Nearer
<1>1. t \in Threads /\ pc \in [Threads -> Labels] /\ wakeups \in Nat
  BY CommonMoves DEF Shape, TypeOK
<1>2. \A u \in Threads : Stage[pc'[u]] = Stage[pc[u]]
  BY <1>1 DEF SpuriousWakeup, Goto, Stage
<1>3. UNCHANGED <<Undelivered, Left>>
  BY <1>2 DEF SpuriousWakeup, Undelivered, Left
<1>4. wakeups' < wakeups
  BY <1>1 DEF SpuriousWakeup
<1> QED
  BY <1>3, <1>4 DEF Nearer

LEMMA NextIsNearer == Shape /\ Next => Nearer
<1> SUFFICES ASSUME Shape, Next PROVE Nearer
  OBVIOUS
<1>1. CASE Join
  <2>1. UNCHANGED <<Undelivered, Left, wakeups, Place>> /\ ~joined /\ joined'
    BY <1>1 DEF Join, Undelivered, Left, Place
  <2> QED
    BY <2>1 DEF Nearer
<1>2. ASSUME NEW t \in prog.producers \cup prog.consumers, Create(t)
      PROVE  Nearer
  <2>1. t \in Threads /\ Moves(t, "lock") /\ pc[t] = "new"
        /\ UNCHANGED <<prog, round, delivered>>
    BY <1>2, CommonMoves DEF Create
  <2> QED
    BY <2>1, MoveIsNearer DEF Stage, Labels
<1> QED
  BY <1>1, <1>2, ProducerIsNearer, ConsumerIsNearer, SpuriousIsNearer DEF Next, Main

\* No deadlock, and no threads that wake each other up for ever: until all have
\* returned one can go on, and each step is nearer to the end in an order without
\* infinite descents; for any number of threads, items and slots, as long as
\* the counted loops fit.
THEOREM ProceedsHolds == LoopsFit /\ Spec => Proceeds
<1>1. Shape /\ [Next]_vars => [Nearer]_vars
  BY NextIsNearer
<1>2. Spec => []Shape
  BY ShapeInit, ShapeNext, PTL DEF Spec
<1> QED
  BY <1>1, <1>2, SomebodyRunsHolds, PTL DEF Spec, Proceeds

-----------------------------------------------------------------------------
(* 3p2c_mode.cpp: the first producer to finish is not the last, so it       *)
(* returns with the mutex, and from then on nobody gets it.                 *)

FirstKeepsIt ==
    prog.finish = "last" /\ PRODUCE_COUNT > 1 =>
        /\ producer_done <= 1
        /\ producer_done = 1 => owner # NoThread /\ pc[owner] = "done"
        /\ \A c \in prog.consumers : pc[c] # "done"

\* A thread gets on with nobody counted yet, or without the mutex.
LEMMA KeptByMove ==
    ASSUME Shape, FirstKeepsIt, NEW t \in prog.producers \cup prog.consumers, NEW next \in Labels,
           Moves(t, next), pc[t] # "done", UNCHANGED <<prog, producer_done>>,
           owner' = owner \/ owner = NoThread \/ pc[t] \in Critical,
           t \in prog.consumers /\ next = "done" => Counted \/ producer_done = PRODUCE_COUNT
    PROVE  FirstKeepsIt'
<1>1. /\ t \in Threads /\ PRODUCE_COUNT' = PRODUCE_COUNT
      /\ producer_done \in Nat /\ PRODUCE_COUNT \in Nat
      /\ owner \in Threads \cup {NoThread} /\ (pc[t] \in Critical => owner = t)
      /\ \A c \in prog.consumers : c \in Threads
  BY Numbers, CountedBelow DEF Shape, TypeOK, MutexDiscipline, PRODUCE_COUNT
<1> SUFFICES ASSUME prog.finish = "last", PRODUCE_COUNT > 1
             PROVE  /\ producer_done <= 1
                    /\ producer_done = 1 => owner' # NoThread /\ pc'[owner'] = "done"
                    /\ \A c \in prog.consumers : pc'[c] # "done"
  BY <1>1 DEF FirstKeepsIt
<1>2. /\ producer_done <= 1 /\ producer_done # PRODUCE_COUNT /\ ~Counted
      /\ producer_done = 1 => owner # NoThread /\ pc[owner] = "done"
      /\ \A c \in prog.consumers : pc[c] # "done"
  BY <1>1 DEF FirstKeepsIt, Counted
<1>3. producer_done = 1 => owner' = owner /\ owner # t /\ owner \in Threads
  BY <1>1, <1>2
<1>4. producer_done = 1 => pc'[owner'] = "done"
  BY <1>1, <1>2, <1>3, DoneStays
<1>5. \A c \in prog.consumers : pc'[c] # "done"
  BY <1>1, <1>2 DEF Moves
<1> QED
  BY <1>2, <1>3, <1>4, <1>5

LEMMA KeptNext ==
    ASSUME Shape, FirstKeepsIt, [Next]_vars
    PROVE  FirstKeepsIt'
<1>1. ASSUME NEW t \in prog.producers \cup prog.consumers,
             Create(t) \/ Lock(t) \/ SpuriousWakeup(t)
      PROVE  FirstKeepsIt'
  <2>1. /\ UNCHANGED <<prog, producer_done>> /\ pc[t] # "done"
        /\ \E next \in {"lock", "check"} : Moves(t, next)
        /\ owner' = owner \/ owner = NoThread
    BY <1>1, CommonMoves DEF Create, Lock, SpuriousWakeup, Acquire, Waits
  <2> QED
    BY <2>1, KeptByMove DEF Labels, Critical
<1>2. ASSUME NEW p \in prog.producers, Producer(p) PROVE FirstKeepsIt'
  <2>1. p \in Threads /\ p \notin prog.consumers
    BY Numbers, ProducerMoves
  <2>2. CASE \/ WaitNotFull(p) \/ Push(p) \/ SignalNotEmpty(p)
             \/ UnlockProducer(p) \/ UnlockAndReturn(p)
    <3>1. /\ UNCHANGED <<prog, producer_done>> /\ pc[p] \in Critical /\ pc[p] # "done"
          /\ \E next \in Labels : Moves(p, next)
      BY <2>2, ProducerMoves DEF WaitNotFull, Push, SignalNotEmpty, UnlockProducer,
                                 UnlockAndReturn, Labels, Critical
    <3> QED
      BY <2>1, <3>1, KeptByMove
  <2>3. CASE LockToFinish(p)
    <3>1. /\ UNCHANGED <<prog, producer_done>> /\ owner = NoThread /\ pc[p] # "done"
          /\ Moves(p, "retire") /\ "retire" \in Labels
      BY <2>3, ProducerMoves DEF LockToFinish, Acquire, Labels, Critical
    <3> QED
      BY <2>1, <3>1, KeptByMove
  <2>4. CASE Retire(p) \/ RetireIfLast(p)
    <3>1. /\ UNCHANGED <<prog, owner>> /\ owner = p /\ pc[p] = "retire"
          /\ producer_done' = producer_done + 1
          /\ Moves(p, IF prog.finish = "broadcast" \/ producer_done' = PRODUCE_COUNT
                      THEN "retire_unlock" ELSE "done")
      BY <2>4, ProducerMoves DEF Retire, RetireIfLast
    <3>2. /\ PRODUCE_COUNT' = PRODUCE_COUNT /\ PRODUCE_COUNT \in Nat /\ producer_done \in Nat
          /\ p # NoThread /\ \A c \in prog.consumers : c \in Threads /\ c # p
      BY <2>1, <3>1, CountedBelow, Numbers, ThreadsAssumption DEF PRODUCE_COUNT
    <3> SUFFICES ASSUME prog.finish = "last", PRODUCE_COUNT > 1
                 PROVE  /\ producer_done' <= 1 /\ pc'[p] = "done"
                        /\ \A c \in prog.consumers : pc'[c] # "done"
      BY <3>1, <3>2 DEF FirstKeepsIt
    <3>3. producer_done = 0 /\ \A c \in prog.consumers : pc[c] # "done"
      BY <3>1, <3>2 DEF FirstKeepsIt
    <3>4. Moves(p, "done")
      BY <3>1, <3>2, <3>3
    <3> QED
      BY <3>1, <3>2, <3>3, <3>4, <2>1 DEF Moves
  <2> QED
    BY <1>1, <1>2, <2>2, <2>3, <2>4 DEF Producer
<1>3. ASSUME NEW c \in prog.consumers, Consumer(c) PROVE FirstKeepsIt'
  <2>1. CASE WaitNotEmpty(c) \/ Exit(c) \/ Pop(c) \/ SignalNotFull(c) \/ UnlockConsumer(c)
    <3>1. /\ UNCHANGED <<prog, producer_done>> /\ pc[c] \in Critical /\ pc[c] # "done"
          /\ \E next \in Labels : /\ Moves(c, next)
                                  /\ next = "done" => Counted \/ producer_done = PRODUCE_COUNT
      <4>1. CASE Exit(c)
        BY <4>1, ConsumerMoves DEF Exit, WorkOver, Labels, Critical
      <4>2. CASE UnlockConsumer(c)
        <5> DEFINE next == IF Counted /\ round[c] = prog.rounds THEN "done" ELSE "lock"
        <5>1. Moves(c, next) /\ pc[c] = "unlock" /\ next \in Labels
          BY <4>2, ConsumerMoves, GotoMoves DEF UnlockConsumer, Labels, Shape, TypeOK
        <5> QED
          BY <4>2, <5>1 DEF UnlockConsumer, Critical
      <4>3. CASE WaitNotEmpty(c) \/ Pop(c) \/ SignalNotFull(c)
        BY <4>3, ConsumerMoves DEF WaitNotEmpty, Pop, SignalNotFull, Labels, Critical
      <4> QED
        BY <2>1, <4>1, <4>2, <4>3
    <3> QED
      BY <3>1, KeptByMove
  <2> QED
    BY <1>1, <1>3, <2>1 DEF Consumer
<1>4. CASE Join \/ UNCHANGED vars
  BY <1>4 DEF Join, vars, FirstKeepsIt, PRODUCE_COUNT
<1> QED
  BY <1>1, <1>2, <1>3, <1>4 DEF Next, Main

\* Why 3p2c_mode.cpp hangs: with more than one producer no consumer ever leaves
\* its loop, in any run, for any number of threads, items and slots.
THEOREM ConsumersNeverExitHolds == Spec => []ConsumersNeverExit
<1>1. Init => Shape /\ FirstKeepsIt
  <2> SUFFICES ASSUME Init PROVE FirstKeepsIt
    BY ShapeInit
  <2>1. producer_done = 0 /\ \A c \in prog.consumers : c \in Threads /\ pc[c] = "new"
    BY ShapeInit, Numbers DEF Init
  <2> QED
    BY <2>1 DEF FirstKeepsIt
<1>2. Shape /\ FirstKeepsIt /\ [Next]_vars => (Shape /\ FirstKeepsIt)'
  BY ShapeNext, KeptNext
<1>3. FirstKeepsIt => ConsumersNeverExit
  BY DEF FirstKeepsIt, ConsumersNeverExit
<1> QED
  BY <1>1, <1>2, <1>3, PTL DEF Spec

-----------------------------------------------------------------------------
(* The refinement. *)

Stopped == {c \in prog.consumers : pc[c] = "done"}
Sent == [p \in Producers |-> round[p]]

LEMMA StoppedKept ==
    ASSUME Shape, NEW t \in Threads, NEW next \in Labels, Moves(t, next), prog' = prog,
           pc[t] # "done", next # "done" \/ t \notin prog.consumers
    PROVE  Stopped' = Stopped
BY Numbers DEF Stopped, Moves, Waits

LEMMA PushRefines ==
    ASSUME Deep, NEW p \in prog.producers, Push(p)
    PROVE  Queue!Next
<1> USE DEF Deep
<1>1. /\ p \in Producers /\ p \in Threads /\ p \notin prog.consumers
      /\ Moves(p, "signal") /\ pc[p] = "check"
  BY Numbers, ProducerMoves
<1>2. Stopped' = Stopped
  BY <1>1, StoppedKept DEF Push, Labels, Critical
<1>3. round[p] < prog.items /\ Len(buffer) < prog.size
  <2>1. Len(buffer) \in Nat /\ prog.size \in Nat
    BY UsersFinite DEF Shape
  <2> QED
    BY <1>1, <2>1 DEF Rounds, Early, Push, Full
<1>4. Sent' = [Sent EXCEPT ![p] = @ + 1] /\ Sent[p] = round[p]
  BY <1>1, Numbers DEF Sent, Push, Shape, TypeOK
<1>5. Queue!Send(p)
  BY <1>2, <1>3, <1>4 DEF Queue!Send, Push, Sent, Stopped
<1> QED
  BY <1>5 DEF Queue!Next

LEMMA PopRefines ==
    ASSUME Deep, NEW c \in prog.consumers, Pop(c)
    PROVE  Queue!Next
<1> USE DEF Deep
<1>1. /\ c \in Threads /\ c \notin Producers
      /\ Moves(c, "signal") /\ pc[c] = "check"
  BY Numbers, ConsumerMoves
<1>2. Stopped' = Stopped
  BY <1>1, StoppedKept DEF Pop, Labels, Critical
<1>3. Sent' = Sent
  BY <1>1, Numbers DEF Sent, Pop, Shape, TypeOK
<1>4. buffer # <<>> /\ Head(buffer).n = delivered[Head(buffer).from]
  BY PopFromNonEmpty, PopAdds
<1>5. Queue!Receive(c)
  BY <1>1, <1>2, <1>3, <1>4 DEF Queue!Receive, Pop, Sent, Stopped
<1> QED
  BY <1>5 DEF Queue!Next

LEMMA EffectRefines ==
    ASSUME Deep, NEW t \in prog.producers \cup prog.consumers, NEW next \in Labels,
           Effect(t, next)
    PROVE  Queue!Next \/ UNCHANGED Queue!vars
<1> USE DEF Deep
<1>1. t \in Threads /\ Moves(t, next) /\ pc[t] # "done" /\ Sent' = Sent
  BY Numbers DEF Effect, Sent
<1>2. CASE next = "done" /\ t \in prog.consumers
  <2>1. AllSent /\ buffer = <<>>
    BY <1>2, CountedOver, WorkIsOver DEF Effect
  <2>2. Stopped' = Stopped \cup {t}
    BY <1>1, <1>2, Numbers DEF Stopped, Moves, Waits, Effect
  <2>3. Queue!Stop(t)
    BY <1>1, <1>2, <2>1, <2>2, Numbers
       DEF Queue!Stop, Queue!AllSent, AllSent, Effect, Sent, Stopped
  <2> QED
    BY <1>2, <2>3 DEF Queue!Next
<1>3. CASE ~(next = "done" /\ t \in prog.consumers)
  <2>1. Stopped' = Stopped
    BY <1>1, <1>3, StoppedKept DEF Effect
  <2> QED
    BY <1>1, <2>1 DEF Queue!vars, Effect, Sent, Stopped
<1> QED
  BY <1>2, <1>3

\* The programs implement the work queue, as long as the counted loops fit.
THEOREM ImplementsHolds == LoopsFit /\ Spec => Implements
<1>1. Init => Queue!Init
  <2> SUFFICES ASSUME Init PROVE Queue!Init
    OBVIOUS
  <2>1. Sent = [p \in Producers |-> 0]
    BY DEF Init, Sent, Threads
  <2>2. Stopped = {}
    <3>1. prog.consumers \subseteq Threads
      BY ShapeInit, Numbers
    <3> QED
      BY <3>1 DEF Init, Stopped
  <2> QED
    BY <2>1, <2>2 DEF Init, Queue!Init, Sent, Stopped
<1>2. Deep /\ [Next]_vars => [Queue!Next]_(Queue!vars)
  <2> SUFFICES ASSUME Deep, [Next]_vars PROVE Queue!Next \/ UNCHANGED Queue!vars
    OBVIOUS
  <2>1. CASE UNCHANGED <<prog, buffer, round, delivered, pc>>
    BY <2>1 DEF Queue!vars
  <2> QED
    BY <2>1, KindsOfSteps, PushRefines, PopRefines, EffectRefines DEF Deep
<1> QED
  BY <1>1, <1>2, DeepHolds, PTL DEF Spec, Implements, Queue!Spec
=============================================================================
