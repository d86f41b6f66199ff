---------------------------- MODULE LocksProofs ----------------------------
(***************************************************************************)
(* Proofs about Locks, for every set of programs over the four locks and    *)
(* every number of readers, writers and printers; and that Locks implements *)
(* Counter.                                                                 *)
(***************************************************************************)
EXTENDS Locks, FiniteSetTheorems, TLAPS

Added == {t \in prog.writers : pc[t] \in {"show", "unlock", "print", "done"}}

\* Which threads can be at which labels.
Roles ==
    \A t \in Threads :
       /\ t \notin Running => pc[t] = "new"
       /\ pc[t] = "load" => t \notin prog.printers
       /\ pc[t] = "store" => t \in prog.writers
       /\ pc[t] = "show" => t \in prog.writers /\ prog.announces
       /\ pc[t] = "print" => t \in prog.writers /\ prog.lock = "sem" /\ t # Parent

\* main waits for all threads before it goes on.
Waited == main \in {"extra_join", "destroy", "ended"} => AllReturned

\* Between the load and the store of an increment the integer stays as it is.
Register == \A t \in Threads : pc[t] = "store" => reg[t] = data

Sum == data = Cardinality(Added)

\* When a thread has printed the integer.
Printed ==
    \A t \in Threads : seen[t] # NotSeen =>
       \/ t \in prog.readers /\ pc[t] \in {"unlock", "done"}
       \/ t \in prog.writers /\ prog.announces /\ pc[t] \in {"unlock", "done"}
       \/ prog.lock = "sem" /\ t # Parent /\ pc[t] = "done"
       \/ prog.lock = "sem" /\ t = Parent /\ main = "ended"

\* What the parent of sem.cpp prints.
ParentPrinted == main = "ended" /\ prog.lock = "sem" => seen[Parent] = data

\* What the writers of an announcing program have printed lies below the sum
\* that the next of them is about to print.
Announced ==
    prog.announces =>
       \A t \in prog.writers : seen[t] # NotSeen =>
          /\ seen[t] <= data
          /\ \A u \in prog.writers : pc[u] = "show" => seen[t] < data

Inv == TypeOK /\ Roles /\ Waited /\ Exclusion /\ Register /\ Sum /\ Printed /\ Announced
       /\ ParentPrinted

-----------------------------------------------------------------------------
LEMMA ProgramFacts ==
    ASSUME prog \in Programs
    PROVE  /\ prog \in Program
           /\ Running \subseteq Threads
           /\ IsFiniteSet(prog.writers) /\ Cardinality(prog.writers) \in Nat
           /\ prog.readers \cap prog.writers = {}
           /\ prog.printers \cap (prog.readers \cup prog.writers) = {}
           /\ prog.lock = "sem" => Running = prog.writers /\ Parent \in prog.writers
           /\ prog.lock # "sem" => Parent \notin Running
           /\ prog.lock \in {"mutex", "sem", "rwlock"}
           /\ prog.announces => prog.lock # "sem"
<1>1. prog \in Program /\ prog.writers \subseteq Threads
  BY ProgramsAssumption DEF Program
<1>2. IsFiniteSet(prog.writers) /\ Cardinality(prog.writers) \in Nat
  BY <1>1, ThreadsAssumption, FS_Subset, FS_CardinalityType
<1> QED
  BY <1>1, <1>2, ProgramsAssumption DEF Program, Running

\* Who gets a lock shares it at most with readers, and then is one.
LEMMA Admitted ==
    ASSUME TypeOK, NEW t \in Running, Admits(t), NEW h \in holders
    PROVE  t \in prog.readers /\ h \in prog.readers
<1>1. IsFiniteSet(holders)
  BY ProgramFacts, ThreadsAssumption, FS_Subset DEF TypeOK
<1>2. Cardinality(holders) \in Nat /\ Cardinality(holders) # 0
  BY <1>1, FS_CardinalityType, FS_EmptySet
<1>3. prog.lock # "mutex"
  BY DEF Admits
<1>4. prog.lock # "sem"
  <2>1. prog.lock = "sem" => Cardinality(holders) < SemValue
    BY DEF Admits
  <2> QED
    BY <1>2, <2>1 DEF SemValue
<1>5. prog.lock = "rwlock"
  BY <1>3, <1>4, ProgramFacts DEF TypeOK
<1>6. IF Exclusive(t) THEN holders = {} ELSE \A g \in holders : ~Exclusive(g)
  BY <1>5 DEF Admits
<1> QED
  BY <1>6 DEF Exclusive

-----------------------------------------------------------------------------
(* The invariant holds at the start, ... *)

LEMMA InitInv == Init => Inv
<1> SUFFICES ASSUME Init PROVE Inv
  OBVIOUS
<1>1. Added = {}
  BY ProgramFacts DEF Init, Added, Program
<1>2. Sum /\ data = 0
  BY <1>1, FS_EmptySet DEF Init, Sum
<1>3. TypeOK
  BY ProgramFacts DEF Init, TypeOK, Labels
<1>4. Roles /\ Waited /\ Exclusion /\ Register /\ Printed /\ Announced /\ ParentPrinted
  BY ProgramFacts DEF Init, Roles, Waited, Exclusion, Register, Printed, Announced, ParentPrinted, Inside, Program
<1> QED
  BY <1>2, <1>3, <1>4 DEF Inv

(* ... and every step keeps it.  A step of a thread moves its label only. *)

LEMMA StepsOfThread ==
    ASSUME Inv, NEW t \in Running, Thread(t)
    PROVE  /\ t \in Threads
           /\ UNCHANGED <<prog, main>>
           /\ pc' \in [Threads -> Labels]
           /\ \A u \in Threads \ {t} : pc'[u] = pc[u]
           /\ main \notin {"extra_join", "destroy", "ended"}
<1>1. t \in Threads /\ pc[t] # "done"
  BY ProgramFacts DEF Inv, TypeOK, Thread, Lock, Load, Store, Show, Unlock, PrintCount
<1>2. main \notin {"extra_join", "destroy", "ended"}
  BY <1>1 DEF Inv, Waited, AllReturned
<1> QED
  BY <1>1, <1>2 DEF Inv, TypeOK, Thread, Lock, Load, Store, Show, Unlock, PrintCount, Goto, Labels

LEMMA LockStep ==
    ASSUME Inv, NEW t \in Running, Lock(t)
    PROVE  Inv'
<1> USE DEF Inv
<1>1. /\ t \in Threads /\ UNCHANGED <<prog, main, Running>>
      /\ pc' \in [Threads -> Labels] /\ \A u \in Threads \ {t} : pc'[u] = pc[u]
      /\ main \notin {"extra_join", "destroy", "ended"}
  BY StepsOfThread DEF Thread, Lock, Running
<1>2. /\ pc[t] = "lock"
      /\ pc'[t] = IF t \in prog.printers THEN "unlock" ELSE "load"
      /\ holders' = holders \cup {t} /\ UNCHANGED <<reg, data, seen>>
  BY <1>1 DEF Lock, Goto, TypeOK
<1>3. \A h \in holders : t \in prog.readers /\ h \in prog.readers
  BY Admitted DEF Lock
<1>4. Exclusion'
  BY <1>1, <1>2, <1>3, ProgramFacts DEF Exclusion, Inside, TypeOK
<1>5. Added' = Added
  BY <1>1, <1>2, ProgramFacts DEF Added, TypeOK, Program
<1>6. TypeOK' /\ Sum'
  BY <1>1, <1>2, <1>5 DEF TypeOK, Sum
<1>7. Roles' /\ Waited' /\ Register' /\ Printed' /\ ParentPrinted'
  BY <1>1, <1>2 DEF Roles, Waited, Register, Printed, ParentPrinted
<1>8. Announced'
  BY <1>1, <1>2, ProgramFacts DEF Announced, Roles, TypeOK, Program
<1> QED
  BY <1>4, <1>6, <1>7, <1>8

LEMMA LoadStep ==
    ASSUME Inv, NEW t \in Running, Load(t)
    PROVE  Inv'
<1> USE DEF Inv
<1>1. /\ t \in Threads /\ UNCHANGED <<prog, main, Running>>
      /\ pc' \in [Threads -> Labels] /\ \A u \in Threads \ {t} : pc'[u] = pc[u]
      /\ main \notin {"extra_join", "destroy", "ended"}
  BY StepsOfThread DEF Thread, Load, Running
<1>2. /\ pc[t] = "load" /\ UNCHANGED <<holders, data>>
      /\ reg' = [reg EXCEPT ![t] = data]
      /\ pc'[t] = IF t \in prog.writers THEN "store" ELSE "unlock"
      /\ seen' = IF t \in prog.writers THEN seen ELSE [seen EXCEPT ![t] = data]
  BY <1>1 DEF Load, Goto, TypeOK, Adds
<1>3. t \in prog.readers \cup prog.writers
  BY <1>1, <1>2 DEF Roles, Running
<1>4. Exclusion'
  BY <1>1, <1>2, ProgramFacts DEF Exclusion, Inside, TypeOK
<1>5. Added' = Added
  BY <1>1, <1>2, ProgramFacts DEF Added, TypeOK, Program
<1>6. TypeOK' /\ Sum'
  BY <1>1, <1>2, <1>5, ProgramFacts DEF TypeOK, Sum
<1>7. Roles' /\ Waited' /\ Register' /\ Printed' /\ ParentPrinted'
  BY <1>1, <1>2, <1>3, ProgramFacts DEF Roles, Waited, Register, Printed, ParentPrinted, TypeOK
<1>8. Announced'
  BY <1>1, <1>2, ProgramFacts DEF Announced, Roles, TypeOK, Program
<1> QED
  BY <1>4, <1>6, <1>7, <1>8

\* The one step that changes the integer: it adds t to Added and one to data.
LEMMA StoreAdds ==
    ASSUME Inv, NEW t \in Running, Store(t)
    PROVE  /\ t \in prog.writers \ Added
           /\ Added' = Added \cup {t}
           /\ data' = data + 1
           /\ data' = Cardinality(Added')
           /\ data' <= Cardinality(prog.writers)
<1> USE DEF Inv
<1>1. /\ t \in Threads /\ pc[t] = "store" /\ pc'[t] \in {"show", "unlock"}
      /\ \A u \in Threads \ {t} : pc'[u] = pc[u] /\ UNCHANGED prog
  BY StepsOfThread DEF Thread, Store, Goto, TypeOK
<1>2. t \in prog.writers \ Added /\ data' = data + 1
  BY <1>1 DEF Roles, Register, Added, Store
<1>3. prog.writers \subseteq Threads /\ IsFiniteSet(prog.writers)
  BY ProgramFacts DEF TypeOK, Program
<1>4. Added' = Added \cup {t}
  BY <1>1, <1>2, <1>3, ProgramFacts DEF Added, Store
<1>5. IsFiniteSet(Added) /\ Added \cup {t} \subseteq prog.writers
  BY <1>2, <1>3, FS_Subset DEF Added
<1>6. Cardinality(Added \cup {t}) = Cardinality(Added) + 1
  BY <1>2, <1>5, FS_AddElement
<1>7. Cardinality(Added \cup {t}) <= Cardinality(prog.writers)
  BY <1>3, <1>5, FS_Subset
<1> QED
  BY <1>2, <1>4, <1>6, <1>7 DEF Sum

LEMMA StoreStep ==
    ASSUME Inv, NEW t \in Running, Store(t)
    PROVE  Inv'
<1> USE DEF Inv
<1>1. /\ t \in Threads /\ UNCHANGED <<prog, main, Running>>
      /\ pc' \in [Threads -> Labels] /\ \A u \in Threads \ {t} : pc'[u] = pc[u]
      /\ main \notin {"extra_join", "destroy", "ended"}
  BY StepsOfThread DEF Thread, Store, Running
<1>2. /\ pc[t] = "store" /\ pc'[t] = IF prog.announces THEN "show" ELSE "unlock"
      /\ UNCHANGED <<holders, reg, seen>>
  BY <1>1 DEF Store, Goto, TypeOK
<1>3. Exclusion'
  BY <1>1, <1>2, ProgramFacts DEF Exclusion, Inside, TypeOK
<1>4. t \in prog.writers /\ t \notin prog.readers
  BY StoreAdds, ProgramFacts DEF TypeOK
<1>5. \A u \in Threads \ {t} : pc[u] \notin Inside
  <2> TAKE u \in Threads \ {t}
  <2>1. u \notin Running => pc[u] = "new"
    BY DEF Roles
  <2> QED
    BY <1>1, <1>2, <1>4, <2>1 DEF Exclusion, Inside, TypeOK
<1>6. Register'
  BY <1>1, <1>2, <1>5 DEF Register, Inside
<1>7. TypeOK' /\ Sum'
  BY <1>1, <1>2, StoreAdds, ProgramFacts DEF TypeOK, Sum
<1>8. Roles' /\ Waited' /\ Printed' /\ ParentPrinted'
  BY <1>1, <1>2, <1>4 DEF Roles, Waited, Printed, ParentPrinted
<1>9. Announced'
  \* Whoever printed before printed less.
  <2>1. data' = data + 1
    BY StoreAdds
  <2> QED
    BY <1>1, <1>2, <2>1, ProgramFacts, ThreadsAssumption DEF Announced, TypeOK, Program
<1> QED
  BY <1>3, <1>6, <1>7, <1>8, <1>9

LEMMA ShowStep ==
    ASSUME Inv, NEW t \in Running, Show(t)
    PROVE  Inv'
<1> USE DEF Inv
<1>1. /\ t \in Threads /\ UNCHANGED <<prog, main, Running>>
      /\ pc' \in [Threads -> Labels] /\ \A u \in Threads \ {t} : pc'[u] = pc[u]
      /\ main \notin {"extra_join", "destroy", "ended"}
  BY StepsOfThread DEF Thread, Show, Running
<1>2. /\ pc[t] = "show" /\ pc'[t] = "unlock" /\ UNCHANGED <<holders, reg, data>>
      /\ seen' = [seen EXCEPT ![t] = data]
      /\ t \in prog.writers /\ prog.announces
  BY <1>1 DEF Show, Goto, TypeOK, Roles
<1>3. Exclusion'
  BY <1>1, <1>2, ProgramFacts DEF Exclusion, Inside, TypeOK
<1>4. Added' = Added
  BY <1>1, <1>2, ProgramFacts DEF Added, TypeOK, Program
<1>5. TypeOK' /\ Sum'
  BY <1>1, <1>2, <1>4, ProgramFacts DEF TypeOK, Sum
<1>6. Roles' /\ Waited' /\ Register' /\ Printed' /\ ParentPrinted'
  BY <1>1, <1>2, ProgramFacts DEF Roles, Waited, Register, Printed, ParentPrinted, TypeOK, Running
<1>7. Announced'
  \* Nobody else is in its section to print.
  <2>1. \A u \in prog.writers \ {t} : pc'[u] # "show"
    BY <1>1, <1>2, ProgramFacts DEF Exclusion, Inside, TypeOK, Program, Running
  <2>2. prog.writers \subseteq Threads
    BY ProgramFacts DEF TypeOK, Program
  <2> QED
    BY <1>1, <1>2, <2>1, <2>2, ProgramFacts DEF Announced, TypeOK
<1> QED
  BY <1>3, <1>5, <1>6, <1>7

LEMMA UnlockStep ==
    ASSUME Inv, NEW t \in Running, Unlock(t)
    PROVE  Inv'
<1> USE DEF Inv
<1>1. /\ t \in Threads /\ UNCHANGED <<prog, main, Running>>
      /\ pc' \in [Threads -> Labels] /\ \A u \in Threads \ {t} : pc'[u] = pc[u]
      /\ main \notin {"extra_join", "destroy", "ended"}
  BY StepsOfThread DEF Thread, Unlock, Running
<1>2. /\ pc[t] = "unlock" /\ UNCHANGED <<reg, data, seen>>
      /\ holders' = holders \ {t}
      /\ pc'[t] = IF prog.lock = "sem" /\ t # Parent THEN "print" ELSE "done"
  BY <1>1 DEF Unlock, Goto, TypeOK
<1>3. Exclusion'
  BY <1>1, <1>2, ProgramFacts DEF Exclusion, Inside, TypeOK
<1>4. Added' = Added
  BY <1>1, <1>2, ProgramFacts DEF Added, TypeOK, Program
<1>5. TypeOK' /\ Sum'
  BY <1>1, <1>2, <1>4 DEF TypeOK, Sum
<1>6. Roles' /\ Waited' /\ Register' /\ Printed' /\ ParentPrinted'
  BY <1>1, <1>2, ProgramFacts DEF Roles, Waited, Register, Printed, ParentPrinted, TypeOK
<1>7. Announced'
  BY <1>1, <1>2, ProgramFacts DEF Announced, Roles, TypeOK, Program
<1> QED
  BY <1>3, <1>5, <1>6, <1>7

LEMMA PrintStep ==
    ASSUME Inv, NEW t \in Running, PrintCount(t)
    PROVE  Inv'
<1> USE DEF Inv
<1>1. /\ t \in Threads /\ UNCHANGED <<prog, main, Running>>
      /\ pc' \in [Threads -> Labels] /\ \A u \in Threads \ {t} : pc'[u] = pc[u]
      /\ main \notin {"extra_join", "destroy", "ended"}
  BY StepsOfThread DEF Thread, PrintCount, Running
<1>2. /\ pc[t] = "print" /\ pc'[t] = "done" /\ UNCHANGED <<holders, reg, data>>
      /\ seen' = [seen EXCEPT ![t] = data]
  BY <1>1 DEF PrintCount, Goto, TypeOK
<1>3. Exclusion'
  BY <1>1, <1>2, ProgramFacts DEF Exclusion, Inside, TypeOK
<1>4. Added' = Added
  BY <1>1, <1>2, ProgramFacts DEF Added, TypeOK, Program
<1>5. TypeOK' /\ Sum'
  BY <1>1, <1>2, <1>4, ProgramFacts DEF TypeOK, Sum
<1>6. Roles' /\ Waited' /\ Register' /\ Printed' /\ ParentPrinted'
  BY <1>1, <1>2 DEF Roles, Waited, Register, Printed, ParentPrinted, TypeOK
<1>7. Announced'
  BY <1>1, <1>2, ProgramFacts DEF Announced, Roles, TypeOK, Program
<1> QED
  BY <1>3, <1>5, <1>6, <1>7

\* What main does leaves the lock and the integer alone.
LEMMA MainStep ==
    ASSUME Inv, Main
    PROVE  Inv'
<1> USE DEF Inv
<1>1. UNCHANGED <<prog, holders, reg, data, Running>>
  BY DEF Main, Fork, Join, ExtraJoin, Destroy, Create, Running
<1>2. /\ pc' \in [Threads -> Labels]
      /\ \A u \in Threads : \/ pc'[u] = pc[u]
                            \/ u \in Running /\ pc[u] = "new" /\ pc'[u] = "lock" /\ main = "run"
  BY ProgramFacts DEF Main, Fork, Join, ExtraJoin, Destroy, Create, Goto, TypeOK, Labels
<1>3. Exclusion' /\ Roles' /\ Register'
  BY <1>1, <1>2, ProgramFacts DEF Exclusion, Inside, Roles, Register, TypeOK
<1>4. Added' = Added
  BY <1>1, <1>2, ProgramFacts DEF Added, TypeOK, Program
<1>5. TypeOK' /\ Sum'
  <2>1. main' \in {"run", "extra_join", "destroy", "ended", "crashed", "stuck", "failed"}
    BY DEF Main, Fork, Join, ExtraJoin, Destroy, Create, TypeOK
  <2>2. seen' \in [Threads -> Nat \cup {NotSeen}]
    BY ProgramFacts DEF Main, Fork, Join, ExtraJoin, Destroy, Create, TypeOK
  <2> QED
    BY <1>1, <1>2, <1>4, <2>1, <2>2 DEF TypeOK, Sum
<1>6. Waited'
  BY <1>1, <1>2 DEF Main, Fork, Join, ExtraJoin, Destroy, Create, Waited, AllReturned, Goto
<1>7. Printed' /\ ParentPrinted'
  <2>1. CASE Destroy
    BY <1>1, <2>1, ThreadsAssumption DEF Destroy, Printed, ParentPrinted, TypeOK
  <2>2. CASE ~Destroy
    <3>1. UNCHANGED seen /\ main # "ended" /\ main' # "ended"
      BY <2>2, ThreadsAssumption DEF Main, Fork, Join, ExtraJoin, Create, Destroy, Running, Waited, AllReturned
    <3> QED
      BY <1>1, <1>2, <3>1, ProgramFacts DEF Printed, ParentPrinted, TypeOK
  <2> QED
    BY <2>1, <2>2
<1>8. Announced'
  <2>1. \A u \in prog.writers : seen'[u] = seen[u] \/ prog.lock = "sem"
    BY <1>1, ThreadsAssumption DEF Main, Fork, Join, ExtraJoin, Destroy, Create, TypeOK
  <2>2. prog.announces => prog.lock # "sem"
    BY ProgramsAssumption DEF TypeOK
  <2>3. prog.writers \subseteq Threads
    BY ProgramFacts DEF TypeOK, Program
  <2> QED
    BY <1>1, <1>2, <2>1, <2>2, <2>3 DEF Announced
<1> QED
  BY <1>3, <1>5, <1>6, <1>7, <1>8

LEMMA StepKeepsInv == Inv /\ [Next]_vars => Inv'
<1> SUFFICES ASSUME Inv, [Next]_vars PROVE Inv'
  OBVIOUS
<1>1. CASE Main
  BY <1>1, MainStep
<1>2. CASE \E t \in Running : Thread(t)
  BY <1>2, LockStep, LoadStep, StoreStep, ShowStep, UnlockStep, PrintStep DEF Thread
<1>3. CASE UNCHANGED vars
  BY <1>3 DEF vars, Inv, TypeOK, Roles, Waited, Exclusion, Register, Sum, Printed, Announced, ParentPrinted, Added,
              Running, AllReturned
<1> QED
  BY <1>1, <1>2, <1>3 DEF Next

LEMMA InvHolds == Spec => []Inv
BY InitInv, StepKeepsInv, PTL DEF Spec

-----------------------------------------------------------------------------
(* The theorems. *)

\* Types, and the integer never exceeds the number of writers.
THEOREM TypesHold == Spec => []TypeOK
BY InvHolds, PTL DEF Inv

\* Mutual exclusion under each of the three locks: who is in a section of
\* DAY6, DAY7/src.cpp or DAY9/2r_2w_mode.cpp holds the lock, and shares it only
\* among readers.
THEOREM ExclusionHolds == Spec => []Exclusion
BY InvHolds, PTL DEF Inv

LEMMA QuietAtTheEnd == Inv => DestroyedQuiet
<1> SUFFICES ASSUME Inv, main \in {"extra_join", "destroy", "ended"} PROVE DestroyedQuiet
  BY DEF DestroyedQuiet
<1> USE DEF Inv
<1>1. \A t \in Running : pc[t] = "done"
  BY DEF Waited, AllReturned
<1>2. holders = {}
  BY <1>1 DEF Exclusion, Inside, TypeOK
<1>3. Added = prog.writers
  BY <1>1 DEF Added, Running
<1> QED
  BY <1>2, <1>3 DEF DestroyedQuiet, Sum, ParentPrinted

\* No addition is lost: when main destroys the lock nobody holds it and the
\* integer counts all writers, which is what the parent of sem.cpp prints.
THEOREM DestroyedQuietHolds == Spec => []DestroyedQuiet
BY InvHolds, QuietAtTheEnd, PTL

-----------------------------------------------------------------------------
(* The refinement: a store is the counter's Add, what a reader or a writer  *)
(* prints, the child's print and the parent's print are its See.            *)

LEMMA InitRefines == Init => Total!Init
<1> SUFFICES ASSUME Init PROVE Total!Init
  OBVIOUS
<1>1. prog.writers \subseteq Threads
  BY ProgramFacts DEF Init, Program
<1> QED
  BY <1>1 DEF Init, Total!Init

\* A step that changes no thread's membership in Added and prints nothing.
LEMMA Stutters ==
    ASSUME UNCHANGED <<prog, data, seen, Added>>
    PROVE  UNCHANGED Total!vars
BY DEF Total!vars, Added

\* A thread prints the integer for the first time, a writer after its addition
\* and, if it announces that, before the next one.
LEMMA Sees ==
    ASSUME NEW t \in Threads, UNCHANGED <<prog, data, Added>>,
           seen[t] = NotSeen, t \in prog.writers => t \in Added,
           prog.announces /\ t \in prog.writers => \A u \in prog.writers : seen[u] # data,
           seen' = [seen EXCEPT ![t] = data]
    PROVE  Total!Next
<1>1. Total!See(t)
  BY DEF Total!See, Added
<1> QED
  BY <1>1 DEF Total!Next

LEMMA ThreadRefines ==
    ASSUME Inv, NEW t \in Running, Thread(t)
    PROVE  Total!Next \/ UNCHANGED Total!vars
<1> USE DEF Inv
<1>1. /\ t \in Threads /\ UNCHANGED prog
      /\ \A u \in Threads \ {t} : pc'[u] = pc[u]
      /\ prog.writers \subseteq Threads
  BY StepsOfThread, ProgramFacts DEF TypeOK, Program
<1>2. CASE Lock(t) \/ Unlock(t)
  <2>1. Added' = Added
    BY <1>1, <1>2, ProgramFacts DEF Added, TypeOK, Lock, Unlock, Goto
  <2> QED
    BY <1>1, <1>2, <2>1, Stutters DEF Lock, Unlock
<1>3. CASE Load(t)
  <2>1. Added' = Added
    BY <1>1, <1>3, ProgramFacts DEF Added, TypeOK, Load, Goto, Adds
  <2>2. CASE t \in prog.writers
    BY <1>1, <1>3, <2>1, <2>2, Stutters DEF Load, Adds
  <2>3. CASE t \notin prog.writers
    <3>1. seen[t] = NotSeen
      BY <1>1, <1>3, <2>3, ProgramFacts DEF Printed, Load, TypeOK, Running
    <3> QED
      BY <1>1, <1>3, <2>1, <2>3, <3>1, Sees DEF Load, Adds
  <2> QED
    BY <2>2, <2>3
<1>4. CASE Store(t)
  <2>1. Total!Add(t)
    BY <1>1, <1>4, StoreAdds DEF Store, Total!Add, Added
  <2> QED
    BY <1>1, <2>1 DEF Total!Next
<1>5. CASE PrintCount(t)
  <2>1. Added' = Added /\ t \in Added
    BY <1>1, <1>5, ProgramFacts DEF Added, TypeOK, PrintCount, Goto, Roles
  <2>2. seen[t] = NotSeen /\ ~prog.announces
    BY <1>1, <1>5, ProgramsAssumption DEF Printed, PrintCount, Roles, TypeOK
  <2> QED
    BY <1>1, <1>5, <2>1, <2>2, Sees DEF PrintCount
<1>6. CASE Show(t)
  <2>1. Added' = Added /\ t \in Added
    BY <1>1, <1>6, ProgramFacts DEF Added, TypeOK, Show, Goto, Roles
  <2>2. t \in prog.writers /\ prog.announces /\ prog.lock # "sem"
    BY <1>1, <1>6, ProgramsAssumption DEF Show, Roles, TypeOK
  <2>3. seen[t] = NotSeen
    BY <1>1, <1>6, <2>2 DEF Printed, Show
  <2>4. \A u \in prog.writers : seen[u] # data
    <3> SUFFICES ASSUME NEW u \in prog.writers, seen[u] = data PROVE FALSE
      OBVIOUS
    <3>1. data \in Nat /\ data # NotSeen
      BY ThreadsAssumption, ProgramFacts DEF TypeOK
    <3>2. seen[u] < data
      BY <1>6, <2>2, <3>1 DEF Announced, Show
    <3> QED
      BY <3>1, <3>2
  <2> QED
    BY <1>1, <1>6, <2>1, <2>3, <2>4, Sees DEF Show
<1> QED
  BY <1>2, <1>3, <1>4, <1>5, <1>6 DEF Thread

LEMMA MainRefines ==
    ASSUME Inv, Main
    PROVE  Total!Next \/ UNCHANGED Total!vars
<1> USE DEF Inv
<1>1. UNCHANGED <<prog, data>> /\ prog.writers \subseteq Threads
  BY ProgramFacts DEF Main, Fork, Join, ExtraJoin, Destroy, Create, TypeOK, Program
<1>2. Added' = Added
  <2>1. \A u \in Threads : pc'[u] = pc[u] \/ (pc[u] = "new" /\ pc'[u] = "lock")
    BY DEF Main, Fork, Join, ExtraJoin, Destroy, Create, Goto, TypeOK
  <2> QED
    BY <1>1, <2>1 DEF Added
<1>3. CASE Destroy /\ prog.lock = "sem"
  <2>1. Parent \in Threads /\ Parent \in Running /\ seen[Parent] = NotSeen
    BY <1>3, ProgramFacts, ThreadsAssumption DEF Destroy, Printed, TypeOK, Running
  <2>2. Parent \in Added
    BY <1>3, <2>1, ProgramFacts DEF Destroy, Waited, AllReturned, Added, TypeOK
  <2>3. ~prog.announces
    BY <1>3, ProgramsAssumption DEF TypeOK
  <2> QED
    BY <1>1, <1>2, <1>3, <2>1, <2>2, <2>3, Sees DEF Destroy
<1>4. CASE ~(Destroy /\ prog.lock = "sem")
  <2>1. UNCHANGED seen
    BY <1>4 DEF Main, Fork, Join, ExtraJoin, Destroy, Create
  <2> QED
    BY <1>1, <1>2, <2>1, Stutters
<1> QED
  BY <1>3, <1>4

LEMMA StepRefines == Inv /\ [Next]_vars => [Total!Next]_(Total!vars)
<1> SUFFICES ASSUME Inv, [Next]_vars PROVE Total!Next \/ UNCHANGED Total!vars
  OBVIOUS
<1>1. CASE UNCHANGED vars
  BY <1>1, Stutters DEF vars, Added
<1> QED
  BY <1>1, ThreadRefines, MainRefines DEF Next

\* The programs implement the counter: each load and store of an increment
\* appears as one addition, and whatever a thread prints is a value the integer
\* has at that moment, its own addition included; and the writers of
\* 2r_2w_mode.cpp each print another value, the one their own addition made.
THEOREM ImplementsHolds == Spec => Implements
BY InitRefines, StepRefines, InvHolds, PTL DEF Spec, Implements, Total!Spec

=============================================================================
