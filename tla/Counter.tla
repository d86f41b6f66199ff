------------------------------ MODULE Counter ------------------------------
(***************************************************************************)
(* What the locking programs of DAY6, DAY7 and DAY9 promise of their shared *)
(* integer (`data', `count'): every writer adds one to it, at once, and a   *)
(* thread that prints it prints a value it has then, which includes the     *)
(* thread's own addition.  In a job that announces, what a writer prints is *)
(* the sum its own addition made: no two writers print the same.            *)
(***************************************************************************)
EXTENDS Integers

CONSTANTS Threads, NotSeen

VARIABLES job,      \* the program: its writers, and if they announce
          value,    \* the shared integer
          added,    \* the writers that have added one
          seen      \* what each thread printed, or NotSeen

vars == <<job, value, added, seen>>

Init == /\ job.writers \subseteq Threads
        /\ value = 0
        /\ added = {}
        /\ seen = [t \in Threads |-> NotSeen]

Add(t) == /\ t \in job.writers \ added
          /\ value' = value + 1
          /\ added' = added \cup {t}
          /\ UNCHANGED <<job, seen>>

See(t) == /\ seen[t] = NotSeen
          /\ t \in job.writers => t \in added
          /\ job.announces /\ t \in job.writers =>
                \A u \in job.writers : seen[u] # value
          /\ seen' = [seen EXCEPT ![t] = value]
          /\ UNCHANGED <<job, value, added>>

Next == \E t \in Threads : Add(t) \/ See(t)

Spec == Init /\ [][Next]_vars
=============================================================================
