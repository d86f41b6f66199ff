----------------------------- MODULE WorkQueue -----------------------------
(***************************************************************************)
(* What every producer/consumer program of DAY7, DAY8 and DAY9 promises,   *)
(* without a mutex, a condition variable or a thread: the producers'       *)
(* items pass through a bounded first-in-first-out channel, each of them   *)
(* is taken out exactly once, and a consumer stops only when the work is   *)
(* over.  BoundedBuffer.tla is shown to implement this module.             *)
(***************************************************************************)
EXTENDS Integers, Sequences

CONSTANTS Producers,   \* the producers a job may use
          Consumers    \* the consumers a job may use

VARIABLES job,         \* which threads take part, channel size, items each
          sent,        \* how many items each producer has put in
          channel,     \* the items under way, the oldest first
          delivered,   \* how many items of each producer were taken out
          stopped      \* the consumers that will take nothing more

vars == <<job, sent, channel, delivered, stopped>>

\* Every producer of the job has put in all of its items.
AllSent == \A p \in job.producers : sent[p] = job.items

Init == /\ sent = [p \in Producers |-> 0]
        /\ channel = <<>>
        /\ delivered = [p \in Producers |-> 0]
        /\ stopped = {}

\* A producer puts its next item in, if there is room for it.
Send(p) == /\ sent[p] < job.items
           /\ Len(channel) < job.size
           /\ channel' = Append(channel, [from |-> p, n |-> sent[p]])
           /\ sent' = [sent EXCEPT ![p] = @ + 1]
           /\ UNCHANGED <<job, delivered, stopped>>

\* A consumer that has not stopped takes the oldest item: it is the next one
\* of the producer it came from.
Receive(c) == /\ c \notin stopped
              /\ channel # <<>>
              /\ Head(channel).n = delivered[Head(channel).from]
              /\ delivered' = [delivered EXCEPT ![Head(channel).from] = @ + 1]
              /\ channel' = Tail(channel)
              /\ UNCHANGED <<job, sent, stopped>>

\* A consumer stops only when nothing is left and nothing more will come.
Stop(c) == /\ AllSent
           /\ channel = <<>>
           /\ stopped' = stopped \cup {c}
           /\ UNCHANGED <<job, sent, channel, delivered>>

Next == \/ \E p \in job.producers : Send(p)
        \/ \E c \in job.consumers : Receive(c) \/ Stop(c)

Spec == Init /\ [][Next]_vars
=============================================================================
