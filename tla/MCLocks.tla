------------------------------ MODULE MCLocks ------------------------------
(* The four programs with the source's numbers of threads. *)
EXTENDS Locks

CONSTANTS t1, t2, t3, t4, parent

MCThreads == {t1, t2, t3, t4, parent}
MCPrograms == {MutexProgram(t1, t2), SemProgram(t1), RWProgram(t1, t2, t3),
               TwoReadersTwoWriters(t1, t2, t3, t4)}
=============================================================================
