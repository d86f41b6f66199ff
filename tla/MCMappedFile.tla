---------------------------- MODULE MCMappedFile ----------------------------
(* Two writers and a reader.  The message leaves room in the file for what is *)
(* older.                                                                     *)
EXTENDS MappedFile

CONSTANTS w1, w2, r1

MCWriters == {w1, w2}
MCReaders == {r1}
=============================================================================
