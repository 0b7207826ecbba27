------------------------------ MODULE MCRWLock ------------------------------
(* Small instances of RWLock for TLC. *)
EXTENDS RWLock

CONSTANTS r1, r2, r3, w1, w2

MCReaders3 == {r1, r2, r3}
MCWriters2 == {w1, w2}
=============================================================================
