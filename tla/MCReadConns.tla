---------------------------- MODULE MCReadConns ----------------------------
(* Small instances of ReadConns for TLC. *)
EXTENDS ReadConns

CONSTANTS t1, t2, t3

MCThreads3 == {t1, t2, t3}
=============================================================================
