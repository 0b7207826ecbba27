-------------------------- MODULE MCIngestJournal --------------------------
(* Small instances of IngestJournal for TLC. *)
EXTENDS IngestJournal, TLC

CONSTANTS k1, k2

MCKeys == {k1, k2}
KeySymmetry == Permutations(MCKeys)

One(S) == [op |-> "ingest", keys |-> S]
IndexOp == [op |-> "index", keys |-> {}]

\* One-key and two-key upserts, and index jobs.
AsksPair == {One({k1, k2}), IndexOp}
AsksAll == {One({k1}), One({k1, k2}), IndexOp}
\* ... and upserts of an empty payload.
AsksEmpty == {One({}), One({k1}), IndexOp}

Budget(crash, stop, delete, fault, die, cancel) ==
  [e \in Events |->
     CASE e = "crash" -> crash [] e = "stop" -> stop [] e = "delete" -> delete
       [] e = "fault" -> fault [] e = "die" -> die [] e = "cancel" -> cancel]

\*                       crash stop delete fault die cancel
LimitOrderly     == Budget(1, 0, 1, 1, 0, 0)
LimitInterrupted == Budget(0, 1, 1, 1, 1, 0)
LimitLive        == Budget(1, 1, 0, 1, 0, 1)
=============================================================================
