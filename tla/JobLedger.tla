----------------------------- MODULE JobLedger -----------------------------
(***************************************************************************)
(* What the ingest journal promises its clients, without workers, batches, *)
(* indexes or crashes: jobs are journaled one after the other, each is     *)
(* finished once, 'done' or 'error', and never before an earlier job is.   *)
(***************************************************************************)
EXTENDS Integers

CONSTANT MaxJobs  \* bound: jobs submitted in one behaviour

VARIABLE ledger   \* per job id: "none", "open", "done" or "error"

Submit(j) ==
  /\ ledger[j] = "none"
  /\ \A i \in 1..(j - 1) : ledger[i] # "none"
  /\ ledger' = [ledger EXCEPT ![j] = "open"]

Finish(j) ==
  /\ ledger[j] = "open"
  /\ \A i \in 1..(j - 1) : ledger[i] # "open"
  /\ \E outcome \in {"done", "error"} : ledger' = [ledger EXCEPT ![j] = outcome]

Init == ledger = [j \in 1..MaxJobs |-> "none"]

Next == \E j \in 1..MaxJobs : Submit(j) \/ Finish(j)

Spec == Init /\ [][Next]_ledger
=============================================================================
