----------------------------- MODULE MCSearches -----------------------------
(* A small instance of Searches for TLC. *)
EXTENDS Searches, TLC

CONSTANTS c1, c2, w1, w2

MCClients == {c1, c2}
MCWriters == {w1, w2}
MCScopes == {"chunks"}
MCFilters == {"year"}
MCKinds == {"upsert", "delete", "patch"}

\* Clients are alike, and so are writers.
MCSymmetry == Permutations(MCClients) \cup Permutations(MCWriters)
=============================================================================
