SPECIFICATION FairSpec
CONSTANTS
  p1 = p1
  p2 = p2
  r1 = r1
  r2 = r2
  Procs = {p1, p2}
  Reqs = {r1, r2}
  Ops = {"read", "search", "ingest", "patch", "create", "delete"}
  Tokenizer = "unicode61"
  Slots = 3
  Limit <- MCLimit
  Total = 5
INVARIANTS
  OneProcess
  ServedSchema
  NoClientLeak
PROPERTIES
  DocIndexKept
  AnswersAreTrue
  TakesOver
CHECK_DEADLOCK FALSE
