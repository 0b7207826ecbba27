SPECIFICATION Spec
CONSTANTS
  Fold <- MCFold
  ScanBudget = 2
  RRF_K = 60
  Scale = 30
  Texts <- MCTexts
  Payloads <- MCPayloads
  Questions <- MCQuestions
  Old <- MCOld
  Embed <- MCEmbed
  Dirs = 4
  Centroids <- MCCentroids
  Nprobe = 1
  Posts = 2
  Tears = 1
  RescoreMult = 2
  RescoreFloor = 2
  RescoreCap = 4
  Tiny = 3
  OrCand = 3
  AndCand = 9
  DirectMax = 2
  HybridDepth = 3
  ChurnMax = 4
INVARIANTS
  RecordsAreThePosted
  ScorersAgree
  FilteredIsExact
  MatchesAreFound
CHECK_DEADLOCK FALSE
