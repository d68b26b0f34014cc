\* Two requests of any kind, tokens that expire, a tag that moves.
CONSTANTS
  r1 = r1
  r2 = r2
  Reqs = {r1, r2}
  Fetches = {r1, r2}
  Mixes <- Pairs
  MaxTokens = 3
  Chunks = 2
  Capacity = 1
  Manifests = {m1, m2}
  NoBody = NoBody
  Unresolved = Unresolved
SPECIFICATION FairSpec
INVARIANTS
  TypeOK
  OnlySelfRefusedTokenStays
  BudgetNeedsExpiry
  EofMeansEverything
  TagAnswerIsCurrent
PROPERTY FillEndsUnlessHeldUp
CHECK_DEADLOCK FALSE
