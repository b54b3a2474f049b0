SPECIFICATION Spec
CONSTANTS
  cut = cut  s1 = s1
  NoRow = NoRow  Nothing = Nothing
  Ids <- TheIds
  NumFiles = 1
  FileOf <- ThePlaces
  SlotsOf <- NoSlots
  Replies = {0, 1, cut}
  Truncated = {cut}
  MaxLaunches = 3
  Tears <- AnyTear
  NumVerifiers = 2
  NumSeeds = 2
  Scores = {0, 1}
  MaxCritiques = 4
  PerScore = 2
INVARIANTS LedgerAgrees RetainedIsBalanced PromptIsRepeatable
CHECK_DEADLOCK FALSE
