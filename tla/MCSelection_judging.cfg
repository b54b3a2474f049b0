SPECIFICATION FairSpec
CONSTANTS
  f = f  g = g  j = j
  Invalid = Invalid
  Finalists = {f, g}
  Judges = {j}
  Judgments <- OneEach
  MaxResamples = 2
  Scores = {0, 7}
  ProofLength <- LongerFirst
  Place <- FirstFirst
  MaxLaunches = 2
INVARIANTS TypeOK   SelectionIsBest
CHECK_DEADLOCK FALSE
PROPERTIES JudgingEnds
