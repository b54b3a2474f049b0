SPECIFICATION FairSpec
CONSTANTS
  w1 = w1  w2 = w2  head = head  box = box
  Workers = {w1, w2}
  Head = head
  Box = box
  NumRetries = 2
  MaxRuns = 2
INVARIANTS NoPhantomEnd InfoIsCurrent
PROPERTIES  BringUpEnds EndedEndsJob
CHECK_DEADLOCK FALSE
