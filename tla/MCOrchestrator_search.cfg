SPECIFICATION FairSpec
CONSTANTS
  X = X
  Y = Y
  rx = rx
  ry = ry
  bad = bad
  NoReply = NoReply
  NoText = NoText
  NumCheckpoints = 2
  NumPrompts = 1
  GenSamples <- OneEach
  RefineSamples <- OneEach
  ParentsPerRound = 1
  MaxRounds = 2
  PanelSize = 1
  Replies <- MCReplies
  ProofOf <- MCProofOf
  SelfEval <- MCSelfEval
  Judgments <- AllScores
  MaxLaunches = 1
INVARIANTS
  OutcomeFollowsDisk
PROPERTIES
  SearchHalts
