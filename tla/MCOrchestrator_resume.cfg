SPECIFICATION Spec
CONSTANTS
  X = X
  Y = Y
  rx = rx
  ry = ry
  bad = bad
  NoReply = NoReply
  NoText = NoText
  NumCheckpoints = 1
  NumPrompts = 1
  GenSamples <- JustTwo
  RefineSamples <- JustOne
  ParentsPerRound = 1
  MaxRounds = 1
  PanelSize = 2
  Replies <- MCReplies
  ProofOf <- MCProofOf
  SelfEval <- MCSelfEval
  Judgments <- PassFail
  MaxLaunches = 2
INVARIANTS
  AcceptedIsFinalist
  TypeOK
  OneRowPerIdentity
  
PROPERTIES
  NeverReissued
  ImplementsSearch
