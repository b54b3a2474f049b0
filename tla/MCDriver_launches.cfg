SPECIFICATION FairSpec
CONSTANTS
  Problems = {1, 2, 3}
  Width = 2
  MaxLaunches = 2
  Tears <- NoTears
INVARIANTS TypeOK OneResultPerProblem ExitCodeIsTruthful FinishedHasSubmission
CHECK_DEADLOCK FALSE
PROPERTIES LaunchEnds
