SPECIFICATION Spec
CONSTANTS
  Problems = {1, 2}
  Inputs <- SomeInputs
  v1 = v1  v2 = v2
  Versions <- TheVersions
  Documents <- TheDocuments
  PromptFiles <- ThePrompts
  Exported = {"KEY"}
  FileLimit = 200
  Absent = Absent  Null = Null  Wrong = Wrong  Unfilled = Unfilled
  MaxLaunches = 2
  NoFile = NoFile
SYMMETRY Sym
INVARIANTS RunIsPinned SameWork CountsAreRequests 
