SPECIFICATION Spec
CONSTANTS
  r1 = r1  r2 = r2  r3 = r3  r4 = r4
  gen = gen  verify = verify
  Unknown = Unknown
  Requests = {r1, r4}
  Lanes = {gen, verify}
  LaneOf <- MCLaneOf
  Width <- OneWide
  Prompt <- MCPrompt
  MaxTokens = 3
  MaxLen = 8
  Margin = 2
  Errors <- AllErrors
PROPERTIES TransientIsRetried
