SPECIFICATION Spec
CONSTANTS
  Graphs <- MCGraphs
  Frames <- MCFrames
  MaxTokens = 5
  MaxDepths = {3, 7}
INVARIANTS
  EncTypeOK
  HoldsReleased
  SameShape
  SameIdentity
  IdsAgree
  FrameAccepted
  DecTypeOK
  DecodedWellFormed
