SPECIFICATION Spec
CONSTANTS
  Graphs <- LoneReferenceGraphs
  Frames = {}
  MaxTokens = 0
  MaxDepths = {7}
INVARIANTS
  OnlyDeepTreesHitTheCap
