SPECIFICATION Spec
CONSTANTS
  Classes <- QuietClasses
  Width = 1
  MaxEntities = 2
  MaxTokens = 6
  MaxSteps = 0
INVARIANT SlowReleaseRoots
CHECK_DEADLOCK FALSE
