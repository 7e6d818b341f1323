SPECIFICATION Spec
CONSTANTS
  Classes <- MixedClasses
  Width = 1
  MaxEntities = 3
  MaxTokens = 6
  MaxSteps = 2
CONSTRAINT OneFamily
INVARIANTS
  TypeOK
  FastReleaseFreesNothing
  NamedIsAlive
  NoDestructorBeforeHook
  NothingLeaks
CHECK_DEADLOCK FALSE
