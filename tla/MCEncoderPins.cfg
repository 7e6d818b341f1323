SPECIFICATION Spec
CONSTANTS
  Addr = {a1, a2, im}
  Immutable = {im}
  NoHook = NoHook
  MaxEntities = 4
  MaxRefs = 1
  MaxWire = 2
INVARIANTS
  PinsInv
  BackRefsFaithful
  CopiesHaveOwner
  CountsBalance
CHECK_DEADLOCK FALSE
SYMMETRY Symmetric
