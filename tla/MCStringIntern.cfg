SPECIFICATION Spec
CONSTANTS
  Addr = {i1, t1, t2}
  Interned = {i1}
  Content = {x, y, long}
  Oversize = {long}
  Free = Free
  Bucket <- MCBucket
  HashMapThreshold = 2
  MaxChain = 1
  MaxWrites = 5
INVARIANTS
  IInv
  WireFidelity
  NoLeakAfterFinish
PROPERTIES
  ImplementsStringStream
CHECK_DEADLOCK FALSE
