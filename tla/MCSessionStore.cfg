SPECIFICATION Spec
CONSTANTS
  Key = {k1, k1pad, kshort}
  KeyBlock <- MCKeyBlock
  ShortKeys = {kshort}
  LongKeys = {}
  Unset = Unset
  Context = {session}
  SessionWord = session
  BadContexts = {}
  SessionId = {s1, s2}
  EmptyId = s1
  Frame = {a, b, scalar}
  Malformed = {}
  Request = {r1, r2}
  Scalars = {scalar}
  NoSid = NoSid
  MaxSaves = 2
  MaxEvents = 2
SYMMETRY MCSymmetry
INVARIANTS
  SessionInv
PROPERTIES
  ImplementsSessionPromise
CHECK_DEADLOCK FALSE
