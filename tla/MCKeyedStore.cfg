SPECIFICATION SpecKeyed
CONSTANTS
  k1 = k1
  k1pad = k1pad
  klong = klong
  kshort = kshort
  Key = {k1, k1pad, klong, kshort}
  KeyBlock <- MCKeyBlock
  ShortKeys = {kshort}
  LongKeys = {klong}
  Unset = Unset
  Context = {apcu, app, session, toolong}
  SessionWord = session
  BadContexts = {toolong}
  SessionId = {none, sid}
  EmptyId = none
  Frame = {f, empty}
  Malformed = {empty}
  Slot = {s1}
  NoBlob = NoBlob
  Worker = {w1}
  Configs <- MCConfigs
  MaxNested = 2
  MaxCalls = 3
  MaxEvents = 2
INVARIANTS
  KeyedInv
  FetchedWasIssued
  RetiredKeyGone
PROPERTIES
  ImplementsSealedStore
CHECK_DEADLOCK FALSE
