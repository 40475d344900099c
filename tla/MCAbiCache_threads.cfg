CONSTANTS
  Calls = {c1, c2, c3}
  Names = {n1}
  FromApp = FromApp
  None = None
  MultiThread = TRUE
  MayFail = TRUE
  MayCancel = TRUE
  c1 = c1
  c2 = c2
  c3 = c3
  n1 = n1
SPECIFICATION FairSpec
INVARIANTS
  TypeOK
  ErrorNotSticky
  KnownIsServed
  NoPoisonedEntry
  NoLostPermit
PROPERTY
  EveryCallReturns
