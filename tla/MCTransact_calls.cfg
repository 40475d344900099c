CONSTANTS
  Calls = {c1, c2}
  Payloads = {transfer}
  MaxHead = 1
  Ttl = 0
  None = None
  c1 = c1
  c2 = c2
  transfer = transfer
SPECIFICATION FairSpec
INVARIANTS
  TypeOK
  RanAsReported
  OwnSignatures
  SuccessRan
  RefusedNeverRuns
PROPERTY
  EveryCallReturns
