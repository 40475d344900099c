SPECIFICATION FairSpec
CONSTANTS
  o1 = o1
  o2 = o2
  c1 = c1
  c2 = c2
  a1 = a1
  k1 = k1
  k2 = k2
  None = None
  Ops = {o1, o2}
  Chains = {c1, c2}
  Accounts = {a1}
  Keys = {k1, k2}
  KeySets = {{k1}, {k2}}
  Callbacks <- MCCallbacks
INVARIANTS TypeOK LinkFromSuccess OkIsCurrent
PROPERTIES AnswerInTime EveryLoginReturns RefinesWalletLogin

