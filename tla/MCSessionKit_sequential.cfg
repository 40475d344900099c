CONSTANTS
  Ops = {o1, o2, o3}
  None = None
  Default = Default
  Chains = {ch1, ch2}
  Accounts = {alice}
  Wallets = {anchor}
  Links <- AllLinks
  Overlap = FALSE
  o1 = o1
  o2 = o2
  o3 = o3
  ch1 = ch1
  ch2 = ch2
  alice = alice
  anchor = anchor
SPECIFICATION Spec
SYMMETRY Symmetry
INVARIANTS
  TypeOK
  PersistedCoherent
  DurableSession
  LogoutForgets
PROPERTY
  DefaultFollowsSession
