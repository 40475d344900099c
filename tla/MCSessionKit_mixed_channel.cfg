CONSTANTS
  Ops = {o1, o2}
  None = None
  Default = Default
  Chains = {ch1}
  Accounts = {alice}
  Wallets = {anchor}
  Links <- AllLinks
  Overlap = FALSE
  o1 = o1
  o2 = o2
  ch1 = ch1
  alice = alice
  anchor = anchor
SPECIFICATION Spec
SYMMETRY Symmetry
INVARIANT
  ChannelEstablished
